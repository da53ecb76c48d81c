------------------------ MODULE QuestionStoreProofs ------------------------
(***************************************************************************)
(* Proofs about QuestionStore, for any hashes, numbers, workers, replicas  *)
(* and lags: what the answers say of the questions on the master, and      *)
(* listings of what the replicas held.                                     *)
(***************************************************************************)
EXTENDS QuestionStore, TLAPS, FiniteSetTheorems

OpNames == {"none", "insert", "delete", "getall"}
Steps == {"idle", "exists", "hexists", "draw", "write", "reply", "scan", "hgetall", "done"}

StoreTypeOK ==
  /\ master \in [Questions -> Contents \cup {Absent}]
  /\ op \in [Threads -> OpNames]
  /\ pc \in [Threads -> Steps]
  /\ field \in [Threads -> Questions \cup {NoField}]
  /\ content \in [Threads -> Contents \cup {Absent}]
  /\ reply \in [Threads -> {0, 1}]
  /\ answer \in [Threads -> {"none", "ok", "failed"}]
  /\ balance \in Int /\ silent \in Int

(***************************************************************************)
(* A handler that may still write knows its field, and an insert what to   *)
(* put there; one that announces success has changed the master.           *)
(***************************************************************************)
Handler(t) ==
  /\ pc[t] \in {"exists", "hexists", "draw", "write"} =>
       field[t] \in Questions /\ (op[t] = "insert" => content[t] \in Contents)
  /\ pc[t] \in {"exists", "hexists", "draw", "write", "reply"} => op[t] \in {"insert", "delete"}
  /\ pc[t] \in {"scan", "hgetall"} => op[t] = "getall"
  /\ pc[t] = "done" => op[t] # "none"
  /\ answer[t] = "ok" => pc[t] = "done" /\ (op[t] # "getall" => reply[t] = 1)

StoreIInv == StoreTypeOK /\ (\A t \in Threads : Handler(t)) /\ AnswersAccount

Recorded(store) == {q \in Questions : Has(store, q)}

LEMMA QuestionsFinite == IsFiniteSet(Questions)
<1>1. IsFiniteSet(1..Len(Keys))
  BY NumbersAssumption, FS_Interval
<1> DEFINE f == [i \in 1..Len(Keys) |-> Keys[i]]
<1>2. f \in Surjection(1..Len(Keys), KeySet)
  BY DEF Surjection, KeySet
<1>3. IsFiniteSet(KeySet)
  BY <1>1, <1>2, FS_Surjection
<1> QED BY <1>3, NumbersAssumption, FS_Product DEF Questions

(***************************************************************************)
(* A question has one content, so counting questions counts the pairs.     *)
(***************************************************************************)
LEMMA AllCounts ==
  ASSUME NEW store \in [Questions -> Contents \cup {Absent}]
  PROVE  /\ IsFiniteSet(Recorded(store))
         /\ Cardinality(All(store)) = Cardinality(Recorded(store))
<1>1. IsFiniteSet(Recorded(store))
  BY QuestionsFinite, FS_Subset DEF Recorded
<1>2. All(store) = {<<q, store[q]>> : q \in Recorded(store)}
  <2>1. ASSUME NEW x \in All(store)
        PROVE  x \in {<<q, store[q]>> : q \in Recorded(store)}
    BY DEF All, Fields, Recorded, Questions
  <2>2. ASSUME NEW q \in Recorded(store)
        PROVE  <<q, store[q]>> \in All(store)
    <3>1. PICK k \in KeySet, n \in Numbers : q = <<k, n>>
      BY DEF Recorded, Questions
    <3>2. q \in {p \in {k} \X Numbers : Has(store, p)}
      BY <3>1 DEF Recorded
    <3>3. <<q, store[q]>> \in Fields(store, k)
      BY <3>2 DEF Fields
    <3> QED BY <3>1, <3>3 DEF All
  <2> QED BY <2>1, <2>2
<1> DEFINE f == [q \in Recorded(store) |-> <<q, store[q]>>]
<1>3. /\ f \in Surjection(Recorded(store), All(store))
      /\ f \in Injection(Recorded(store), All(store))
  <2>1. f \in [Recorded(store) -> All(store)]
    BY <1>2
  <2>2. \A x, y \in Recorded(store) : f[x] = f[y] => x = y
    OBVIOUS
  <2>3. \A z \in All(store) : \E x \in Recorded(store) : f[x] = z
    BY <1>2
  <2> HIDE DEF f
  <2> QED BY <2>1, <2>2, <2>3 DEF Injection, IsInjective, Surjection
<1> HIDE DEF f
<1> QED BY <1>1, <1>3, FS_Surjection

-----------------------------------------------------------------------------
(* The account. *)

Net == Cardinality(Owing("insert")) - Cardinality(Owing("delete"))
Weight(t) == IF Owes(t, "insert") THEN 1 ELSE IF Owes(t, "delete") THEN -1 ELSE 0

LEMMA OwingFinite ==
  ASSUME NEW o
  PROVE  IsFiniteSet(Owing(o)) /\ Cardinality(Owing(o)) \in Nat
BY ThreadsAssumption, FS_Subset, FS_CardinalityType DEF Owing

OnlyMoves(t) ==
  \A s \in Threads \ {t} :
    /\ op'[s] = op[s] /\ pc'[s] = pc[s] /\ field'[s] = field[s] /\ content'[s] = content[s]
    /\ reply'[s] = reply[s] /\ answer'[s] = answer[s]

(***************************************************************************)
(* Adding to a set, or taking away, what only one element decides.         *)
(***************************************************************************)
LEMMA OneElement ==
  ASSUME NEW S, NEW T, IsFiniteSet(S), IsFiniteSet(T), NEW t, S \ {t} = T \ {t}
  PROVE  Cardinality(T) = Cardinality(S) - (IF t \in S THEN 1 ELSE 0)
                                         + (IF t \in T THEN 1 ELSE 0)
<1>1. /\ Cardinality(S) \in Nat /\ Cardinality(T) \in Nat
      /\ Cardinality(S \ {t}) = IF t \in S THEN Cardinality(S) - 1 ELSE Cardinality(S)
      /\ Cardinality(T \ {t}) = IF t \in T THEN Cardinality(T) - 1 ELSE Cardinality(T)
  BY FS_RemoveElement, FS_CardinalityType
<1> QED BY <1>1

LEMMA NetStep ==
  ASSUME NEW t \in Threads, OnlyMoves(t)
  PROVE  Net' = Net - Weight(t) + Weight(t)' /\ Net \in Int /\ Net' \in Int
<1>1. ASSUME NEW o
      PROVE  /\ Cardinality(Owing(o)') = Cardinality(Owing(o)) - (IF Owes(t, o) THEN 1 ELSE 0)
                                           + (IF Owes(t, o)' THEN 1 ELSE 0)
             /\ Cardinality(Owing(o)) \in Nat /\ Cardinality(Owing(o)') \in Nat
  <2>1. Owing(o) \ {t} = Owing(o)' \ {t}
    BY DEF Owing, Owes, OnlyMoves
  <2>2. IsFiniteSet(Owing(o)) /\ IsFiniteSet(Owing(o)')
    BY ThreadsAssumption, FS_Subset DEF Owing
  <2>3. (t \in Owing(o) <=> Owes(t, o)) /\ (t \in Owing(o)' <=> Owes(t, o)')
    BY DEF Owing
  <2> QED BY <2>1, <2>2, <2>3, OneElement, FS_CardinalityType
<1>2. ~(Owes(t, "insert") /\ Owes(t, "delete")) /\ ~(Owes(t, "insert")' /\ Owes(t, "delete")')
  BY DEF Owes
<1>3. /\ Cardinality(Owing("insert")') = Cardinality(Owing("insert"))
           - (IF Owes(t, "insert") THEN 1 ELSE 0) + (IF Owes(t, "insert")' THEN 1 ELSE 0)
      /\ Cardinality(Owing("delete")') = Cardinality(Owing("delete"))
           - (IF Owes(t, "delete") THEN 1 ELSE 0) + (IF Owes(t, "delete")' THEN 1 ELSE 0)
      /\ Cardinality(Owing("insert")) \in Nat /\ Cardinality(Owing("delete")) \in Nat
      /\ Cardinality(Owing("insert")') \in Nat /\ Cardinality(Owing("delete")') \in Nat
  BY <1>1
<1> QED BY <1>2, <1>3 DEF Net, Weight

Accounted(t) ==
  Cardinality(All(master')) - balance' - silent' - Weight(t)' =
    Cardinality(All(master)) - balance - silent - Weight(t)

LEMMA AccountIsNet ==
  ASSUME StoreTypeOK
  PROVE  /\ AnswersAccount <=> Cardinality(All(master)) = balance + silent + Net
         /\ Cardinality(All(master)) \in Int /\ Net \in Int
<1>1. Cardinality(All(master)) \in Nat
  BY AllCounts, FS_CardinalityType DEF StoreTypeOK
<1>2. Cardinality(Owing("insert")) \in Nat /\ Cardinality(Owing("delete")) \in Nat
  BY OwingFinite
<1> QED BY <1>1, <1>2 DEF AnswersAccount, Net, StoreTypeOK

(***************************************************************************)
(* What a step of one worker has to show.                                  *)
(***************************************************************************)
LEMMA OneWorker ==
  ASSUME StoreIInv, NEW t \in Threads, StoreTypeOK', OnlyMoves(t), Handler(t)', Accounted(t)
  PROVE  StoreIInv'
<1>1. \A s \in Threads : Handler(s)'
  BY DEF StoreIInv, Handler, OnlyMoves
<1>2. Net' = Net - Weight(t) + Weight(t)'
  BY NetStep
<1>3. /\ Cardinality(All(master)) = balance + silent + Net
      /\ Cardinality(All(master)) \in Int /\ Net \in Int
  BY AccountIsNet DEF StoreIInv
<1>4. /\ AnswersAccount' <=> Cardinality(All(master')) = balance' + silent' + Net'
      /\ Cardinality(All(master')) \in Int /\ Net' \in Int
  <2>1. Cardinality(All(master')) \in Nat
    BY AllCounts, FS_CardinalityType DEF StoreTypeOK
  <2>2. Net' \in Int
    BY NetStep
  <2>3. Cardinality(Owing("insert")') \in Nat /\ Cardinality(Owing("delete")') \in Nat
    BY ThreadsAssumption, FS_Subset, FS_CardinalityType DEF Owing
  <2>4. All(master)' = All(master')
    BY DEF All, Fields, Has
  <2> QED BY <2>1, <2>2, <2>3, <2>4 DEF AnswersAccount, Net, StoreTypeOK
<1>5. Weight(t) \in Int /\ Weight(t)' \in Int
  BY DEF Weight
<1>6. AnswersAccount'
  BY <1>2, <1>3, <1>4, <1>5 DEF Accounted, StoreTypeOK, StoreIInv
<1> QED BY <1>1, <1>6 DEF StoreIInv

(***************************************************************************)
(* A step of a worker that owes no answer before or after, and leaves the  *)
(* master alone.                                                           *)
(***************************************************************************)
LEMMA NothingOwed ==
  ASSUME NEW t \in Threads, UNCHANGED <<master, balance, silent>>,
         pc[t] # "reply" /\ pc'[t] # "reply",
         pc[t] = "done" => answer[t] # "ok" \/ op[t] = "getall",
         pc'[t] = "done" => answer'[t] # "ok" \/ op'[t] = "getall"
  PROVE  Accounted(t)
<1>1. Weight(t) = 0 /\ Weight(t)' = 0
  BY DEF Weight, Owes
<1> QED BY <1>1 DEF Accounted

LEMMA StoreInitIInv == Init => StoreIInv
<1> SUFFICES ASSUME Init PROVE StoreIInv
  OBVIOUS
<1>1. StoreTypeOK /\ \A t \in Threads : Handler(t)
  BY DEF Init, StoreTypeOK, Handler, Steps, OpNames
<1>2. Recorded(master) = {}
  BY DEF Init, Recorded, Has
<1>3. Owing("insert") = {} /\ Owing("delete") = {}
  BY DEF Init, Owing, Owes
<1>4. AnswersAccount
  <2>1. Cardinality(Owing("insert")) = 0 /\ Cardinality(Owing("delete")) = 0
    BY <1>3, FS_EmptySet
  <2>2. Cardinality(All(master)) = 0
    BY <1>1, <1>2, AllCounts, FS_EmptySet DEF StoreTypeOK
  <2> QED BY <2>1, <2>2 DEF Init, AnswersAccount
<1> QED BY <1>1, <1>4 DEF StoreIInv

LEMMA RequestStep ==
  ASSUME StoreIInv, NEW t \in Threads,
         \/ \E q \in Questions : Delete(t, q) \/ \E c \in Contents : Insert(t, q, c)
         \/ GetAll(t)
  PROVE  StoreIInv'
<1> USE DEF StoreIInv, stores, history, account
<1>1. StoreTypeOK'
  BY DEF StoreTypeOK, Insert, Delete, GetAll, Goto, Steps, OpNames
<1>2. OnlyMoves(t)
  BY DEF OnlyMoves, StoreTypeOK, Insert, Delete, GetAll, Goto
<1>3. /\ pc[t] = "idle" /\ pc'[t] \in {"exists", "write", "scan"}
      /\ UNCHANGED <<master, balance, silent, answer>>
  BY DEF StoreTypeOK, Insert, Delete, GetAll, Goto
<1>4. Handler(t)'
  BY <1>3 DEF StoreTypeOK, Insert, Delete, GetAll, Goto, Handler
<1>5. Accounted(t)
  BY <1>3, NothingOwed
<1> QED BY <1>1, <1>2, <1>4, <1>5, OneWorker

LEMMA ProbeStep ==
  ASSUME StoreIInv, NEW t \in Threads,
         (\E k \in Replicas : Exists(t, k) \/ HExists(t, k)) \/ Draw(t)
  PROVE  StoreIInv'
<1> USE DEF StoreIInv, stores, history, account
<1>1. /\ pc[t] \in {"exists", "hexists", "draw"}
      /\ \E l \in {"hexists", "draw", "write"} : Goto(t, l)
      /\ UNCHANGED <<master, balance, silent, op, content, reply, answer>>
      /\ \/ UNCHANGED field
         \/ \E n \in Numbers : field' = [field EXCEPT ![t][2] = n]
  BY DEF Exists, HExists, Draw
<1>2. field[t] \in Questions
  BY <1>1 DEF Handler
<1>3. /\ field' \in [Threads -> Questions \cup {NoField}] /\ field'[t] \in Questions
      /\ \A s \in Threads \ {t} : field'[s] = field[s]
  <2>1. CASE UNCHANGED field
    BY <1>2, <2>1 DEF StoreTypeOK
  <2>2. ASSUME NEW n \in Numbers, field' = [field EXCEPT ![t][2] = n]
        PROVE  /\ field' \in [Threads -> Questions \cup {NoField}] /\ field'[t] \in Questions
               /\ \A s \in Threads \ {t} : field'[s] = field[s]
    <3>1. [field[t] EXCEPT ![2] = n] \in Questions
      BY <1>2 DEF Questions
    <3> QED BY <2>2, <3>1 DEF StoreTypeOK
  <2> QED BY <1>1, <2>1, <2>2
<1>4. pc' \in [Threads -> Steps] /\ pc'[t] \in {"hexists", "draw", "write"}
      /\ \A s \in Threads \ {t} : pc'[s] = pc[s]
  BY <1>1 DEF StoreTypeOK, Goto, Steps
<1>5. StoreTypeOK'
  BY <1>1, <1>3, <1>4 DEF StoreTypeOK
<1>6. OnlyMoves(t)
  BY <1>1, <1>3, <1>4 DEF OnlyMoves
<1>7. Handler(t)'
  BY <1>1, <1>3, <1>4 DEF Handler
<1>8. Accounted(t)
  BY <1>1, <1>4, NothingOwed
<1> QED BY <1>5, <1>6, <1>7, <1>8, OneWorker

(***************************************************************************)
(* HSET adds a question exactly when its reply is 1, and the worker owes   *)
(* the success then.                                                       *)
(***************************************************************************)
LEMMA HSetStep ==
  ASSUME StoreIInv, NEW t \in Threads, HSet(t)
  PROVE  StoreIInv'
<1> USE DEF StoreIInv
<1>1. /\ pc[t] = "write" /\ op[t] = "insert" /\ field[t] \in Questions /\ content[t] \in Contents
      /\ master' = [master EXCEPT ![field[t]] = content[t]]
      /\ reply' = [reply EXCEPT ![t] = IF Has(master, field[t]) THEN 0 ELSE 1]
      /\ pc' = [pc EXCEPT ![t] = "reply"]
      /\ UNCHANGED <<op, field, content, answer, balance, silent>>
  BY DEF HSet, Write, Handler, Goto, history, account
<1>2. StoreTypeOK'
  BY <1>1 DEF StoreTypeOK, Steps
<1>3. OnlyMoves(t) /\ Handler(t)'
  BY <1>1 DEF OnlyMoves, Handler, StoreTypeOK
<1>4. Accounted(t)
  <2>1. Recorded(master') = Recorded(master) \cup {field[t]}
    BY <1>1, AbsentAssumption DEF Recorded, Has, StoreTypeOK
  <2>2. /\ Weight(t) = 0
        /\ Weight(t)' = IF field[t] \in Recorded(master) THEN 0 ELSE 1
    BY <1>1 DEF Weight, Owes, Recorded, StoreTypeOK
  <2>3. /\ Cardinality(All(master)) = Cardinality(Recorded(master)) /\ IsFiniteSet(Recorded(master))
        /\ Cardinality(Recorded(master)) \in Nat
    BY AllCounts, FS_CardinalityType DEF StoreTypeOK
  <2>4. Cardinality(All(master')) = Cardinality(Recorded(master'))
    BY <1>2, AllCounts DEF StoreTypeOK
  <2>5. Cardinality(Recorded(master')) =
          Cardinality(Recorded(master)) + (IF field[t] \in Recorded(master) THEN 0 ELSE 1)
    <3>1. CASE field[t] \in Recorded(master)
      <4>1. Recorded(master') = Recorded(master)
        BY <2>1, <3>1
      <4> QED BY <2>3, <3>1, <4>1
    <3>2. CASE field[t] \notin Recorded(master)
      <4>1. Recorded(master') = Recorded(master) \cup {field[t]}
        BY <2>1, <3>2
      <4> QED BY <2>3, <3>2, <4>1, FS_AddElement
    <3> QED BY <3>1, <3>2
  <2> QED BY <1>1, <2>2, <2>3, <2>4, <2>5 DEF Accounted, StoreTypeOK
<1> QED BY <1>2, <1>3, <1>4, OneWorker

LEMMA HDelStep ==
  ASSUME StoreIInv, NEW t \in Threads, HDel(t)
  PROVE  StoreIInv'
<1> USE DEF StoreIInv
<1>1. /\ pc[t] = "write" /\ op[t] = "delete" /\ field[t] \in Questions
      /\ master' = IF Has(master, field[t]) THEN [master EXCEPT ![field[t]] = Absent] ELSE master
      /\ reply' = [reply EXCEPT ![t] = IF Has(master, field[t]) THEN 1 ELSE 0]
      /\ pc' = [pc EXCEPT ![t] = "reply"]
      /\ UNCHANGED <<op, field, content, answer, balance, silent>>
  BY DEF HDel, Write, Handler, Goto, stores, history, account
<1>2. StoreTypeOK'
  BY <1>1 DEF StoreTypeOK, Steps
<1>3. OnlyMoves(t) /\ Handler(t)'
  BY <1>1 DEF OnlyMoves, Handler, StoreTypeOK
<1>4. Accounted(t)
  <2>1. Recorded(master') = Recorded(master) \ {field[t]}
    BY <1>1 DEF Recorded, Has, StoreTypeOK
  <2>2. /\ Weight(t) = 0
        /\ Weight(t)' = IF field[t] \in Recorded(master) THEN -1 ELSE 0
    BY <1>1 DEF Weight, Owes, Recorded, StoreTypeOK
  <2>3. /\ Cardinality(All(master)) = Cardinality(Recorded(master)) /\ IsFiniteSet(Recorded(master))
        /\ Cardinality(Recorded(master)) \in Nat
    BY AllCounts, FS_CardinalityType DEF StoreTypeOK
  <2>4. Cardinality(All(master')) = Cardinality(Recorded(master'))
    BY <1>2, AllCounts DEF StoreTypeOK
  <2>5. Cardinality(Recorded(master')) =
          Cardinality(Recorded(master)) - (IF field[t] \in Recorded(master) THEN 1 ELSE 0)
    <3>1. CASE field[t] \in Recorded(master)
      BY <2>1, <2>3, <3>1, FS_RemoveElement
    <3>2. CASE field[t] \notin Recorded(master)
      <4>1. Recorded(master') = Recorded(master)
        BY <2>1, <3>2
      <4> QED BY <2>3, <3>2, <4>1, FS_RemoveElement
    <3> QED BY <3>1, <3>2
  <2> QED BY <1>1, <2>2, <2>3, <2>4, <2>5 DEF Accounted, StoreTypeOK
<1> QED BY <1>2, <1>3, <1>4, OneWorker

(***************************************************************************)
(* The reply is read, or lost: what was owed is still owed, or forgotten.  *)
(***************************************************************************)
LEMMA ReplyStep ==
  ASSUME StoreIInv, NEW t \in Threads, ReadReply(t) \/ ReplyLost(t)
  PROVE  StoreIInv'
<1> USE DEF StoreIInv, stores
<1>1. /\ pc[t] = "reply" /\ op[t] \in {"insert", "delete"} /\ reply[t] \in {0, 1}
      /\ pc' = [pc EXCEPT ![t] = "done"]
      /\ UNCHANGED <<master, op, field, content, reply, balance>>
  BY DEF ReadReply, ReplyLost, Answer, Goto, Forget, Handler, StoreTypeOK, history, account
<1>2. \/ /\ answer' = [answer EXCEPT ![t] = Result(t)] /\ UNCHANGED silent
      \/ /\ answer' = [answer EXCEPT ![t] = "failed"] /\ silent' = silent + Effect(t)
  BY DEF ReadReply, ReplyLost, Answer, Forget, history, account
<1>3. /\ Result(t) \in {"ok", "failed"} /\ (Result(t) = "ok" <=> reply[t] = 1)
      /\ Effect(t) \in Int
  BY <1>1 DEF Result, Effect
<1>4. StoreTypeOK'
  BY <1>1, <1>2, <1>3 DEF StoreTypeOK, Steps
<1>5. OnlyMoves(t) /\ Handler(t)'
  BY <1>1, <1>2, <1>3 DEF OnlyMoves, Handler, StoreTypeOK
<1>6. Accounted(t)
  <2>1. Weight(t) = Effect(t)
    BY <1>1 DEF Weight, Owes, Effect
  <2>2. CASE answer' = [answer EXCEPT ![t] = Result(t)] /\ UNCHANGED silent
    <3>1. Weight(t)' = Weight(t)
      BY <1>1, <1>3, <2>2 DEF Weight, Owes, StoreTypeOK
    <3> QED BY <1>1, <2>2, <3>1 DEF Accounted
  <2>3. CASE answer' = [answer EXCEPT ![t] = "failed"] /\ silent' = silent + Effect(t)
    <3>1. Weight(t)' = 0
      BY <1>1, <2>3 DEF Weight, Owes, StoreTypeOK
    <3>2. Cardinality(All(master)) \in Int
      BY AccountIsNet
    <3> QED BY <1>1, <1>3, <2>1, <2>3, <3>1, <3>2 DEF Accounted, StoreTypeOK
  <2> QED BY <1>2, <2>2, <2>3
<1> QED BY <1>4, <1>5, <1>6, OneWorker

Lists(t) ==
  /\ pc[t] \notin {"idle", "reply", "done"}
  /\ UNCHANGED <<master, op, field, content, reply, balance, silent>>
  /\ pc' \in [Threads -> Steps] /\ \A s \in Threads \ {t} : pc'[s] = pc[s]
  /\ \/ answer' = answer /\ pc'[t] \in {"scan", "hgetall"} /\ op[t] = "getall"
     \/ /\ answer' = [answer EXCEPT ![t] = "ok"] /\ pc'[t] = "done" /\ op[t] = "getall"
     \/ /\ answer' = [answer EXCEPT ![t] = "failed"] /\ pc'[t] = "done" /\ op[t] # "none"

LEMMA GetAllQuesStep ==
  ASSUME StoreIInv, NEW t \in Threads, GetAllQues(t) \/ CommandFails(t)
  PROVE  StoreIInv'
<1> USE DEF StoreIInv, stores, history, account
<1>0. Lists(t)
  <2>1. CASE CommandFails(t)
    BY <2>1 DEF Lists, CommandFails, Answer, Goto, Handler, StoreTypeOK, Steps, OpNames
  <2>2. CASE AllListed(t)
    BY <2>2 DEF Lists, AllListed, Answer, Goto, Handler, StoreTypeOK, Steps
  <2>3. ASSUME NEW k \in Replicas, ExistsKey(t, k) \/ HGetAll(t, k)
        PROVE  Lists(t)
    BY <2>3 DEF Lists, ExistsKey, HGetAll, Goto, Handler, StoreTypeOK, Steps
  <2> QED BY <2>1, <2>2, <2>3 DEF GetAllQues
<1>2. StoreTypeOK'
  BY <1>0 DEF Lists, StoreTypeOK
<1>3. OnlyMoves(t) /\ Handler(t)'
  BY <1>0 DEF Lists, OnlyMoves, Handler, StoreTypeOK
<1>4. Accounted(t)
  BY <1>0, NothingOwed DEF Lists, StoreTypeOK
<1> QED BY <1>2, <1>3, <1>4, OneWorker

KeepsOn(s) ==
  /\ op'[s] = op[s] /\ pc'[s] = pc[s] /\ field'[s] = field[s] /\ content'[s] = content[s]
  /\ reply'[s] = reply[s] /\ answer'[s] = answer[s]

(***************************************************************************)
(* The handlers of T end.                                                  *)
(***************************************************************************)
LEMMA ResetStep ==
  ASSUME StoreIInv, NEW T \in SUBSET Threads, Reset(T), balance' \in Int, silent' \in Int
  PROVE  /\ StoreTypeOK' /\ UNCHANGED master
         /\ \A t \in T : Handler(t)' /\ pc'[t] = "idle"
         /\ \A t \in Threads \ T : KeepsOn(t)
<1>1. UNCHANGED master
  BY DEF Reset, stores
<1>2. /\ op' \in [Threads -> OpNames] /\ pc' \in [Threads -> Steps]
      /\ field' \in [Threads -> Questions \cup {NoField}]
      /\ content' \in [Threads -> Contents \cup {Absent}]
      /\ reply' \in [Threads -> {0, 1}] /\ answer' \in [Threads -> {"none", "ok", "failed"}]
  BY DEF StoreIInv, Reset, StoreTypeOK, OpNames, Steps
<1>3. StoreTypeOK'
  BY <1>1, <1>2 DEF StoreIInv, StoreTypeOK
<1>4. \A t \in T : Handler(t)' /\ pc'[t] = "idle"
  BY DEF Reset, Handler
<1>5. \A t \in Threads \ T : KeepsOn(t)
  BY DEF Reset, KeepsOn
<1> QED BY <1>1, <1>3, <1>4, <1>5

LEMMA SendStep ==
  ASSUME StoreIInv, NEW t \in Threads, Send(t) \/ SendFails(t)
  PROVE  StoreIInv'
<1> USE DEF StoreIInv
<1>1. /\ pc[t] = "done" /\ Reset({t})
      /\ Tells(t) => reply[t] = 1 /\ op[t] \in {"insert", "delete"}
  BY DEF Send, SendFails, Tells, Handler, StoreTypeOK, OpNames
<1>2. Weight(t) = IF Tells(t) THEN (IF op[t] = "insert" THEN 1 ELSE -1) ELSE 0
  BY <1>1 DEF Weight, Owes, Tells
<1>3. Tells(t) => Effect(t) = Weight(t)
  BY <1>1, <1>2 DEF Effect
<1>4. balance' + silent' = balance + silent + Weight(t) /\ balance' \in Int /\ silent' \in Int
  <2>1. balance \in Int /\ silent \in Int /\ Weight(t) \in Int
    BY <1>2 DEF StoreTypeOK
  <2>2. CASE Send(t)
    BY <1>2, <2>1, <2>2 DEF Send
  <2>3. CASE SendFails(t)
    BY <1>2, <1>3, <2>1, <2>3 DEF SendFails, Forget
  <2> QED BY <2>2, <2>3
<1>5. /\ StoreTypeOK' /\ UNCHANGED master /\ Handler(t)' /\ pc'[t] = "idle" /\ OnlyMoves(t)
  BY <1>1, <1>4, ResetStep DEF OnlyMoves, KeepsOn
<1>6. Weight(t)' = 0
  BY <1>5 DEF Weight, Owes
<1>7. Accounted(t)
  <2>1. Cardinality(All(master)) \in Int /\ Weight(t) \in Int /\ balance \in Int /\ silent \in Int
    BY <1>2, AccountIsNet DEF StoreTypeOK
  <2> QED BY <1>4, <1>5, <1>6, <2>1 DEF Accounted
<1> QED BY <1>5, <1>7, OneWorker

(***************************************************************************)
(* The process ends: whatever was owed is forgotten.                       *)
(***************************************************************************)
LEMMA ExitStep ==
  ASSUME StoreIInv, Exit
  PROVE  StoreIInv'
<1> USE DEF StoreIInv
<1>1. /\ Cardinality(All(master)) = balance + silent + Net
      /\ Cardinality(All(master)) \in Int /\ Net \in Int
  BY AccountIsNet
<1>2. Reset(Threads) /\ silent' = silent + Net /\ UNCHANGED balance
  BY DEF Exit, Forget, Net
<1>3. balance' \in Int /\ silent' \in Int
  BY <1>1, <1>2 DEF StoreTypeOK
<1>4. StoreTypeOK' /\ UNCHANGED master /\ \A t \in Threads : Handler(t)' /\ pc'[t] = "idle"
  BY <1>2, <1>3, ResetStep
<1>5. Owing("insert")' = {} /\ Owing("delete")' = {}
  BY <1>4 DEF Owing, Owes
<1>6. AnswersAccount'
  <2>1. All(master)' = All(master)
    BY <1>4 DEF All, Fields, Has
  <2>2. Cardinality(Owing("insert")') = 0 /\ Cardinality(Owing("delete")') = 0
    BY <1>5, FS_EmptySet
  <2> QED BY <1>1, <1>2, <1>3, <2>1, <2>2 DEF AnswersAccount, StoreTypeOK
<1> QED BY <1>4, <1>6

LEMMA ElsewhereStep ==
  ASSUME StoreIInv, (\E k \in Replicas : Apply(k)) \/ UNCHANGED vars
  PROVE  StoreIInv'
<1> USE DEF StoreIInv, stores, worker, history, account, vars
<1>1. UNCHANGED <<master, balance, silent, op, pc, field, content, reply, answer>>
  BY DEF Apply
<1>2. StoreTypeOK' /\ \A t \in Threads : Handler(t)'
  BY <1>1 DEF StoreTypeOK, Handler
<1>3. AnswersAccount'
  BY <1>1 DEF AnswersAccount, All, Fields, Has, Owing, Owes
<1> QED BY <1>2, <1>3

LEMMA StoreNextIInv ==
  ASSUME StoreIInv, [Next]_vars
  PROVE  StoreIInv'
<1>1. ASSUME NEW t \in Threads, Handle(t)
      PROVE  StoreIInv'
  BY <1>1, ProbeStep, HSetStep, HDelStep, ReplyStep, GetAllQuesStep, SendStep DEF Handle, InsertQues
<1> QED BY <1>1, RequestStep, GetAllQuesStep, ReplyStep, SendStep, ElsewhereStep, ExitStep
        DEF Next

THEOREM StoreInvariance == Spec => []StoreIInv
BY StoreInitIInv, StoreNextIInv, PTL DEF Spec

(***************************************************************************)
(* The successes that InsertQues and DelQues sent, those they owe, and     *)
(* those that were lost on the way, are the questions on the master.       *)
(***************************************************************************)
THEOREM AnswersCount == Spec => []AnswersAccount
<1>1. StoreIInv => AnswersAccount
  BY DEF StoreIInv
<1> QED BY <1>1, StoreInvariance, PTL

(***************************************************************************)
(* Only a delete, or an insert that will not report success, takes a       *)
(* question away from the master, also when replies and answers are lost.  *)
(***************************************************************************)
THEOREM NothingLostUnnoticed == Spec => NoSilentLoss
<1> DEFINE Changed == \A q \in Questions :
                        Has(master, q) /\ master'[q] # master[q] =>
                          \E t \in Threads :
                            /\ field[t] = q /\ pc[t] = "write"
                            /\ op[t] = "delete" \/ (op[t] = "insert" /\ reply'[t] = 0)
           Told == \A t \in Threads : op[t] = "insert" /\ answer'[t] = "ok" => reply[t] = 1
<1>1. ASSUME StoreIInv, [Next]_vars
      PROVE  Changed
  <2> SUFFICES ASSUME NEW q \in Questions, Has(master, q), master'[q] # master[q]
               PROVE  \E t \in Threads :
                        /\ field[t] = q /\ pc[t] = "write"
                        /\ op[t] = "delete" \/ (op[t] = "insert" /\ reply'[t] = 0)
    OBVIOUS
  <2>1. PICK t \in Threads : HSet(t) \/ HDel(t)
    BY <1>1 DEF Next, vars, stores, Insert, Delete, GetAll, Handle, InsertQues, GetAllQues,
                Exists, HExists, Draw, ReadReply, ExistsKey, HGetAll, AllListed, CommandFails,
                ReplyLost, Send, SendFails, Reset, Exit, Apply
  <2>2. CASE HDel(t)
    <3>1. q = field[t]
      BY <1>1, <2>2 DEF HDel, Write, stores, StoreIInv, StoreTypeOK
    <3> QED BY <2>2, <3>1 DEF HDel
  <2>3. CASE HSet(t)
    <3>1. q = field[t]
      BY <1>1, <2>3 DEF HSet, Write, StoreIInv, StoreTypeOK
    <3>2. reply'[t] = 0
      BY <1>1, <2>3, <3>1 DEF HSet, StoreIInv, StoreTypeOK
    <3> QED BY <2>3, <3>1, <3>2 DEF HSet
  <2> QED BY <2>1, <2>2, <2>3
<1>2. ASSUME StoreIInv, StoreIInv', [Next]_vars
      PROVE  Told
  <2> SUFFICES ASSUME NEW t \in Threads, op[t] = "insert", answer'[t] = "ok"
               PROVE  reply[t] = 1
    OBVIOUS
  <2>1. CASE answer[t] = "ok"
    BY <1>2, <2>1 DEF StoreIInv, Handler
  <2>2. CASE answer[t] # "ok"
    <3>1. \E s \in Threads : ReadReply(s) \/ AllListed(s)
      BY <1>2, <2>2 DEF Next, vars, worker, Insert, Delete, GetAll, Handle, InsertQues, GetAllQues,
                  Exists, HExists, Draw, HSet, HDel, ExistsKey, HGetAll, CommandFails, Answer,
                  ReplyLost, Send, SendFails, Reset, Exit, Apply, StoreIInv, StoreTypeOK
    <3>2. PICK s \in Threads : ReadReply(s) \/ AllListed(s)
      BY <3>1
    <3>3. s = t
      BY <1>2, <2>2, <3>2 DEF ReadReply, AllListed, Answer, StoreIInv, StoreTypeOK
    <3>4. ReadReply(t)
      BY <1>2, <3>2, <3>3 DEF AllListed, StoreIInv, Handler
    <3>5. Result(t) = "ok"
      BY <1>2, <3>4 DEF ReadReply, Answer, StoreIInv, StoreTypeOK
    <3> QED BY <1>2, <3>5 DEF Result, StoreIInv, StoreTypeOK
  <2> QED BY <2>1, <2>2
<1>3. StoreIInv /\ StoreIInv' /\ [Next]_vars => Changed /\ Told
  BY <1>1, <1>2
<1> QED BY <1>3, StoreInvariance, PTL DEF Spec, NoSilentLoss

-----------------------------------------------------------------------------
(* Listings. *)

(***************************************************************************)
(* While GetAllQues is under way, each replica holds what was stable, and  *)
(* what it holds was seen; of the hashes before index all that was stable  *)
(* is in rsp.                                                              *)
(***************************************************************************)
HistoryKept(t) ==
  /\ \A k \in Replicas : stable[t] \subseteq All(replica[k]) /\ All(replica[k]) \subseteq seen[t]
  /\ \A x \in stable[t] : x[1][1] \in KeySet

ListedSoFar(t) ==
  /\ rsp[t] \subseteq seen[t]
  /\ \A x \in stable[t], i \in 1..Len(Keys) :
       i < index[t] /\ x[1][1] = Keys[i] => x \in rsp[t]
  /\ pc[t] = "hgetall" => index[t] \in 1..Len(Keys)

ListTypeOK ==
  /\ DOMAIN replica = Replicas
  /\ DOMAIN rsp = Threads /\ DOMAIN seen = Threads /\ DOMAIN stable = Threads
  /\ index \in [Threads -> Nat]

Listing(t) ==
  /\ pc[t] = "idle" => rsp[t] = {} /\ answer[t] = "none"
  /\ pc[t] \in {"scan", "hgetall"} => op[t] = "getall"
  /\ op[t] = "getall" =>
       /\ pc[t] \in {"scan", "hgetall", "done"}
       /\ index[t] # 0
       /\ answer[t] = "ok" => stable[t] \subseteq rsp[t]
       /\ HistoryKept(t) /\ ListedSoFar(t)

ListIInv == ListTypeOK /\ \A t \in Threads : Listing(t)

LEMMA InAll ==
  ASSUME NEW store, NEW x \in All(store)
  PROVE  /\ x[1][1] \in KeySet
         /\ x \in Fields(store, x[1][1]) /\ HasKey(store, x[1][1])
<1>1. PICK k \in KeySet : x \in Fields(store, k)
  BY DEF All
<1>2. PICK q \in {p \in {k} \X Numbers : Has(store, p)} : x = <<q, store[q]>>
  BY <1>1 DEF Fields
<1>3. PICK n \in Numbers : q = <<k, n>>
  BY <1>2
<1>4. x[1] = q /\ q[1] = k
  BY <1>2, <1>3
<1>5. x[1][1] = k
  BY <1>4
<1>6. HasKey(store, k)
  BY <1>2, <1>3 DEF HasKey
<1> QED BY <1>1, <1>5, <1>6

(***************************************************************************)
(* A step of another worker, or one that touches nothing of a listing.     *)
(***************************************************************************)
LEMMA SameListing ==
  ASSUME NEW t \in Threads, Listing(t), UNCHANGED replica,
         pc'[t] = pc[t], op'[t] = op[t], answer'[t] = answer[t], index'[t] = index[t],
         rsp'[t] = rsp[t], seen'[t] = seen[t], stable'[t] = stable[t]
  PROVE  Listing(t)'
BY DEF Listing, HistoryKept, ListedSoFar, All, Fields, Has

LEMMA NoListing ==
  ASSUME NEW t \in Threads, op'[t] # "getall",
         pc'[t] \notin {"scan", "hgetall"},
         pc'[t] = "idle" => rsp'[t] = {} /\ answer'[t] = "none"
  PROVE  Listing(t)'
BY DEF Listing

LEMMA ListInit == Init => ListIInv
BY DEF Init, ListIInv, ListTypeOK, Listing

LEMMA ListGetAll ==
  ASSUME StoreIInv, ListIInv, NEW t \in Threads, GetAll(t)
  PROVE  ListIInv'
<1> USE DEF ListIInv
<1>1. ListTypeOK'
  BY DEF GetAll, ListTypeOK, stores
<1>2. /\ UNCHANGED <<replica, rsp, answer>>
      /\ \A s \in Threads \ {t} :
           /\ pc'[s] = pc[s] /\ op'[s] = op[s] /\ index'[s] = index[s]
           /\ seen'[s] = seen[s] /\ stable'[s] = stable[s]
  BY DEF GetAll, Goto, ListTypeOK, StoreIInv, StoreTypeOK, stores
<1>3. /\ pc'[t] = "scan" /\ index'[t] = 1 /\ rsp[t] = {} /\ answer[t] = "none"
      /\ seen'[t] = UNION {All(replica[k]) : k \in Replicas}
      /\ stable'[t] = {x \in seen'[t] : \A k \in Replicas : x \in All(replica[k])}
  BY DEF GetAll, Goto, ListTypeOK, StoreIInv, StoreTypeOK, Listing
<1>4. HistoryKept(t)'
  <2>1. \A x \in stable'[t] : x[1][1] \in KeySet
    <3>1. ASSUME NEW x \in stable'[t]
          PROVE  \E k \in Replicas : x \in All(replica[k])
      BY <1>3
    <3> QED BY <3>1, InAll
  <2>2. \A k \in Replicas :
          stable'[t] \subseteq All(replica[k]) /\ All(replica[k]) \subseteq seen'[t]
    BY <1>3
  <2> QED BY <1>2, <2>1, <2>2 DEF HistoryKept, All, Fields, Has
<1>5. Listing(t)'
  <2>1. \A i \in 1..Len(Keys) : ~(i < index'[t])
    BY <1>3, NumbersAssumption
  <2>2. rsp'[t] = {} /\ answer'[t] = "none"
    BY <1>2, <1>3
  <2>3. ListedSoFar(t)'
    BY <1>3, <2>1, <2>2 DEF ListedSoFar
  <2>4. op'[t] = "getall"
    BY DEF GetAll, StoreIInv, StoreTypeOK
  <2> QED BY <1>3, <1>4, <2>2, <2>3, <2>4 DEF Listing
<1>6. \A s \in Threads \ {t} : Listing(s)'
  BY <1>2, SameListing
<1> QED BY <1>1, <1>5, <1>6

LEMMA ListScan ==
  ASSUME StoreIInv, ListIInv, NEW t \in Threads, GetAllQues(t), op[t] = "getall"
  PROVE  ListIInv'
<1> USE DEF ListIInv
<1>0. ListTypeOK' /\ UNCHANGED <<replica, op, seen, stable>>
  <2>1. UNCHANGED <<replica, op, seen, stable>>
    BY DEF GetAllQues, ExistsKey, HGetAll, AllListed, stores, history
  <2>2. UNCHANGED index \/ NextKey(t)
    BY DEF GetAllQues, ExistsKey, HGetAll, AllListed
  <2>3. index' \in [Threads -> Nat]
    BY <2>2 DEF NextKey, ListTypeOK
  <2>4. DOMAIN rsp' = Threads
    BY DEF GetAllQues, ExistsKey, HGetAll, AllListed, ListTypeOK
  <2> QED BY <2>1, <2>3, <2>4 DEF ListTypeOK
<1>1. /\ UNCHANGED <<replica, op, seen, stable>>
      /\ \A s \in Threads \ {t} :
           pc'[s] = pc[s] /\ index'[s] = index[s] /\ rsp'[s] = rsp[s] /\ answer'[s] = answer[s]
      /\ index'[t] \in Nat /\ ListTypeOK'
  BY <1>0 DEF GetAllQues, ExistsKey, HGetAll, AllListed, Goto, Answer, NextKey, ListTypeOK,
              StoreIInv, StoreTypeOK
<1>2. \A s \in Threads \ {t} : Listing(s)'
  BY <1>1, SameListing
<1>3. Listing(t) /\ HistoryKept(t) /\ ListedSoFar(t) /\ index[t] \in Nat \ {0} /\ Len(Keys) \in Nat
  BY NumbersAssumption DEF Listing, ListTypeOK
<1>4. HistoryKept(t)'
  BY <1>1, <1>3 DEF HistoryKept, All, Fields, Has
<1>5. ASSUME NEW k \in Replicas, ExistsKey(t, k)
      PROVE  Listing(t)'
  <2>1. UNCHANGED <<rsp, answer>> /\ index[t] \in 1..Len(Keys)
    BY <1>3, <1>5 DEF ExistsKey
  <2>2. CASE HasKey(replica[k], Key(t))
    <3>1. UNCHANGED index /\ pc'[t] = "hgetall"
      BY <1>5, <2>2 DEF ExistsKey, Goto, StoreIInv, StoreTypeOK
    <3> QED BY <1>1, <1>3, <1>4, <2>1, <3>1 DEF Listing, ListedSoFar
  <2>3. CASE ~HasKey(replica[k], Key(t))
    <3>1. index'[t] = index[t] + 1 /\ pc'[t] = "scan"
      BY <1>5, <2>3 DEF ExistsKey, NextKey, ListTypeOK
    <3>2. \A x \in stable[t] : x[1][1] # Keys[index[t]]
      BY <1>3, <2>3, InAll DEF HistoryKept, Key
    <3>3. \A i \in 1..Len(Keys) : i < index'[t] => i < index[t] \/ i = index[t]
      BY <1>3, <3>1
    <3> QED BY <1>1, <1>3, <1>4, <2>1, <3>1, <3>2, <3>3 DEF Listing, ListedSoFar
  <2> QED BY <2>2, <2>3
<1>6. ASSUME NEW k \in Replicas, HGetAll(t, k)
      PROVE  Listing(t)'
  <2>1. /\ UNCHANGED answer /\ index[t] \in 1..Len(Keys) /\ pc'[t] = "scan"
        /\ index'[t] = index[t] + 1
        /\ rsp'[t] = rsp[t] \cup Fields(replica[k], Keys[index[t]])
    BY <1>3, <1>6 DEF HGetAll, Goto, NextKey, Key, ListedSoFar, ListTypeOK, StoreIInv, StoreTypeOK
  <2>2. Fields(replica[k], Keys[index[t]]) \subseteq All(replica[k])
    BY <2>1 DEF All, KeySet
  <2>3. \A x \in stable[t] : x[1][1] = Keys[index[t]] => x \in rsp'[t]
    BY <1>3, <2>1, InAll DEF HistoryKept
  <2>4. \A i \in 1..Len(Keys) : i < index'[t] => i < index[t] \/ i = index[t]
    BY <1>3, <2>1
  <2>5. rsp'[t] \subseteq seen[t] /\ rsp[t] \subseteq rsp'[t]
    BY <1>3, <2>1, <2>2 DEF HistoryKept, ListedSoFar
  <2>6. ListedSoFar(t)'
    BY <1>1, <1>3, <2>1, <2>3, <2>4, <2>5 DEF ListedSoFar
  <2> QED BY <1>1, <1>3, <1>4, <2>1, <2>5, <2>6 DEF Listing
<1>7. ASSUME AllListed(t)
      PROVE  Listing(t)'
  <2>1. UNCHANGED <<index, rsp>> /\ index[t] > Len(Keys) /\ pc'[t] = "done"
    BY <1>7 DEF AllListed, Answer, Goto, StoreIInv, StoreTypeOK
  <2>2. \A x \in stable[t] : \E i \in 1..Len(Keys) : x[1][1] = Keys[i]
    BY <1>3 DEF HistoryKept, KeySet
  <2>3. stable[t] \subseteq rsp[t]
    BY <1>3, <2>1, <2>2 DEF ListedSoFar
  <2>4. ListedSoFar(t)'
    BY <1>1, <1>3, <2>1 DEF ListedSoFar
  <2> QED BY <1>1, <1>3, <1>4, <2>1, <2>3, <2>4 DEF Listing
<1> QED BY <1>1, <1>2, <1>5, <1>6, <1>7 DEF GetAllQues

(***************************************************************************)
(* A replica applies a write: what it holds then is seen, and what it lost *)
(* is not stable.                                                          *)
(***************************************************************************)
LEMMA ListApply ==
  ASSUME StoreIInv, ListIInv, NEW k \in Replicas, Apply(k)
  PROVE  ListIInv'
<1> USE DEF ListIInv
<1>1. UNCHANGED <<op, pc, index, rsp, answer>>
  BY DEF Apply, worker
<1>2. \A j \in Replicas : j # k => replica'[j] = replica[j]
  BY DEF Apply, ListTypeOK
<1>3. ListTypeOK'
  BY DEF Apply, ListTypeOK, worker
<1>4. ASSUME NEW t \in Threads
      PROVE  Listing(t)'
  <2>1. CASE op[t] # "getall"
    BY <1>1, <1>4, <2>1 DEF Listing
  <2>2. CASE op[t] = "getall"
    <3>1. /\ seen'[t] = seen[t] \cup All(replica'[k])
          /\ stable'[t] = stable[t] \cap All(replica'[k])
      BY <2>2 DEF Apply
    <3>2. HistoryKept(t)'
      <4>1. ASSUME NEW j \in Replicas
            PROVE  stable'[t] \subseteq All(replica'[j]) /\ All(replica'[j]) \subseteq seen'[t]
        <5>1. CASE j = k
          BY <3>1, <5>1
        <5>2. CASE j # k
          BY <1>2, <2>2, <3>1, <5>2 DEF Listing, HistoryKept
        <5> QED BY <5>1, <5>2
      <4>2. \A x \in stable'[t] : x[1][1] \in KeySet
        BY <2>2, <3>1 DEF Listing, HistoryKept
      <4> QED BY <4>1, <4>2 DEF HistoryKept, All, Fields, Has
    <3>3. ListedSoFar(t)'
      BY <1>1, <2>2, <3>1 DEF Listing, ListedSoFar
    <3> QED BY <1>1, <2>2, <3>1, <3>2, <3>3 DEF Listing
  <2> QED BY <2>1, <2>2
<1> QED BY <1>3, <1>4

LEMMA ListReset ==
  ASSUME ListIInv, NEW T \in SUBSET Threads, Reset(T)
  PROVE  ListIInv'
<1> USE DEF ListIInv
<1>1. ListTypeOK' /\ UNCHANGED replica
  BY DEF Reset, ListTypeOK, stores
<1>2. ASSUME NEW s \in T
      PROVE  Listing(s)'
  <2>1. op'[s] = "none" /\ pc'[s] = "idle" /\ rsp'[s] = {} /\ answer'[s] = "none"
    BY DEF Reset
  <2> QED BY <2>1, NoListing
<1>3. ASSUME NEW s \in Threads \ T
      PROVE  Listing(s)'
  <2>1. /\ pc'[s] = pc[s] /\ op'[s] = op[s] /\ answer'[s] = answer[s] /\ index'[s] = index[s]
        /\ rsp'[s] = rsp[s] /\ seen'[s] = seen[s] /\ stable'[s] = stable[s]
    BY DEF Reset
  <2> QED BY <1>1, <2>1, SameListing
<1> QED BY <1>1, <1>2, <1>3

LEMMA ListNext ==
  ASSUME StoreIInv, ListIInv, [Next]_vars
  PROVE  ListIInv'
<1> USE DEF ListIInv
<1>1. CASE UNCHANGED vars
  BY <1>1, SameListing DEF vars, stores, worker, history, ListTypeOK
<1>2. CASE Exit
  BY <1>2, ListReset DEF Exit
<1>3. ASSUME NEW t \in Threads, Send(t) \/ SendFails(t)
      PROVE  ListIInv'
  BY <1>3, ListReset DEF Send, SendFails
<1>4. ASSUME NEW t \in Threads,
             \/ \E q \in Questions : Delete(t, q) \/ \E c \in Contents : Insert(t, q, c)
             \/ InsertQues(t) \/ HDel(t) \/ ReadReply(t) \/ ReplyLost(t)
      PROVE  ListIInv'
  <2>1. /\ UNCHANGED <<replica, index, rsp, seen, stable>>
        /\ op'[t] # "getall" /\ pc'[t] \notin {"idle", "scan", "hgetall"}
        /\ \A s \in Threads \ {t} : pc'[s] = pc[s] /\ op'[s] = op[s] /\ answer'[s] = answer[s]
    <3>1. op'[t] # "getall" /\ pc'[t] \notin {"idle", "scan", "hgetall"}
      BY <1>4 DEF Insert, Delete, InsertQues, Exists, HExists, Draw, HSet, HDel, ReadReply,
                  ReplyLost, Goto, Answer, Handler, StoreIInv, StoreTypeOK
    <3> QED BY <1>4, <3>1 DEF Insert, Delete, InsertQues, Exists, HExists, Draw, HSet, HDel, Write,
                  ReadReply, ReplyLost, Goto, Answer, StoreIInv, StoreTypeOK, stores, history
  <2>2. ListTypeOK'
    BY <2>1 DEF ListTypeOK
  <2>3. Listing(t)'
    BY <2>1, NoListing
  <2>4. \A s \in Threads \ {t} : Listing(s)'
    BY <2>1, SameListing
  <2> QED BY <2>2, <2>3, <2>4
<1>5. ASSUME NEW t \in Threads, GetAllQues(t)
      PROVE  ListIInv'
  <2>1. op[t] = "getall"
    BY <1>5 DEF GetAllQues, ExistsKey, HGetAll, AllListed, Listing
  <2> QED BY <1>5, <2>1, ListScan
<1>6. ASSUME NEW t \in Threads, CommandFails(t)
      PROVE  ListIInv'
  <2>1. /\ UNCHANGED <<replica, op, index, rsp, seen, stable>>
        /\ pc'[t] = "done" /\ answer'[t] = "failed"
        /\ \A s \in Threads \ {t} : pc'[s] = pc[s] /\ answer'[s] = answer[s]
    BY <1>6 DEF CommandFails, Answer, Goto, StoreIInv, StoreTypeOK, stores, history
  <2>2. ListTypeOK'
    BY <2>1 DEF ListTypeOK
  <2>3. Listing(t)'
    BY <2>1 DEF Listing, HistoryKept, ListedSoFar, All, Fields, Has
  <2>4. \A s \in Threads \ {t} : Listing(s)'
    BY <2>1, SameListing
  <2> QED BY <2>2, <2>3, <2>4
<1> QED BY <1>1, <1>2, <1>3, <1>4, <1>5, <1>6, ListGetAll, ListApply DEF Next, Handle

(***************************************************************************)
(* What GetAllQues lists was in some replica while it read, and what was   *)
(* in all of them all that time is listed, however the replicas lag.       *)
(***************************************************************************)
THEOREM ListingsArePast == Spec => []ListingSound
<1>1. StoreIInv /\ ListIInv /\ [Next]_vars => ListIInv'
  BY ListNext
<1>2. ListIInv => ListingSound
  BY DEF ListIInv, Listing, ListedSoFar, ListingSound
<1> QED BY <1>1, <1>2, ListInit, StoreInvariance, PTL DEF Spec
=============================================================================
