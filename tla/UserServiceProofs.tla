------------------------ MODULE UserServiceProofs ------------------------
(***************************************************************************)
(* Proofs about UserService and the two components it is made of.  First   *)
(* UserStore: its types, that Redis agrees with MySQL, that ids are not    *)
(* repeated without bound, and that the handlers implement the directory,  *)
(* all whether or not ids are a key and whatever the texts of the commands *)
(* make of an account.  Then MysqlPool:                                    *)
(* no connection has two users, all are accounted for, and a thread is     *)
(* turned away only when there are fewer of them than threads.  Last the   *)
(* service: its steps are steps of UserStore, and of MysqlPool until the   *)
(* process is started again, so that what holds of the two holds of them   *)
(* together.  All for any workers, connections and contexts.               *)
(***************************************************************************)
EXTENDS UserService, TLAPS, FiniteSetTheorems

-----------------------------------------------------------------------------
(* UserStore. *)

(***************************************************************************)
(* A worker that inserts handles a REGISTER; one that is about to write to *)
(* Redis handles a LOGIN with the account MySQL answers with.              *)
(***************************************************************************)
InTheHandler ==
  \A t \in Threads :
    /\ pc[t] = "insert" => Register(t)
    /\ pc[t] = "cache" => /\ ~Register(t)
                          /\ rows[Id(t)] # <<>>
                          /\ rows[Id(t)][1] = request[t].account

IInv == TypeOK /\ CacheAgrees /\ InTheHandler

(***************************************************************************)
(* A worker in a handler has a request.                                    *)
(***************************************************************************)
LEMMA Handling ==
  ASSUME TypeOK, NEW t \in Threads, pc[t] # "idle"
  PROVE  /\ request[t] \in Requests
         /\ Id(t) \in Ids
         /\ request[t].account \in Accounts
         /\ request[t].op \in {"register", "login"}
BY DEF TypeOK, Requests, Id

(***************************************************************************)
(* A row that is appended does not change the account MySQL answers with.  *)
(***************************************************************************)
LEMMA FirstRow ==
  ASSUME NEW s \in Seq(Accounts), NEW a \in Accounts
  PROVE  /\ Append(s, a) \in Seq(Accounts)
         /\ Append(s, a) # <<>>
         /\ s # <<>> => Append(s, a)[1] = s[1]
         /\ s = <<>> => Append(s, a)[1] = a
OBVIOUS

LEMMA InitIInv == Init => IInv
BY NoAccountAssumption, NoRequestAssumption
DEF Init, IInv, TypeOK, CacheAgrees, Agrees, InTheHandler, Verdicts

(***************************************************************************)
(* The steps that change neither store: what is left to show is about the  *)
(* worker that moves.                                                      *)
(***************************************************************************)
LEMMA StepInHandler ==
  ASSUME IInv, NEW t \in Threads, pc[t] \in {"redis", "select", "insert"},
         NEW v \in Verdicts \ {"none"}, Answer(t, v),
         UNCHANGED <<stores, request>>,
         pc[t] = "select" /\ v = "ok" /\ ~Register(t) =>
           rows[Id(t)] # <<>> /\ rows[Id(t)][1] = request[t].account
  PROVE  IInv'
<1> USE DEF IInv
<1>1. verdict' = [verdict EXCEPT ![t] = v]
  BY DEF Answer
<1>2. CASE ~Register(t) /\ v = "ok" /\ pc[t] = "select"
  <2>1. pc' = [pc EXCEPT ![t] = "cache"]
    BY <1>2 DEF Answer, Goto
  <2>2. TypeOK'
    BY <1>1, <2>1, NoRequestAssumption DEF TypeOK, stores, Verdicts
  <2>3. CacheAgrees'
    BY DEF CacheAgrees, Agrees, stores
  <2>4. InTheHandler'
    BY <1>2, <2>1 DEF InTheHandler, TypeOK, Register, Id, stores
  <2> QED BY <2>2, <2>3, <2>4
<1>3. CASE ~(~Register(t) /\ v = "ok" /\ pc[t] = "select")
  <2>1. pc' = [pc EXCEPT ![t] = "done"]
    BY <1>3 DEF Answer, Goto
  <2>2. TypeOK'
    BY <1>1, <2>1, NoRequestAssumption DEF TypeOK, stores, Verdicts
  <2>3. CacheAgrees'
    BY DEF CacheAgrees, Agrees, stores
  <2>4. InTheHandler'
    BY <2>1 DEF InTheHandler, TypeOK, Register, Id, stores
  <2> QED BY <2>2, <2>3, <2>4
<1> QED BY <1>2, <1>3

LEMMA JudgeIsVerdict ==
  ASSUME NEW t \in Threads, NEW a
  PROVE  Judge(t, a) \in Verdicts \ {"none"}
BY DEF Judge, Verdicts

LEMMA NextIInv == IInv /\ [Next]_vars => IInv'
<1> SUFFICES ASSUME IInv, [Next]_vars PROVE IInv'
  OBVIOUS
<1> USE DEF IInv
<1>1. ASSUME NEW t \in Threads, NEW r \in Requests, Receive(t, r) PROVE IInv'
  <2>1. TypeOK'
    BY <1>1, NoRequestAssumption DEF Receive, Goto, TypeOK, stores, Verdicts
  <2>2. CacheAgrees'
    BY <1>1 DEF Receive, CacheAgrees, Agrees, stores
  <2>3. InTheHandler'
    BY <1>1 DEF Receive, Goto, InTheHandler, TypeOK, Register, Id, stores
  <2> QED BY <2>1, <2>2, <2>3
<1>2. ASSUME NEW t \in Threads, NEW k \in Replicas, AskRedis(t, k) PROVE IInv'
  <2>1. CASE Answer(t, Judge(t, replica[k][Id(t)]))
    BY <1>2, <2>1, StepInHandler, JudgeIsVerdict DEF AskRedis
  <2>2. CASE Goto(t, "select") /\ UNCHANGED verdict
    <3>1. TypeOK'
      BY <1>2, <2>2, NoRequestAssumption DEF AskRedis, Goto, TypeOK, stores, Verdicts
    <3>2. CacheAgrees'
      BY <1>2 DEF AskRedis, CacheAgrees, Agrees, stores
    <3>3. InTheHandler'
      BY <1>2, <2>2 DEF AskRedis, Goto, InTheHandler, TypeOK, Register, Id, stores
    <3> QED BY <3>1, <3>2, <3>3
  <2> QED BY <1>2, <2>1, <2>2 DEF AskRedis
<1>3. ASSUME NEW t \in Threads, AskMysql(t) PROVE IInv'
  <2>1. CASE Select(t) # <<>> /\ Answer(t, Judge(t, Select(t)[1]))
    <3>1. Judge(t, Select(t)[1]) = "ok" /\ ~Register(t) =>
            rows[Id(t)] # <<>> /\ rows[Id(t)][1] = request[t].account
      BY <2>1 DEF Judge, Select
    <3> QED BY <1>3, <2>1, <3>1, StepInHandler, JudgeIsVerdict DEF AskMysql
  <2>2. CASE Register(t) /\ Goto(t, "insert") /\ UNCHANGED verdict
    <3>1. TypeOK'
      BY <1>3, <2>2, NoRequestAssumption DEF AskMysql, Goto, TypeOK, stores, Verdicts
    <3>2. CacheAgrees'
      BY <1>3 DEF AskMysql, CacheAgrees, Agrees, stores
    <3>3. InTheHandler'
      BY <1>3, <2>2 DEF AskMysql, Goto, InTheHandler, TypeOK, Register, Id, stores
    <3> QED BY <3>1, <3>2, <3>3
  <2>3. CASE Answer(t, "absent")
    BY <1>3, <2>3, StepInHandler DEF AskMysql, Verdicts
  <2> QED BY <1>3, <2>1, <2>2, <2>3 DEF AskMysql
<1>4. ASSUME NEW t \in Threads, InsertRow(t) PROVE IInv'
  <2>1. /\ Id(t) \in Ids /\ pc[t] = "insert" /\ Register(t)
        /\ Kept[request[t].account] \subseteq Accounts
    BY <1>4, Handling, TextAssumption DEF InsertRow, InTheHandler
  <2>2. PICK a \in Kept[request[t].account] :
          rows' = [rows EXCEPT ![Id(t)] = Append(@, a)] /\ UNCHANGED <<cache, replica, request>>
    BY <1>4 DEF InsertRow, AddRow
  <2>3. PICK v \in {"ok", "error"} : Answer(t, v)
    BY <1>4 DEF InsertRow
  <2>4. /\ verdict' = [verdict EXCEPT ![t] = v]
        /\ pc' = [pc EXCEPT ![t] = "done"]
    BY <2>1, <2>3 DEF Answer, Goto
  <2>5. \A i \in Ids : /\ rows'[i] \in Seq(Accounts)
                       /\ rows[i] # <<>> => rows'[i] # <<>> /\ rows'[i][1] = rows[i][1]
    <3>1. a \in Accounts /\ rows \in [Ids -> Seq(Accounts)]
      BY <2>1 DEF TypeOK
    <3>2. ASSUME NEW i \in Ids
          PROVE  /\ rows'[i] \in Seq(Accounts)
                 /\ rows[i] # <<>> => rows'[i] # <<>> /\ rows'[i][1] = rows[i][1]
      <4>1. rows[i] \in Seq(Accounts) /\ rows'[i] = IF i = Id(t) THEN Append(rows[i], a) ELSE rows[i]
        BY <2>2, <3>1
      <4> QED BY <3>1, <4>1, FirstRow
    <3> QED BY <3>2
  <2>6. TypeOK'
    <3>1. rows' \in [Ids -> Seq(Accounts)]
      BY <2>2, <2>5 DEF TypeOK
    <3> QED BY <2>1, <2>2, <2>4, <3>1, NoRequestAssumption DEF TypeOK, Verdicts
  <2>7. CacheAgrees'
    BY <2>2, <2>5 DEF CacheAgrees, Agrees
  <2>8. InTheHandler'
    BY <2>1, <2>2, <2>4, <2>5, Handling DEF InTheHandler, TypeOK, Register, Id
  <2> QED BY <2>6, <2>7, <2>8
<1>5. ASSUME NEW t \in Threads, QueryFails(t) PROVE IInv'
  BY <1>5, StepInHandler DEF QueryFails, Verdicts
<1>6. ASSUME NEW t \in Threads, WriteCache(t) PROVE IInv'
  <2>1. /\ Id(t) \in Ids /\ rows[Id(t)] # <<>> /\ rows[Id(t)][1] = request[t].account
        /\ Cached[request[t].account] \subseteq Accounts
    BY <1>6, Handling, TextAssumption DEF WriteCache, InTheHandler
  <2>2. PICK a \in Cached[request[t].account] : cache' = [cache EXCEPT ![Id(t)] = a]
    BY <1>6 DEF WriteCache, Confirmed
  <2>3. TypeOK'
    BY <1>6, <2>1, <2>2, NoRequestAssumption DEF WriteCache, Goto, TypeOK, Verdicts
  <2>5. CacheAgrees'
    BY <1>6, <2>1, <2>2 DEF WriteCache, CacheAgrees, Agrees, TypeOK
  <2>4. InTheHandler'
    BY <1>6 DEF WriteCache, Goto, InTheHandler, TypeOK, Register, Id
  <2> QED BY <2>3, <2>4, <2>5
<1>7. ASSUME NEW t \in Threads, WriteCacheFails(t) PROVE IInv'
  <2>1. TypeOK'
    BY <1>7, NoRequestAssumption DEF WriteCacheFails, Goto, TypeOK, stores, Verdicts
  <2>2. CacheAgrees'
    BY <1>7 DEF WriteCacheFails, CacheAgrees, Agrees, stores
  <2>3. InTheHandler'
    BY <1>7 DEF WriteCacheFails, Goto, InTheHandler, TypeOK, Register, Id, stores
  <2> QED BY <2>1, <2>2, <2>3
<1>8. ASSUME NEW t \in Threads, Return(t) PROVE IInv'
  <2>1. TypeOK'
    BY <1>8, NoRequestAssumption DEF Return, Goto, TypeOK, stores, Verdicts
  <2>2. CacheAgrees'
    BY <1>8 DEF Return, CacheAgrees, Agrees, stores
  <2>3. InTheHandler'
    BY <1>8 DEF Return, Goto, InTheHandler, TypeOK, Register, Id, stores
  <2> QED BY <2>1, <2>2, <2>3
<1>9. ASSUME NEW k \in Replicas, NEW i \in Ids, Replicate(k, i) PROVE IInv'
  <2>1. TypeOK'
    BY <1>9 DEF Replicate, TypeOK
  <2>2. CacheAgrees'
    BY <1>9 DEF Replicate, CacheAgrees, Agrees, TypeOK
  <2>3. InTheHandler'
    BY <1>9 DEF Replicate, InTheHandler, Register, Id
  <2> QED BY <2>1, <2>2, <2>3
<1>10. ASSUME Exit PROVE IInv'
  BY <1>10, NoRequestAssumption DEF Exit, TypeOK, CacheAgrees, Agrees, InTheHandler, stores, Verdicts
<1>11. ASSUME UNCHANGED vars PROVE IInv'
  BY <1>11 DEF vars, TypeOK, CacheAgrees, Agrees, InTheHandler, Register, Id
<1> QED
  BY <1>1, <1>2, <1>3, <1>4, <1>5, <1>6, <1>7, <1>8, <1>9, <1>10, <1>11 DEF Next

THEOREM Invariance == Spec => []IInv
BY InitIInv, NextIInv, PTL DEF Spec

(***************************************************************************)
(* The variables keep their types.                                         *)
(***************************************************************************)
THEOREM TypeCorrect == Spec => []TypeOK
BY Invariance, PTL DEF IInv

(***************************************************************************)
(* What Redis holds is what the format of its command makes of the account *)
(* MySQL answers with, for any number of workers, ids and replicas, and    *)
(* without any assumption on the key of the table.                         *)
(***************************************************************************)
THEOREM RedisAgreesWithMysql == Spec => []CacheAgrees
BY Invariance, PTL DEF IInv

-----------------------------------------------------------------------------
(* Repeated ids. *)

Inserters(i) == {t \in Threads : pc[t] = "insert" /\ Id(t) = i}

(***************************************************************************)
(* Once an id has a row, no worker that looks finds it free: the rows that *)
(* are there and those that are still coming are not more than the workers *)
(***************************************************************************)
RowsAndInserters ==
  \A i \in Ids : rows[i] # <<>> =>
    Len(rows[i]) + Cardinality(Inserters(i)) <= Cardinality(Threads)

LEMMA InsertersFinite ==
  ASSUME IsFiniteSet(Threads), NEW i
  PROVE  /\ IsFiniteSet(Inserters(i))
         /\ Cardinality(Inserters(i)) \in Nat
         /\ Cardinality(Threads) \in Nat
         /\ Cardinality(Inserters(i)) <= Cardinality(Threads)
<1>1. Inserters(i) \subseteq Threads
  BY DEF Inserters
<1> QED BY <1>1, FS_Subset, FS_CardinalityType

LEMMA NoNewInserter ==
  ASSUME IsFiniteSet(Threads), TypeOK, RowsAndInserters, NEW i \in Ids,
         rows'[i] = rows[i], Inserters(i)' \subseteq Inserters(i)
  PROVE  rows'[i] # <<>> =>
           Len(rows'[i]) + Cardinality(Inserters(i)') <= Cardinality(Threads)
<1>1. /\ IsFiniteSet(Inserters(i))
      /\ Cardinality(Inserters(i)) \in Nat
      /\ Cardinality(Threads) \in Nat
  BY InsertersFinite
<1>2. Cardinality(Inserters(i)') \in Nat /\ Cardinality(Inserters(i)') <= Cardinality(Inserters(i))
  BY <1>1, FS_Subset, FS_CardinalityType
<1>3. Len(rows[i]) \in Nat
  BY DEF TypeOK
<1> QED BY <1>1, <1>2, <1>3 DEF RowsAndInserters

LEMMA RowsAndInsertersStep ==
  ASSUME IsFiniteSet(Threads), IInv, RowsAndInserters, [Next]_vars
  PROVE  RowsAndInserters'
<1> USE DEF IInv
<1> SUFFICES ASSUME NEW i \in Ids
             PROVE  rows'[i] # <<>> =>
                      Len(rows'[i]) + Cardinality(Inserters(i)') <= Cardinality(Threads)
  BY DEF RowsAndInserters
<1>1. ASSUME NEW t \in Threads, InsertRow(t), Id(t) = i
      PROVE  rows'[i] # <<>> =>
               Len(rows'[i]) + Cardinality(Inserters(i)') <= Cardinality(Threads)
  <2>1. PICK a \in Kept[request[t].account] :
          rows'[i] = Append(rows[i], a) /\ request' = request
    BY <1>1 DEF InsertRow, AddRow, TypeOK
  <2>2. Len(rows[i]) \in Nat /\ Len(rows'[i]) = Len(rows[i]) + 1
    BY <1>1, <2>1, Handling, TextAssumption DEF TypeOK, InsertRow
  <2>3. pc' = [pc EXCEPT ![t] = "done"]
    BY <1>1 DEF InsertRow, Answer, Goto
  <2>4. t \in Inserters(i) /\ Inserters(i)' = Inserters(i) \ {t}
    BY <1>1, <2>1, <2>3 DEF Inserters, InsertRow, TypeOK, Id
  <2>5. /\ IsFiniteSet(Inserters(i))
        /\ Cardinality(Inserters(i)) \in Nat
        /\ Cardinality(Threads) \in Nat
        /\ Cardinality(Inserters(i)) <= Cardinality(Threads)
    BY InsertersFinite
  <2>6. Cardinality(Inserters(i)') = Cardinality(Inserters(i)) - 1
    BY <2>4, <2>5, FS_RemoveElement
  <2>7. rows[i] = <<>> => Len(rows[i]) = 0
    OBVIOUS
  <2> QED BY <2>2, <2>5, <2>6, <2>7 DEF RowsAndInserters
<1>2. ASSUME NEW t \in Threads, InsertRow(t), Id(t) # i
      PROVE  rows'[i] = rows[i] /\ Inserters(i)' \subseteq Inserters(i)
  BY <1>2 DEF InsertRow, AddRow, Answer, Goto, Inserters, TypeOK, Id
<1>3. ASSUME NEW t \in Threads, AskMysql(t)
      PROVE  rows'[i] = rows[i] /\ (rows[i] # <<>> => Inserters(i)' \subseteq Inserters(i))
  BY <1>3 DEF AskMysql, Select, Answer, Goto, Inserters, TypeOK, Id, stores
<1>4. ASSUME NEW t \in Threads,
             \/ \E r \in Requests : Receive(t, r)
             \/ \E k \in Replicas : AskRedis(t, k)
             \/ QueryFails(t) \/ WriteCache(t) \/ WriteCacheFails(t) \/ Return(t)
      PROVE  rows'[i] = rows[i] /\ Inserters(i)' \subseteq Inserters(i)
  BY <1>4 DEF Receive, AskRedis, QueryFails, WriteCache, WriteCacheFails, Return,
              Answer, Goto, Inserters, TypeOK, Id, stores
<1>5. ASSUME NEW k \in Replicas, NEW j \in Ids, Replicate(k, j)
      PROVE  rows'[i] = rows[i] /\ Inserters(i)' \subseteq Inserters(i)
  BY <1>5 DEF Replicate, Inserters, Id
<1>6. ASSUME Exit PROVE rows'[i] = rows[i] /\ Inserters(i)' \subseteq Inserters(i)
  BY <1>6 DEF Exit, Inserters, stores
<1>7. ASSUME UNCHANGED vars PROVE rows'[i] = rows[i] /\ Inserters(i)' \subseteq Inserters(i)
  BY <1>7 DEF vars, Inserters, Id
<1> QED BY <1>1, <1>2, <1>3, <1>4, <1>5, <1>6, <1>7, NoNewInserter DEF Next

(***************************************************************************)
(* Register looks before it inserts, without a transaction.  If the table  *)
(* accepts repeated ids, each worker that looked before the first row      *)
(* appeared adds one, and no other ever does.                              *)
(***************************************************************************)
THEOREM RepetitionsBounded ==
  ASSUME IsFiniteSet(Threads)
  PROVE  Spec => []DuplicatesBounded
<1>1. Init => RowsAndInserters
  BY DEF Init, RowsAndInserters
<1>2. IInv /\ RowsAndInserters /\ [Next]_vars => RowsAndInserters'
  BY RowsAndInsertersStep
<1>3. IInv /\ RowsAndInserters => DuplicatesBounded
  <2> SUFFICES ASSUME IInv, RowsAndInserters, NEW i \in Ids
               PROVE  Len(rows[i]) <= Cardinality(Threads)
    BY DEF DuplicatesBounded
  <2>1. Len(rows[i]) \in Nat /\ (rows[i] = <<>> => Len(rows[i]) = 0)
    BY DEF IInv, TypeOK
  <2> QED BY <2>1, InsertersFinite DEF RowsAndInserters
<1> QED BY <1>1, <1>2, <1>3, Invariance, PTL DEF Spec

-----------------------------------------------------------------------------
(* The directory. *)

accounts == [i \in Ids |-> IF rows[i] = <<>> THEN NoAccount ELSE rows[i][1]]
looked == {t \in Threads : pc[t] = "insert"}

DirectoryVars == <<accounts, request, verdict, looked>>

(***************************************************************************)
(* Only a worker that moves to or from its insert changes who has looked.  *)
(***************************************************************************)
HandlerPlaces == {"idle", "redis", "select", "insert", "cache", "done"}

LEMMA LookedStep ==
  ASSUME pc \in [Threads -> HandlerPlaces], NEW t \in Threads, NEW l \in HandlerPlaces, Goto(t, l)
  PROVE  /\ l # "insert" => looked' = looked \ {t}
         /\ l = "insert" => looked' = looked \cup {t}
         /\ l # "insert" /\ pc[t] # "insert" => looked' = looked /\ looked \ {t} = looked
BY DEF looked, Goto

LEMMA PcIsPlace == ASSUME TypeOK PROVE pc \in [Threads -> HandlerPlaces]
BY DEF TypeOK, HandlerPlaces

(***************************************************************************)
(* The account of the request's id, as the directory and as MySQL have it. *)
(***************************************************************************)
LEMMA CurrentAccount ==
  ASSUME TypeOK, NEW t \in Threads, pc[t] # "idle"
  PROVE  /\ Directory!Current(t) = IF rows[Id(t)] = <<>> THEN NoAccount ELSE rows[Id(t)][1]
         /\ rows[Id(t)] # <<>> => Directory!Current(t) # NoAccount
<1>1. Id(t) \in Ids
  BY Handling
<1>2. Directory!Current(t) = IF rows[Id(t)] = <<>> THEN NoAccount ELSE rows[Id(t)][1]
  BY <1>1 DEF Directory!Current, Id
<1>3. ASSUME rows[Id(t)] # <<>> PROVE rows[Id(t)][1] \in Accounts
  BY <1>1, <1>3 DEF TypeOK
<1> QED BY <1>2, <1>3, NoAccountAssumption

(***************************************************************************)
(* An answer is a decision of the directory.                               *)
(***************************************************************************)
LEMMA AnswerDecides ==
  ASSUME TypeOK, NEW t \in Threads, NEW v, Answer(t, v), UNCHANGED request
  PROVE  Directory!Decide(t, v)
<1>1. \E l \in {"cache", "done"} : Goto(t, l)
  BY DEF Answer
<1>2. PICK l \in {"cache", "done"} : Goto(t, l)
  BY <1>1
<1>3. looked' = looked \ {t}
  BY <1>2, LookedStep, PcIsPlace DEF HandlerPlaces
<1> QED BY <1>3 DEF Directory!Decide, Answer, looked

(***************************************************************************)
(* An answer drawn from an account that was found, wherever it was found   *)
(* and in whichever form, is one the directory gives.                      *)
(***************************************************************************)
LEMMA FoundIsDirectory ==
  ASSUME IInv, NEW t \in Threads, pc[t] \in {"redis", "select"},
         rows[Id(t)] # <<>>, NEW found \in Directory!Forms(rows[Id(t)][1]),
         NEW v, v = Judge(t, found),
         Answer(t, v), UNCHANGED <<stores, request>>
  PROVE  Directory!Next
<1>1. /\ request[t] # NoRequest /\ verdict[t] = "none"
      /\ UNCHANGED accounts
      /\ Directory!Decide(t, v)
  <2>1. Directory!Decide(t, v)
    BY AnswerDecides DEF IInv
  <2>2. request[t] # NoRequest /\ verdict[t] = "none"
    BY DEF IInv, TypeOK
  <2>3. UNCHANGED accounts
    BY DEF accounts, stores
  <2> QED BY <2>1, <2>2, <2>3
<1>2. Directory!Current(t) = rows[Id(t)][1] /\ Directory!Current(t) # NoAccount
  BY CurrentAccount DEF IInv
<1>3. CASE Register(t)
  <2>1. v = "exists"
    BY <1>3 DEF Judge
  <2>2. Directory!Register(t)
    BY <1>1, <1>2, <1>3, <2>1 DEF Directory!Register, Directory!Pending, Register, accounts
  <2> QED BY <2>2 DEF Directory!Next
<1>4. CASE ~Register(t)
  <2>1. request[t].op = "login"
    BY <1>4, Handling DEF IInv, Register
  <2>2. v = IF found = request[t].account THEN "ok" ELSE "wrong"
    BY <1>4 DEF Judge
  <2>3. \E a \in Directory!Forms(Directory!Current(t)) :
          Directory!Decide(t, IF a = request[t].account THEN "ok" ELSE "wrong")
    BY <1>1, <1>2, <2>2 DEF Directory!Decide
  <2>4. Directory!Login(t)
    BY <1>1, <1>2, <2>1, <2>3 DEF Directory!Login, Directory!Pending, accounts
  <2> QED BY <2>4 DEF Directory!Next
<1> QED BY <1>3, <1>4

LEMMA DirectoryInit == Init => Directory!Init
BY DEF Init, Directory!Init

LEMMA DirectoryNext ==
  IInv /\ [Next]_vars => [Directory!Next]_DirectoryVars
<1> SUFFICES ASSUME IInv, [Next]_vars
             PROVE  Directory!Next \/ UNCHANGED DirectoryVars
  OBVIOUS
<1> USE DEF IInv
<1>0. UNCHANGED rows => UNCHANGED accounts
  BY DEF accounts
<1>a. pc \in [Threads -> HandlerPlaces]
  BY PcIsPlace
<1>1. ASSUME NEW t \in Threads, NEW r \in Requests, Receive(t, r) PROVE Directory!Next
  <2>1. looked' = looked
    BY <1>1, <1>a, LookedStep DEF HandlerPlaces, Receive
  <2>2. Directory!Receive(t, r)
    BY <1>0, <1>1, <2>1 DEF Receive, Directory!Receive, TypeOK, stores, accounts, looked
  <2>3. r \in Directory!Requests
    BY DEF Requests, Directory!Requests
  <2> QED BY <2>2, <2>3 DEF Directory!Next
<1>2. ASSUME NEW t \in Threads, NEW k \in Replicas, AskRedis(t, k)
      PROVE  Directory!Next \/ UNCHANGED DirectoryVars
  <2>1. CASE replica[k][Id(t)] # NoAccount /\ Answer(t, Judge(t, replica[k][Id(t)]))
    <3>1. rows[Id(t)] # <<>> /\ replica[k][Id(t)] \in Directory!Forms(rows[Id(t)][1])
      BY <1>2, <2>1, Handling DEF AskRedis, CacheAgrees, Agrees, Directory!Forms
    <3> QED BY <1>2, <2>1, <3>1, FoundIsDirectory DEF AskRedis
  <2>2. CASE Goto(t, "select") /\ UNCHANGED verdict
    <3>1. looked' = looked
      BY <1>2, <1>a, <2>2, LookedStep DEF HandlerPlaces, AskRedis
    <3> QED BY <1>0, <1>2, <2>2, <3>1 DEF AskRedis, stores, DirectoryVars
  <2> QED BY <1>2, <2>1, <2>2 DEF AskRedis
<1>3. ASSUME NEW t \in Threads, AskMysql(t)
      PROVE  Directory!Next \/ UNCHANGED DirectoryVars
  <2>1. CASE Select(t) # <<>> /\ Answer(t, Judge(t, Select(t)[1]))
    <3>1. Select(t)[1] \in Directory!Forms(rows[Id(t)][1])
      BY DEF Select, Directory!Forms
    <3> QED BY <1>3, <2>1, <3>1, FoundIsDirectory DEF AskMysql, Select
  <2>2. CASE Select(t) = <<>> /\ Register(t) /\ Goto(t, "insert") /\ UNCHANGED verdict
    <3>1. Directory!Current(t) = NoAccount
      BY <1>3, <2>2, CurrentAccount DEF AskMysql, Select
    <3>2. request[t] # NoRequest /\ verdict[t] = "none" /\ request[t].op = "register"
      BY <1>3, <2>2 DEF AskMysql, TypeOK, Register
    <3>3. looked' = looked \cup {t}
      BY <1>a, <2>2, LookedStep DEF HandlerPlaces
    <3>4. Directory!Look(t)
      BY <1>0, <1>3, <2>2, <3>1, <3>2, <3>3
      DEF AskMysql, stores, Directory!Look, Directory!Pending, accounts, looked
    <3> QED BY <3>4 DEF Directory!Next
  <2>3. CASE Select(t) = <<>> /\ ~Register(t) /\ Answer(t, "absent")
    <3>1. Directory!Current(t) = NoAccount
      BY <1>3, <2>3, CurrentAccount DEF AskMysql, Select
    <3>2. request[t] # NoRequest /\ verdict[t] = "none" /\ request[t].op = "login"
      BY <1>3, <2>3, Handling DEF AskMysql, TypeOK, Register
    <3>3. Directory!Decide(t, "absent")
      BY <1>3, <2>3, AnswerDecides DEF AskMysql
    <3>4. Directory!Login(t)
      BY <1>0, <1>3, <3>1, <3>2, <3>3
      DEF AskMysql, stores, Directory!Login, Directory!Pending, accounts
    <3> QED BY <3>4 DEF Directory!Next
  <2> QED BY <1>3, <2>1, <2>2, <2>3 DEF AskMysql
<1>4. ASSUME NEW t \in Threads, InsertRow(t) PROVE Directory!Next
  <2>1. /\ Id(t) \in Ids /\ Kept[request[t].account] \subseteq Accounts /\ Register(t)
        /\ request[t] # NoRequest /\ verdict[t] = "none" /\ t \in looked
    BY <1>4, Handling, TextAssumption DEF InsertRow, InTheHandler, TypeOK, looked
  <2>2. PICK a \in Kept[request[t].account] : rows' = [rows EXCEPT ![Id(t)] = Append(@, a)]
    BY <1>4 DEF InsertRow, AddRow
  <2>3. UniqueId => rows[Id(t)] = <<>>
    BY <1>4 DEF InsertRow, AddRow
  <2>4. Directory!Store(t)
    <3>1. /\ Append(rows[Id(t)], a) # <<>>
          /\ rows[Id(t)] # <<>> => Append(rows[Id(t)], a)[1] = rows[Id(t)][1]
          /\ rows[Id(t)] = <<>> => Append(rows[Id(t)], a)[1] = a
      BY <2>1, FirstRow DEF TypeOK
    <3>2. \A i \in Ids : accounts'[i] = IF i = Id(t) /\ rows[i] = <<>> THEN a ELSE accounts[i]
      BY <2>1, <2>2, <3>1 DEF accounts, TypeOK
    <3>3. CASE rows[Id(t)] = <<>>
      <4>1. accounts' = [accounts EXCEPT ![Id(t)] = a]
        BY <2>1, <3>2, <3>3 DEF accounts
      <4>2. Directory!Current(t) = NoAccount
        BY <1>4, <3>3, CurrentAccount DEF InsertRow
      <4> QED BY <4>1, <4>2 DEF Directory!Store, Id, accounts
    <3>4. CASE rows[Id(t)] # <<>>
      <4>1. accounts' = accounts
        BY <3>2, <3>4 DEF accounts
      <4>2. Directory!Current(t) # NoAccount
        BY <1>4, <3>4, CurrentAccount DEF InsertRow
      <4> QED BY <2>3, <3>4, <4>1, <4>2 DEF Directory!Store, accounts
    <3> QED BY <3>3, <3>4
  <2>5. \E v \in {"ok", "error"} : Directory!Decide(t, v)
    BY <1>4, AnswerDecides DEF InsertRow
  <2>6. Directory!Register(t)
    BY <2>1, <2>4, <2>5 DEF Directory!Register, Directory!Pending, Register, looked
  <2> QED BY <2>6 DEF Directory!Next
<1>5. ASSUME NEW t \in Threads, QueryFails(t) PROVE Directory!Next
  <2>1. Directory!Decide(t, "error")
    BY <1>5, AnswerDecides DEF QueryFails
  <2>2. Directory!Fail(t)
    BY <1>0, <1>5, <2>1 DEF QueryFails, TypeOK, stores, Directory!Fail, accounts
  <2> QED BY <2>2 DEF Directory!Next
<1>6. ASSUME NEW t \in Threads, WriteCache(t) \/ WriteCacheFails(t) PROVE UNCHANGED DirectoryVars
  <2>1. looked' = looked
    BY <1>6, <1>a, LookedStep DEF HandlerPlaces, WriteCache, WriteCacheFails
  <2> QED BY <1>0, <1>6, <2>1 DEF WriteCache, WriteCacheFails, stores, DirectoryVars
<1>7. ASSUME NEW t \in Threads, Return(t) PROVE Directory!Next
  <2>1. looked' = looked
    BY <1>7, <1>a, LookedStep DEF HandlerPlaces, Return
  <2>2. Directory!Finish(t)
    BY <1>0, <1>7, <2>1 DEF Return, TypeOK, stores, Directory!Finish, accounts, looked
  <2> QED BY <2>2 DEF Directory!Next
<1>8. ASSUME NEW k \in Replicas, NEW i \in Ids, Replicate(k, i) PROVE UNCHANGED DirectoryVars
  BY <1>0, <1>8 DEF Replicate, DirectoryVars, looked
<1>9. ASSUME Exit PROVE Directory!Next
  <2>1. looked' = {}
    BY <1>9 DEF Exit, looked
  <2> QED BY <1>0, <1>9, <2>1 DEF Exit, stores, Directory!Exit, Directory!Next, accounts, looked
<1>10. ASSUME UNCHANGED vars PROVE UNCHANGED DirectoryVars
  BY <1>0, <1>10 DEF vars, DirectoryVars, looked
<1> QED
  BY <1>1, <1>2, <1>3, <1>4, <1>5, <1>6, <1>7, <1>8, <1>9, <1>10 DEF Next

(***************************************************************************)
(* REGISTER and LOGIN implement the directory, whether or not user.id is a *)
(* key and whatever the texts of the commands make of an account: storage  *)
(* on two levels, lagging replicas, failing queries and restarts are not   *)
(* visible in the answers otherwise.                                       *)
(***************************************************************************)
THEOREM HandlersAreADirectory == Spec => ImplementsDirectory
<1>1. Init => Directory!Init
  BY DirectoryInit
<1>2. IInv /\ [Next]_vars => [Directory!Next]_DirectoryVars
  BY DirectoryNext
<1> QED BY <1>1, <1>2, Invariance, PTL
        DEF Spec, ImplementsDirectory, Directory!Spec, Directory!vars, DirectoryVars, accounts, looked

-----------------------------------------------------------------------------
(* MysqlPool. *)

PoolIInv == PoolTypeOK /\ Exclusive /\ Conserved /\ RefusedOnlyWhenShort

(***************************************************************************)
(* What is left of the queue once its first k connections are gone.        *)
(***************************************************************************)
LEMMA Rest ==
  ASSUME NEW s \in Seq(Conns), NEW k \in 0..Len(s)
  PROVE  /\ SubSeq(s, k + 1, Len(s)) \in Seq(Conns)
         /\ Len(SubSeq(s, k + 1, Len(s))) = Len(s) - k
         /\ \A i \in 1..(Len(s) - k) : SubSeq(s, k + 1, Len(s))[i] = s[i + k]
         /\ Elements(SubSeq(s, k + 1, Len(s))) = {s[i] : i \in (k + 1)..Len(s)}
<1> DEFINE r == SubSeq(s, k + 1, Len(s))
<1>1. r \in Seq(Conns) /\ Len(r) = Len(s) - k /\ \A i \in 1..(Len(s) - k) : r[i] = s[i + k]
  OBVIOUS
<1> HIDE DEF r
<1>2. ASSUME NEW j \in 1..Len(r)
      PROVE  \E i \in (k + 1)..Len(s) : r[j] = s[i]
  <2>1. j + k \in (k + 1)..Len(s) /\ r[j] = s[j + k]
    BY <1>1
  <2> QED BY <2>1
<1>3. ASSUME NEW i \in (k + 1)..Len(s)
      PROVE  s[i] \in Elements(r)
  <2>1. i - k \in 1..Len(r) /\ r[i - k] = s[i]
    BY <1>1
  <2> QED BY <2>1 DEF Elements
<1>4. Elements(r) = {s[i] : i \in (k + 1)..Len(s)}
  <2>1. ASSUME NEW x \in Elements(r) PROVE x \in {s[i] : i \in (k + 1)..Len(s)}
    BY <1>2, <2>1 DEF Elements
  <2>2. ASSUME NEW x \in {s[i] : i \in (k + 1)..Len(s)} PROVE x \in Elements(r)
    BY <1>3, <2>2
  <2> QED BY <2>1, <2>2
<1> QED BY <1>1, <1>4 DEF r

(***************************************************************************)
(* The connections in use are at most as many as the threads that hold one.*)
(***************************************************************************)
LEMMA HeldByHolders ==
  /\ IsFiniteSet(Holders) /\ IsFiniteSet(Held)
  /\ Cardinality(Held) <= Cardinality(Holders)
<1> DEFINE f == [t \in Holders |-> mpcon[t]]
<1>1. IsFiniteSet(Holders)
  BY FS_Subset, UsersAssumption DEF Holders
<1>2. f \in Surjection(Holders, Held)
  BY DEF Surjection, Held
<1> QED BY <1>1, <1>2, FS_Surjection

LEMMA PoolInitIInv == PoolInit => PoolIInv
<1> SUFFICES ASSUME PoolInit PROVE PoolIInv
  OBVIOUS
<1>1. PICK n \in Nat : pool \in [1..n -> Conns]
  BY FS_CardinalityType, ConnsAssumption DEF PoolInit
<1>2. pool \in Seq(Conns) /\ Len(pool) = n /\ DOMAIN pool = 1..Len(pool)
  BY <1>1
<1>3. \A i, j \in 1..Len(pool) : pool[i] = pool[j] => i = j
  BY <1>2 DEF PoolInit
<1>4. Elements(pool) \subseteq Conns
  BY <1>2 DEF Elements
<1>5. Holders = {} /\ Held = {}
  BY DEF PoolInit, Holders, Held
<1>6. PoolTypeOK
  BY <1>2 DEF PoolInit, PoolTypeOK, Places
<1>7. Exclusive
  BY <1>3, <1>5 DEF Exclusive
<1>8. Conserved
  BY <1>4, <1>5 DEF PoolInit, Conserved, Usable
<1>9. RefusedOnlyWhenShort
  BY DEF PoolInit, RefusedOnlyWhenShort
<1> QED BY <1>6, <1>7, <1>8, <1>9 DEF PoolIInv

(***************************************************************************)
(* Fewer connections than threads stay fewer: none is ever made again.     *)
(***************************************************************************)
LEMMA StillShort ==
  ASSUME lost \subseteq lost', Cardinality(Usable) < Cardinality(Users)
  PROVE  Cardinality(Usable') < Cardinality(Users)
<1>1. IsFiniteSet(Usable) /\ Usable' \subseteq Usable
  BY ConnsAssumption, FS_Subset DEF Usable
<1>2. IsFiniteSet(Usable') /\ Cardinality(Usable') <= Cardinality(Usable)
  BY <1>1, FS_Subset
<1> QED BY <1>1, <1>2, FS_CardinalityType, UsersAssumption

(***************************************************************************)
(* A thread that neither is nor becomes one that got nothing.              *)
(***************************************************************************)
LEMMA NotRefused ==
  ASSUME PoolIInv, lost \subseteq lost', NEW t \in Users,
         NEW p \in Places \ {"again", "refused"}, at' = [at EXCEPT ![t] = p]
  PROVE  RefusedOnlyWhenShort'
<1> SUFFICES ASSUME NEW s \in Users, at'[s] \in {"again", "refused"}
             PROVE  Cardinality(Usable') < Cardinality(Users)
  BY DEF RefusedOnlyWhenShort
<1>1. at[s] \in {"again", "refused"}
  BY DEF PoolIInv, PoolTypeOK
<1> QED BY <1>1, StillShort DEF PoolIInv, RefusedOnlyWhenShort

(***************************************************************************)
(* A step that moves no connection.                                        *)
(***************************************************************************)
LEMMA SameConnections ==
  ASSUME Exclusive, Conserved, UNCHANGED <<pool, size, lost, mpcon>>
  PROVE  Exclusive' /\ Conserved'
<1>1. Holders' = Holders /\ Held' = Held
  BY DEF Holders, Held
<1>2. Elements(pool') = Elements(pool)
  OBVIOUS
<1> QED BY <1>1, <1>2 DEF Exclusive, Conserved, Usable

LEMMA BeginStep ==
  ASSUME PoolIInv, NEW t \in Users, NEW o \in {"query", "insert"}, BeginQuery(t, o)
  PROVE  PoolIInv'
<1>1. PoolTypeOK'
  BY DEF PoolIInv, PoolTypeOK, BeginQuery, Places
<1> USE DEF PoolIInv
<1>5. UNCHANGED <<pool, size, lost, mpcon>>
  BY DEF BeginQuery
<1>2. Exclusive'
  BY <1>5, SameConnections
<1>3. Conserved'
  BY <1>5, SameConnections
<1>4. RefusedOnlyWhenShort'
  BY NotRefused DEF BeginQuery, Places
<1> QED BY <1>1, <1>2, <1>3, <1>4 DEF PoolIInv

LEMMA GetOneConnectStep ==
  ASSUME PoolIInv, NEW t \in Users, GetOneConnect(t)
  PROVE  PoolIInv'
<1> USE DEF PoolIInv
<1>1. PICK k \in 0..(size - 1) :
        /\ mpcon' = [mpcon EXCEPT ![t] = pool[k + 1]]
        /\ Pop(k + 1)
        /\ Drop(k)
  BY DEF GetOneConnect
<1>2. /\ at[t] \in {"get", "again"}
      /\ at' = [at EXCEPT ![t] = "use"] /\ op' = op
  BY DEF GetOneConnect
<1>3. /\ pool \in Seq(Conns) /\ size = Len(pool) /\ k + 1 \in 1..Len(pool)
      /\ pool[k + 1] \in Conns /\ mpcon[t] = NoConn
  BY <1>1, <1>2 DEF PoolTypeOK, Conserved
<1>4. /\ pool' \in Seq(Conns)
      /\ Len(pool') = Len(pool) - (k + 1) /\ size' = Len(pool')
      /\ \A i \in 1..Len(pool') : pool'[i] = pool[i + (k + 1)]
      /\ Elements(pool') = {pool[i] : i \in ((k + 1) + 1)..Len(pool)}
  <2> DEFINE j == k + 1
  <2>1. pool' = SubSeq(pool, j + 1, Len(pool)) /\ size' = Len(pool) - j
    BY <1>1, <1>3 DEF Pop
  <2>2. j \in 0..Len(pool) /\ pool \in Seq(Conns)
    BY <1>3
  <2> HIDE DEF j
  <2>3. /\ pool' \in Seq(Conns)
        /\ Len(pool') = Len(pool) - j /\ size' = Len(pool')
        /\ \A i \in 1..(Len(pool) - j) : pool'[i] = pool[i + j]
        /\ Elements(pool') = {pool[i] : i \in (j + 1)..Len(pool)}
    BY <2>1, <2>2, Rest
  <2> QED BY <2>3 DEF j
<1>5. lost' = lost \cup {pool[i] : i \in 1..k}
  BY <1>1 DEF Drop, Dropped
<1>6. \A s \in Users : mpcon'[s] = IF s = t THEN pool[k + 1] ELSE mpcon[s]
  BY <1>1 DEF PoolTypeOK
<1>7. Holders' = Holders \cup {t} /\ t \notin Holders
  BY <1>3, <1>6, ConnsAssumption DEF Holders
<1>8. Held' = Held \cup {pool[k + 1]}
  BY <1>6, <1>7 DEF Held, Holders
<1>9. \A i \in 1..Len(pool) : pool[i] \in Elements(pool)
  BY DEF Elements
<1>10. PoolTypeOK'
  <2>1. lost' \in SUBSET Conns
    BY <1>3, <1>5 DEF PoolTypeOK
  <2>2. mpcon' \in [Users -> Conns \cup {NoConn}]
    BY <1>1, <1>3 DEF PoolTypeOK
  <2>3. size' \in Nat
    BY <1>4
  <2>4. \A s \in Users : mpcon'[s] # NoConn <=> at'[s] = "use"
    BY <1>2, <1>3, <1>6, ConnsAssumption DEF PoolTypeOK
  <2> QED BY <1>2, <1>4, <2>1, <2>2, <2>3, <2>4 DEF PoolTypeOK, Places
<1>11. Exclusive'
  <2>1. pool[k + 1] \notin Held
    BY <1>3, <1>9 DEF Exclusive
  <2>2. \A s, u \in Holders' : mpcon'[s] = mpcon'[u] => s = u
    BY <1>6, <1>7, <2>1 DEF Exclusive, Held, Holders
  <2>3. Held' \cap Elements(pool') = {}
    <3>1. pool[k + 1] \notin Elements(pool')
      BY <1>3, <1>4 DEF Exclusive
    <3>2. Elements(pool') \subseteq Elements(pool)
      BY <1>1, <1>3, <1>4, <1>9
    <3> QED BY <1>8, <3>1, <3>2 DEF Exclusive
  <2>4. \A i, j \in 1..Len(pool') : pool'[i] = pool'[j] => i = j
    BY <1>1, <1>3, <1>4 DEF Exclusive
  <2> QED BY <2>2, <2>3, <2>4 DEF Exclusive
<1>12. Conserved'
  <2>1. Elements(pool) = {pool[i] : i \in 1..k} \cup {pool[k + 1]} \cup Elements(pool')
    <3>1. 1..Len(pool) = 1..k \cup {k + 1} \cup ((k + 1) + 1)..Len(pool)
      BY <1>1, <1>3
    <3>2. Elements(pool) = {pool[i] : i \in 1..Len(pool)}
      BY DEF Elements
    <3> QED BY <1>4, <3>1, <3>2
  <2>2. {pool[i] : i \in 1..k} \cap ({pool[k + 1]} \cup Elements(pool')) = {}
    BY <1>1, <1>3, <1>4 DEF Exclusive
  <2>3. {pool[i] : i \in 1..k} \cap Held = {}
    BY <2>1 DEF Exclusive
  <2> HIDE DEF PoolIInv
  <2>4. Elements(pool) \cup Held = Conns \ lost
    BY DEF PoolIInv, Conserved, Usable
  <2> QED BY <1>4, <1>5, <1>8, <2>1, <2>2, <2>3, <2>4 DEF Conserved, Usable
<1>13. RefusedOnlyWhenShort'
  BY <1>2, <1>5, NotRefused DEF Places
<1> QED BY <1>10, <1>11, <1>12, <1>13

(***************************************************************************)
(* The thread that gets nothing leaves the queue empty, so the connections *)
(* that are left are held by the other threads.                            *)
(***************************************************************************)
LEMMA GetNothingStep ==
  ASSUME PoolIInv, NEW t \in Users, GetNothing(t)
  PROVE  PoolIInv'
<1> USE DEF PoolIInv
<1>1. /\ at[t] \in {"get", "again"}
      /\ at' = [at EXCEPT ![t] = Unlucky(t)] /\ Unlucky(t) \in {"again", "refused"}
      /\ mpcon' = mpcon /\ op' = op
  BY DEF GetNothing, Unlucky
<1>2. pool \in Seq(Conns) /\ size = Len(pool) /\ Len(pool) \in 0..Len(pool)
  BY DEF PoolTypeOK, Conserved
<1>3. pool' = <<>> /\ size' = 0 /\ Elements(pool') = {}
  <2>1. pool' = SubSeq(pool, Len(pool) + 1, Len(pool)) /\ size' = size - size
    BY <1>2 DEF GetNothing, Pop
  <2>2. pool' = <<>>
    BY <1>2, <2>1
  <2> QED BY <1>2, <2>1, <2>2 DEF Elements
<1>4. lost' = lost \cup Elements(pool)
  BY <1>2 DEF GetNothing, Drop, Dropped, Elements
<1>5. Holders' = Holders /\ Held' = Held
  BY <1>1 DEF Holders, Held
<1>6. PoolTypeOK'
  <2>1. lost' \in SUBSET Conns
    BY <1>2, <1>4 DEF PoolTypeOK, Elements
  <2> QED BY <1>1, <1>3, <2>1 DEF PoolTypeOK, Places
<1>7. Exclusive'
  BY <1>1, <1>3, <1>5 DEF Exclusive
<1>8. Usable' = Held
  BY <1>4 DEF Usable, Conserved, Exclusive
<1>9. Conserved'
  BY <1>3, <1>5, <1>8 DEF Conserved
<1>10. RefusedOnlyWhenShort'
  <2>1. Holders \subseteq Users \ {t}
    BY <1>1 DEF Holders, PoolTypeOK
  <2>2. /\ IsFiniteSet(Users \ {t})
        /\ Cardinality(Users \ {t}) = Cardinality(Users) - 1
    BY FS_RemoveElement, UsersAssumption
  <2>3. Cardinality(Holders) <= Cardinality(Users \ {t})
    BY <2>1, <2>2, FS_Subset
  <2>4. Cardinality(Usable') < Cardinality(Users)
    BY <1>8, <2>2, <2>3, HeldByHolders, FS_CardinalityType, UsersAssumption
  <2> QED BY <2>4 DEF RefusedOnlyWhenShort
<1> QED BY <1>6, <1>7, <1>9, <1>10

LEMMA FinishStep ==
  ASSUME PoolIInv, NEW t \in Users, Finish(t)
  PROVE  PoolIInv'
<1> USE DEF PoolIInv
<1> DEFINE c == mpcon[t]
<1>1. /\ at[t] = "use" /\ at' = [at EXCEPT ![t] = "idle"]
      /\ mpcon' = [mpcon EXCEPT ![t] = NoConn]
      /\ lost' = lost /\ op' = op
  BY DEF Finish
<1>2. c \in Conns /\ t \in Holders /\ c \in Held
  BY <1>1 DEF PoolTypeOK, Holders, Held
<1>3. /\ pool' = Append(pool, c) /\ size' = size + 1 /\ size = Len(pool)
      /\ pool \in Seq(Conns) /\ Len(pool) \in Nat
  BY <1>2, ConnsAssumption DEF Finish, Close, Push, PoolTypeOK, Conserved
<1>4. /\ pool' \in Seq(Conns) /\ Len(pool') = Len(pool) + 1
      /\ \A i \in 1..Len(pool) : pool'[i] = pool[i]
      /\ pool'[Len(pool) + 1] = c
  BY <1>2, <1>3
<1>5. Elements(pool') = Elements(pool) \cup {c}
  BY <1>3, <1>4 DEF Elements
<1>6. \A s \in Users : mpcon'[s] = IF s = t THEN NoConn ELSE mpcon[s]
  BY <1>1 DEF PoolTypeOK
<1>7. Holders' = Holders \ {t}
  BY <1>6 DEF Holders
<1>8. Held' = Held \ {c}
  BY <1>2, <1>6, <1>7 DEF Held, Holders, Exclusive
<1>9. PoolTypeOK'
  <2>1. \A s \in Users : mpcon'[s] # NoConn <=> at'[s] = "use"
    BY <1>1, <1>6 DEF PoolTypeOK
  <2> QED BY <1>1, <1>3, <1>4, <2>1 DEF PoolTypeOK, Places
<1>10. Exclusive'
  <2>1. c \notin Elements(pool)
    BY <1>2 DEF Exclusive
  <2>2. \A i, j \in 1..Len(pool') : pool'[i] = pool'[j] => i = j
    BY <1>3, <1>4, <2>1 DEF Exclusive, Elements
  <2>3. \A s, u \in Holders' : mpcon'[s] = mpcon'[u] => s = u
    BY <1>6, <1>7 DEF Exclusive, Holders
  <2>4. Held' \cap Elements(pool') = {}
    BY <1>5, <1>8 DEF Exclusive
  <2> QED BY <2>2, <2>3, <2>4 DEF Exclusive
<1>11. Conserved'
  BY <1>1, <1>2, <1>3, <1>4, <1>5, <1>8 DEF Conserved, Usable
<1>12. RefusedOnlyWhenShort'
  BY <1>1, NotRefused DEF Places
<1> QED BY <1>9, <1>10, <1>11, <1>12

LEMMA GiveUpStep ==
  ASSUME PoolIInv, NEW t \in Users, GiveUp(t)
  PROVE  PoolIInv'
<1>1. PoolTypeOK'
  BY DEF PoolIInv, PoolTypeOK, GiveUp, Close, Places
<1> USE DEF PoolIInv
<1>5. UNCHANGED <<pool, size, lost, mpcon>>
  BY DEF GiveUp, Close
<1>2. Exclusive'
  BY <1>5, SameConnections
<1>3. Conserved'
  BY <1>5, SameConnections
<1>4. RefusedOnlyWhenShort'
  BY NotRefused DEF GiveUp, Places
<1> QED BY <1>1, <1>2, <1>3, <1>4 DEF PoolIInv

(***************************************************************************)
(* The inductive invariant of the pool.                                    *)
(***************************************************************************)
LEMMA PoolNextIInv == PoolIInv /\ [PoolNext]_poolVars => PoolIInv'
<1> SUFFICES ASSUME PoolIInv, [PoolNext]_poolVars PROVE PoolIInv'
  OBVIOUS
<1>1. CASE UNCHANGED poolVars
  <2>1. PoolTypeOK'
    BY <1>1 DEF poolVars, PoolIInv, PoolTypeOK
  <2>2. Exclusive' /\ Conserved'
    BY <1>1, SameConnections DEF poolVars, PoolIInv
  <2>3. RefusedOnlyWhenShort'
    BY <1>1 DEF poolVars, PoolIInv, RefusedOnlyWhenShort, Usable
  <2> QED BY <2>1, <2>2, <2>3 DEF PoolIInv
<1>2. ASSUME NEW t \in Users, NEW o \in {"query", "insert"}, BeginQuery(t, o)
      PROVE  PoolIInv'
  BY <1>2, BeginStep
<1>3. ASSUME NEW t \in Users, GetOneConnect(t)
      PROVE  PoolIInv'
  BY <1>3, GetOneConnectStep
<1>4. ASSUME NEW t \in Users, GetNothing(t)
      PROVE  PoolIInv'
  BY <1>4, GetNothingStep
<1>5. ASSUME NEW t \in Users, Finish(t)
      PROVE  PoolIInv'
  BY <1>5, FinishStep
<1>6. ASSUME NEW t \in Users, GiveUp(t)
      PROVE  PoolIInv'
  BY <1>6, GiveUpStep
<1> QED BY <1>1, <1>2, <1>3, <1>4, <1>5, <1>6 DEF PoolNext

LEMMA PoolInvariance == PoolSpec => []PoolIInv
BY PoolInitIInv, PoolNextIInv, PTL DEF PoolSpec

(***************************************************************************)
(* The pool is well typed: a thread holds a connection exactly while it    *)
(* runs a statement (Query and Insert of mysql.cpp).                       *)
(***************************************************************************)
THEOREM PoolTypeCorrect == PoolSpec => []PoolTypeOK
BY PoolInvariance, PTL DEF PoolIInv

(***************************************************************************)
(* No connection is used by two threads, or queued while it is used.       *)
(***************************************************************************)
THEOREM OneUserEach == PoolSpec => []Exclusive
BY PoolInvariance, PTL DEF PoolIInv

(***************************************************************************)
(* Every connection that was not dropped is queued or held, on every path  *)
(* through Query and Insert.                                               *)
(***************************************************************************)
THEOREM NoneLeaks == PoolSpec => []Conserved
BY PoolInvariance, PTL DEF PoolIInv

(***************************************************************************)
(* A thread that finds the queue empty is one more than there are          *)
(* connections left.                                                       *)
(***************************************************************************)
THEOREM EnoughForAll == PoolSpec => []RefusedOnlyWhenShort
BY PoolInvariance, PTL DEF PoolIInv

-----------------------------------------------------------------------------
(* UserService. *)

(***************************************************************************)
(* A step of the service is a step of the handlers, or invisible to them.  *)
(***************************************************************************)
LEMMA StoreStep == [ServiceNext]_serviceVars => [Next]_vars
<1> SUFFICES ASSUME [ServiceNext]_serviceVars PROVE Next \/ UNCHANGED vars
  OBVIOUS
<1>1. ASSUME NEW t \in Threads, Serve(t) PROVE Next
  BY <1>1 DEF Serve, Next
<1>2. ASSUME NEW t \in Threads, NEW c \in Contexts, QueryRedis(t, c) PROVE Next
  BY <1>2, ContextsAssumption DEF QueryRedis, Next
<1>3. ASSUME NEW t \in Threads, NEW c \in Contexts, QueryRedisFails(t, c) PROVE Next
  BY <1>3 DEF QueryRedisFails, Next
<1>4. ASSUME NEW t \in Threads, HMSet(t) PROVE Next
  BY <1>4 DEF HMSet, Next
<1>5. ASSUME NEW t \in Threads, BeginStatement(t) \/ Connect(t) \/ Release(t)
      PROVE  UNCHANGED vars
  BY <1>5 DEF BeginStatement, Connect, Release
<1>6. ASSUME NEW t \in Threads, RunSelect(t) \/ RunInsert(t) PROVE Next
  BY <1>6 DEF RunSelect, RunInsert, Next
<1>7. ASSUME NEW t \in Threads, StatementFails(t) \/ NoConnection(t) PROVE Next
  BY <1>7 DEF StatementFails, StatementError, NoConnection, Next
<1>8. ASSUME NEW k \in Replicas, NEW i \in Ids, Replicate(k, i) PROVE Next
  BY <1>8 DEF Next
<1>9. ASSUME NEW c \in Contexts \cup {Writer}, Break(c) \/ FreedByListing(c)
      PROVE  UNCHANGED vars
  BY <1>9 DEF Break, FreedByListing
<1>10. ASSUME Restart PROVE Next
  BY <1>10 DEF Restart, Next
<1>11. ASSUME UNCHANGED serviceVars PROVE UNCHANGED vars
  BY <1>11 DEF serviceVars
<1> QED
  BY <1>1, <1>2, <1>3, <1>4, <1>5, <1>6, <1>7, <1>8, <1>9, <1>10, <1>11 DEF ServiceNext

(***************************************************************************)
(* It is a step of the pool, or invisible to it, or a restart.             *)
(***************************************************************************)
LEMMA PoolStep == [ServiceNext]_serviceVars => [PoolNext]_poolVars \/ Restart
<1> SUFFICES ASSUME [ServiceNext]_serviceVars
             PROVE  PoolNext \/ UNCHANGED poolVars \/ Restart
  OBVIOUS
<1>1. ASSUME NEW t \in Threads, NEW c \in Contexts, QueryRedis(t, c) \/ QueryRedisFails(t, c)
      PROVE  UNCHANGED poolVars
  BY <1>1 DEF QueryRedis, QueryRedisFails
<1>2. ASSUME NEW t \in Threads, HMSet(t) \/ RunSelect(t) \/ RunInsert(t)
      PROVE  UNCHANGED poolVars
  BY <1>2 DEF HMSet, RunSelect, RunInsert
<1>3. ASSUME NEW t \in Threads, BeginStatement(t) PROVE PoolNext
  <2>1. t \in Users /\ Statement(t) \in {"query", "insert"}
    BY WorkersAssumption DEF Statement
  <2> QED BY <1>3, <2>1 DEF BeginStatement, PoolNext
<1>4. ASSUME NEW t \in Threads, Connect(t) \/ NoConnection(t) \/ StatementFails(t) \/ Release(t)
      PROVE  PoolNext
  BY <1>4, WorkersAssumption DEF Connect, NoConnection, StatementFails, Release, PoolNext
<1>5. ASSUME NEW c \in Contexts \cup {Writer}, Break(c) \/ FreedByListing(c)
      PROVE  UNCHANGED poolVars
  BY <1>5 DEF Break, FreedByListing
<1>6. ASSUME UNCHANGED serviceVars PROVE UNCHANGED poolVars
  BY <1>6 DEF serviceVars
<1> QED BY <1>1, <1>2, <1>3, <1>4, <1>5, <1>6 DEF ServiceNext

(***************************************************************************)
(* A restart leaves a pool as SetConf makes it.                            *)
(***************************************************************************)
LEMMA RestartedPool == Restart => PoolInit'
<1> SUFFICES ASSUME Restart PROVE PoolInit'
  OBVIOUS
<1>0. PICK n \in 0..Cardinality(Conns) : \E s \in [1..n -> Conns] :
        /\ \A i, j \in 1..n : s[i] = s[j] => i = j
        /\ pool' = s /\ size' = n /\ lost' = Conns \ Elements(s)
  BY DEF Restart
<1>1. PICK s \in [1..n -> Conns] :
        /\ \A i, j \in 1..n : s[i] = s[j] => i = j
        /\ pool' = s /\ size' = n /\ lost' = Conns \ Elements(s)
  BY <1>0
<1>2. /\ at' = [t \in Users |-> "idle"]
      /\ mpcon' = [t \in Users |-> NoConn]
      /\ op' = [t \in Users |-> "query"]
  BY DEF Restart
<1>3. n \in Nat /\ DOMAIN s = 1..n /\ Len(s) = n
  BY <1>1, FS_CardinalityType, ConnsAssumption
<1>4. s \in UNION {[1..m -> Conns] : m \in 0..Cardinality(Conns)}
  BY <1>1
<1> QED BY <1>1, <1>2, <1>3, <1>4 DEF PoolInit

(***************************************************************************)
(* What is proved of the handlers on their own holds of the service: its   *)
(* steps are theirs, or leave the stores and the handlers alone.           *)
(***************************************************************************)
LEMMA ServiceRunsHandlers == ServiceSpec => Spec
<1>1. ServiceInit => Init
  BY DEF ServiceInit
<1> QED BY <1>1, StoreStep, PTL DEF ServiceSpec, Spec

(***************************************************************************)
(* Redis agrees with MySQL up to what its format makes of an account,      *)
(* whatever connections do ...                                             *)
(***************************************************************************)
THEOREM ServiceCacheAgrees == ServiceSpec => []CacheAgrees
BY ServiceRunsHandlers, RedisAgreesWithMysql, PTL

(***************************************************************************)
(* ... and the service is a directory of accounts, with the limits of      *)
(* UserDirectory, whether user.id is a key or not.                         *)
(***************************************************************************)
THEOREM ServiceIsADirectory == ServiceSpec => ImplementsDirectory
BY ServiceRunsHandlers, HandlersAreADirectory, PTL

(***************************************************************************)
(* Every way through the handlers, and every restart, keeps connections    *)
(* exclusive and accounted for, and turns a worker away only when there    *)
(* are fewer of them than workers.                                         *)
(***************************************************************************)
THEOREM ServicePool == ServiceSpec => [](Exclusive /\ Conserved /\ RefusedOnlyWhenShort)
<1>1. ServiceInit => PoolIInv
  BY PoolInitIInv DEF ServiceInit
<1>2. PoolIInv /\ [ServiceNext]_serviceVars => PoolIInv'
  <2>1. Restart => PoolIInv'
    BY RestartedPool, PoolInitIInv, PTL
  <2> QED BY <2>1, PoolStep, PoolNextIInv
<1>3. PoolIInv => Exclusive /\ Conserved /\ RefusedOnlyWhenShort
  BY DEF PoolIInv
<1> QED BY <1>1, <1>2, <1>3, PTL DEF ServiceSpec
=============================================================================
