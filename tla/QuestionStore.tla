--------------------------- MODULE QuestionStore ---------------------------
(***************************************************************************)
(* The question handlers, src/server/control.cpp lines 194 to 479.  The    *)
(* questions live in Redis only: one hash for each type and degree, with a *)
(* field for each question.  Writes go to the master; reads go to one of   *)
(* two replicas, by turns of a counter all workers share, and a replica    *)
(* applies the master's writes some time later and in their order.         *)
(*                                                                         *)
(* A field is named by its hash and a random number, so a question is      *)
(* identified by the pair of them.                                         *)
(***************************************************************************)
EXTENDS Naturals, Integers, Sequences, FiniteSets, FiniteSetsExt

CONSTANTS Keys,      \* the hashes in the order GetAllQues reads them (25)
          Numbers,   \* the numbers rand() yields (1 to 9999)
          Contents,  \* the questions
          Absent,    \* an empty reply
          Threads,   \* the workers (5)
          Replicas,  \* the replicas (2)
          Ops,       \* the requests that are sent
          MaxLag,    \* bound: the writes a replica is behind
          MaxLost    \* bound: the writes that nobody is told of, see silent

ASSUME OpsAssumption == Ops \subseteq {"insert", "delete", "getall"}
ASSUME AbsentAssumption == Absent \notin Contents
ASSUME NumbersAssumption == Len(Keys) \in Nat /\ IsFiniteSet(Numbers)
ASSUME ThreadsAssumption == IsFiniteSet(Threads) /\ MaxLost \in Nat

KeySet == {Keys[i] : i \in 1..Len(Keys)}
Questions == KeySet \X Numbers

VARIABLES
  master,    \* the master's fields
  replica,   \* and each replica's
  pending,   \* the writes each replica has not applied, oldest first
  op,        \* the request each worker handles
  pc,        \* where it is in the handler
  field,     \* InsertQues: field.  DelQues: the field to delete
  probe,     \* InsertQues: the field that cmd asks for
  content,   \* InsertQues: what the format of HSET makes of msg (246)
  index,     \* GetAllQues: which of Keys is next
  rsp,       \* GetAllQues: the questions found so far
  reply,     \* the number in the reply to HSET or HDEL
  answer,    \* what the worker sends
  balance,   \* history: inserts answered with success less such deletes
  silent,    \* history: inserts that added a question and were never
             \* answered with success, less deletes that took one away
  seen,      \* history: what some replica held at some time of a GetAllQues
  stable     \* history: what every replica held all that time

stores == <<master, replica, pending>>
worker == <<op, pc, field, probe, content, index, rsp, reply, answer>>
account == <<balance, silent>>
history == <<account, seen, stable>>
vars == <<stores, worker, history>>

NoField == <<Absent, Absent>>
Has(store, q) == store[q] # Absent
HasKey(store, k) == \E n \in Numbers : Has(store, <<k, n>>)
Fields(store, k) == {<<q, store[q]>> : q \in {p \in {k} \X Numbers : Has(store, p)}}
All(store) == UNION {Fields(store, k) : k \in KeySet}

Init ==
  /\ master = [q \in Questions |-> Absent]
  /\ replica = [k \in Replicas |-> master]
  /\ pending = [k \in Replicas |-> <<>>]
  /\ op = [t \in Threads |-> "none"]
  /\ pc = [t \in Threads |-> "idle"]
  /\ field = [t \in Threads |-> NoField]
  /\ probe = [t \in Threads |-> NoField]
  /\ content = [t \in Threads |-> Absent]
  /\ index = [t \in Threads |-> 0]
  /\ rsp = [t \in Threads |-> {}]
  /\ reply = [t \in Threads |-> 0]
  /\ answer = [t \in Threads |-> "none"]
  /\ balance = 0
  /\ silent = 0
  /\ seen = [t \in Threads |-> {}]
  /\ stable = [t \in Threads |-> {}]

Goto(t, l) == pc' = [pc EXCEPT ![t] = l]
Answer(t, a) == Goto(t, "done") /\ answer' = [answer EXCEPT ![t] = a]

-----------------------------------------------------------------------------
(* Redis. *)

(***************************************************************************)
(* The master sets a field, or deletes it if c is Absent.                  *)
(***************************************************************************)
Write(q, c) ==
  /\ \A k \in Replicas : Len(pending[k]) < MaxLag
  /\ master' = [master EXCEPT ![q] = c]
  /\ pending' = [k \in Replicas |-> Append(pending[k], <<q, c>>)]
  /\ UNCHANGED replica

Apply(k) ==
  /\ pending[k] # <<>>
  /\ replica' = [replica EXCEPT ![k][Head(pending[k])[1]] = Head(pending[k])[2]]
  /\ pending' = [pending EXCEPT ![k] = Tail(@)]
  /\ seen' = [t \in Threads |->
                IF op[t] = "getall" THEN seen[t] \cup All(replica'[k]) ELSE {}]
  /\ stable' = [t \in Threads |->
                  IF op[t] = "getall" THEN stable[t] \cap All(replica'[k]) ELSE {}]
  /\ UNCHANGED <<master, worker, account>>

(***************************************************************************)
(* All writes go through redisWrite, whose lock is held until the reply is *)
(* there.                                                                  *)
(***************************************************************************)
WriterFree == \A t \in Threads : pc[t] # "reply"

-----------------------------------------------------------------------------
(* What the answers tell. *)

(***************************************************************************)
(* A worker whose write changed the number of questions, and that has not  *)
(* sent an answer yet, but will send success if nothing happens.           *)
(***************************************************************************)
Owes(t, o) ==
  /\ op[t] = o /\ reply[t] = 1
  /\ pc[t] = "reply" \/ (pc[t] = "done" /\ answer[t] = "ok")

Owing(o) == {t \in Threads : Owes(t, o)}

Effect(t) == IF op[t] = "insert" THEN reply[t] ELSE -reply[t]

Forget(n) ==
  /\ silent' = silent + n
  /\ silent' \in -MaxLost..MaxLost
  /\ UNCHANGED balance

-----------------------------------------------------------------------------
(* InsertQues. *)

Insert(t, q, c) ==
  /\ "insert" \in Ops /\ pc[t] = "idle"
  /\ op' = [op EXCEPT ![t] = "insert"]
  /\ field' = [field EXCEPT ![t] = q]
  /\ content' = [content EXCEPT ![t] = c]
  /\ Goto(t, "exists")
  /\ UNCHANGED <<stores, probe, index, rsp, reply, answer, history>>

Exists(t, k) ==
  /\ pc[t] = "exists"
  /\ \/ /\ HasKey(replica[k], field[t][1])
        /\ probe' = [probe EXCEPT ![t] = field[t]]
        /\ Goto(t, "hexists")
     \/ /\ ~HasKey(replica[k], field[t][1])
        /\ Goto(t, "write") /\ UNCHANGED probe
  /\ UNCHANGED <<stores, op, field, content, index, rsp, reply, answer, history>>

(***************************************************************************)
(* Lines 228 to 236: while the field exists, another number is drawn,      *)
(* maybe the same one, but cmd goes on asking for the first.               *)
(***************************************************************************)
AskForTheNew(t, k) == Has(replica[k], field[t])   \* mutant
Found(t, k) == Has(replica[k], probe[t])

HExists(t, k) ==
  /\ pc[t] = "hexists"
  /\ \/ Found(t, k) /\ Goto(t, "draw") /\ UNCHANGED probe
     \/ /\ ~Found(t, k)
        /\ Goto(t, "write")
        /\ probe' = [probe EXCEPT ![t] = NoField]
  /\ UNCHANGED <<stores, op, field, content, index, rsp, reply, answer, history>>

Draw(t) ==
  /\ pc[t] = "draw"
  /\ \E n \in Numbers : field' = [field EXCEPT ![t][2] = n]
  /\ Goto(t, "hexists")
  /\ UNCHANGED <<stores, op, probe, content, index, rsp, reply, answer, history>>

(***************************************************************************)
(* HSET stores the question in any case; it replies 0 if the field was     *)
(* there, and Redis::Insert takes that for a failure.                      *)
(***************************************************************************)
HSet(t) ==
  /\ pc[t] = "write" /\ op[t] = "insert" /\ WriterFree
  /\ Write(field[t], content[t])
  /\ reply' = [reply EXCEPT ![t] = IF Has(master, field[t]) THEN 0 ELSE 1]
  /\ Goto(t, "reply")
  /\ UNCHANGED <<op, field, probe, content, index, rsp, answer, history>>

-----------------------------------------------------------------------------
(* DelQues: the client sends a field, and its hash is read off its name.   *)

Delete(t, q) ==
  /\ "delete" \in Ops /\ pc[t] = "idle"
  /\ op' = [op EXCEPT ![t] = "delete"]
  /\ field' = [field EXCEPT ![t] = q]
  /\ Goto(t, "write")
  /\ UNCHANGED <<stores, probe, content, index, rsp, reply, answer, history>>

HDel(t) ==
  /\ pc[t] = "write" /\ op[t] = "delete" /\ WriterFree
  /\ IF Has(master, field[t]) THEN Write(field[t], Absent) ELSE UNCHANGED stores
  /\ reply' = [reply EXCEPT ![t] = IF Has(master, field[t]) THEN 1 ELSE 0]
  /\ Goto(t, "reply")
  /\ UNCHANGED <<op, field, probe, content, index, rsp, answer, history>>

(***************************************************************************)
(* Redis::Insert and Redis::Del read the reply, InsertQues and DelQues     *)
(* choose the answer.                                                      *)
(***************************************************************************)
AnyReply(t) == "ok"   \* mutant: the number in the reply is ignored
Result(t) == IF reply[t] = 0 THEN "failed" ELSE "ok"

ReadReply(t) ==
  /\ pc[t] = "reply"
  /\ Answer(t, Result(t))
  /\ UNCHANGED <<stores, op, field, probe, content, index, rsp, reply, history>>

-----------------------------------------------------------------------------
(* GetAllQues: the five loops over the types differ in the name only.      *)

GetAll(t) ==
  /\ "getall" \in Ops /\ pc[t] = "idle"
  /\ op' = [op EXCEPT ![t] = "getall"]
  /\ index' = [index EXCEPT ![t] = 1]
  /\ Goto(t, "scan")
  /\ seen' = [seen EXCEPT ![t] = UNION {All(replica[k]) : k \in Replicas}]
  /\ stable' = [stable EXCEPT ![t] = {x \in seen'[t] : \A k \in Replicas : x \in All(replica[k])}]
  /\ UNCHANGED <<stores, field, probe, content, rsp, reply, answer, account>>

Key(t) == Keys[index[t]]

SkipTwo(t) == index' = [index EXCEPT ![t] = @ + 2]   \* mutant
NextKey(t) == index' = [index EXCEPT ![t] = @ + 1]

(***************************************************************************)
(* "exists", then hgetall, each on a replica of its own.                   *)
(***************************************************************************)
ExistsKey(t, k) ==
  /\ pc[t] = "scan" /\ index[t] <= Len(Keys)
  /\ \/ /\ HasKey(replica[k], Key(t))
        /\ Goto(t, "hgetall") /\ UNCHANGED index
     \/ /\ ~HasKey(replica[k], Key(t))
        /\ NextKey(t) /\ UNCHANGED pc
  /\ UNCHANGED <<stores, op, field, probe, content, rsp, reply, answer, history>>

HGetAll(t, k) ==
  /\ pc[t] = "hgetall"
  /\ rsp' = [rsp EXCEPT ![t] = @ \cup Fields(replica[k], Key(t))]
  /\ NextKey(t)
  /\ Goto(t, "scan")
  /\ UNCHANGED <<stores, op, field, probe, content, reply, answer, history>>

AllListed(t) ==
  /\ pc[t] = "scan" /\ index[t] > Len(Keys)
  /\ Answer(t, "ok")
  /\ UNCHANGED <<stores, op, field, probe, content, index, rsp, reply, history>>

-----------------------------------------------------------------------------

(***************************************************************************)
(* A command gets no reply or an error, before it had an effect.           *)
(***************************************************************************)
CommandFails(t) ==
  /\ pc[t] \in {"exists", "hexists", "write", "hgetall"} \/ (pc[t] = "scan" /\ index[t] <= Len(Keys))
  /\ Answer(t, "failed")
  /\ UNCHANGED <<stores, op, field, probe, content, index, rsp, reply, history>>

(***************************************************************************)
(* The reply to a write is lost: the answer is failure, although the write *)
(* was done.                                                               *)
(***************************************************************************)
ReplyLost(t) ==
  /\ pc[t] = "reply"
  /\ Answer(t, "failed")
  /\ Forget(Effect(t))
  /\ UNCHANGED <<stores, op, field, probe, content, index, rsp, reply, seen, stable>>

Reset(T) ==
  /\ op' = [t \in Threads |-> IF t \in T THEN "none" ELSE op[t]]
  /\ pc' = [t \in Threads |-> IF t \in T THEN "idle" ELSE pc[t]]
  /\ field' = [t \in Threads |-> IF t \in T THEN NoField ELSE field[t]]
  /\ probe' = [t \in Threads |-> IF t \in T THEN NoField ELSE probe[t]]
  /\ content' = [t \in Threads |-> IF t \in T THEN Absent ELSE content[t]]
  /\ index' = [t \in Threads |-> IF t \in T THEN 0 ELSE index[t]]
  /\ rsp' = [t \in Threads |-> IF t \in T THEN {} ELSE rsp[t]]
  /\ reply' = [t \in Threads |-> IF t \in T THEN 0 ELSE reply[t]]
  /\ answer' = [t \in Threads |-> IF t \in T THEN "none" ELSE answer[t]]
  /\ seen' = [t \in Threads |-> IF t \in T THEN {} ELSE seen[t]]
  /\ stable' = [t \in Threads |-> IF t \in T THEN {} ELSE stable[t]]
  /\ UNCHANGED stores

(***************************************************************************)
(* SendResult, and the handler returns.  The client may be gone.           *)
(***************************************************************************)
Tells(t) == op[t] # "getall" /\ answer[t] = "ok"

Send(t) ==
  /\ pc[t] = "done"
  /\ Reset({t})
  /\ balance' = IF Tells(t) THEN balance + (IF op[t] = "insert" THEN 1 ELSE -1) ELSE balance
  /\ UNCHANGED silent

SendFails(t) ==
  /\ pc[t] = "done"
  /\ Reset({t})
  /\ Forget(IF Tells(t) THEN Effect(t) ELSE 0)

(***************************************************************************)
(* A Redis that does not answer the PING of Exist, Insert or Del makes the *)
(* process exit, whatever the other workers have just written; it is       *)
(* started again, and Redis has what it had.                               *)
(***************************************************************************)
Exit ==
  /\ Reset(Threads)
  /\ Forget(Cardinality(Owing("insert")) - Cardinality(Owing("delete")))

InsertQues(t) == (\E k \in Replicas : Exists(t, k) \/ HExists(t, k)) \/ Draw(t) \/ HSet(t)
GetAllQues(t) == (\E k \in Replicas : ExistsKey(t, k) \/ HGetAll(t, k)) \/ AllListed(t)
Handle(t) == InsertQues(t) \/ HDel(t) \/ ReadReply(t) \/ GetAllQues(t) \/ Send(t)

Next ==
  \/ \E t \in Threads :
       \/ \E q \in Questions : Delete(t, q) \/ \E c \in Contents : Insert(t, q, c)
       \/ GetAll(t)
       \/ Handle(t) \/ CommandFails(t) \/ ReplyLost(t) \/ SendFails(t)
  \/ \E k \in Replicas : Apply(k)
  \/ Exit

Spec == Init /\ [][Next]_vars

(***************************************************************************)
(* The workers run, and the replicas catch up.                             *)
(***************************************************************************)
FairSpec ==
  /\ Spec
  /\ \A t \in Threads : WF_vars(Handle(t))
  /\ \A k \in Replicas : WF_vars(Apply(k))

-----------------------------------------------------------------------------
(* Properties. *)

(***************************************************************************)
(* The answers account for the questions in Redis: there is one for each   *)
(* insert whose success was sent, less one for each such delete, although  *)
(* inserts may draw the same number, and overwrite each other, and two     *)
(* clients may delete the same question.  The difference is made by the    *)
(* workers that have written and not answered yet, and by those that never *)
(* did: the reply or the answer was lost, or another worker ended the      *)
(* process in between.                                                     *)
(***************************************************************************)
AnswersAccount ==
  Cardinality(All(master)) =
    balance + silent + Cardinality(Owing("insert")) - Cardinality(Owing("delete"))

(***************************************************************************)
(* A question changes or disappears only by a delete of it, or by an       *)
(* insert whose reply is 0; and no insert whose reply was 0 is answered    *)
(* with success.                                                           *)
(***************************************************************************)
NoSilentLoss ==
  [][/\ \A q \in Questions :
          Has(master, q) /\ master'[q] # master[q] =>
            \E t \in Threads :
              /\ field[t] = q /\ pc[t] = "write"
              /\ op[t] = "delete" \/ (op[t] = "insert" /\ reply'[t] = 0)
     /\ \A t \in Threads : op[t] = "insert" /\ answer'[t] = "ok" => reply[t] = 1]_vars

(***************************************************************************)
(* GetAllQues reads the hashes one after the other from replicas that lag  *)
(* differently.  Still, what every replica held all the time is listed,    *)
(* and what none held at any time is not.                                  *)
(***************************************************************************)
ListingSound ==
  \A t \in Threads :
    op[t] = "getall" /\ answer[t] = "ok" => stable[t] \subseteq rsp[t] /\ rsp[t] \subseteq seen[t]

(***************************************************************************)
(* InsertQues turns in its loop for ever only if the field it drew first   *)
(* stays in a replica, since line 235 asks for that one again and again;   *)
(* the numbers it draws meanwhile do not matter.                           *)
(***************************************************************************)
LoopsOnlyIfStored ==
  \A t \in Threads :
    \/ []<>(pc[t] \notin {"hexists", "draw"})
    \/ []<>(\E k \in Replicas : probe[t] # NoField /\ Has(replica[k], probe[t]))
=============================================================================
