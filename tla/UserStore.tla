----------------------------- MODULE UserStore -----------------------------
(***************************************************************************)
(* REGISTER and LOGIN, src/server/control.cpp lines 49 to 187.  The        *)
(* accounts are rows of the MySQL table user; an account that has logged   *)
(* in is also a hash in Redis, written to the master and copied to two     *)
(* replicas some time later.  Both handlers look at a replica first and at *)
(* MySQL only if it has nothing.  The workers interleave between the       *)
(* queries, and each query may fail.                                       *)
(*                                                                         *)
(* The schema of the table is not part of the repository: UniqueId says    *)
(* whether it refuses a second row with the same id.                       *)
(*                                                                         *)
(* Both stores get an account as text inside a command.  sprintf puts it   *)
(* between the quotes of an SQL string, where quotes and backslashes mean  *)
(* something else; and Redis::Insert gives its command to redisCommand as  *)
(* the format (redis.cpp line 431), where %% stands for %, any other %     *)
(* takes an argument that was not given, and a space ends a word.  Kept[a] *)
(* and Cached[a] are the accounts that may come of the text of a, whatever *)
(* the name beside it: {a} if it is made of letters and digits.            *)
(***************************************************************************)
EXTENDS Naturals, Sequences, FiniteSets

CONSTANTS Ids,         \* the ids users choose
          Accounts,    \* the pairs of password and type they choose
          NoAccount,   \* an empty reply
          Threads,     \* the workers (5)
          Replicas,    \* the Redis replicas (2, on ports 6380 and 6381)
          NoRequest,   \* a worker that has none
          UniqueId,    \* whether user.id is a key of the table
          Kept,        \* what MySQL may keep of an account, see above
          Cached       \* what Redis may keep of it

ASSUME NoAccountAssumption == NoAccount \notin Accounts
ASSUME UniqueIdAssumption == UniqueId \in BOOLEAN
ASSUME TextAssumption ==
  /\ Kept \in [Accounts -> SUBSET Accounts]
  /\ Cached \in [Accounts -> SUBSET Accounts]

Requests == [op : {"register", "login"}, id : Ids, account : Accounts]

ASSUME NoRequestAssumption == NoRequest \notin Requests

VARIABLES
  rows,      \* the rows of each id in MySQL, oldest first
  cache,     \* user:id:<id> in the Redis master
  replica,   \* and in each replica
  request,   \* the request each worker handles
  verdict,   \* what it answers
  pc         \* where it is in the handler

vars == <<rows, cache, replica, request, verdict, pc>>
stores == <<rows, cache, replica>>

Init ==
  /\ rows = [i \in Ids |-> <<>>]
  /\ cache = [i \in Ids |-> NoAccount]
  /\ replica = [k \in Replicas |-> cache]
  /\ request = [t \in Threads |-> NoRequest]
  /\ verdict = [t \in Threads |-> "none"]
  /\ pc = [t \in Threads |-> "idle"]

Register(t) == request[t].op = "register"
Id(t) == request[t].id

Goto(t, l) == pc' = [pc EXCEPT ![t] = l]

Answer(t, v) ==
  /\ verdict' = [verdict EXCEPT ![t] = v]
  /\ Goto(t, IF ~Register(t) /\ v = "ok" /\ pc[t] = "select" THEN "cache" ELSE "done")

Receive(t, r) ==
  /\ pc[t] = "idle"
  /\ request' = [request EXCEPT ![t] = r]
  /\ Goto(t, "redis")
  /\ UNCHANGED <<stores, verdict>>

(***************************************************************************)
(* Lines 94 to 98 and 165 to 186, and the same for a reply of Redis (lines *)
(* 74 to 79 and 136 to 152): what an account that was found means for the  *)
(* request.                                                                *)
(***************************************************************************)
AnyPassword(t, found) == IF Register(t) THEN "exists" ELSE "ok"   \* mutant
Judge(t, found) ==
  IF Register(t) THEN "exists"
  ELSE IF found = request[t].account THEN "ok" ELSE "wrong"

(***************************************************************************)
(* hgetall on one of the replicas, by turns of a counter all workers share *)
(***************************************************************************)
AskRedis(t, k) ==
  /\ pc[t] = "redis"
  /\ LET found == replica[k][Id(t)]
     IN  \/ /\ found # NoAccount
            /\ Answer(t, Judge(t, found))
         \/ /\ found = NoAccount
            /\ Goto(t, "select") /\ UNCHANGED verdict
  /\ UNCHANGED <<stores, request>>

Select(t) == rows[Id(t)]

AskMysql(t) ==
  /\ pc[t] = "select"
  /\ \/ /\ Select(t) # <<>>
        /\ Answer(t, Judge(t, Select(t)[1]))
     \/ /\ Select(t) = <<>> /\ Register(t)
        /\ Goto(t, "insert") /\ UNCHANGED verdict
     \/ /\ Select(t) = <<>> /\ ~Register(t)
        /\ Answer(t, "absent")
  /\ UNCHANGED <<stores, request>>

AddRow(t) ==
  /\ UniqueId => rows[Id(t)] = <<>>
  /\ \E a \in Kept[request[t].account] : rows' = [rows EXCEPT ![Id(t)] = Append(@, a)]

(***************************************************************************)
(* The insert may also be reported as failed after the row was stored,     *)
(* when the connection is lost before the reply.                           *)
(***************************************************************************)
InsertRow(t) ==
  /\ pc[t] = "insert"
  /\ AddRow(t)
  /\ \E v \in {"ok", "error"} : Answer(t, v)
  /\ UNCHANGED <<cache, replica, request>>

(***************************************************************************)
(* A query of Redis or MySQL fails, or the insert is refused.              *)
(***************************************************************************)
QueryFails(t) ==
  /\ pc[t] \in {"redis", "select", "insert"}
  /\ Answer(t, "error")
  /\ UNCHANGED <<stores, request>>

(***************************************************************************)
(* hmset, after the answer was sent, when MySQL confirmed a login.         *)
(***************************************************************************)
Confirmed(t) == Cached[request[t].account]

WriteCache(t) ==
  /\ pc[t] = "cache"
  /\ \E a \in Confirmed(t) : cache' = [cache EXCEPT ![Id(t)] = a]
  /\ Goto(t, "done")
  /\ UNCHANGED <<rows, replica, request, verdict>>

WriteCacheFails(t) ==
  /\ pc[t] = "cache"
  /\ Goto(t, "done")
  /\ UNCHANGED <<stores, request, verdict>>

(***************************************************************************)
(* The master does not answer the PING of hmset, or a question handler on  *)
(* another worker meets a Redis that does not: the process exits, and is   *)
(* started again.                                                          *)
(***************************************************************************)
Exit ==
  /\ request' = [t \in Threads |-> NoRequest]
  /\ verdict' = [t \in Threads |-> "none"]
  /\ pc' = [t \in Threads |-> "idle"]
  /\ UNCHANGED stores

Return(t) ==
  /\ pc[t] = "done"
  /\ request' = [request EXCEPT ![t] = NoRequest]
  /\ verdict' = [verdict EXCEPT ![t] = "none"]
  /\ Goto(t, "idle")
  /\ UNCHANGED stores

(***************************************************************************)
(* Redis copies a hash to a replica.                                       *)
(***************************************************************************)
Replicate(k, i) ==
  /\ replica[k][i] # cache[i]
  /\ replica' = [replica EXCEPT ![k][i] = cache[i]]
  /\ UNCHANGED <<rows, cache, request, verdict, pc>>

Next ==
  \/ \E t \in Threads :
       \/ \E r \in Requests : Receive(t, r)
       \/ \E k \in Replicas : AskRedis(t, k)
       \/ AskMysql(t) \/ InsertRow(t) \/ QueryFails(t)
       \/ WriteCache(t) \/ WriteCacheFails(t) \/ Return(t)
  \/ \E k \in Replicas, i \in Ids : Replicate(k, i)
  \/ Exit

Spec == Init /\ [][Next]_vars

-----------------------------------------------------------------------------
(* Properties. *)

Verdicts == {"none", "ok", "exists", "absent", "wrong", "error"}

(***************************************************************************)
(* The variables have their types, and a worker has a request exactly      *)
(* while it is in a handler and a verdict exactly after the decision.      *)
(***************************************************************************)
TypeOK ==
  /\ rows \in [Ids -> Seq(Accounts)]
  /\ cache \in [Ids -> Accounts \cup {NoAccount}]
  /\ replica \in [Replicas -> [Ids -> Accounts \cup {NoAccount}]]
  /\ request \in [Threads -> Requests \cup {NoRequest}]
  /\ verdict \in [Threads -> Verdicts]
  /\ pc \in [Threads -> {"idle", "redis", "select", "insert", "cache", "done"}]
  /\ \A t \in Threads :
       /\ request[t] = NoRequest <=> pc[t] = "idle"
       /\ verdict[t] = "none" <=> pc[t] \in {"idle", "redis", "select", "insert"}

(***************************************************************************)
(* Whatever Redis holds for an id, on the master or on a replica, is what  *)
(* the format makes of the account MySQL answers with, so that account     *)
(* itself unless its text has a % or a space; although it is written after *)
(* the answer, from the request, and by several workers, and also when ids *)
(* are repeated.                                                           *)
(***************************************************************************)
Agrees(i, a) == a # NoAccount => rows[i] # <<>> /\ a \in Cached[rows[i][1]]

CacheAgrees ==
  \A i \in Ids :
    /\ Agrees(i, cache[i])
    /\ \A k \in Replicas : Agrees(i, replica[k][i])

(***************************************************************************)
(* Register looks before it inserts, without a transaction.  Even if the   *)
(* table accepts repeated ids, an id is stored at most once by each worker *)
(* that looked before the first row appeared, however often it is          *)
(* registered.                                                             *)
(***************************************************************************)
DuplicatesBounded == \A i \in Ids : Len(rows[i]) <= Cardinality(Threads)

(***************************************************************************)
(* The handlers implement the directory: the first account registered for  *)
(* an id is the one that counts, whichever store answers; its user can log *)
(* in and nobody else, except as far as the texts of the commands change   *)
(* the account; and a registration is lost to another only if both had     *)
(* looked before the first was stored and user.id is no key.               *)
(***************************************************************************)
Directory ==
  INSTANCE UserDirectory WITH
    accounts <- [i \in Ids |-> IF rows[i] = <<>> THEN NoAccount ELSE rows[i][1]],
    looked <- {t \in Threads : pc[t] = "insert"}

ImplementsDirectory == Directory!Spec
=============================================================================
