----------------------------- MODULE MysqlPool -----------------------------
(***************************************************************************)
(* The pool of MySQL connections of the question server, class MysqlPool   *)
(* of src/server/mysql.cpp.  The workers of the thread pool share a queue  *)
(* of connections; each query takes one, uses it without the lock, and     *)
(* puts it back.  A connection that no longer answers is reconnected while *)
(* the lock is held; if that fails it is dropped for good, and nothing     *)
(* ever creates another one.                                               *)
(*                                                                         *)
(* GetOneConnect and Close hold poolLock from end to end, so each is one   *)
(* step.  The table that the queries read and write is not modelled here.  *)
(***************************************************************************)
EXTENDS Naturals, Sequences, FiniteSets

CONSTANTS Users,     \* the workers that use the pool (5)
          Conns,     \* the connections SetConf tries to create (5, at most MAXSIZE)
          NoConn     \* a null pointer

ASSUME UsersAssumption == IsFiniteSet(Users)
ASSUME ConnsAssumption == IsFiniteSet(Conns) /\ NoConn \notin Conns

VARIABLES
  pool,     \* _mysqlPool, oldest first
  size,     \* _size
  lost,     \* history: the connections dropped, or never made
  at,       \* where each thread is in Query or Insert
  mpcon,    \* the connection it holds
  op        \* which of the two it runs

poolVars == <<pool, size, lost, at, mpcon, op>>

(***************************************************************************)
(* A thread outside the pool is "idle"; it calls GetOneConnect at "get",   *)
(* and a Query that got nothing once more at "again", after its sleep;     *)
(* "refused" is about to report that it got none; "use" runs the           *)
(* statement.                                                              *)
(***************************************************************************)
Places == {"idle", "get", "again", "refused", "use"}

Elements(s) == {s[i] : i \in 1..Len(s)}
Holders == {t \in Users : mpcon[t] # NoConn}
Held == {mpcon[t] : t \in Holders}
Usable == Conns \ lost

(***************************************************************************)
(* SetConf: each call of CreateOneConnect that succeeds queues a           *)
(* connection, one that fails is not repeated.                             *)
(***************************************************************************)
PoolInit ==
  /\ pool \in {s \in UNION {[1..n -> Conns] : n \in 0..Cardinality(Conns)} :
                 \A i, j \in DOMAIN s : s[i] = s[j] => i = j}
  /\ size = Len(pool)
  /\ lost = Conns \ Elements(pool)
  /\ at = [t \in Users |-> "idle"]
  /\ mpcon = [t \in Users |-> NoConn]
  /\ op = [t \in Users |-> "query"]

BeginQuery(t, o) ==
  /\ at[t] = "idle"
  /\ op' = [op EXCEPT ![t] = o]
  /\ at' = [at EXCEPT ![t] = "get"]
  /\ UNCHANGED <<pool, size, lost, mpcon>>

(***************************************************************************)
(* GetOneConnect: the first k connections of the queue answer neither      *)
(* mysql_ping nor a new connection and are dropped; the next one is the    *)
(* result, unless there is none.                                           *)
(***************************************************************************)
Dropped(k) == {pool[i] : i \in 1..k}

FrontWithoutPop(k) == UNCHANGED pool /\ size' = size - k   \* mutant
Pop(k) ==
  /\ pool' = SubSeq(pool, k + 1, Len(pool))
  /\ size' = size - k

Drop(k) == lost' = lost \cup Dropped(k)

GetOneConnect(t) ==
  /\ at[t] \in {"get", "again"}
  /\ \E k \in 0..(size - 1) :
       /\ mpcon' = [mpcon EXCEPT ![t] = pool[k + 1]]
       /\ Pop(k + 1)
       /\ Drop(k)
  /\ at' = [at EXCEPT ![t] = "use"]
  /\ UNCHANGED op

(***************************************************************************)
(* The same when the queue is empty or all its connections are dead: Query *)
(* sleeps for a second and tries once more, Insert gives up.               *)
(***************************************************************************)
Unlucky(t) == IF op[t] = "query" /\ at[t] = "get" THEN "again" ELSE "refused"

GetNothing(t) ==
  /\ at[t] \in {"get", "again"}
  /\ Pop(size)
  /\ Drop(size)
  /\ at' = [at EXCEPT ![t] = Unlucky(t)]
  /\ UNCHANGED <<mpcon, op>>

(***************************************************************************)
(* Close, which ignores a null pointer.                                    *)
(***************************************************************************)
PushUncounted(c) == pool' = Append(pool, c) /\ UNCHANGED size   \* mutant
PushAndForget(c) == UNCHANGED pool /\ size' = size + 1   \* mutant
Push(c) == pool' = Append(pool, c) /\ size' = size + 1

Close(c) == IF c = NoConn THEN UNCHANGED <<pool, size>> ELSE Push(c)

(***************************************************************************)
(* Every way out of Query and of Insert closes: the statement failed, the  *)
(* result could not be stored, or all went well.                           *)
(***************************************************************************)
Finish(t) ==
  /\ at[t] = "use"
  /\ Close(mpcon[t])
  /\ mpcon' = [mpcon EXCEPT ![t] = NoConn]
  /\ at' = [at EXCEPT ![t] = "idle"]
  /\ UNCHANGED <<lost, op>>

GiveUp(t) ==
  /\ at[t] = "refused"
  /\ Close(NoConn)
  /\ at' = [at EXCEPT ![t] = "idle"]
  /\ UNCHANGED <<lost, mpcon, op>>

PoolNext ==
  \E t \in Users :
    \/ \E o \in {"query", "insert"} : BeginQuery(t, o)
    \/ GetOneConnect(t) \/ GetNothing(t) \/ Finish(t) \/ GiveUp(t)

PoolSpec == PoolInit /\ [][PoolNext]_poolVars

-----------------------------------------------------------------------------
(* Properties. *)

(***************************************************************************)
(* The variables have their types, and a thread holds a connection exactly *)
(* while it runs a statement.                                              *)
(***************************************************************************)
PoolTypeOK ==
  /\ pool \in Seq(Conns)
  /\ size \in Nat
  /\ lost \in SUBSET Conns
  /\ at \in [Users -> Places]
  /\ mpcon \in [Users -> Conns \cup {NoConn}]
  /\ op \in [Users -> {"query", "insert"}]
  /\ \A t \in Users : mpcon[t] # NoConn <=> at[t] = "use"

(***************************************************************************)
(* No connection is used by two threads at a time, none is queued while it *)
(* is used, and none is queued twice.                                      *)
(***************************************************************************)
Exclusive ==
  /\ \A s, t \in Holders : mpcon[s] = mpcon[t] => s = t
  /\ Held \cap Elements(pool) = {}
  /\ \A i, j \in 1..Len(pool) : pool[i] = pool[j] => i = j

(***************************************************************************)
(* Connections are conserved on every path through Query and Insert: one   *)
(* that was not dropped is queued or held, one that was dropped is gone,   *)
(* and _size counts the queued ones.                                       *)
(***************************************************************************)
Conserved ==
  /\ Elements(pool) \cup Held = Usable
  /\ size = Len(pool)

(***************************************************************************)
(* The pool is never too small for its users: a thread is turned away (or  *)
(* has to sleep for a second) only if connections were dropped until fewer *)
(* were left than there are threads.                                       *)
(***************************************************************************)
RefusedOnlyWhenShort ==
  \A t \in Users :
    at[t] \in {"again", "refused"} => Cardinality(Usable) < Cardinality(Users)
=============================================================================
