----------------------------- MODULE RedisPool -----------------------------
(***************************************************************************)
(* The pool of Redis connections of the question import tool, class        *)
(* RedisPool of src/server/insert/redis.cpp.  The tool has one thread, so  *)
(* a command is: GetOneConnect, once more a second later if that gave      *)
(* nothing, the command, and Close, whatever came of it.                   *)
(*                                                                         *)
(* GetOneConnect takes the front connection off the queue and pings it; if *)
(* the answer is not PONG it is lost to the pool.  Close, which is given a *)
(* connection that broke under a command, queues it again.                 *)
(***************************************************************************)
EXTENDS Naturals, Sequences, FiniteSets

CONSTANTS Conns,   \* the connections SetConf tries to open (2)
          NoConn   \* a null pointer

ASSUME ConnsAssumption == NoConn \notin Conns
ASSUME SizeAssumption == IsFiniteSet(Conns) /\ Cardinality(Conns) <= 2

VARIABLES
  pool,    \* _redisPool, oldest first
  alive,   \* the connections that are not broken
  con,     \* r, the connection of the command
  turn     \* where the command is

poolVars == <<pool, alive, con, turn>>

(***************************************************************************)
(* A command is about to "get" a connection, or to try "again"; it can     *)
(* "run", or has "failed" for want of one.                                 *)
(***************************************************************************)
Turns == {"get", "again", "run", "failed"}

Elements(s) == {s[i] : i \in 1..Len(s)}

PoolInit ==
  /\ pool \in {s \in UNION {[1..n -> Conns] : n \in 0..Cardinality(Conns)} :
                 \A i, j \in DOMAIN s : s[i] = s[j] => i = j}
  /\ alive = Elements(pool)
  /\ con = NoConn
  /\ turn = "get"

(***************************************************************************)
(* A connection breaks, also while a command holds it.                     *)
(***************************************************************************)
Break(c) ==
  /\ c \in alive
  /\ alive' = alive \ {c}
  /\ UNCHANGED <<pool, con, turn>>

GetOneConnect ==
  /\ turn \in {"get", "again"}
  /\ pool # <<>> /\ Head(pool) \in alive
  /\ con' = Head(pool)
  /\ pool' = Tail(pool)
  /\ turn' = "run"
  /\ UNCHANGED alive

(***************************************************************************)
(* No reply to the ping, or another one than PONG.                         *)
(***************************************************************************)
GiveUpAtOnce == "failed"   \* mutant
AgainAndAgain == "again"   \* mutant
Unlucky == IF turn = "get" THEN "again" ELSE "failed"

GetNothing ==
  /\ turn \in {"get", "again"}
  /\ pool' = IF pool = <<>> THEN pool ELSE Tail(pool)
  /\ turn' = Unlucky
  /\ UNCHANGED <<alive, con>>

Close ==
  /\ pool' = Append(pool, con)
  /\ con' = NoConn

(***************************************************************************)
(* The ways a command ends: it is answered; it is not, because the         *)
(* connection broke before or under it; or it was never sent.              *)
(***************************************************************************)
Answered ==
  /\ turn = "run" /\ con \in alive
  /\ Close
  /\ turn' = "get"
  /\ UNCHANGED alive

Unanswered ==
  /\ turn = "run"
  /\ Close
  /\ turn' = "get"
  /\ alive' = alive \ {con}

NotSent ==
  /\ turn = "failed"
  /\ turn' = "get"
  /\ UNCHANGED <<pool, alive, con>>
=============================================================================
