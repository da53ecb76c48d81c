---------------------------- MODULE UserService ----------------------------
(***************************************************************************)
(* REGISTER and LOGIN with the connections they run on: the handlers of    *)
(* UserStore, whose queries of MySQL go through the connections of         *)
(* MysqlPool, and whose commands to Redis go through contexts that the     *)
(* constructor of Sys opens once (src/server/sys.cpp lines 94 to 101) and  *)
(* that class Redis (src/server/redis.cpp) shares under a mutex.           *)
(*                                                                         *)
(* A context whose connection breaks is never opened again: ReConnect is   *)
(* only called when PING is answered, but not by PONG.  Query frees a      *)
(* broken context and keeps the pointer; the other commands end the        *)
(* process.  What a freed context does is undefined: the command that uses *)
(* it fails, or the process dies.                                          *)
(***************************************************************************)
EXTENDS UserStore, MysqlPool

CONSTANTS Contexts,  \* the contexts that read, redisRead (6)
          Serves,    \* the replica each is connected to
          Writer     \* redisWrite, connected to the master

ASSUME WorkersAssumption == Users = Threads
ASSUME ContextsAssumption == Serves \in [Contexts -> Replicas] /\ Writer \notin Contexts

VARIABLE link  \* the state of each context

serviceVars == <<vars, poolVars, link>>

Links == {"up", "broken", "freed"}

AllUp == [c \in Contexts \cup {Writer} |-> "up"]

ServiceInit ==
  /\ Init
  /\ PoolInit
  /\ link = AllUp

(***************************************************************************)
(* The contexts.  The connection of a context breaks; a handler of         *)
(* questions that lists a table frees one that is broken.                  *)
(***************************************************************************)
SetLink(c, l) == link' = [link EXCEPT ![c] = l]

Break(c) ==
  /\ link[c] = "up"
  /\ SetLink(c, "broken")
  /\ UNCHANGED <<vars, poolVars>>

FreedByListing(c) ==
  /\ link[c] = "broken"
  /\ SetLink(c, "freed")
  /\ UNCHANGED <<vars, poolVars>>

(***************************************************************************)
(* Query on a context.  The counter that picks the context is shared       *)
(* without a lock, so it may be any one.                                   *)
(***************************************************************************)
QueryRedis(t, c) ==
  /\ link[c] = "up"
  /\ AskRedis(t, Serves[c])
  /\ UNCHANGED <<poolVars, link>>

QueryRedisFails(t, c) ==
  /\ pc[t] = "redis"
  /\ QueryFails(t)
  /\ \/ link[c] = "up" /\ (UNCHANGED link \/ SetLink(c, "broken"))
     \/ link[c] = "broken" /\ SetLink(c, "freed")
     \/ link[c] = "freed" /\ UNCHANGED link
  /\ UNCHANGED poolVars

(***************************************************************************)
(* Insert on the writer: its reply may be lost, and the context is broken  *)
(* then; the handler returns either way.                                   *)
(***************************************************************************)
HMSet(t) ==
  /\ at[t] = "idle"
  /\ link[Writer] = "up"
  /\ WriteCache(t) \/ WriteCacheFails(t)
  /\ UNCHANGED link \/ SetLink(Writer, "broken")
  /\ UNCHANGED poolVars

(***************************************************************************)
(* The statements, on a connection of the pool.  A select that fails, or   *)
(* that cannot be stored, and an insert that fails, is an error of the     *)
(* handler; the connection goes back either way.                           *)
(***************************************************************************)
Statement(t) == IF pc[t] = "insert" THEN "insert" ELSE "query"

BeginStatement(t) ==
  /\ pc[t] \in {"select", "insert"}
  /\ BeginQuery(t, Statement(t))
  /\ UNCHANGED <<vars, link>>

Connect(t) ==
  /\ GetOneConnect(t) \/ GetNothing(t)
  /\ UNCHANGED <<vars, link>>

RunSelect(t) ==
  /\ at[t] = "use" /\ op[t] = "query"
  /\ AskMysql(t)
  /\ UNCHANGED <<poolVars, link>>

RunInsert(t) ==
  /\ at[t] = "use" /\ op[t] = "insert"
  /\ InsertRow(t)
  /\ UNCHANGED <<poolVars, link>>

Pending(t) == pc[t] = IF op[t] = "query" THEN "select" ELSE "insert"

TakenAsEmpty(t) ==   \* mutant
  IF pc[t] = "select" /\ Register(t)
    THEN Goto(t, "insert") /\ UNCHANGED <<stores, request, verdict>>
    ELSE QueryFails(t)
StatementError(t) == QueryFails(t)

StatementFails(t) ==
  /\ Pending(t)
  /\ StatementError(t)
  /\ Finish(t)
  /\ UNCHANGED link

Release(t) ==
  /\ ~Pending(t)
  /\ Finish(t)
  /\ UNCHANGED <<vars, link>>

NoConnection(t) ==
  /\ GiveUp(t)
  /\ QueryFails(t)
  /\ UNCHANGED link

(***************************************************************************)
(* The process ends: a command other than Query, of a handler of questions *)
(* or the hmset of a login, meets a context that is not up; a freed        *)
(* context is used; Reconnect uses the handle it has closed; or a          *)
(* statement fails and its error number is printed as a string (mysql.cpp  *)
(* lines 86 and 114), also of an insert that was stored; or redisCommand   *)
(* takes an argument that a % in the text asks for.  It is started again   *)
(* and connects to everything anew.                                        *)
(***************************************************************************)
MayExit ==
  \/ \E c \in Contexts \cup {Writer} : link[c] # "up"
  \/ \E t \in Users :
       \/ at[t] \in {"get", "again"} /\ pool # <<>>
       \/ at[t] = "use" /\ (Pending(t) \/ verdict[t] = "error")
       \/ pc[t] = "cache" /\ Confirmed(t) # {request[t].account}

Restart ==
  /\ MayExit
  /\ Exit
  /\ \E n \in 0..Cardinality(Conns) : \E s \in [1..n -> Conns] :
       /\ \A i, j \in 1..n : s[i] = s[j] => i = j
       /\ pool' = s
       /\ size' = n
       /\ lost' = Conns \ Elements(s)
  /\ at' = [t \in Users |-> "idle"]
  /\ mpcon' = [t \in Users |-> NoConn]
  /\ op' = [t \in Users |-> "query"]
  /\ link' = AllUp

Serve(t) ==
  \/ \E r \in Requests : Receive(t, r)
  \/ at[t] = "idle" /\ Return(t)

ServiceNext ==
  \/ \E t \in Threads :
       \/ Serve(t) /\ UNCHANGED <<poolVars, link>>
       \/ \E c \in Contexts : QueryRedis(t, c) \/ QueryRedisFails(t, c)
       \/ HMSet(t)
       \/ BeginStatement(t) \/ Connect(t) \/ NoConnection(t)
       \/ RunSelect(t) \/ RunInsert(t) \/ StatementFails(t) \/ Release(t)
  \/ \E k \in Replicas, i \in Ids : Replicate(k, i) /\ UNCHANGED <<poolVars, link>>
  \/ \E c \in Contexts \cup {Writer} : Break(c)
  \/ \E c \in Contexts : FreedByListing(c)
  \/ Restart

ServiceSpec == ServiceInit /\ [][ServiceNext]_serviceVars

=============================================================================
