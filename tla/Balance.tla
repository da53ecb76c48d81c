------------------------------ MODULE Balance ------------------------------
(***************************************************************************)
(* The load balancer, src/balance/balance/balance.cpp.  Three kinds of     *)
(* threads share three containers without a lock: the event loop registers *)
(* servers (DealServer), four threads send clients to servers (DealClient, *)
(* which use a mutex among themselves only), and the heartbeat thread      *)
(* pings every server in turn and removes the dead (timeout_cb).           *)
(*                                                                         *)
(* Every access to a container, a node or an entry that another thread can *)
(* make a difference to is one step, and the threads interleave between    *)
(* them.  (That two threads access one container at the same time without  *)
(* a lock is a data race whose outcomes are not modelled.)                 *)
(* What has been deleted may be read as anything or end the process; the   *)
(* heartbeat's use of end() ends it.                                       *)
(***************************************************************************)
EXTENDS Naturals, Sequences, FiniteSets

CONSTANTS Servers,    \* the server processes that ever connect, each once
          Ports,      \* the ports rand() may yield (5002 to 15001)
          FDs,        \* the descriptor numbers for servers
          Hashes,     \* the positions on the ring (0 to 16383)
          VNodes,     \* virtual nodes per server (4)
          HashOf,     \* the position of each port's real (0) and virtual nodes
          Threads,    \* the DealClient threads (4)
          Clients,    \* the clients that ever connect, each once
          None,       \* no server, thread, client or descriptor
          Garbage,    \* an answer read from what was deleted
          MaxDeaths   \* bound: how many servers die

ASSUME BalanceAssumption ==
  /\ FDs \subseteq Nat /\ Hashes \subseteq Nat /\ Hashes # {}
  /\ VNodes \in Nat /\ MaxDeaths \in Nat
  /\ HashOf \in [Ports -> [0..VNodes -> Hashes]]
  /\ None \notin Servers \cup FDs \cup Threads \cup Clients
  /\ Garbage \notin Servers \cup {None}

VARIABLES
  ring,       \* data: position -> a real or virtual entry for a server's node
  listed,     \* fd_hashid: descriptor -> the positions of its server
  serport,    \* serport
  freed,      \* the nodes that were deleted
  port,       \* node->port of each server
  life,       \* what has become of each server process
  line,       \* what is under way on the connection to each server
  table,      \* the descriptor table: the server behind each number
  dpc, dsrv, dfd, dnext,        \* DealServer
  hpc, it, after, left,         \* timeout_cb
  tpc, mtx, serving, found,     \* DealClient; found: the iterator of line 193
  client, answer,               \* the clients and where they were sent
  overlapped  \* history: a registration and a removal have overlapped

ringVars == <<ring, listed, serport, freed>>
serverVars == <<port, life, line, table, overlapped>>
dealVars == <<dpc, dsrv, dfd, dnext>>
heartVars == <<hpc, it, after, left>>
clientVars == <<tpc, mtx, serving, found, client, answer>>
vars == <<ringVars, serverVars, dealVars, heartVars, clientVars>>

Up == hpc # "down"
Least(S) == CHOOSE x \in S : \A y \in S : x <= y
Without(f, x) == [y \in DOMAIN f \ {x} |-> f[y]]
Put(f, x, v) == [y \in DOMAIN f \cup {x} |-> IF y = x THEN v ELSE f[y]]
Dead(s) == life[s] = "dead"

Init ==
  /\ ring = <<>> /\ listed = <<>> /\ serport = {} /\ freed = {}
  /\ port = [s \in Servers |-> None]
  /\ life = [s \in Servers |-> "new"]
  /\ line = [s \in Servers |-> "quiet"]
  /\ table = [f \in FDs |-> None]
  /\ dpc = "idle" /\ dsrv = None /\ dfd = None /\ dnext = 0
  /\ hpc = "rest" /\ it = None /\ after = "ping" /\ left = <<>>
  /\ tpc = [t \in Threads |-> "top"] /\ mtx = None
  /\ serving = [t \in Threads |-> None] /\ found = [t \in Threads |-> None]
  /\ client = [c \in Clients |-> "new"]
  /\ answer = [c \in Clients |-> None]
  /\ overlapped = FALSE

-----------------------------------------------------------------------------
(* The servers: the constructor of Sys and its HeartRate thread.           *)

Connect(s) ==
  /\ life[s] = "new"
  /\ life' = [life EXCEPT ![s] = "queued"]
  /\ UNCHANGED <<ringVars, port, line, table, overlapped, dealVars, heartVars, clientVars>>

Pong(s) ==
  /\ life[s] = "linked" /\ line[s] = "ping"
  /\ line' = [line EXCEPT ![s] = "pong"]
  /\ UNCHANGED <<ringVars, port, life, table, overlapped, dealVars, heartVars, clientVars>>

(***************************************************************************)
(* A server may die at any time, also because it could not bind its port.  *)
(***************************************************************************)
Die(s) ==
  /\ life[s] = "linked"
  /\ Cardinality({r \in Servers : Dead(r)}) < MaxDeaths
  /\ life' = [life EXCEPT ![s] = "dead"]
  /\ UNCHANGED <<ringVars, port, line, table, overlapped, dealVars, heartVars, clientVars>>

-----------------------------------------------------------------------------
(* DealServer, on the event loop. *)

(***************************************************************************)
(* A removal goes on from the closing of the number to the end of its list.*)
(***************************************************************************)
Erasing == {"delete", "null", "free", "erase"}   \* within lines 222 to 226
Removing == hpc = "drop" \/ hpc \in Erasing
Closing == hpc = "closed" \/ Removing

Taken(h) == h \in DOMAIN ring
FreeFDs == {f \in FDs : table[f] = None}

(***************************************************************************)
(* Lines 96 to 130: accept, draw a port nobody has, and send it.  If the   *)
(* position of the real node is taken, or the port cannot be sent, the     *)
(* connection is closed and the server gives up.                           *)
(***************************************************************************)
Refuse(s) ==
  /\ Up /\ dpc = "idle" /\ life[s] = "queued"
  /\ life' = [life EXCEPT ![s] = "refused"]
  /\ UNCHANGED <<ringVars, port, line, table, overlapped, dealVars, heartVars, clientVars>>

SendPort(s) ==
  /\ Up /\ dpc = "idle" /\ life[s] = "queued"
  /\ FreeFDs # {}
  /\ \E p \in Ports \ serport :
       /\ ~Taken(HashOf[p][0])
       /\ port' = [port EXCEPT ![s] = p]
  /\ life' = [life EXCEPT ![s] = "linked"]
  /\ table' = [table EXCEPT ![Least(FreeFDs)] = s]
  /\ overlapped' = (overlapped \/ Closing)
  /\ dpc' = "real" /\ dsrv' = s /\ dfd' = Least(FreeFDs)
  /\ UNCHANGED <<ringVars, line, dnext, heartVars, clientVars>>

(***************************************************************************)
(* fd_hashid[serfd].push_back(hash_id)                                     *)
(***************************************************************************)
PushBack(f, h) ==
  listed' = Put(listed, f, Append(IF f \in DOMAIN listed THEN listed[f] ELSE <<>>, h))

AddReal ==
  /\ Up /\ dpc = "real"
  /\ LET h == HashOf[port[dsrv]][0]
     IN  /\ serport' = serport \cup {port[dsrv]}
         /\ ring' = Put(ring, h, [real |-> TRUE, node |-> dsrv])
         /\ PushBack(dfd, h)
  /\ dpc' = "virtual" /\ dnext' = 1
  /\ UNCHANGED <<freed, serverVars, dsrv, dfd, heartVars, clientVars>>

(***************************************************************************)
(* Lines 143 to 158: a virtual node whose position is taken is left out.   *)
(***************************************************************************)
NeverTaken(h) == FALSE   \* mutant
SkipVirtual(h) == Taken(h)

AddVirtual ==
  /\ Up /\ dpc = "virtual" /\ dnext <= VNodes
  /\ LET h == HashOf[port[dsrv]][dnext]
     IN  \/ SkipVirtual(h) /\ UNCHANGED <<ring, listed>>
         \/ /\ ~SkipVirtual(h)
            /\ ring' = Put(ring, h, IF Taken(h) THEN ring[h]
                                    ELSE [real |-> FALSE, node |-> dsrv])
            /\ PushBack(dfd, h)
  /\ dnext' = dnext + 1
  /\ UNCHANGED <<serport, freed, serverVars, dpc, dsrv, dfd, heartVars, clientVars>>

Registered ==
  /\ Up /\ dpc = "virtual" /\ dnext > VNodes
  /\ dpc' = "idle" /\ dsrv' = None /\ dfd' = None /\ dnext' = 0
  /\ UNCHANGED <<ringVars, serverVars, heartVars, clientVars>>

DealServer == (\E s \in Servers : Refuse(s) \/ SendPort(s)) \/ AddReal \/ AddVirtual \/ Registered

-----------------------------------------------------------------------------
(* timeout_cb, on the heartbeat thread, every ten seconds. *)

Beyond(f) == {g \in DOMAIN listed : g > f}
Gone(f) == IF table[f] = None THEN TRUE ELSE Dead(table[f])

BeginRound ==
  /\ hpc = "rest" /\ listed # <<>>
  /\ hpc' = "ping" /\ it' = Least(DOMAIN listed)
  /\ UNCHANGED <<ringVars, serverVars, dealVars, after, left, clientVars>>

(***************************************************************************)
(* Lines 212 to 213: a dead server may still take the PING.                *)
(***************************************************************************)
PingOk ==
  /\ hpc = "ping" /\ table[it] # None
  /\ line' = IF Gone(it) THEN line ELSE [line EXCEPT ![table[it]] = "ping"]
  /\ hpc' = "recv"
  /\ UNCHANGED <<ringVars, port, life, table, overlapped, dealVars, it, after, left, clientVars>>

(***************************************************************************)
(* The connection is lost (lines 213 to 215 and 238 to 240): the number is *)
(* closed, and free for the next server, before its entries are removed.   *)
(***************************************************************************)
Hang == FALSE   \* mutant: a closed connection is not noticed
RecvFailed == Gone(it) /\ IF table[it] = None THEN TRUE ELSE line[table[it]] # "pong"

Lost ==
  /\ \/ hpc = "ping" /\ Gone(it) /\ after' = "recv"
     \/ hpc = "recv" /\ RecvFailed /\ after' = "next"
  /\ table' = [table EXCEPT ![it] = None]
  /\ overlapped' = (overlapped \/ dpc # "idle")
  /\ hpc' = "closed"
  /\ UNCHANGED <<ringVars, port, life, line, dealVars, it, left, clientVars>>

(***************************************************************************)
(* The loop over it->second (lines 216 to 227 and 241 to 252) takes the    *)
(* bounds of the list once, so it does not see what is appended meanwhile. *)
(***************************************************************************)
BeginDrop ==
  /\ hpc = "closed"
  /\ hpc' = "drop" /\ left' = listed[it]
  /\ UNCHANGED <<ringVars, serverVars, dealVars, it, after, clientVars>>

(***************************************************************************)
(* Lines 218 to 226, for the first entry of what is left: a real one gives *)
(* back its port (221) and deletes the node (222); then any entry loses    *)
(* its node (224), is deleted (225) and leaves the ring (226).  From 222   *)
(* to 226 the ring leads to what is deleted or null.                       *)
(***************************************************************************)
Dropped == Head(left)

DropEntry ==
  /\ hpc = "drop" /\ left # <<>>
  /\ \/ /\ ring[Dropped].real
        /\ serport' = serport \ {port[ring[Dropped].node]}
        /\ hpc' = "delete"
     \/ /\ ~ring[Dropped].real
        /\ hpc' = "null" /\ UNCHANGED serport
  /\ UNCHANGED <<ring, listed, freed, serverVars, dealVars, it, after, left, clientVars>>

DeleteNode ==
  /\ hpc = "delete"
  /\ freed' = freed \cup {ring[Dropped].node}
  /\ hpc' = "null"
  /\ UNCHANGED <<ring, listed, serport, serverVars, dealVars, it, after, left, clientVars>>

(***************************************************************************)
(* The two states of the entry itself, without its node and deleted, are   *)
(* those of the heartbeat, see Cleared and Intact.                         *)
(***************************************************************************)
ClearEntry ==
  /\ \/ hpc = "null" /\ hpc' = "free"
     \/ hpc = "free" /\ hpc' = "erase"
  /\ UNCHANGED <<ringVars, serverVars, dealVars, it, after, left, clientVars>>

ForgetReal(h) == ring' = IF ring[h].real THEN Without(ring, h) ELSE ring   \* mutant
Forget(h) == ring' = Without(ring, h)

EraseEntry ==
  /\ hpc = "erase"
  /\ Forget(Dropped)
  /\ left' = Tail(left)
  /\ hpc' = "drop"
  /\ UNCHANGED <<listed, serport, freed, serverVars, dealVars, it, after, clientVars>>

(***************************************************************************)
(* it->second.clear() and fd_hashid.erase(it++).  The body goes on with    *)
(* the next server without looking whether there is one: after a failed    *)
(* send it waits for a PONG this server was not asked for, after a failed  *)
(* recv it only logs its name.                                             *)
(***************************************************************************)
EraseServer ==
  /\ hpc = "drop" /\ left = <<>>
  /\ listed' = Without(listed, it)
  /\ \/ /\ DOMAIN listed = {it}
        /\ hpc' = "rest" /\ it' = None
     \/ /\ DOMAIN listed # {it} /\ Beyond(it) = {}
        /\ hpc' = "down" /\ it' = None
     \/ /\ Beyond(it) # {}
        /\ hpc' = after /\ it' = Least(Beyond(it))
  /\ UNCHANGED <<ring, serport, freed, serverVars, dealVars, after, left, clientVars>>

(***************************************************************************)
(* Line 237: recv waits for as long as it takes.                           *)
(***************************************************************************)
RecvPong ==
  /\ hpc = "recv" /\ table[it] # None
  /\ line[table[it]] = "pong"
  /\ line' = [line EXCEPT ![table[it]] = "quiet"]
  /\ hpc' = "next"
  /\ UNCHANGED <<ringVars, port, life, table, overlapped, dealVars, it, after, left, clientVars>>

NextServer == IF Beyond(it) = {} THEN None ELSE Least(Beyond(it))
NextButOne ==   \* mutant: ++it twice
  IF Cardinality(Beyond(it)) < 2 THEN None ELSE Least(Beyond(Least(Beyond(it))))
Following == NextServer

Advance ==
  /\ hpc = "next"
  /\ it' = Following
  /\ hpc' = IF it' = None THEN "rest" ELSE "ping"
  /\ UNCHANGED <<ringVars, serverVars, dealVars, after, left, clientVars>>

HeartRate ==
  \/ BeginRound \/ PingOk \/ Lost \/ RecvPong \/ Advance
  \/ BeginDrop \/ DropEntry \/ DeleteNode \/ ClearEntry \/ EraseEntry \/ EraseServer

-----------------------------------------------------------------------------
(* DealClient. *)

Arrive(c) ==
  /\ client[c] = "new"
  /\ client' = [client EXCEPT ![c] = "queued"]
  /\ UNCHANGED <<ringVars, serverVars, dealVars, heartVars, tpc, mtx, serving, found, answer>>

(***************************************************************************)
(* Lines 170 to 174: while the ring is empty the thread turns in its loop. *)
(***************************************************************************)
Lock(t) ==
  /\ Up /\ tpc[t] = "top" /\ mtx = None
  /\ ring # <<>>
  /\ mtx' = t
  /\ tpc' = [tpc EXCEPT ![t] = "accept"]
  /\ UNCHANGED <<ringVars, serverVars, dealVars, heartVars, serving, found, client, answer>>

KeepLock == UNCHANGED mtx   \* mutant
Unlock == mtx' = None

(***************************************************************************)
(* Line 175: the thread waits for a client with the mutex in its hands.    *)
(***************************************************************************)
Accept(t, c) ==
  /\ Up /\ tpc[t] = "accept" /\ client[c] = "queued"
  /\ client' = [client EXCEPT ![c] = "taken"]
  /\ serving' = [serving EXCEPT ![t] = c]
  /\ Unlock
  /\ tpc' = [tpc EXCEPT ![t] = "check"]
  /\ UNCHANGED <<ringVars, serverVars, dealVars, heartVars, found, answer>>

(***************************************************************************)
(* Lines 183 to 186: if the last server was removed meanwhile the thread   *)
(* turns to the next client and never closes this one.                     *)
(***************************************************************************)
Check(t) ==
  /\ Up /\ tpc[t] = "check"
  /\ \/ /\ ring = <<>>
        /\ client' = [client EXCEPT ![serving[t]] = "stranded"]
        /\ serving' = [serving EXCEPT ![t] = None]
        /\ tpc' = [tpc EXCEPT ![t] = "top"]
     \/ /\ ring # <<>>
        /\ tpc' = [tpc EXCEPT ![t] = "find"]
        /\ UNCHANGED <<serving, client>>
  /\ UNCHANGED <<ringVars, serverVars, dealVars, heartVars, mtx, found, answer>>

(***************************************************************************)
(* Lines 193 to 197: the first entry at or after the client's position.    *)
(***************************************************************************)
LowerBound(h) ==
  LET upper == {g \in DOMAIN ring : g >= h}
  IN  Least(IF upper = {} THEN DOMAIN ring ELSE upper)

(***************************************************************************)
(* The iterator stays with the entry it was found at, whatever becomes of  *)
(* the position; in a ring that was emptied after the check it is end().   *)
(***************************************************************************)
Find(t, h) ==
  /\ Up /\ tpc[t] = "find"
  /\ found' = [found EXCEPT ![t] =
       IF ring = <<>> THEN None ELSE [at |-> LowerBound(h), node |-> ring[LowerBound(h)].node]]
  /\ tpc' = [tpc EXCEPT ![t] = "use"]
  /\ UNCHANGED <<ringVars, serverVars, dealVars, heartVars, mtx, serving, client, answer>>

(***************************************************************************)
(* Whether the entry has lost its node (null, from line 224 on), and       *)
(* whether entry and node are both there.                                  *)
(***************************************************************************)
Stored(e) == e # None /\ e.at \in DOMAIN ring /\ ring[e.at].node = e.node
AtHand(e) == Stored(e) /\ left # <<>> /\ e.at = Dropped
Cleared(e) == AtHand(e) /\ hpc = "free"
Intact(e) == Stored(e) /\ e.node \notin freed /\ ~(AtHand(e) /\ hpc \in {"free", "erase"})

(***************************************************************************)
(* Lines 199 to 203: what the second read (201) finds covers what the      *)
(* first one (200) may have found, since nothing deleted comes back.       *)
(***************************************************************************)
Answer(t) ==
  /\ Up /\ tpc[t] = "use" /\ ~Cleared(found[t])
  /\ answer' = [answer EXCEPT ![serving[t]] =
                  IF Intact(found[t]) THEN found[t].node ELSE Garbage]
  /\ client' = [client EXCEPT ![serving[t]] = "served"]
  /\ serving' = [serving EXCEPT ![t] = None]
  /\ found' = [found EXCEPT ![t] = None]
  /\ tpc' = [tpc EXCEPT ![t] = "top"]
  /\ UNCHANGED <<ringVars, serverVars, dealVars, heartVars, mtx>>

Crash(t) ==
  /\ Up /\ tpc[t] = "use" /\ ~Intact(found[t])
  /\ hpc' = "down" /\ it' = None
  /\ UNCHANGED <<ringVars, serverVars, dealVars, after, left, clientVars>>

DealClient(t) ==
  \/ Lock(t) \/ Check(t) \/ Answer(t) \/ Crash(t)
  \/ \E c \in Clients : Accept(t, c)
  \/ \E h \in Hashes : Find(t, h)

-----------------------------------------------------------------------------

Next ==
  \/ \E s \in Servers : Connect(s) \/ Pong(s) \/ Die(s)
  \/ DealServer
  \/ HeartRate
  \/ \E c \in Clients : Arrive(c)
  \/ \E t \in Threads : DealClient(t)

Spec == Init /\ [][Next]_vars

(***************************************************************************)
(* The threads of the balancer run, and a server that is alive answers a   *)
(* PING.                                                                   *)
(***************************************************************************)
Fairness ==
  /\ WF_vars(DealServer) /\ WF_vars(HeartRate)
  /\ \A t \in Threads : WF_vars(DealClient(t))
  /\ \A s \in Servers : WF_vars(Pong(s))

FairSpec == Spec /\ Fairness

-----------------------------------------------------------------------------
(* Properties. *)

(***************************************************************************)
(* The variables have their types; the mutex is held exactly by the thread *)
(* that waits in accept, and the heartbeat has an iterator exactly while   *)
(* it goes round.                                                          *)
(***************************************************************************)
TypeOK ==
  /\ DOMAIN ring \subseteq Hashes
  /\ \A h \in DOMAIN ring : ring[h] \in [real : BOOLEAN, node : Servers]
  /\ DOMAIN listed \subseteq FDs
  /\ \A f \in DOMAIN listed : listed[f] \in Seq(Hashes)
  /\ serport \subseteq Ports
  /\ freed \subseteq Servers
  /\ port \in [Servers -> Ports \cup {None}]
  /\ life \in [Servers -> {"new", "queued", "linked", "refused", "dead"}]
  /\ line \in [Servers -> {"quiet", "ping", "pong"}]
  /\ table \in [FDs -> Servers \cup {None}]
  /\ dpc \in {"idle", "real", "virtual"} /\ dnext \in 0..(VNodes + 1)
  /\ dsrv \in Servers \cup {None} /\ dfd \in FDs \cup {None}
  /\ hpc \in {"rest", "ping", "recv", "next", "closed", "drop", "down"} \cup Erasing
  /\ left \in Seq(Hashes)
  /\ it \in FDs \cup {None} /\ after \in {"ping", "recv", "next"}
  /\ tpc \in [Threads -> {"top", "accept", "check", "find", "use"}]
  /\ mtx \in Threads \cup {None}
  /\ serving \in [Threads -> Clients \cup {None}]
  /\ found \in [Threads -> [at : Hashes, node : Servers] \cup {None}]
  /\ client \in [Clients -> {"new", "queued", "taken", "served", "stranded"}]
  /\ answer \in [Clients -> Servers \cup {None, Garbage}]
  /\ overlapped \in BOOLEAN
  /\ \A t \in Threads : mtx = t <=> tpc[t] = "accept"
  /\ it = None <=> hpc \in {"rest", "down"}

Positions(f) == {listed[f][i] : i \in 1..Len(listed[f])}
Entries(s) == {h \in DOMAIN ring : ring[h].node = s}

Between == dpc = "idle" /\ Up /\ ~Closing

(***************************************************************************)
(* As long as no registration and no removal have overlapped, the three    *)
(* containers agree between two changes: every entry of the ring belongs   *)
(* to the node of a server in fd_hashid, which lists exactly its           *)
(* positions, the real one first; no node of the ring is deleted; serport  *)
(* holds exactly the ports of these servers.  Positions taken by another   *)
(* server must not be listed twice for this, and a removal must remove all *)
(* of them.                                                                *)
(***************************************************************************)
RingAgrees ==
  Between /\ ~overlapped =>
    /\ \A f \in DOMAIN listed :
         LET s == ring[listed[f][1]].node
         IN  /\ Positions(f) = Entries(s)
             /\ ring[listed[f][1]].real
             /\ table[f] = s
    /\ DOMAIN ring = UNION {Positions(f) : f \in DOMAIN listed}
    /\ \A h \in DOMAIN ring : ring[h].node \notin freed
    /\ serport = {port[ring[listed[f][1]].node] : f \in DOMAIN listed}

(***************************************************************************)
(* A lookup (line 193) finds an entry of a deleted node only while the     *)
(* entries of a dead server are being erased, or after a registration and  *)
(* a removal have overlapped: when a removal is over, none of the real and *)
(* virtual nodes can be found.  (The entry is used later, lines 200 to     *)
(* 201.  A removal in between deletes what a sound lookup found, also if   *)
(* it is over by then: see Intact.)                                        *)
(***************************************************************************)
DeletedFoundOnlyInRemoval ==
  [][\A t \in Threads :
       found[t] = None /\ found'[t] # None /\ found'[t].node \in freed =>
         Removing \/ overlapped]_vars

(***************************************************************************)
(* Every position of the ring is listed in fd_hashid for removal.          *)
(***************************************************************************)
EveryEntryListed ==
  Between => DOMAIN ring \subseteq UNION {Positions(f) : f \in DOMAIN listed}

(***************************************************************************)
(* The first server that dies is removed from the ring, whether send or    *)
(* recv notices it, and whatever becomes of the heartbeat afterwards,      *)
(* unless a registration overlaps its removal or a client's lookup ends    *)
(* the process meanwhile.  (A second one need not be: see RecvPong.)       *)
(***************************************************************************)
FirstDeathNoticed ==
  \A s \in Servers :
    Dead(s) ~> \/ Entries(s) = {} \/ overlapped \/ ~Up
               \/ \E r \in Servers \ {s} : Dead(r)

(***************************************************************************)
(* As long as no server dies, every server is pinged again and again.      *)
(***************************************************************************)
EveryServerPinged ==
  \A s \in Servers : life[s] = "linked" ~> line[s] = "ping" \/ \E r \in Servers : Dead(r)

(***************************************************************************)
(* As long as no server dies, a client that connects when there is a       *)
(* server is sent to one, although the DealClient threads wait for each    *)
(* other.                                                                  *)
(***************************************************************************)
EveryClientServed ==
  \A c \in Clients :
    client[c] = "queued" /\ ring # <<>> ~>
      (client[c] = "served" /\ answer[c] \in Servers) \/ \E r \in Servers : Dead(r)
=============================================================================
