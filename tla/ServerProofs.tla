---------------------------- MODULE ServerProofs ----------------------------
(***************************************************************************)
(* Proofs about Server, for any clients, numbers, workers and faults: its  *)
(* types, the entries of _cliInfo, where responses go and how often; and   *)
(* what holds besides for clients that wait for every answer.              *)
(***************************************************************************)
EXTENDS Server, TLAPS, SequenceTheorems, FiniteSetTheorems

-----------------------------------------------------------------------------
(* Types. *)

(***************************************************************************)
(* What is unread was sent by a call, and what a worker closes is a number.*)
(***************************************************************************)
CallMade ==
  \A c \in Clients : inbox[c] # "empty" \/ side[c] = "waiting" => calls[c] >= 1
FdToClose == \A w \in Workers : reply[w].at \in {"close", "erase"} => reply[w].fd \in FDs

TypeIInv == TypeOK /\ CallMade /\ FdToClose

LEMMA TypeInit == Init => TypeIInv
<1> SUFFICES ASSUME Init PROVE TypeIInv
  OBVIOUS
<1>1. (CHOOSE k \in Kinds : TRUE) \in Kinds
  BY PoolAssumption
<1>2. Pool!TypeOK
  <2>1. Pool!Init
    BY DEF Init
  <2>2. <<>> \in Seq(Requests) /\ {} \subseteq Requests /\ FALSE \in BOOLEAN
    OBVIOUS
  <2>3. /\ pc \in [Workers -> Pool!PCs]
        /\ cur \in [Workers -> Requests \cup {Idle, Phantom}]
        /\ \A w \in Workers : cur[w] = Idle /\ pc[w] # "task"
    BY <2>1 DEF Pool!Init, Pool!PCs
  <2>4. /\ tasks = <<>> /\ notifying = FALSE /\ submitted = <<>> /\ started = <<>>
        /\ finished = {}
    BY <2>1 DEF Pool!Init
  <2> HIDE DEF Requests
  <2> QED BY <2>2, <2>3, <2>4 DEF Pool!TypeOK
<1>3. TypeOK
  BY <1>1, <1>2, ServerAssumption DEF Init, TypeOK, Pool!Init, Steps
<1>4. CallMade /\ FdToClose
  BY DEF Init, CallMade, FdToClose
<1> QED BY <1>3, <1>4 DEF TypeIInv

LEMMA PoolUnchanged == ASSUME Pool!TypeOK, UNCHANGED poolVars PROVE Pool!TypeOK'
BY DEF Pool!TypeOK, poolVars

LEMMA ClientTypes ==
  ASSUME TypeIInv, NEW c \in Clients, Client(c)
  PROVE  TypeIInv'
<1> USE DEF TypeIInv, clientVars, connVars, epollVars
<1>1. UNCHANGED poolVars
  BY DEF Client, Connect, Call, RestArrives, Return, Leave
<1>2. Pool!TypeOK'
  BY <1>1, PoolUnchanged DEF TypeOK
<1>3. UNCHANGED <<cliInfo, batch, reading, polled, accepted, reply, table>>
  BY DEF Client, Connect, Call, RestArrives, Return, Leave
<1>4. FdToClose'
  BY <1>3 DEF FdToClose
<1>5. UNCHANGED pc
  BY <1>1 DEF poolVars
<1>6. CASE Connect(c)
  BY <1>2, <1>3, <1>4, <1>5, <1>6 DEF TypeOK, Connect, CallMade
<1>7. ASSUME NEW k \in Kinds, NEW p \in Pieces, Call(c, k, p)
      PROVE  TypeIInv'
  <2>1. calls[c] \in Nat /\ calls[c] < MaxCalls /\ MaxCalls \in Nat
    BY <1>7, ServerAssumption DEF Call, TypeOK
  <2>2. p \in {"stub", "part", "full"}
    BY DEF Pieces
  <2>3. calls' \in [Clients -> 0..MaxCalls] /\ CallMade'
    BY <1>7, <2>1, ServerAssumption DEF Call, TypeOK, CallMade
  <2> QED BY <1>2, <1>3, <1>4, <1>5, <1>7, <2>2, <2>3 DEF TypeOK, Call
<1>8. CASE RestArrives(c)
  BY <1>2, <1>3, <1>4, <1>5, <1>8 DEF TypeOK, RestArrives, CallMade
<1>9. CASE Return(c)
  <2>1. /\ outbox[c] \in Seq(Requests \cup {Phantom}) /\ outbox[c] # <<>>
        /\ Head(outbox[c]) \in Requests \cup {Phantom}
        /\ Tail(outbox[c]) \in Seq(Requests \cup {Phantom})
    BY <1>9 DEF TypeOK, Return
  <2>2. outbox' \in [Clients -> Seq(Requests \cup {Phantom})]
    BY <1>9, <2>1 DEF TypeOK, Return
  <2>3. calls[c] \in 1..MaxCalls
    BY <1>9, ServerAssumption DEF Return, TypeOK, CallMade
  <2>4. answers' \subseteq [conn : Clients, n : 1..MaxCalls, to : Requests \cup {Phantom}]
    BY <1>9, <2>1, <2>3 DEF TypeOK, Return
  <2> QED BY <1>2, <1>3, <1>4, <1>5, <1>9, <2>2, <2>4 DEF TypeOK, Return, CallMade
<1>10. CASE Leave(c)
  BY <1>2, <1>3, <1>4, <1>5, <1>10 DEF TypeOK, Leave, CallMade
<1> QED BY <1>6, <1>7, <1>8, <1>9, <1>10 DEF Client

(***************************************************************************)
(* close and the numbers: what is open afterwards.                         *)
(***************************************************************************)
LEMMA CloseFdTypes ==
  ASSUME TypeOK, NEW f \in FDs, CloseFd(f)
  PROVE  /\ srv' \in [Clients -> {"none", "backlog", "open", "released"}]
         /\ table' \in [FDs -> Clients \cup {None}]
         /\ \A g \in FDs : table'[g] = IF g = f THEN None ELSE table[g]
         /\ \A c \in Clients : srv'[c] = IF c = table[f] THEN "released" ELSE srv[c]
         /\ OpenFDs' = OpenFDs \ {f}
<1>1. \A g \in FDs : table'[g] = IF g = f THEN None ELSE table[g]
  BY DEF CloseFd, TypeOK
<1>2. OpenFDs' = OpenFDs \ {f}
  BY <1>1 DEF OpenFDs, Open
<1> QED BY <1>1, <1>2 DEF CloseFd, TypeOK

LEMMA EpollTypes ==
  ASSUME TypeIInv, Epoll
  PROVE  TypeIInv'
<1> USE DEF TypeIInv, clientVars, connVars, epollVars
<1>1. UNCHANGED <<side, calls, kind, answers, outbox, reply>>
  BY DEF Epoll, EpollWait, Insert, RecvPacket, RecvError, Notify, Accept, HangUp, Readable
<1>2. FdToClose'
  BY <1>1 DEF FdToClose
<1>3. CASE EpollWait
  <2>1. Pool!TypeOK' /\ UNCHANGED pc
    BY <1>3, PoolUnchanged DEF EpollWait, TypeOK, poolVars
  <2>2. Ready \subseteq Event
    <3>1. ASSUME NEW f \in FDs
          PROVE  [fd |-> f, rdhup |-> side[table[f]] = "gone"] \in [fd : FDs, rdhup : BOOLEAN]
      <4>1. (side[table[f]] = "gone") \in BOOLEAN
        OBVIOUS
      <4> QED BY <4>1
    <3>2. [fd |-> Listen, rdhup |-> FALSE] \in [fd : {Listen}, rdhup : {FALSE}]
      OBVIOUS
    <3> QED BY <3>1, <3>2 DEF Ready, Event, OpenFDs
  <2> QED BY <1>1, <1>2, <1>3, <2>1, <2>2 DEF TypeOK, EpollWait, CallMade
<1>4. ASSUME NEW e \in batch, Accept(e)
      PROVE  TypeIInv'
  <2>1. Pool!TypeOK' /\ UNCHANGED pc
    BY <1>4, PoolUnchanged DEF Accept, TypeOK, poolVars
  <2>2. /\ srv' \in [Clients -> {"none", "backlog", "open", "released"}]
        /\ table' \in [FDs -> Clients \cup {None}]
        /\ accepted' \in FDs \cup {NoFd}
    BY <1>4 DEF Accept, TypeOK
  <2> QED BY <1>1, <1>2, <1>4, <2>1, <2>2 DEF TypeOK, Accept, CallMade
<1>5. ASSUME NEW e \in batch, HangUp(e)
      PROVE  TypeIInv'
  <2>1. Pool!TypeOK' /\ UNCHANGED pc
    BY <1>5, PoolUnchanged DEF HangUp, TypeOK, poolVars
  <2>2. e.fd \in FDs
    BY <1>5 DEF HangUp, TypeOK, Event
  <2>3. /\ srv' \in [Clients -> {"none", "backlog", "open", "released"}]
        /\ table' \in [FDs -> Clients \cup {None}]
    BY <1>5, <2>2, CloseFdTypes DEF HangUp
  <2> QED BY <1>1, <1>2, <1>5, <2>1, <2>3 DEF TypeOK, HangUp, EraseInfo, CallMade
<1>6. ASSUME NEW e \in batch, Readable(e)
      PROVE  TypeIInv'
  <2>1. Pool!TypeOK' /\ UNCHANGED pc
    BY <1>6, PoolUnchanged DEF Readable, TypeOK, poolVars
  <2>2. e.fd \in FDs /\ table[e.fd] \in Clients \cup {None}
    BY <1>6 DEF Readable, TypeOK, Event
  <2> QED BY <1>1, <1>2, <1>6, <2>1, <2>2, ServerAssumption DEF TypeOK, Readable, CallMade
<1>7. CASE RecvPacket
  <2>1. /\ polled \in Clients /\ reading \in FDs /\ inbox[polled] = "full"
        /\ Pool!AppandTask(TheRequest(polled)) /\ inbox' = [inbox EXCEPT ![polled] = "empty"]
        /\ reading' = NoFd /\ polled' = None /\ UNCHANGED <<connVars, batch, accepted>>
    BY <1>7 DEF RecvPacket, StopReading, TypeOK
  <2>2. calls[polled] \in 1..MaxCalls
    BY <2>1, ServerAssumption DEF TypeOK, CallMade
  <2>3. TheRequest(polled) \in Requests
    BY <2>1, <2>2 DEF TheRequest, Requests, TypeOK
  <2>4. Pool!TypeOK' /\ UNCHANGED pc
    BY <2>1, <2>3 DEF Pool!AppandTask, Pool!TypeOK, TypeOK
  <2> QED BY <1>1, <1>2, <2>1, <2>4 DEF TypeOK, CallMade
<1>8. CASE RecvError
  <2>1. Pool!TypeOK' /\ UNCHANGED pc
    BY <1>8, PoolUnchanged DEF RecvError, TypeOK, poolVars
  <2>2. reading \in FDs
    BY <1>8 DEF RecvError, TypeOK
  <2>3. /\ srv' \in [Clients -> {"none", "backlog", "open", "released"}]
        /\ table' \in [FDs -> Clients \cup {None}]
    BY <1>8, <2>2, CloseFdTypes DEF RecvError
  <2> QED BY <1>1, <1>2, <1>8, <2>1, <2>3 DEF TypeOK, RecvError, EraseInfo, StopReading, CallMade
<1>9. CASE Notify
  <2>1. Pool!NotifyOne
    BY <1>9 DEF Notify
  <2>2. Pool!TypeOK' /\ \A w \in Workers : pc'[w] # "task" => pc[w] # "task"
    BY <2>1 DEF Pool!NotifyOne, Pool!TypeOK, Pool!PCs, Pool!Sleeping, TypeOK
  <2> QED BY <1>1, <1>2, <1>9, <2>2 DEF TypeOK, Notify, CallMade
<1>10. CASE Insert
  <2>1. Pool!TypeOK' /\ UNCHANGED pc
    BY <1>10, PoolUnchanged DEF Insert, TypeOK, poolVars
  <2>2. cliInfo' \subseteq FDs
    BY <1>10 DEF Insert, AddInfo, TypeOK
  <2> QED BY <1>1, <1>2, <1>10, <2>1, <2>2 DEF TypeOK, Insert, CallMade
<1> QED BY <1>3, <1>4, <1>5, <1>6, <1>7, <1>8, <1>9, <1>10 DEF Epoll

(***************************************************************************)
(* A worker moves in its handler.                                          *)
(***************************************************************************)
LEMMA GoToTypes ==
  ASSUME TypeIInv, NEW w \in Workers, pc[w] = "task",
         NEW l \in Steps, NEW f \in FDs \cup {NoFd}, GoTo(w, l, f),
         l \in {"close", "erase"} => f \in FDs,
         UNCHANGED <<clientVars, inbox, cliInfo, epollVars, poolVars>>,
         srv' \in [Clients -> {"none", "backlog", "open", "released"}],
         table' \in [FDs -> Clients \cup {None}],
         outbox' \in [Clients -> Seq(Requests \cup {Phantom})]
  PROVE  TypeIInv'
<1> USE DEF TypeIInv, clientVars, epollVars
<1>1. Pool!TypeOK' /\ UNCHANGED pc
  BY PoolUnchanged DEF TypeOK, poolVars
<1>2. /\ reply' \in [Workers -> [at : Steps, fd : FDs \cup {NoFd}]]
      /\ reply'[w] = [at |-> l, fd |-> f]
      /\ \A v \in Workers \ {w} : reply'[v] = reply[v]
  BY DEF GoTo, TypeOK
<1>3. FdToClose'
  BY <1>2 DEF FdToClose
<1>4. CallMade'
  BY DEF CallMade
<1> QED BY <1>1, <1>2, <1>3, <1>4 DEF TypeOK

LEMMA WorkerTypes ==
  ASSUME TypeIInv, NEW w \in Workers, Work(w) \/ SpuriousWake(w)
  PROVE  TypeIInv'
<1> USE DEF clientVars, connVars, epollVars
<1>1. CASE GetTask(w) \/ SpuriousWake(w)
  <2>1. /\ Pool!TypeOK'
        /\ \A v \in Workers : pc'[v] # "task" => pc[v] # "task"
    <3>1. CASE Pool!SpuriousWake(w)
      BY <3>1 DEF TypeIInv, TypeOK, Pool!TypeOK, Pool!SpuriousWake, Pool!PCs, Pool!In
    <3>2. CASE Pool!Take(w)
      <4>1. /\ tasks # <<>> /\ tasks \in Seq(Requests)
            /\ Head(tasks) \in Requests /\ Tail(tasks) \in Seq(Requests)
        BY <3>2 DEF Pool!Take, TypeIInv, TypeOK, Pool!TypeOK
      <4> QED BY <3>2, <4>1, PoolAssumption
          DEF Pool!Take, Pool!TakeFront, TypeIInv, TypeOK, Pool!TypeOK, Pool!PCs
    <3>3. CASE Pool!Lock(w) /\ ~Pool!Take(w)
      BY <3>3 DEF TypeIInv, TypeOK, Pool!TypeOK, Pool!Lock, Pool!PCs, Pool!In
    <3>4. CASE Pool!Relock(w) /\ ~Pool!Take(w)
      BY <3>4, PoolAssumption DEF TypeIInv, TypeOK, Pool!TypeOK, Pool!Relock, Pool!PCs, Pool!In
    <3> QED BY <1>1, <3>1, <3>2, <3>3, <3>4 DEF GetTask, SpuriousWake
  <2>2. UNCHANGED <<clientVars, inbox, outbox, connVars, epollVars, reply>>
    BY <1>1 DEF GetTask, SpuriousWake
  <2> QED BY <2>1, <2>2 DEF TypeIInv, TypeOK, CallMade, FdToClose
<1>2. CASE NoAnswer(w)
  BY <1>2, GoToTypes DEF NoAnswer, In, Steps, TypeIInv, TypeOK
<1>3. CASE TaskEnd(w)
  <2>1. Pool!TypeOK' /\ pc' = [pc EXCEPT ![w] = "lock"]
    BY <1>3 DEF TaskEnd, TypeIInv, TypeOK, Pool!TypeOK, Pool!TaskEnd, Pool!In, Pool!PCs
  <2>2. /\ reply' \in [Workers -> [at : Steps, fd : FDs \cup {NoFd}]]
        /\ reply'[w].at = "start"
        /\ \A v \in Workers \ {w} : reply'[v] = reply[v]
    BY <1>3 DEF TaskEnd, GoTo, TypeIInv, TypeOK, Steps
  <2>3. UNCHANGED <<clientVars, inbox, outbox, connVars, epollVars>>
    BY <1>3 DEF TaskEnd
  <2>4. \A v \in Workers : pc'[v] # "task" => reply'[v].at = "start"
    BY <2>1, <2>2 DEF TypeIInv, TypeOK, Pool!TypeOK
  <2>5. CallMade' /\ FdToClose'
    BY <2>2, <2>3 DEF CallMade, FdToClose, TypeIInv
  <2> QED BY <2>1, <2>2, <2>3, <2>4, <2>5 DEF TypeIInv, TypeOK
<1>4. CASE CloseAfterError(w)
  <2>1. reply[w].fd \in FDs
    BY <1>4 DEF CloseAfterError, In, TypeIInv, FdToClose
  <2> QED BY <1>4, <2>1, GoToTypes, CloseFdTypes DEF CloseAfterError, In, Steps, TypeIInv, TypeOK
<1>5. CASE EraseAfterError(w)
  <2>1. cliInfo' \subseteq FDs
    BY <1>5 DEF EraseAfterError, EraseInfo, TypeIInv, TypeOK
  <2>2. /\ reply' \in [Workers -> [at : Steps, fd : FDs \cup {NoFd}]]
        /\ reply'[w].at = "end"
        /\ \A v \in Workers \ {w} : reply'[v] = reply[v]
    BY <1>5 DEF EraseAfterError, GoTo, TypeIInv, TypeOK, Steps
  <2>3. Pool!TypeOK' /\ UNCHANGED pc /\ pc[w] = "task"
    BY <1>5, PoolUnchanged DEF EraseAfterError, In, TypeIInv, TypeOK, poolVars
  <2>4. CallMade' /\ FdToClose'
    BY <1>5, <2>2 DEF EraseAfterError, CallMade, FdToClose, TypeIInv
  <2> QED BY <1>5, <2>1, <2>2, <2>3, <2>4 DEF EraseAfterError, TypeIInv, TypeOK
<1>6. ASSUME NEW f \in FDs, SendOk(w, f)
      PROVE  TypeIInv'
  <2>1. cur[w] \in Requests \cup {Phantom} /\ table[f] \in Clients
    BY <1>6 DEF SendOk, In, Open, TypeIInv, TypeOK, Pool!TypeOK
  <2>2. outbox' \in [Clients -> Seq(Requests \cup {Phantom})]
    BY <1>6, <2>1 DEF SendOk, TypeIInv, TypeOK
  <2> QED BY <1>6, <2>2, GoToTypes DEF SendOk, Sent, In, Steps, TypeIInv, TypeOK
<1>7. ASSUME NEW f \in FDs, SendError(w, f)
      PROVE  TypeIInv'
  BY <1>7, GoToTypes DEF SendError, In, Steps, TypeIInv, TypeOK
<1> QED BY <1>1, <1>2, <1>3, <1>4, <1>5, <1>6, <1>7 DEF Work

LEMMA TypeNext ==
  ASSUME TypeIInv, [Next]_vars
  PROVE  TypeIInv'
<1>1. CASE UNCHANGED vars
  BY <1>1, PoolUnchanged DEF vars, clientVars, connVars, epollVars, poolVars, TypeIInv, TypeOK,
                             CallMade, FdToClose
<1> QED BY <1>1, ClientTypes, EpollTypes, WorkerTypes DEF Next

(***************************************************************************)
(* The variables of Server have their types.                               *)
(***************************************************************************)
THEOREM ServerTypes == Spec => []TypeOK
<1>1. TypeIInv => TypeOK
  BY DEF TypeIInv
<1> QED BY <1>1, TypeInit, TypeNext, PTL DEF Spec

-----------------------------------------------------------------------------
(* The entries of _cliInfo. *)

OnlyByInsert == StaleEntries' \subseteq StaleEntries \cup ({accepted} \ OpenFDs)

LEMMA SameEntries ==
  ASSUME cliInfo' \subseteq cliInfo, UNCHANGED table,
         \A w \in Workers : reply[w].at = "erase" => UNCHANGED reply[w]
  PROVE  OnlyByInsert
<1>1. OpenFDs' = OpenFDs /\ Erasing \subseteq Erasing'
  BY DEF OpenFDs, Open, Erasing
<1> QED BY <1>1 DEF OnlyByInsert, StaleEntries

(***************************************************************************)
(* The epoll thread closes a number and erases its entry in one step.      *)
(***************************************************************************)
LEMMA CloseAndErase ==
  ASSUME TypeOK, NEW f \in FDs, CloseFd(f), EraseInfo(f), UNCHANGED reply
  PROVE  OnlyByInsert
<1>1. OpenFDs' = OpenFDs \ {f} /\ cliInfo' = cliInfo \ {f} /\ Erasing' = Erasing
  BY CloseFdTypes DEF EraseInfo, Erasing
<1> QED BY <1>1 DEF OnlyByInsert, StaleEntries

LEMMA EntriesStep ==
  ASSUME TypeIInv, [Next]_vars
  PROVE  OnlyByInsert
<1> USE DEF clientVars, connVars, epollVars
<1>1. ASSUME NEW c \in Clients, Client(c)
      PROVE  OnlyByInsert
  BY <1>1, SameEntries DEF Client, Connect, Call, RestArrives, Return, Leave
<1>2. CASE EpollWait \/ RecvPacket \/ Notify
  BY <1>2, SameEntries DEF EpollWait, RecvPacket, Notify
<1>3. ASSUME NEW e \in batch, Accept(e)
      PROVE  OnlyByInsert
  <2>1. UNCHANGED <<cliInfo, reply>> /\ OpenFDs \subseteq OpenFDs'
    <3>1. CASE UNCHANGED table
      BY <1>3, <3>1 DEF Accept, OpenFDs, Open
    <3>2. ASSUME NEW c \in Clients, NEW f \in FDs, table' = [table EXCEPT ![f] = c]
          PROVE  OpenFDs \subseteq OpenFDs'
      BY <3>2, ServerAssumption DEF OpenFDs, Open, TypeIInv, TypeOK
    <3> QED BY <1>3, <3>1, <3>2 DEF Accept, OpenFDs, Open
  <2> QED BY <2>1 DEF OnlyByInsert, StaleEntries, Erasing
<1>4. ASSUME NEW e \in batch, HangUp(e)
      PROVE  OnlyByInsert
  <2>1. e.fd \in FDs
    BY <1>4 DEF HangUp, TypeIInv, TypeOK, Event
  <2> QED BY <1>4, <2>1, CloseAndErase DEF HangUp, TypeIInv
<1>5. ASSUME NEW e \in batch, Readable(e)
      PROVE  OnlyByInsert
  BY <1>5, SameEntries DEF Readable
<1>6. CASE RecvError
  BY <1>6, CloseAndErase DEF RecvError, TypeIInv, TypeOK
<1>7. ASSUME NEW w \in Workers, GetTask(w) \/ SpuriousWake(w)
      PROVE  OnlyByInsert
  BY <1>7, SameEntries DEF GetTask, SpuriousWake
<1>8. ASSUME NEW w \in Workers,
             \/ NoAnswer(w) \/ TaskEnd(w)
             \/ \E f \in FDs : SendOk(w, f) \/ SendError(w, f)
      PROVE  OnlyByInsert
  <2>1. reply[w].at # "erase" /\ UNCHANGED <<cliInfo, table>>
    BY <1>8 DEF NoAnswer, TaskEnd, SendOk, SendError, In
  <2>2. \A v \in Workers \ {w} : UNCHANGED reply[v]
    BY <1>8 DEF NoAnswer, TaskEnd, SendOk, SendError, Sent, GoTo, TypeIInv, TypeOK
  <2> QED BY <2>1, <2>2, SameEntries
<1>9. ASSUME NEW w \in Workers, CloseAfterError(w)
      PROVE  OnlyByInsert
  <2>1. /\ reply[w].at = "close" /\ reply[w].fd \in FDs /\ CloseFd(reply[w].fd)
        /\ GoTo(w, "erase", reply[w].fd) /\ UNCHANGED cliInfo
    BY <1>9 DEF CloseAfterError, In, TypeIInv, FdToClose
  <2>2. OpenFDs' = OpenFDs \ {reply[w].fd}
    BY <2>1, CloseFdTypes DEF TypeIInv
  <2>3. /\ reply'[w] = [at |-> "erase", fd |-> reply[w].fd]
        /\ \A v \in Workers \ {w} : UNCHANGED reply[v]
    BY <2>1 DEF GoTo, TypeIInv, TypeOK
  <2>4. /\ reply'[w].at = "erase" /\ reply'[w].fd = reply[w].fd
        /\ \A v \in Workers : reply[v].at = "erase" => v # w
    BY <2>1, <2>3
  <2>5. reply[w].fd \in Erasing' /\ Erasing \subseteq Erasing'
    BY <2>3, <2>4 DEF Erasing
  <2> QED BY <2>1, <2>2, <2>5 DEF OnlyByInsert, StaleEntries
<1>10. ASSUME NEW w \in Workers, EraseAfterError(w)
       PROVE  OnlyByInsert
  <2>1. /\ cliInfo' = cliInfo \ {reply[w].fd} /\ OpenFDs' = OpenFDs
        /\ \A v \in Workers \ {w} : UNCHANGED reply[v]
    BY <1>10 DEF EraseAfterError, EraseInfo, GoTo, OpenFDs, Open, TypeIInv, TypeOK
  <2>2. Erasing \subseteq Erasing' \cup {reply[w].fd}
    BY <2>1 DEF Erasing
  <2> QED BY <2>1, <2>2 DEF OnlyByInsert, StaleEntries
<1>11. CASE Insert
  <2>1. cliInfo' = cliInfo \cup {accepted} /\ OpenFDs' = OpenFDs /\ Erasing' = Erasing
    BY <1>11 DEF Insert, AddInfo, OpenFDs, Open, Erasing
  <2> QED BY <2>1 DEF OnlyByInsert, StaleEntries
<1>12. CASE UNCHANGED vars
  BY <1>12, SameEntries DEF vars
<1> QED BY <1>1, <1>2, <1>3, <1>4, <1>5, <1>6, <1>7, <1>8, <1>9, <1>10, <1>11, <1>12
        DEF Next, Epoll, Work

(***************************************************************************)
(* Whether the epoll thread closes a number or SendResult does, its entry  *)
(* in _cliInfo goes too or the worker is about to erase it; an entry is    *)
(* left behind only when the number was closed between accept and insert.  *)
(***************************************************************************)
THEOREM EntriesGo == Spec => StaleOnlyByInsert
<1>1. TypeIInv /\ [Next]_vars => OnlyByInsert
  BY EntriesStep
<1>2. OnlyByInsert => [StaleEntries' \subseteq StaleEntries \cup ({accepted} \ OpenFDs)]_vars
  BY DEF OnlyByInsert
<1> QED BY <1>1, <1>2, TypeInit, TypeNext, PTL DEF Spec, StaleOnlyByInsert

-----------------------------------------------------------------------------
(* Where responses go. *)

(***************************************************************************)
(* The numbers of open connections are their own.                          *)
(***************************************************************************)
OwnNumbers ==
  /\ \A f \in FDs : table[f] # None => srv[table[f]] = "open"
  /\ \A f, g \in FDs : table[f] # None /\ table[f] = table[g] => f = g
  /\ \A c \in Clients : side[c] = "new" => srv[c] = "none"

(***************************************************************************)
(* A request that waits or runs has the number of its connection, unless   *)
(* the server has closed that.                                             *)
(***************************************************************************)
Addressed(r) == srv[r.conn] = "released" \/ table[r.fd] = r.conn
WellAddressed ==
  /\ \A i \in 1..Len(tasks) : Addressed(tasks[i])
  /\ \A w \in Workers : pc[w] = "task" /\ cur[w] # Phantom => Addressed(cur[w])

RouteIInv == OwnNumbers /\ WellAddressed /\ MisdeliveredOnlyAfterRelease

(***************************************************************************)
(* What a step may do to connections and numbers: none is reopened, and    *)
(* one that loses its number is closed.                                    *)
(***************************************************************************)
Moves ==
  /\ \A c \in Clients : srv[c] = "released" => srv'[c] = "released"
  /\ \A f \in FDs : table[f] # None =>
       table'[f] = table[f] \/ srv'[table[f]] = "released"

LEMMA StillAddressed ==
  ASSUME TypeOK, Moves, NEW r \in Requests, Addressed(r)
  PROVE  Addressed(r)'
<1>1. r.conn \in Clients /\ r.fd \in FDs /\ r.conn # None
  BY ServerAssumption DEF Requests
<1> QED BY <1>1 DEF Moves, Addressed

LEMMA CloseMoves ==
  ASSUME TypeOK, OwnNumbers, NEW f \in FDs, CloseFd(f), UNCHANGED side
  PROVE  Moves /\ OwnNumbers'
<1>1. /\ \A g \in FDs : table'[g] = IF g = f THEN None ELSE table[g]
      /\ \A c \in Clients : srv'[c] = IF c = table[f] THEN "released" ELSE srv[c]
  BY CloseFdTypes
<1>2. \A g \in FDs : table[g] # None => table[g] \in Clients
  BY DEF TypeOK
<1>3. Moves
  BY <1>1, <1>2 DEF Moves
<1>4. \A g \in FDs : table'[g] # None => srv'[table'[g]] = "open"
  BY <1>1, <1>2 DEF OwnNumbers
<1>5. \A c \in Clients : side[c] = "new" => c # table[f]
  <2>1. table[f] # None => srv[table[f]] = "open"
    BY DEF OwnNumbers
  <2> QED BY <2>1, ServerAssumption DEF OwnNumbers
<1> QED BY <1>1, <1>3, <1>4, <1>5 DEF OwnNumbers

(***************************************************************************)
(* Steps that move connections at most, take requests on, or drop them.    *)
(***************************************************************************)
LEMMA SameRequests ==
  ASSUME TypeOK, Moves, WellAddressed, UNCHANGED tasks,
         \A w \in Workers : pc'[w] = "task" =>
           cur'[w] = Phantom \/ (pc[w] = "task" /\ cur'[w] = cur[w])
  PROVE  WellAddressed'
<1>1. \A i \in 1..Len(tasks) : tasks[i] \in Requests
  BY DEF TypeOK, Pool!TypeOK
<1>2. \A w \in Workers : pc[w] = "task" /\ cur[w] # Phantom => cur[w] \in Requests
  BY DEF TypeOK, Pool!TypeOK
<1>3. \A i \in 1..Len(tasks) : Addressed(tasks[i])'
  BY <1>1, StillAddressed DEF WellAddressed
<1>4. ASSUME NEW w \in Workers, pc'[w] = "task", cur'[w] # Phantom
      PROVE  Addressed(cur[w])' /\ cur'[w] = cur[w]
  BY <1>2, <1>4, StillAddressed DEF WellAddressed
<1>5. \A w \in Workers : pc'[w] = "task" /\ cur'[w] # Phantom => Addressed(cur[w])'
  BY <1>4
<1> QED BY <1>3, <1>5 DEF WellAddressed

(***************************************************************************)
(* What a client has received or can read are answers to requests.         *)
(***************************************************************************)
LEMMA ReceivedRequests ==
  ASSUME TypeOK, NEW c \in Clients, NEW r \in Received(c), r # Phantom
  PROVE  r \in Requests
BY DEF TypeOK, Received

(***************************************************************************)
(* Every response a step delivers goes to the client that asked, or the    *)
(* connection that asked is closed.                                        *)
(***************************************************************************)
LEMMA ResponsesStep ==
  ASSUME TypeOK, Moves, MisdeliveredOnlyAfterRelease,
         \A c \in Clients : \A r \in Received(c)' :
           \/ r = Phantom
           \/ r \in Received(c)
           \/ r \in Requests /\ (r.conn # c => srv[r.conn] = "released")
  PROVE  MisdeliveredOnlyAfterRelease'
<1> SUFFICES ASSUME NEW c \in Clients, NEW r \in Received(c)', r # Phantom, r.conn # c
             PROVE  srv'[r.conn] = "released"
  BY DEF MisdeliveredOnlyAfterRelease
<1>1. r \in Requests /\ srv[r.conn] = "released"
  BY ReceivedRequests DEF MisdeliveredOnlyAfterRelease
<1> QED BY <1>1 DEF Moves, Requests

LEMMA SameResponses ==
  ASSUME TypeOK, Moves, MisdeliveredOnlyAfterRelease, UNCHANGED <<outbox, answers>>
  PROVE  MisdeliveredOnlyAfterRelease'
BY ResponsesStep DEF Received

LEMMA StandStill == ASSUME UNCHANGED <<srv, table>> PROVE Moves
BY DEF Moves

LEMMA SameNumbers ==
  ASSUME OwnNumbers, UNCHANGED <<srv, table>>,
         \A c \in Clients : side'[c] = "new" => side[c] = "new"
  PROVE  OwnNumbers'
BY DEF OwnNumbers

LEMMA ClientRoute ==
  ASSUME TypeIInv, RouteIInv, NEW c \in Clients, Client(c)
  PROVE  RouteIInv'
<1> USE DEF TypeIInv, RouteIInv, clientVars, connVars, epollVars, poolVars
<1>1. UNCHANGED <<table, tasks, pc, cur>>
  BY DEF Client, Connect, Call, RestArrives, Return, Leave
<1>2. Moves /\ OwnNumbers'
  <2>1. CASE Connect(c)
    <3>1. \A d \in Clients : srv'[d] = IF d = c THEN "backlog" ELSE srv[d]
      BY <2>1 DEF Connect, TypeOK
    <3>2. \A d \in Clients : side'[d] = IF d = c THEN "idle" ELSE side[d]
      BY <2>1 DEF Connect, TypeOK
    <3>3. srv[c] = "none"
      BY <2>1 DEF Connect, OwnNumbers
    <3>4. \A f \in FDs : table[f] # None => table[f] \in Clients /\ table[f] # c
      BY <3>3 DEF OwnNumbers, TypeOK
    <3>5. Moves
      BY <1>1, <3>1, <3>3 DEF Moves
    <3>6. \A f \in FDs : table[f] # None => srv'[table[f]] = "open"
      BY <3>1, <3>4 DEF OwnNumbers
    <3> QED BY <1>1, <3>1, <3>2, <3>5, <3>6 DEF OwnNumbers
  <2>2. CASE ~Connect(c)
    <3>1. UNCHANGED <<srv, table>> /\ \A d \in Clients : side'[d] = "new" => side[d] = "new"
      BY <2>2 DEF Client, Call, RestArrives, Return, Leave, TypeOK
    <3> QED BY <3>1, StandStill, SameNumbers
  <2> QED BY <2>1, <2>2
<1>3. WellAddressed'
  BY <1>1, <1>2, SameRequests
<1>4. MisdeliveredOnlyAfterRelease'
  <2>1. CASE Return(c)
    <3>1. /\ outbox[c] # <<>> /\ outbox[c] \in Seq(Requests \cup {Phantom})
          /\ outbox' = [outbox EXCEPT ![c] = Tail(@)]
          /\ answers' = answers \cup {[conn |-> c, n |-> calls[c], to |-> Head(outbox[c])]}
      BY <2>1 DEF Return, TypeOK
    <3>2. /\ Head(outbox[c]) = outbox[c][1] /\ 1 \in 1..Len(outbox[c])
          /\ \A i \in 1..Len(Tail(outbox[c])) :
               Tail(outbox[c])[i] = outbox[c][i + 1] /\ i + 1 \in 1..Len(outbox[c])
      BY <3>1
    <3>3. Head(outbox[c]) \in Received(c)
      BY <3>2 DEF Received
    <3>4. \A d \in Clients : \A i \in 1..Len(outbox'[d]) : outbox'[d][i] \in Received(d)
      <4>1. ASSUME NEW i \in 1..Len(outbox'[c])
            PROVE  outbox'[c][i] \in Received(c)
        <5>1. outbox'[c] = Tail(outbox[c])
          BY <3>1 DEF TypeOK
        <5> QED BY <5>1, <3>2 DEF Received
      <4>2. \A d \in Clients \ {c} : outbox'[d] = outbox[d]
        BY <3>1 DEF TypeOK
      <4> QED BY <4>1, <4>2 DEF Received
    <3>5. ASSUME NEW d \in Clients, NEW a \in answers', a.conn = d
          PROVE  a.to \in Received(d)
      <4>1. CASE a \in answers
        BY <3>5, <4>1 DEF Received
      <4>2. CASE a = [conn |-> c, n |-> calls[c], to |-> Head(outbox[c])]
        <5>1. d = c /\ a.to = Head(outbox[c])
          BY <3>5, <4>2
        <5> QED BY <5>1, <3>3
      <4> QED BY <3>1, <4>1, <4>2
    <3>6. \A d \in Clients : \A r \in Received(d)' : r \in Received(d)
      BY <3>4, <3>5 DEF Received
    <3> QED BY <3>6, <1>2, ResponsesStep
  <2>2. CASE ~Return(c)
    <3>1. UNCHANGED <<outbox, answers>>
      BY <2>2 DEF Client, Connect, Call, RestArrives, Leave
    <3> QED BY <3>1, <1>2, SameResponses
  <2> QED BY <2>1, <2>2
<1> QED BY <1>2, <1>3, <1>4

(***************************************************************************)
(* The epoll thread makes a task of a packet while the connection polled   *)
(* still has its number.                                                   *)
(***************************************************************************)
LEMMA EpollRoute ==
  ASSUME TypeIInv, RouteIInv, Epoll
  PROVE  RouteIInv'
<1> USE DEF TypeIInv, RouteIInv, clientVars, connVars, epollVars, poolVars
<1>1. UNCHANGED <<side, outbox, answers>>
  BY DEF Epoll, EpollWait, Insert, RecvPacket, RecvError, Notify, Accept, HangUp, Readable
<1>2. ASSUME Moves, OwnNumbers', UNCHANGED <<tasks, pc, cur>>
      PROVE  RouteIInv'
  BY <1>1, <1>2, SameRequests, SameResponses
<1>3. CASE EpollWait \/ Insert \/ \E e \in batch : Readable(e)
  BY <1>1, <1>2, <1>3, StandStill, SameNumbers DEF EpollWait, Insert, Readable
<1>4. ASSUME NEW e \in batch, Accept(e)
      PROVE  RouteIInv'
  <2>1. CASE UNCHANGED <<srv, table>>
    BY <1>1, <1>2, <1>4, <2>1, StandStill, SameNumbers DEF Accept
  <2>2. ASSUME NEW c \in Clients, NEW f \in FDs, srv[c] = "backlog", Lowest(f),
               table' = [table EXCEPT ![f] = c], srv' = [srv EXCEPT ![c] = "open"]
        PROVE  RouteIInv'
    <3>1. /\ table[f] = None
          /\ \A g \in FDs : table'[g] = IF g = f THEN c ELSE table[g]
          /\ \A d \in Clients : srv'[d] = IF d = c THEN "open" ELSE srv[d]
      BY <2>2 DEF TypeOK, Lowest, OpenFDs, Open
    <3>2. \A g \in FDs : table[g] # None => table[g] \in Clients /\ table[g] # c
      BY <2>2 DEF OwnNumbers, TypeOK
    <3>3. Moves
      BY <2>2, <3>1 DEF Moves
    <3>4. \A g \in FDs : table'[g] # None => srv'[table'[g]] = "open"
      BY <3>1, <3>2 DEF OwnNumbers
    <3>5. \A g, h \in FDs : table'[g] # None /\ table'[g] = table'[h] => g = h
      BY <3>1, <3>2 DEF OwnNumbers
    <3>6. \A d \in Clients : side'[d] = "new" => srv'[d] = "none"
      BY <1>1, <2>2, <3>1 DEF OwnNumbers
    <3> QED BY <1>2, <1>4, <3>3, <3>4, <3>5, <3>6 DEF OwnNumbers, Accept
  <2> QED BY <1>4, <2>1, <2>2 DEF Accept
<1>5. ASSUME NEW e \in batch, HangUp(e)
      PROVE  RouteIInv'
  <2>1. e.fd \in FDs
    BY <1>5 DEF HangUp, TypeOK, Event
  <2> QED BY <1>1, <1>2, <1>5, <2>1, CloseMoves DEF HangUp
<1>6. CASE RecvError
  BY <1>1, <1>2, <1>6, CloseMoves DEF RecvError, TypeOK
<1>7. CASE RecvPacket
  <2>1. /\ polled \in Clients /\ reading \in FDs /\ table[reading] = polled
        /\ tasks' = Append(tasks, TheRequest(polled)) /\ tasks \in Seq(Requests)
        /\ UNCHANGED <<srv, table, pc, cur>>
    BY <1>7 DEF RecvPacket, TypeOK, Pool!AppandTask, Pool!TypeOK
  <2>2. Moves /\ OwnNumbers' /\ MisdeliveredOnlyAfterRelease'
    BY <1>1, <2>1, StandStill, SameNumbers, SameResponses
  <2>3. Addressed(TheRequest(polled))
    BY <2>1 DEF TheRequest, Addressed
  <2>4. \A i \in 1..Len(tasks') : Addressed(tasks'[i])
    BY <2>1, <2>3 DEF WellAddressed
  <2>5. WellAddressed'
    BY <2>1, <2>4 DEF WellAddressed, Addressed
  <2> QED BY <2>2, <2>5
<1>8. CASE Notify
  <2>1. /\ UNCHANGED <<tasks, cur, srv, table>>
        /\ \A w \in Workers : pc'[w] = "task" => pc[w] = "task"
    BY <1>8 DEF Notify, Pool!NotifyOne, Pool!Sleeping, TypeOK, Pool!TypeOK
  <2> QED BY <1>1, <2>1, StandStill, SameNumbers, SameResponses, SameRequests
<1> QED BY <1>3, <1>4, <1>5, <1>6, <1>7, <1>8 DEF Epoll

(***************************************************************************)
(* A worker delivers to the connection behind the number of its task.      *)
(***************************************************************************)
LEMMA WorkerRoute ==
  ASSUME TypeIInv, RouteIInv, NEW w \in Workers, Work(w) \/ SpuriousWake(w)
  PROVE  RouteIInv'
<1> USE DEF TypeIInv, RouteIInv, clientVars, connVars, epollVars, poolVars
<1>1. UNCHANGED <<side, answers>>
  BY DEF Work, GetTask, SpuriousWake, NoAnswer, TaskEnd, CloseAfterError, EraseAfterError,
         SendOk, SendError
<1>2. CASE GetTask(w)
  <2>1. UNCHANGED <<srv, table, outbox>>
    BY <1>2 DEF GetTask
  <2>2. Moves /\ OwnNumbers' /\ MisdeliveredOnlyAfterRelease'
    BY <1>1, <2>1, StandStill, SameNumbers, SameResponses
  <2>3. CASE Pool!Take(w)
    <3>1. /\ tasks # <<>> /\ tasks \in Seq(Requests)
          /\ cur' = [cur EXCEPT ![w] = Head(tasks)]
          /\ tasks' = Tail(tasks)
          /\ pc' = [pc EXCEPT ![w] = "task"]
      BY <2>3 DEF Pool!Take, Pool!TakeFront, TypeOK, Pool!TypeOK
    <3>2. /\ Head(tasks) = tasks[1] /\ 1 \in 1..Len(tasks)
          /\ \A i \in 1..Len(Tail(tasks)) : Tail(tasks)[i] = tasks[i + 1] /\ i + 1 \in 1..Len(tasks)
      BY <3>1
    <3>3. \A i \in 1..Len(tasks') : Addressed(tasks'[i])
      BY <3>1, <3>2 DEF WellAddressed
    <3>4. \A v \in Workers : pc'[v] = "task" /\ cur'[v] # Phantom => Addressed(cur'[v])
      BY <3>1, <3>2 DEF WellAddressed, TypeOK, Pool!TypeOK
    <3>5. WellAddressed'
      BY <2>1, <3>3, <3>4 DEF WellAddressed, Addressed
    <3> QED BY <2>2, <3>5
  <2>4. CASE ~Pool!Take(w)
    <3>1. /\ UNCHANGED tasks
          /\ \A v \in Workers : pc'[v] = "task" =>
               cur'[v] = Phantom \/ (pc[v] = "task" /\ cur'[v] = cur[v])
      BY <1>2, <2>4 DEF GetTask, Pool!Lock, Pool!Relock, TypeOK, Pool!TypeOK
    <3> QED BY <2>2, <3>1, SameRequests
  <2> QED BY <2>3, <2>4
<1>3. ASSUME Moves, OwnNumbers', UNCHANGED outbox, UNCHANGED <<tasks, cur>>,
             \A v \in Workers : pc'[v] = "task" => pc[v] = "task"
      PROVE  RouteIInv'
  BY <1>1, <1>3, SameRequests, SameResponses
<1>4. CASE SpuriousWake(w)
  <2>1. \A v \in Workers : pc'[v] = "task" => pc[v] = "task"
    BY <1>4 DEF SpuriousWake, Pool!SpuriousWake, TypeOK, Pool!TypeOK
  <2> QED BY <1>1, <1>3, <1>4, <2>1, StandStill, SameNumbers
      DEF SpuriousWake, Pool!SpuriousWake
<1>5. CASE NoAnswer(w) \/ EraseAfterError(w) \/ \E f \in FDs : SendError(w, f)
  BY <1>1, <1>3, <1>5, StandStill, SameNumbers DEF NoAnswer, EraseAfterError, SendError
<1>6. CASE TaskEnd(w)
  <2>1. /\ UNCHANGED <<srv, table, outbox, tasks>>
        /\ \A v \in Workers : pc'[v] = "task" => pc[v] = "task" /\ cur'[v] = cur[v]
    BY <1>6 DEF TaskEnd, Pool!TaskEnd, TypeOK, Pool!TypeOK
  <2> QED BY <1>1, <2>1, StandStill, SameNumbers, SameRequests, SameResponses
<1>7. CASE CloseAfterError(w)
  <2>1. reply[w].fd \in FDs
    BY <1>7 DEF CloseAfterError, In, FdToClose
  <2> QED BY <1>1, <1>3, <1>7, <2>1, CloseMoves DEF CloseAfterError
<1>8. ASSUME NEW f \in FDs, SendOk(w, f)
      PROVE  RouteIInv'
  <2>1. UNCHANGED <<srv, table, tasks, pc, cur>>
    BY <1>8 DEF SendOk
  <2>2. Moves /\ OwnNumbers' /\ WellAddressed'
    BY <1>1, <2>1, StandStill, SameNumbers, SameRequests
  <2>3. /\ pc[w] = "task" /\ cur[w] \in Requests \cup {Phantom}
        /\ table[f] \in Clients
        /\ cur[w] # Phantom => f = cur[w].fd
    BY <1>8 DEF SendOk, In, Targets, Open, TypeOK, Pool!TypeOK
  <2>4. cur[w] # Phantom /\ cur[w].conn # table[f] => srv[cur[w].conn] = "released"
    BY <2>3 DEF WellAddressed, Addressed
  <2>5. \A c \in Clients : \A i \in 1..Len(outbox'[c]) :
          outbox'[c][i] \in Received(c) \/ (c = table[f] /\ outbox'[c][i] = cur[w])
    <3>1. CASE outbox' = outbox
      BY <3>1 DEF Received
    <3>2. CASE outbox' = [outbox EXCEPT ![table[f]] = Append(@, cur[w])]
      <4>1. \A c \in Clients \ {table[f]} : outbox'[c] = outbox[c]
        BY <3>2 DEF TypeOK
      <4>2. /\ outbox'[table[f]] = Append(outbox[table[f]], cur[w])
            /\ outbox[table[f]] \in Seq(Requests \cup {Phantom})
        BY <2>3, <3>2 DEF TypeOK
      <4>3. \A i \in 1..Len(outbox'[table[f]]) :
              \/ i \in 1..Len(outbox[table[f]]) /\ outbox'[table[f]][i] = outbox[table[f]][i]
              \/ outbox'[table[f]][i] = cur[w]
        BY <4>2
      <4> QED BY <4>1, <4>3 DEF Received
    <3> QED BY <1>8, <3>1, <3>2 DEF SendOk
  <2>6. ASSUME NEW c \in Clients, NEW r \in Received(c)'
        PROVE  \/ r = Phantom
               \/ r \in Received(c)
               \/ r \in Requests /\ (r.conn # c => srv[r.conn] = "released")
    <3>1. CASE r \in {outbox'[c][i] : i \in 1..Len(outbox'[c])}
      BY <2>3, <2>4, <2>5, <3>1
    <3>2. CASE r \in {a.to : a \in {b \in answers : b.conn = c}}
      BY <3>2 DEF Received
    <3> QED BY <1>1, <3>1, <3>2 DEF Received
  <2>7. MisdeliveredOnlyAfterRelease'
    BY <2>2, <2>6, ResponsesStep
  <2> QED BY <2>2, <2>7
<1> QED BY <1>2, <1>4, <1>5, <1>6, <1>7, <1>8 DEF Work

LEMMA RouteNext ==
  ASSUME TypeIInv, RouteIInv, [Next]_vars
  PROVE  RouteIInv'
<1>1. CASE UNCHANGED vars
  BY <1>1, StandStill, SameNumbers, SameRequests, SameResponses
     DEF vars, clientVars, connVars, poolVars, TypeIInv, RouteIInv
<1> QED BY <1>1, ClientRoute, EpollRoute, WorkerRoute DEF Next

LEMMA RouteInit == Init => RouteIInv
<1> SUFFICES ASSUME Init PROVE RouteIInv
  OBVIOUS
<1>1. OwnNumbers
  BY DEF Init, OwnNumbers
<1>2. WellAddressed
  BY DEF Init, Pool!Init, WellAddressed
<1>3. \A c \in Clients : Received(c) = {}
  BY DEF Init, Received
<1> QED BY <1>1, <1>2, <1>3 DEF RouteIInv, MisdeliveredOnlyAfterRelease

(***************************************************************************)
(* SendResult answers another client than the one that asked only after    *)
(* the connection that asked was closed by the server, with any number of  *)
(* connections, numbers and workers and all faults.                        *)
(***************************************************************************)
THEOREM OwnAnswers == Spec => []MisdeliveredOnlyAfterRelease
<1>1. RouteIInv => MisdeliveredOnlyAfterRelease
  BY DEF RouteIInv
<1> QED BY <1>1, RouteInit, TypeInit, TypeNext, RouteNext, PTL DEF Spec

-----------------------------------------------------------------------------
(* How often a request is answered. *)

(***************************************************************************)
(* A request that was answered, and what clients have received or can      *)
(* read: answers to different requests.                                    *)
(***************************************************************************)
Answered(r) == \E c \in Clients : r \in Received(c)

ResponsesDiffer ==
  /\ \A c, d \in Clients : \A i \in 1..Len(outbox[c]), j \in 1..Len(outbox[d]) :
       outbox[c][i] = outbox[d][j] => outbox[c][i] = Phantom \/ (c = d /\ i = j)
  /\ \A a, b \in answers : a.to = b.to => a.to = Phantom \/ a = b
  /\ \A c \in Clients : \A i \in 1..Len(outbox[c]), a \in answers :
       outbox[c][i] = a.to => a.to = Phantom

(***************************************************************************)
(* The requests that wait and those that run are different, and a worker   *)
(* has not answered the one it runs before it has sent.                    *)
(***************************************************************************)
InHand(w) == pc[w] = "task" /\ cur[w] # Phantom

RequestsDiffer ==
  /\ \A i, j \in 1..Len(tasks) : tasks[i] = tasks[j] => i = j
  /\ \A w, v \in Workers : InHand(w) /\ InHand(v) /\ cur[w] = cur[v] => w = v
  /\ \A w \in Workers, i \in 1..Len(tasks) : InHand(w) => cur[w] # tasks[i]

NotYetAnswered ==
  /\ \A i \in 1..Len(tasks) : ~Answered(tasks[i])
  /\ \A w \in Workers : InHand(w) /\ reply[w].at = "start" => ~Answered(cur[w])

(***************************************************************************)
(* All of them were appended by the epoll thread, and a call whose packet  *)
(* it has not read has a higher number than those of its client before.    *)
(***************************************************************************)
Appended(r) == \E i \in 1..Len(submitted) : submitted[i] = r

AllAppended ==
  /\ \A i \in 1..Len(tasks) : Appended(tasks[i])
  /\ \A w \in Workers : InHand(w) => Appended(cur[w])
  /\ \A c \in Clients : \A r \in Received(c) : r = Phantom \/ Appended(r)

Numbered ==
  \A i \in 1..Len(submitted) :
    /\ submitted[i].n <= calls[submitted[i].conn]
    /\ inbox[submitted[i].conn] # "empty" => submitted[i].n < calls[submitted[i].conn]

OnceIInv == ResponsesDiffer /\ RequestsDiffer /\ NotYetAnswered /\ AllAppended /\ Numbered

LEMMA AppendedRequests ==
  ASSUME TypeOK, NEW i \in 1..Len(submitted)
  PROVE  submitted[i].conn \in Clients /\ submitted[i].n \in Nat
<1>1. submitted[i] \in Requests
  BY DEF TypeOK, Pool!TypeOK
<1> QED BY <1>1 DEF Requests

LEMMA SameWork ==
  ASSUME TypeOK, OnceIInv, UNCHANGED <<outbox, answers, tasks, submitted, calls>>,
         \A c \in Clients : inbox'[c] # "empty" => inbox[c] # "empty",
         \A w \in Workers : InHand(w)' =>
           /\ InHand(w) /\ cur'[w] = cur[w]
           /\ reply'[w].at = "start" => reply[w].at = "start"
  PROVE  OnceIInv'
<1>1. \A c \in Clients : Received(c)' = Received(c)
  BY DEF Received
<1>2. \A r : Answered(r)' <=> Answered(r)
  BY <1>1 DEF Answered
<1>3. ResponsesDiffer'
  BY DEF OnceIInv, ResponsesDiffer
<1>4. RequestsDiffer'
  BY DEF OnceIInv, RequestsDiffer
<1>5. NotYetAnswered'
  BY <1>2 DEF OnceIInv, NotYetAnswered
<1>6. AllAppended'
  BY <1>1 DEF OnceIInv, AllAppended, Appended
<1>7. Numbered'
  <2>1. \A i \in 1..Len(submitted) : submitted[i].conn \in Clients
    BY AppendedRequests
  <2> QED BY <2>1 DEF OnceIInv, Numbered
<1> QED BY <1>3, <1>4, <1>5, <1>6, <1>7 DEF OnceIInv

LEMMA ClientOnce ==
  ASSUME TypeIInv, OnceIInv, NEW c \in Clients, Client(c)
  PROVE  OnceIInv'
<1> USE DEF TypeIInv, clientVars, connVars, epollVars, poolVars
<1>1. UNCHANGED <<tasks, pc, cur, reply, submitted>>
  BY DEF Client, Connect, Call, RestArrives, Return, Leave
<1>2. CASE Connect(c) \/ Leave(c)
  <2>1. UNCHANGED <<outbox, answers, calls, inbox>>
    BY <1>2 DEF Connect, Leave
  <2> QED BY <1>1, <2>1, SameWork DEF InHand
<1>3. CASE RestArrives(c)
  <2>1. /\ UNCHANGED <<outbox, answers, calls>>
        /\ \A d \in Clients : inbox'[d] # "empty" => inbox[d] # "empty"
    BY <1>3 DEF RestArrives, TypeOK
  <2> QED BY <1>1, <2>1, SameWork DEF InHand
<1>4. ASSUME NEW k \in Kinds, NEW p \in Pieces, Call(c, k, p)
      PROVE  OnceIInv'
  <2>1. UNCHANGED <<outbox, answers>>
    BY <1>4 DEF Call
  <2>2. ResponsesDiffer' /\ RequestsDiffer' /\ NotYetAnswered' /\ AllAppended'
    <3>1. \A d \in Clients : Received(d)' = Received(d)
      BY <2>1 DEF Received
    <3>2. ResponsesDiffer' /\ RequestsDiffer'
      BY <1>1, <2>1 DEF OnceIInv, ResponsesDiffer, RequestsDiffer, InHand
    <3>3. NotYetAnswered'
      BY <1>1, <3>1 DEF OnceIInv, NotYetAnswered, Answered, InHand
    <3>4. AllAppended'
      BY <1>1, <3>1 DEF OnceIInv, AllAppended, Appended, InHand
    <3> QED BY <3>2, <3>3, <3>4
  <2>3. \A d \in Clients : calls'[d] = IF d = c THEN calls[d] + 1 ELSE calls[d]
    BY <1>4 DEF Call, TypeOK
  <2>4. \A d \in Clients : d # c => inbox'[d] = inbox[d]
    BY <1>4 DEF Call, TypeOK
  <2>5. \A i \in 1..Len(submitted) : submitted[i].conn \in Clients /\ submitted[i].n \in Nat
    BY AppendedRequests
  <2>6. \A d \in Clients : calls[d] \in Nat
    BY DEF TypeOK
  <2>7. Numbered'
    BY <1>1, <2>3, <2>4, <2>5, <2>6 DEF OnceIInv, Numbered
  <2> QED BY <2>2, <2>7 DEF OnceIInv
<1>5. CASE Return(c)
  <2> DEFINE a0 == [conn |-> c, n |-> calls[c], to |-> Head(outbox[c])]
             old(d, i) == IF d = c THEN i + 1 ELSE i
  <2>1. /\ outbox[c] # <<>> /\ outbox[c] \in Seq(Requests \cup {Phantom})
        /\ outbox' = [outbox EXCEPT ![c] = Tail(@)]
        /\ answers' = answers \cup {a0}
        /\ UNCHANGED <<calls, inbox>>
    BY <1>5 DEF Return, TypeOK
  <2>2. 1 \in 1..Len(outbox[c]) /\ a0.to = outbox[c][1]
    BY <2>1
  <2>3. ASSUME NEW d \in Clients, NEW i \in 1..Len(outbox'[d])
        PROVE  /\ old(d, i) \in 1..Len(outbox[d])
               /\ outbox'[d][i] = outbox[d][old(d, i)]
    <3>1. CASE d = c
      BY <2>1, <2>3, <3>1 DEF TypeOK
    <3>2. CASE d # c
      BY <2>1, <2>3, <3>2 DEF TypeOK
    <3> QED BY <3>1, <3>2
  <2> HIDE DEF a0
  <2>4. ResponsesDiffer'
    <3>1. ASSUME NEW d \in Clients, NEW e \in Clients,
                 NEW i \in 1..Len(outbox'[d]), NEW j \in 1..Len(outbox'[e]),
                 outbox'[d][i] = outbox'[e][j], outbox'[d][i] # Phantom
          PROVE  d = e /\ i = j
      <4>1. d = e /\ old(d, i) = old(e, j)
        <5>1. /\ old(d, i) \in 1..Len(outbox[d]) /\ outbox'[d][i] = outbox[d][old(d, i)]
              /\ old(e, j) \in 1..Len(outbox[e]) /\ outbox'[e][j] = outbox[e][old(e, j)]
          BY <2>3
        <5> HIDE DEF old
        <5>2. outbox[d][old(d, i)] = outbox[e][old(e, j)] /\ outbox[d][old(d, i)] # Phantom
          BY <3>1, <5>1
        <5> QED BY <5>1, <5>2 DEF OnceIInv, ResponsesDiffer
      <4> QED BY <4>1
    <3>2. ASSUME NEW d \in Clients, NEW i \in 1..Len(outbox'[d]), NEW a \in answers',
                 outbox'[d][i] = a.to, a.to # Phantom
          PROVE  FALSE
      <4>1. a \notin answers
        BY <2>3, <3>2 DEF OnceIInv, ResponsesDiffer
      <4>2. a.to = outbox[c][1]
        BY <2>1, <2>2, <4>1
      <4>3. d = c /\ old(d, i) = 1
        BY <2>2, <2>3, <3>2, <4>2 DEF OnceIInv, ResponsesDiffer
      <4> QED BY <4>3
    <3>3. ASSUME NEW a \in answers', NEW b \in answers', a.to = b.to, a.to # Phantom
          PROVE  a = b
      BY <2>1, <2>2, <3>3 DEF OnceIInv, ResponsesDiffer
    <3> QED BY <3>1, <3>2, <3>3 DEF ResponsesDiffer
  <2>5. \A d \in Clients : \A r \in Received(d)' : Answered(r)
    <3>1. ASSUME NEW d \in Clients, NEW i \in 1..Len(outbox'[d])
          PROVE  outbox'[d][i] \in Received(d)
      BY <2>3 DEF Received
    <3>2. ASSUME NEW a \in answers', a.conn \in Clients
          PROVE  Answered(a.to)
      <4>1. CASE a \in answers
        BY <3>2, <4>1 DEF Answered, Received
      <4>2. CASE a = a0
        BY <2>2, <4>2 DEF Answered, Received
      <4> QED BY <2>1, <4>1, <4>2
    <3>3. ASSUME NEW d \in Clients, NEW i \in 1..Len(outbox'[d])
          PROVE  Answered(outbox'[d][i])
      BY <3>1 DEF Answered
    <3> QED BY <3>2, <3>3 DEF Received
  <2>6. \A r : Answered(r)' => Answered(r)
    BY <2>5 DEF Answered
  <2>7. RequestsDiffer' /\ Numbered'
    BY <1>1, <2>1 DEF OnceIInv, RequestsDiffer, InHand, Numbered
  <2>8. NotYetAnswered'
    BY <1>1, <2>6 DEF OnceIInv, NotYetAnswered, InHand
  <2>9. AllAppended'
    BY <1>1, <2>5 DEF OnceIInv, AllAppended, Appended, InHand, Answered
  <2> QED BY <2>4, <2>7, <2>8, <2>9 DEF OnceIInv
<1> QED BY <1>2, <1>3, <1>4, <1>5 DEF Client

(***************************************************************************)
(* The packet that RecvBuf returns is one the pool has not seen: no later  *)
(* call is read twice, nor an earlier one again.                           *)
(***************************************************************************)
LEMMA PacketIsNew ==
  ASSUME TypeIInv, OnceIInv, polled \in Clients, inbox[polled] = "full"
  PROVE  ~Appended(TheRequest(polled))
<1>1. \A i \in 1..Len(submitted) : submitted[i].conn = polled => submitted[i].n < calls[polled]
  BY DEF OnceIInv, Numbered
<1>2. calls[polled] \in Nat
  BY DEF TypeIInv, TypeOK
<1> QED BY <1>1, <1>2 DEF Appended, TheRequest

LEMMA EpollOnce ==
  ASSUME TypeIInv, OnceIInv, Epoll
  PROVE  OnceIInv'
<1> USE DEF TypeIInv, clientVars, connVars, epollVars, poolVars
<1>1. UNCHANGED <<calls, outbox, answers, reply, cur>>
  BY DEF Epoll, EpollWait, Insert, RecvPacket, RecvError, Notify, Accept, HangUp, Readable,
         Pool!AppandTask, Pool!NotifyOne
<1>2. CASE RecvPacket
  <2> DEFINE r == TheRequest(polled)
  <2>1. /\ polled \in Clients /\ inbox[polled] = "full"
        /\ tasks' = Append(tasks, r) /\ submitted' = Append(submitted, r)
        /\ tasks \in Seq(Requests) /\ submitted \in Seq(Requests)
        /\ UNCHANGED pc
        /\ inbox' = [inbox EXCEPT ![polled] = "empty"]
    BY <1>2 DEF RecvPacket, TypeOK, Pool!AppandTask, Pool!TypeOK
  <2>2. ~Appended(r)
    BY <2>1, PacketIsNew
  <2>3. r.conn = polled /\ r.n = calls[polled] /\ calls[polled] \in Nat
    BY <2>1 DEF TheRequest, TypeOK
  <2> HIDE DEF r
  <2>4. \A i \in 1..Len(tasks') : \/ i \in 1..Len(tasks) /\ tasks'[i] = tasks[i]
                                  \/ i = Len(tasks) + 1 /\ tasks'[i] = r
    BY <2>1
  <2>5. \A i \in 1..Len(submitted') :
          \/ i \in 1..Len(submitted) /\ submitted'[i] = submitted[i]
          \/ i = Len(submitted) + 1 /\ submitted'[i] = r
    BY <2>1
  <2> DEFINE Later(q) == \E i \in 1..Len(submitted') : submitted'[i] = q
  <2>6. Later(r) /\ \A q : Appended(q) => Later(q)
    <3>1. /\ Len(submitted) + 1 \in 1..Len(submitted')
          /\ submitted'[Len(submitted) + 1] = r
      BY <2>1
    <3>2. \A i \in 1..Len(submitted) : i \in 1..Len(submitted') /\ submitted'[i] = submitted[i]
      BY <2>1
    <3>3. Later(r)
      BY <3>1
    <3>4. ASSUME NEW q, Appended(q) PROVE Later(q)
      BY <3>2, <3>4 DEF Appended
    <3> QED BY <3>3, <3>4
  <2>7. \A c \in Clients : Received(c)' = Received(c)
    BY <1>1 DEF Received
  <2>8. r # Phantom /\ ~Answered(r)
    <3>1. r # Phantom
      <4>1. kind[polled] \in Kinds /\ reading \in FDs
        BY <1>2, <2>1 DEF RecvPacket, TypeOK
      <4>2. calls[polled] \in 1..MaxCalls
        BY <2>1 DEF TypeOK, CallMade
      <4>3. r \in Requests
        BY <2>1, <4>1, <4>2 DEF r, TheRequest, Requests
      <4> QED BY <4>3, PoolAssumption
    <3> QED BY <3>1, <2>2 DEF OnceIInv, AllAppended, Answered
  <2>9. ResponsesDiffer'
    BY <1>1 DEF OnceIInv, ResponsesDiffer
  <2>10. RequestsDiffer'
    BY <1>1, <2>1, <2>2, <2>4 DEF OnceIInv, RequestsDiffer, AllAppended, InHand
  <2>11. NotYetAnswered'
    BY <1>1, <2>1, <2>4, <2>7, <2>8 DEF OnceIInv, NotYetAnswered, InHand, Answered
  <2>12. AllAppended'
    <3> HIDE DEF Later
    <3>1. \A i \in 1..Len(tasks') : Later(tasks'[i])
      BY <2>4, <2>6 DEF OnceIInv, AllAppended
    <3>2. \A w \in Workers : pc'[w] = "task" /\ cur'[w] # Phantom => Later(cur'[w])
      BY <1>1, <2>1, <2>6 DEF OnceIInv, AllAppended, InHand
    <3>3. \A c \in Clients : \A q \in Received(c)' : q = Phantom \/ Later(q)
      BY <2>6, <2>7 DEF OnceIInv, AllAppended
    <3> QED BY <3>1, <3>2, <3>3 DEF AllAppended, Appended, Later, InHand
  <2>13. Numbered'
    <3>1. \A c \in Clients : inbox'[c] = IF c = polled THEN "empty" ELSE inbox[c]
      BY <2>1 DEF TypeOK
    <3>2. \A i \in 1..Len(submitted) : submitted[i].conn \in Clients
      BY AppendedRequests
    <3>3. ASSUME NEW i \in 1..Len(submitted')
          PROVE  /\ submitted'[i].n <= calls[submitted'[i].conn]
                 /\ inbox'[submitted'[i].conn] # "empty" =>
                      submitted'[i].n < calls[submitted'[i].conn]
      <4>1. CASE i \in 1..Len(submitted) /\ submitted'[i] = submitted[i]
        BY <3>1, <3>2, <4>1 DEF OnceIInv, Numbered
      <4>2. CASE submitted'[i] = r
        BY <2>1, <2>3, <3>1, <4>2
      <4> QED BY <2>5, <4>1, <4>2
    <3> QED BY <1>1, <3>3 DEF Numbered
  <2> QED BY <2>9, <2>10, <2>11, <2>12, <2>13 DEF OnceIInv
<1>3. CASE ~RecvPacket
  <2>1. /\ UNCHANGED <<tasks, submitted, inbox>>
        /\ \A w \in Workers : pc'[w] = "task" => pc[w] = "task"
    BY <1>3 DEF Epoll, EpollWait, Insert, RecvError, Notify, Accept, HangUp, Readable,
                Pool!NotifyOne, Pool!Sleeping, TypeOK, Pool!TypeOK
  <2> QED BY <1>1, <2>1, SameWork DEF InHand
<1> QED BY <1>2, <1>3

(***************************************************************************)
(* A worker takes a request from the list ...                              *)
(***************************************************************************)
LEMMA TakeOnce ==
  ASSUME TypeIInv, OnceIInv, NEW w \in Workers, Pool!Take(w), pc[w] # "task",
         UNCHANGED <<outbox, answers, calls, inbox, reply>>
  PROVE  OnceIInv'
<1> USE DEF TypeIInv
<1>1. /\ tasks # <<>> /\ tasks \in Seq(Requests)
      /\ tasks' = Tail(tasks)
      /\ UNCHANGED submitted
      /\ \A v \in Workers : cur'[v] = IF v = w THEN Head(tasks) ELSE cur[v]
      /\ \A v \in Workers : pc'[v] = IF v = w THEN "task" ELSE pc[v]
  BY DEF Pool!Take, Pool!TakeFront, TypeOK, Pool!TypeOK
<1>2. /\ Head(tasks) = tasks[1] /\ 1 \in 1..Len(tasks)
      /\ \A i \in 1..Len(tasks') :
           tasks'[i] = tasks[i + 1] /\ i + 1 \in 1..Len(tasks) /\ i + 1 # 1
  BY <1>1
<1>3. \A r : Answered(r)' <=> Answered(r)
  BY DEF Answered, Received
<1>4. ResponsesDiffer' /\ Numbered'
  BY <1>1 DEF OnceIInv, ResponsesDiffer, Numbered
<1>5. RequestsDiffer'
  <2>1. \A i, j \in 1..Len(tasks') : tasks'[i] = tasks'[j] => i = j
    BY <1>2 DEF OnceIInv, RequestsDiffer
  <2>2. ASSUME NEW v \in Workers, NEW u \in Workers, InHand(v)', InHand(u)', cur'[v] = cur'[u]
        PROVE  v = u
    BY <1>1, <1>2, <2>2 DEF OnceIInv, RequestsDiffer, InHand
  <2>3. ASSUME NEW v \in Workers, NEW i \in 1..Len(tasks'), InHand(v)'
        PROVE  cur'[v] # tasks'[i]
    BY <1>1, <1>2, <2>3 DEF OnceIInv, RequestsDiffer, InHand
  <2> QED BY <2>1, <2>2, <2>3 DEF RequestsDiffer
<1>6. NotYetAnswered'
  BY <1>1, <1>2, <1>3 DEF OnceIInv, NotYetAnswered, InHand
<1>7. AllAppended'
  <2>1. \A c \in Clients : Received(c)' = Received(c)
    BY DEF Received
  <2>2. \A r : Appended(r)' <=> Appended(r)
    BY <1>1 DEF Appended
  <2>3. \A i \in 1..Len(tasks') : Appended(tasks'[i])
    BY <1>2 DEF OnceIInv, AllAppended
  <2>4. \A v \in Workers : pc'[v] = "task" /\ cur'[v] # Phantom => Appended(cur'[v])
    BY <1>1, <1>2 DEF OnceIInv, AllAppended, InHand
  <2> QED BY <1>1, <2>1, <2>3, <2>4 DEF OnceIInv, AllAppended, Appended, InHand
<1> QED BY <1>4, <1>5, <1>6, <1>7 DEF OnceIInv

(***************************************************************************)
(* ... and answers it by one send.                                         *)
(***************************************************************************)
LEMMA SendOnce ==
  ASSUME TypeIInv, OnceIInv, NEW w \in Workers, NEW f \in FDs, SendOk(w, f)
  PROVE  OnceIInv'
<1> USE DEF TypeIInv
<1>1. /\ UNCHANGED <<tasks, pc, cur, submitted, calls, inbox, answers>>
      /\ pc[w] = "task" /\ reply[w].at = "start" /\ table[f] \in Clients
      /\ \A v \in Workers : reply'[v].at = IF v = w THEN "end" ELSE reply[v].at
  BY DEF SendOk, Sent, GoTo, In, Open, TypeOK, clientVars, poolVars
<1>2. \A c \in Clients : \A i \in 1..Len(outbox'[c]) :
        \/ i \in 1..Len(outbox[c]) /\ outbox'[c][i] = outbox[c][i]
        \/ c = table[f] /\ i = Len(outbox[c]) + 1 /\ outbox'[c][i] = cur[w]
  <2>1. CASE outbox' = outbox
    BY <2>1
  <2>2. CASE outbox' = [outbox EXCEPT ![table[f]] = Append(@, cur[w])]
    <3>1. \A c \in Clients \ {table[f]} : outbox'[c] = outbox[c]
      BY <2>2 DEF TypeOK
    <3>2. /\ outbox'[table[f]] = Append(outbox[table[f]], cur[w])
          /\ outbox[table[f]] \in Seq(Requests \cup {Phantom})
      BY <1>1, <2>2 DEF TypeOK
    <3>3. \A i \in 1..Len(outbox'[table[f]]) :
            \/ i \in 1..Len(outbox[table[f]]) /\ outbox'[table[f]][i] = outbox[table[f]][i]
            \/ i = Len(outbox[table[f]]) + 1 /\ outbox'[table[f]][i] = cur[w]
      BY <3>2
    <3> QED BY <3>1, <3>3
  <2> QED BY <2>1, <2>2 DEF SendOk
<1>3. /\ \A c \in Clients : \A i \in 1..Len(outbox[c]) : Answered(outbox[c][i])
      /\ \A a \in answers : Answered(a.to)
  BY DEF Answered, Received, TypeOK
<1>4. cur[w] = Phantom \/ ~Answered(cur[w])
  BY <1>1 DEF OnceIInv, NotYetAnswered, InHand
<1>5. ResponsesDiffer'
  <2>1. ASSUME NEW c \in Clients, NEW d \in Clients,
               NEW i \in 1..Len(outbox'[c]), NEW j \in 1..Len(outbox'[d]),
               outbox'[c][i] = outbox'[d][j], outbox'[c][i] # Phantom
        PROVE  c = d /\ i = j
    <3>1. CASE i \in 1..Len(outbox[c]) /\ outbox'[c][i] = outbox[c][i]
      <4>1. Answered(outbox'[c][i])
        BY <1>3, <3>1
      <4>2. outbox'[d][j] # cur[w]
        BY <1>4, <2>1, <4>1
      <4>3. j \in 1..Len(outbox[d]) /\ outbox'[d][j] = outbox[d][j]
        BY <1>2, <4>2
      <4>4. outbox[c][i] = outbox[d][j] /\ outbox[c][i] # Phantom
        BY <2>1, <3>1, <4>3
      <4> QED BY <3>1, <4>3, <4>4 DEF OnceIInv, ResponsesDiffer
    <3>2. CASE c = table[f] /\ i = Len(outbox[c]) + 1 /\ outbox'[c][i] = cur[w]
      BY <1>2, <1>3, <1>4, <2>1, <3>2
    <3> QED BY <1>2, <3>1, <3>2
  <2>2. ASSUME NEW c \in Clients, NEW i \in 1..Len(outbox'[c]), NEW a \in answers,
               outbox'[c][i] = a.to, a.to # Phantom
        PROVE  FALSE
    BY <1>2, <1>3, <1>4, <2>2 DEF OnceIInv, ResponsesDiffer
  <2>3. \A a, b \in answers : a.to = b.to => a.to = Phantom \/ a = b
    BY DEF OnceIInv, ResponsesDiffer
  <2> QED BY <1>1, <2>1, <2>2, <2>3 DEF ResponsesDiffer
<1>6. \A c \in Clients : \A r \in Received(c)' : r \in Received(c) \/ r = cur[w]
  BY <1>1, <1>2 DEF Received
<1>7. \A r : Answered(r)' => Answered(r) \/ r = cur[w]
  BY <1>6 DEF Answered
<1>8. RequestsDiffer' /\ Numbered'
  BY <1>1 DEF OnceIInv, RequestsDiffer, Numbered, InHand
<1>9. NotYetAnswered'
  <2>1. CASE cur[w] = Phantom
    <3>1. /\ \A i \in 1..Len(tasks) : tasks[i] # Phantom
      BY PoolAssumption DEF TypeOK, Pool!TypeOK
    <3> QED BY <1>1, <1>7, <2>1, <3>1 DEF OnceIInv, NotYetAnswered, InHand
  <2>2. CASE cur[w] # Phantom
    BY <1>1, <1>7, <2>2 DEF OnceIInv, NotYetAnswered, RequestsDiffer, InHand
  <2> QED BY <2>1, <2>2
<1>10. AllAppended'
  BY <1>1, <1>6 DEF OnceIInv, AllAppended, Appended, InHand
<1> QED BY <1>5, <1>8, <1>9, <1>10 DEF OnceIInv

LEMMA WorkerOnce ==
  ASSUME TypeIInv, OnceIInv, NEW w \in Workers, Work(w) \/ SpuriousWake(w)
  PROVE  OnceIInv'
<1> USE DEF TypeIInv, clientVars, connVars, epollVars, poolVars
<1>1. CASE GetTask(w) /\ Pool!Take(w)
  BY <1>1, TakeOnce DEF GetTask, Pool!Lock, Pool!Relock, Pool!In
<1>2. CASE (GetTask(w) /\ ~Pool!Take(w)) \/ SpuriousWake(w)
  <2>1. /\ UNCHANGED <<outbox, answers, calls, inbox, reply, tasks, submitted>>
        /\ \A v \in Workers : pc'[v] = "task" =>
             cur'[v] = Phantom \/ (pc[v] = "task" /\ cur'[v] = cur[v])
    BY <1>2 DEF GetTask, SpuriousWake, Pool!SpuriousWake, Pool!Lock, Pool!Relock,
                TypeOK, Pool!TypeOK
  <2> QED BY <2>1, SameWork DEF InHand
<1>3. CASE TaskEnd(w)
  <2>1. /\ UNCHANGED <<outbox, answers, calls, inbox, tasks, submitted>>
        /\ \A v \in Workers : pc'[v] = "task" =>
             pc[v] = "task" /\ cur'[v] = cur[v] /\ reply'[v] = reply[v]
    BY <1>3 DEF TaskEnd, Pool!TaskEnd, GoTo, TypeOK, Pool!TypeOK
  <2> QED BY <2>1, SameWork DEF InHand
<1>4. CASE \/ NoAnswer(w) \/ CloseAfterError(w) \/ EraseAfterError(w)
           \/ \E f \in FDs : SendError(w, f)
  <2>1. /\ UNCHANGED <<outbox, answers, calls, inbox, tasks, submitted, pc, cur>>
        /\ \A v \in Workers : reply'[v].at = "start" => reply[v].at = "start"
    <3>1. ASSUME NEW l \in {"close", "erase", "end"}, NEW f, GoTo(w, l, f)
          PROVE  \A v \in Workers : reply'[v].at = "start" => reply[v].at = "start"
      BY <3>1 DEF GoTo, TypeOK
    <3>2. UNCHANGED <<outbox, answers, calls, inbox, tasks, submitted, pc, cur>>
      BY <1>4 DEF NoAnswer, CloseAfterError, EraseAfterError, SendError
    <3> QED BY <1>4, <3>1, <3>2 DEF NoAnswer, CloseAfterError, EraseAfterError, SendError
  <2> QED BY <2>1, SameWork DEF InHand
<1>5. ASSUME NEW f \in FDs, SendOk(w, f)
      PROVE  OnceIInv'
  BY <1>5, SendOnce
<1> QED BY <1>1, <1>2, <1>3, <1>4, <1>5 DEF Work

LEMMA OnceInit == Init => OnceIInv
<1> SUFFICES ASSUME Init PROVE OnceIInv
  OBVIOUS
<1>1. \A c \in Clients : outbox[c] = <<>> /\ Received(c) = {}
  BY DEF Init, Received
<1>2. tasks = <<>> /\ submitted = <<>> /\ answers = {} /\ \A w \in Workers : pc[w] = "lock"
  BY DEF Init, Pool!Init
<1> QED BY <1>1, <1>2 DEF OnceIInv, ResponsesDiffer, RequestsDiffer, NotYetAnswered,
                          AllAppended, Numbered, InHand

LEMMA OnceNext ==
  ASSUME TypeIInv, OnceIInv, [Next]_vars
  PROVE  OnceIInv'
<1>1. CASE UNCHANGED vars
  BY <1>1, SameWork DEF vars, clientVars, poolVars, TypeIInv, InHand
<1> QED BY <1>1, ClientOnce, EpollOnce, WorkerOnce DEF Next

(***************************************************************************)
(* SendResult answers a request at most once, with any number of clients,  *)
(* descriptors and workers and all faults.                                 *)
(***************************************************************************)
THEOREM NoSecondAnswer == Spec => []AnsweredOnce
<1>1. TypeIInv /\ OnceIInv => AnsweredOnce
  <2> SUFFICES ASSUME TypeIInv, OnceIInv, NEW r \in Pool!Elements(submitted)
               PROVE  LET unread == {p \in {<<c, i>> : c \in Clients, i \in 1..Buffer} :
                                       p[2] <= Len(outbox[p[1]])}
                      IN  Cardinality({p \in unread : outbox[p[1]][p[2]] = r})
                            + Cardinality({a \in answers : a.to = r}) <= 1
    BY DEF AnsweredOnce
  <2> DEFINE unread == {p \in {<<c, i>> : c \in Clients, i \in 1..Buffer} :
                          p[2] <= Len(outbox[p[1]])}
             there == {p \in unread : outbox[p[1]][p[2]] = r}
             read == {a \in answers : a.to = r}
  <2>1. r # Phantom
    BY PoolAssumption DEF Pool!Elements, TypeIInv, TypeOK, Pool!TypeOK
  <2>2. ASSUME NEW p \in there
        PROVE  /\ p = <<p[1], p[2]>> /\ p[1] \in Clients /\ p[2] \in 1..Len(outbox[p[1]])
               /\ outbox[p[1]][p[2]] = r
    <3>1. PICK c \in Clients, i \in 1..Buffer : p = <<c, i>>
      OBVIOUS
    <3>2. Len(outbox[c]) \in Nat
      BY DEF TypeIInv, TypeOK
    <3> QED BY <3>1, <3>2, ServerAssumption
  <2>3. \A p, q \in there : p = q
    BY <2>1, <2>2 DEF OnceIInv, ResponsesDiffer
  <2>4. \A a, b \in read : a = b
    BY <2>1 DEF OnceIInv, ResponsesDiffer
  <2>5. there = {} \/ read = {}
    BY <2>1, <2>2 DEF OnceIInv, ResponsesDiffer
  <2>6. \A S : (\A x, y \in S : x = y) => S = {} \/ \E x : S = {x}
    OBVIOUS
  <2>7. Cardinality({}) = 0 /\ \A x : Cardinality({x}) = 1
    BY FS_EmptySet, FS_Singleton
  <2> HIDE DEF there, read
  <2>8. /\ Cardinality(there) \in {0, 1} /\ Cardinality(read) \in {0, 1}
        /\ Cardinality(there) = 0 \/ Cardinality(read) = 0
    BY <2>3, <2>4, <2>5, <2>6, <2>7
  <2>9. Cardinality(there) + Cardinality(read) <= 1
    BY <2>8
  <2> QED BY <2>9 DEF there, read
<1> QED BY <1>1, TypeInit, TypeNext, OnceInit, OnceNext, PTL DEF Spec

-----------------------------------------------------------------------------
(* Patient clients. *)

(***************************************************************************)
(* What the clients of view.cpp do, who wait for every answer, as long as  *)
(* packets begin with a whole header and responses fit the socket buffer.  *)
(***************************************************************************)
Patient == Faults \subseteq {"spurious"} /\ Kinds = {"answered"} /\ Buffer >= 1

(***************************************************************************)
(* A client at rest has nothing under way; one that waits has its packet   *)
(* at the server or its answer in the stream, never both.                  *)
(***************************************************************************)
ClientSide ==
  \A c \in Clients :
    /\ side[c] # "waiting" => inbox[c] = "empty" /\ outbox[c] = <<>>
    /\ inbox[c] # "empty" => outbox[c] = <<>>
    /\ inbox[c] # "stub"
    /\ outbox[c] = <<>> \/ (Len(outbox[c]) = 1 /\ Mine(c, outbox[c][1]))

(***************************************************************************)
(* Every request in the list or with a worker that has not answered is the *)
(* call its client waits for, and the only one of that client.             *)
(***************************************************************************)
Current(r) ==
  /\ side[r.conn] = "waiting" /\ r.n = calls[r.conn]
  /\ inbox[r.conn] = "empty" /\ outbox[r.conn] = <<>>

Unanswered(w) == InHand(w) /\ reply[w].at = "start"

ServerSide ==
  /\ \A i \in 1..Len(tasks) : Current(tasks[i])
  /\ \A w \in Workers : Unanswered(w) => Current(cur[w])
  /\ \A i, j \in 1..Len(tasks) : tasks[i].conn = tasks[j].conn => i = j
  /\ \A w, v \in Workers :
       Unanswered(w) /\ Unanswered(v) /\ cur[w].conn = cur[v].conn => w = v
  /\ \A w \in Workers, i \in 1..Len(tasks) : Unanswered(w) => cur[w].conn # tasks[i].conn

NotForgotten ==
  \A c \in Clients : side[c] = "waiting" /\ inbox[c] = "empty" /\ outbox[c] = <<>> =>
    \/ \E i \in 1..Len(tasks) : tasks[i].conn = c
    \/ \E w \in Workers : Unanswered(w) /\ cur[w].conn = c

(***************************************************************************)
(* Only the epoll thread closes numbers then, and it works on numbers that *)
(* stay open until it does.                                                *)
(***************************************************************************)
OnlyEpollCloses ==
  /\ \A w \in Workers : reply[w].at \notin {"close", "erase"}
  /\ \A e \in batch : e.fd # Listen =>
       /\ Open(e.fd) /\ e.fd # reading
       /\ e.rdhup => side[table[e.fd]] = "gone"
  /\ \A d, e \in batch : d.fd = e.fd => d = e
  /\ reading # NoFd => polled # None /\ table[reading] = polled

CallIInv == ClientSide /\ ServerSide /\ NotForgotten
PatientIInv == CallIInv /\ OnlyEpollCloses /\ KeptOpen

LEMMA SameCalls ==
  ASSUME TypeOK, CallIInv, UNCHANGED <<calls, outbox, tasks>>,
         \A c \in Clients : side'[c] = "waiting" <=> side[c] = "waiting",
         \A c \in Clients : (inbox'[c] = "empty" <=> inbox[c] = "empty") /\ inbox'[c] # "stub",
         \A w \in Workers : /\ Unanswered(w)' <=> Unanswered(w)
                            /\ Unanswered(w) => cur'[w] = cur[w]
  PROVE  CallIInv'
<1>1. ClientSide'
  BY DEF CallIInv, ClientSide, Mine
<1>2. \A i \in 1..Len(tasks) : tasks[i].conn \in Clients
  <2>1. \A i \in 1..Len(tasks) : tasks[i] \in Requests
    BY DEF TypeOK, Pool!TypeOK
  <2> QED BY <2>1 DEF Requests
<1>3. \A w \in Workers : Unanswered(w) => cur[w].conn \in Clients
  <2>1. \A w \in Workers : Unanswered(w) => cur[w] \in Requests
    BY DEF Unanswered, InHand, TypeOK, Pool!TypeOK
  <2> QED BY <2>1 DEF Requests
<1>4. ServerSide'
  <2>1. \A i \in 1..Len(tasks) : Current(tasks[i])'
    BY <1>2 DEF CallIInv, ServerSide, Current
  <2>2. \A w \in Workers : Unanswered(w) => Current(cur[w])'
    BY <1>3 DEF CallIInv, ServerSide, Current
  <2> QED BY <2>1, <2>2 DEF CallIInv, ServerSide
<1>5. NotForgotten'
  BY DEF CallIInv, NotForgotten
<1> QED BY <1>1, <1>4, <1>5 DEF CallIInv

LEMMA SameEvents ==
  ASSUME TypeOK, OnlyEpollCloses, KeptOpen, UNCHANGED <<table, epollVars>>,
         \A w \in Workers : reply'[w].at \notin {"close", "erase"},
         \A c \in Clients : side[c] = "gone" => side'[c] = "gone",
         \A c \in Clients : srv'[c] = "released" => srv[c] = "released"
  PROVE  OnlyEpollCloses' /\ KeptOpen'
<1>1. UNCHANGED <<batch, reading, polled>>
  BY DEF epollVars
<1>2. KeptOpen'
  BY DEF KeptOpen
<1>3. ASSUME NEW e \in batch, e.fd # Listen
      PROVE  table[e.fd] \in Clients
  <2>1. e \in Event
    BY DEF TypeOK
  <2>2. e.fd \in FDs
    BY <1>3, <2>1 DEF Event
  <2> QED BY <1>3, <2>2 DEF OnlyEpollCloses, Open, TypeOK
<1>4. OnlyEpollCloses'
  BY <1>1, <1>3 DEF OnlyEpollCloses, Open
<1> QED BY <1>2, <1>4

LEMMA PatientClient ==
  ASSUME Patient, TypeIInv, PatientIInv, NEW c \in Clients, Client(c)
  PROVE  PatientIInv'
<1> USE DEF TypeIInv, PatientIInv
<1>1. UNCHANGED <<table, epollVars, reply, tasks, pc, cur>>
  BY DEF Client, Connect, Call, RestArrives, Return, Leave, connVars, poolVars
<1>2. \A w \in Workers : Unanswered(w)' <=> Unanswered(w)
  BY <1>1 DEF Unanswered, InHand
<1>3. \A w \in Workers : reply'[w].at \notin {"close", "erase"}
  BY <1>1 DEF OnlyEpollCloses
<1>4. CASE Connect(c)
  <2>1. /\ UNCHANGED <<calls, outbox, inbox>>
        /\ \A d \in Clients : side'[d] = IF d = c THEN "idle" ELSE side[d]
        /\ side[c] = "new"
        /\ \A d \in Clients : srv'[d] = IF d = c THEN "backlog" ELSE srv[d]
    BY <1>4 DEF Connect, TypeOK
  <2>2. \A d \in Clients : inbox[d] # "stub"
    BY DEF CallIInv, ClientSide
  <2> QED BY <1>1, <1>2, <1>3, <2>1, <2>2, SameCalls, SameEvents
<1>5. CASE Leave(c)
  <2>1. side[c] = "idle"
    BY <1>5 DEF Leave, Patient, KeptOpen
  <2>2. /\ UNCHANGED <<calls, outbox, inbox, srv>>
        /\ \A d \in Clients : side'[d] = IF d = c THEN "gone" ELSE side[d]
    BY <1>5 DEF Leave, TypeOK, connVars
  <2>3. \A d \in Clients : inbox[d] # "stub"
    BY DEF CallIInv, ClientSide
  <2> QED BY <1>1, <1>2, <1>3, <2>1, <2>2, <2>3, SameCalls, SameEvents
<1>6. CASE RestArrives(c)
  <2>1. /\ UNCHANGED <<calls, outbox, side, srv>>
        /\ inbox[c] # "empty"
        /\ \A d \in Clients : inbox'[d] = IF d = c THEN "full" ELSE inbox[d]
    BY <1>6 DEF RestArrives, TypeOK, connVars, clientVars
  <2>2. \A d \in Clients : inbox[d] # "stub"
    BY DEF CallIInv, ClientSide
  <2> QED BY <1>1, <1>2, <1>3, <2>1, <2>2, SameCalls, SameEvents
<1>7. ASSUME NEW k \in Kinds, NEW p \in Pieces, Call(c, k, p)
      PROVE  PatientIInv'
  <2>1. /\ UNCHANGED <<outbox, srv>>
        /\ side[c] = "idle"
        /\ \A d \in Clients : side'[d] = IF d = c THEN "waiting" ELSE side[d]
        /\ \A d \in Clients : inbox'[d] = IF d = c THEN p ELSE inbox[d]
        /\ \A d \in Clients : d # c => calls'[d] = calls[d]
    BY <1>7 DEF Call, TypeOK, connVars
  <2>2. p \in {"part", "full"}
    BY DEF Pieces, Patient
  <2>3. inbox[c] = "empty" /\ outbox[c] = <<>>
    BY <2>1 DEF CallIInv, ClientSide
  <2>4. ClientSide'
    BY <2>1, <2>2, <2>3 DEF CallIInv, ClientSide, Mine
  <2>5. ServerSide'
    <3>1. \A i \in 1..Len(tasks) : Current(tasks[i])'
      <4>1. \A i \in 1..Len(tasks) : tasks[i].conn \in Clients /\ Current(tasks[i])
        <5>1. \A i \in 1..Len(tasks) : tasks[i] \in Requests
          BY DEF TypeOK, Pool!TypeOK
        <5> QED BY <5>1 DEF Requests, CallIInv, ServerSide
      <4> QED BY <1>1, <2>1, <4>1 DEF Current
    <3>2. \A w \in Workers : Unanswered(w) => Current(cur[w])'
      <4>1. \A w \in Workers : Unanswered(w) => cur[w].conn \in Clients /\ Current(cur[w])
        <5>1. \A w \in Workers : Unanswered(w) => cur[w] \in Requests
          BY DEF Unanswered, InHand, TypeOK, Pool!TypeOK
        <5> QED BY <5>1 DEF Requests, CallIInv, ServerSide
      <4> QED BY <1>1, <2>1, <4>1 DEF Current
    <3> QED BY <1>1, <1>2, <3>1, <3>2 DEF CallIInv, ServerSide
  <2>6. NotForgotten'
    BY <1>1, <1>2, <2>1, <2>2 DEF CallIInv, NotForgotten
  <2> QED BY <1>1, <1>3, <2>1, <2>4, <2>5, <2>6, SameEvents DEF CallIInv
<1>8. CASE Return(c)
  <2>1. /\ UNCHANGED <<calls, inbox, srv>>
        /\ side[c] = "waiting" /\ outbox[c] # <<>>
        /\ \A d \in Clients : side'[d] = IF d = c THEN "idle" ELSE side[d]
        /\ \A d \in Clients : outbox'[d] = IF d = c THEN Tail(outbox[c]) ELSE outbox[d]
        /\ outbox[c] \in Seq(Requests \cup {Phantom})
    BY <1>8 DEF Return, TypeOK, connVars
  <2>2. Len(outbox[c]) = 1 /\ inbox[c] = "empty"
    BY <2>1 DEF CallIInv, ClientSide
  <2>3. Tail(outbox[c]) = <<>>
    <3>1. Tail(outbox[c]) \in Seq(Requests \cup {Phantom}) /\ Len(Tail(outbox[c])) = 0
      BY <2>1, <2>2
    <3> QED BY <3>1, EmptySeq
  <2>4. ClientSide'
    BY <2>1, <2>2, <2>3 DEF CallIInv, ClientSide, Mine
  <2>5. ServerSide'
    <3>1. \A i \in 1..Len(tasks) : Current(tasks[i])'
      <4>1. \A i \in 1..Len(tasks) : tasks[i].conn \in Clients /\ Current(tasks[i])
        <5>1. \A i \in 1..Len(tasks) : tasks[i] \in Requests
          BY DEF TypeOK, Pool!TypeOK
        <5> QED BY <5>1 DEF Requests, CallIInv, ServerSide
      <4> QED BY <1>1, <2>1, <4>1 DEF Current
    <3>2. \A w \in Workers : Unanswered(w) => Current(cur[w])'
      <4>1. \A w \in Workers : Unanswered(w) => cur[w].conn \in Clients /\ Current(cur[w])
        <5>1. \A w \in Workers : Unanswered(w) => cur[w] \in Requests
          BY DEF Unanswered, InHand, TypeOK, Pool!TypeOK
        <5> QED BY <5>1 DEF Requests, CallIInv, ServerSide
      <4> QED BY <1>1, <2>1, <4>1 DEF Current
    <3> QED BY <1>1, <1>2, <3>1, <3>2 DEF CallIInv, ServerSide
  <2>6. NotForgotten'
    BY <1>1, <1>2, <2>1 DEF CallIInv, NotForgotten
  <2> QED BY <1>1, <1>3, <2>1, <2>4, <2>5, <2>6, SameEvents DEF CallIInv
<1> QED BY <1>4, <1>5, <1>6, <1>7, <1>8 DEF Client

(***************************************************************************)
(* The epoll thread closes only numbers whose client has left.             *)
(***************************************************************************)
LEMMA CloseGone ==
  ASSUME TypeOK, OwnNumbers, OnlyEpollCloses, KeptOpen, NEW f \in FDs, CloseFd(f),
         table[f] # None, side[table[f]] = "gone",
         UNCHANGED <<side, reply>>, batch' \subseteq batch,
         \A e \in batch' : e.fd # f,
         reading' = NoFd,
         polled' = None
  PROVE  OnlyEpollCloses' /\ KeptOpen'
<1>1. /\ \A g \in FDs : table'[g] = IF g = f THEN None ELSE table[g]
      /\ \A c \in Clients : srv'[c] = IF c = table[f] THEN "released" ELSE srv[c]
  BY CloseFdTypes
<1>2. KeptOpen'
  BY <1>1 DEF KeptOpen
<1>3. ASSUME NEW e \in batch', e.fd # Listen
      PROVE  /\ e.fd \in FDs /\ table'[e.fd] = table[e.fd] /\ table[e.fd] # None
             /\ e.rdhup => side[table[e.fd]] = "gone"
  BY <1>1, <1>3 DEF OnlyEpollCloses, Open, TypeOK, Event
<1>4. \A e \in batch' : e.fd \in FDs => e.fd # reading'
  BY ServerAssumption
<1> QED BY <1>2, <1>3, <1>4 DEF OnlyEpollCloses, Open

LEMMA PatientEpoll ==
  ASSUME Patient, TypeIInv, RouteIInv, PatientIInv, Epoll
  PROVE  PatientIInv'
<1> USE DEF TypeIInv, PatientIInv
<1>1. UNCHANGED <<side, calls, outbox, answers, reply, cur>>
  BY DEF Epoll, EpollWait, Insert, RecvPacket, RecvError, Notify, Accept, HangUp, Readable,
         clientVars, Pool!AppandTask, Pool!NotifyOne, poolVars
<1>2. \A c \in Clients : inbox[c] # "stub"
  BY DEF CallIInv, ClientSide
<1>3. ASSUME UNCHANGED <<inbox, tasks>>,
             \A w \in Workers : pc'[w] = "task" <=> pc[w] = "task"
      PROVE  CallIInv'
  BY <1>1, <1>2, <1>3, SameCalls DEF Unanswered, InHand
<1>4. CASE EpollWait
  <2>1. /\ UNCHANGED <<inbox, tasks, pc, srv, table, reading, polled>>
        /\ batch' = Ready /\ reading = NoFd
    BY <1>4 DEF EpollWait, EpollIdle, connVars, poolVars
  <2> DEFINE EventOf(f) == [fd |-> f, rdhup |-> side[table[f]] = "gone"]
  <2>2. ASSUME NEW e \in Ready
        PROVE  \/ e = [fd |-> Listen, rdhup |-> FALSE]
               \/ \E f \in FDs : Open(f) /\ e = EventOf(f)
    BY DEF Ready, OpenFDs
  <2>3. ASSUME NEW e \in Ready, e.fd # Listen
        PROVE  /\ e.fd \in FDs /\ Open(e.fd) /\ e = EventOf(e.fd)
               /\ e.rdhup => side[table[e.fd]] = "gone"
    <3>1. PICK f \in FDs : Open(f) /\ e = EventOf(f)
      BY <2>2, <2>3
    <3>2. e.fd = f /\ (e.rdhup <=> side[table[f]] = "gone")
      BY <3>1
    <3> QED BY <3>1, <3>2
  <2>4. ASSUME NEW d \in Ready, NEW e \in Ready, d.fd = e.fd
        PROVE  d = e
    <3>1. CASE d.fd = Listen
      <4>1. \A f \in FDs : EventOf(f).fd # Listen
        BY ServerAssumption
      <4> QED BY <2>2, <2>4, <3>1, <4>1
    <3>2. CASE d.fd # Listen
      <4>1. d = EventOf(d.fd) /\ e = EventOf(e.fd)
        BY <2>3, <2>4, <3>2
      <4> HIDE DEF EventOf
      <4> QED BY <2>4, <4>1
    <3> QED BY <3>1, <3>2
  <2>5. OnlyEpollCloses'
    BY <1>1, <2>1, <2>3, <2>4, ServerAssumption DEF OnlyEpollCloses, Open
  <2>6. KeptOpen'
    BY <1>1, <2>1 DEF KeptOpen
  <2> QED BY <1>3, <2>1, <2>5, <2>6
<1>5. ASSUME NEW e \in batch, Accept(e)
      PROVE  PatientIInv'
  <2>1. /\ UNCHANGED <<inbox, tasks, pc, reading, polled>>
        /\ batch' \subseteq batch
    BY <1>5 DEF Accept, poolVars
  <2>2. /\ \A f \in FDs : table[f] # None => table'[f] = table[f]
        /\ \A c \in Clients : srv'[c] = "released" => srv[c] = "released"
    <3>1. CASE UNCHANGED <<srv, table>>
      BY <3>1
    <3>2. ASSUME NEW c \in Clients, NEW f \in FDs, Lowest(f),
                 table' = [table EXCEPT ![f] = c], srv' = [srv EXCEPT ![c] = "open"]
          PROVE  /\ \A g \in FDs : table[g] # None => table'[g] = table[g]
                 /\ \A d \in Clients : srv'[d] = "released" => srv[d] = "released"
      BY <3>2 DEF Lowest, OpenFDs, Open, TypeOK
    <3> QED BY <1>5, <3>1, <3>2 DEF Accept
  <2>3. KeptOpen'
    BY <1>1, <2>2 DEF KeptOpen
  <2>4. \A d \in batch' : d.fd # Listen => d.fd \in FDs
    BY <2>1 DEF TypeOK, Event
  <2>5. OnlyEpollCloses'
    BY <1>1, <2>1, <2>2, <2>4 DEF OnlyEpollCloses, Open, TypeOK
  <2> QED BY <1>3, <2>1, <2>3, <2>5
<1>6. ASSUME NEW e \in batch, HangUp(e)
      PROVE  PatientIInv'
  <2>1. /\ UNCHANGED <<inbox, tasks, pc>> /\ batch' = batch \ {e}
        /\ reading' = NoFd /\ reading = NoFd /\ polled' = polled
        /\ CloseFd(e.fd)
    BY <1>6 DEF HangUp, EpollFree, EpollIdle, poolVars
  <2>2. e.fd \in FDs /\ e.fd # Listen
    BY <1>6, ServerAssumption DEF HangUp, TypeOK, Event
  <2>3. table[e.fd] # None /\ side[table[e.fd]] = "gone"
    BY <1>6, <2>2 DEF HangUp, OnlyEpollCloses, Open
  <2>4. \A d \in batch' : d.fd # e.fd
    BY <2>1 DEF OnlyEpollCloses
  <2>5. polled' = None
    BY <2>1 DEF TypeOK
  <2>6. OnlyEpollCloses' /\ KeptOpen'
    BY <1>1, <2>1, <2>2, <2>3, <2>4, <2>5, CloseGone DEF RouteIInv
  <2> QED BY <1>3, <2>1, <2>6
<1>7. ASSUME NEW e \in batch, Readable(e)
      PROVE  PatientIInv'
  <2>1. /\ UNCHANGED <<inbox, tasks, pc, srv, table>> /\ batch' = batch \ {e}
        /\ reading' = e.fd /\ polled' = table[e.fd] /\ e.fd # Listen
    BY <1>7 DEF Readable, poolVars, connVars
  <2>2. table[e.fd] # None
    BY <2>1 DEF OnlyEpollCloses, Open
  <2>3. \A d \in batch' : d.fd # e.fd
    BY <2>1 DEF OnlyEpollCloses
  <2>4. KeptOpen'
    BY <1>1, <2>1 DEF KeptOpen
  <2>5. OnlyEpollCloses'
    BY <1>1, <2>1, <2>2, <2>3 DEF OnlyEpollCloses, Open
  <2> QED BY <1>3, <2>1, <2>4, <2>5
<1>8. CASE RecvError
  <2>1. /\ reading \in FDs /\ polled # None /\ table[reading] = polled
        /\ UNCHANGED <<inbox, tasks, pc, batch>>
        /\ CloseFd(reading) /\ reading' = NoFd /\ polled' = None
    BY <1>8 DEF RecvError, StopReading, OnlyEpollCloses, TypeOK, poolVars
  <2>2. polled \in Clients
    BY <2>1 DEF TypeOK
  <2>3. side[polled] = "gone"
    BY <1>2, <1>8, <2>1, <2>2 DEF RecvError, RecvFails
  <2>4. \A e \in batch : e.fd # reading
    BY <2>1, ServerAssumption DEF OnlyEpollCloses
  <2>5. OnlyEpollCloses' /\ KeptOpen'
    BY <1>1, <2>1, <2>3, <2>4, CloseGone DEF RouteIInv
  <2> QED BY <1>3, <2>1, <2>5
<1>9. CASE Notify
  <2>1. /\ UNCHANGED <<inbox, tasks, srv, table, epollVars>>
        /\ \A w \in Workers : pc'[w] = "task" <=> pc[w] = "task"
    BY <1>9 DEF Notify, Pool!NotifyOne, Pool!Sleeping, connVars, TypeOK, Pool!TypeOK
  <2>2. \A w \in Workers : reply'[w].at \notin {"close", "erase"}
    BY <1>1 DEF OnlyEpollCloses
  <2> QED BY <1>1, <1>3, <2>1, <2>2, SameEvents
<1>10. CASE Insert
  <2>1. /\ UNCHANGED <<inbox, tasks, pc, srv, table, batch, reading, polled>>
    BY <1>10 DEF Insert, poolVars
  <2>2. OnlyEpollCloses' /\ KeptOpen'
    BY <1>1, <2>1 DEF OnlyEpollCloses, KeptOpen, Open
  <2> QED BY <1>3, <2>1, <2>2
<1>11. CASE RecvPacket
  <2> DEFINE r == TheRequest(polled)
  <2>1. /\ polled \in Clients /\ inbox[polled] = "full"
        /\ tasks' = Append(tasks, r) /\ tasks \in Seq(Requests)
        /\ UNCHANGED <<pc, srv, table, batch>>
        /\ reading' = NoFd /\ polled' = None
        /\ \A c \in Clients : inbox'[c] = IF c = polled THEN "empty" ELSE inbox[c]
    BY <1>11 DEF RecvPacket, TypeOK, Pool!AppandTask, Pool!TypeOK, StopReading, connVars
  <2>2. r.conn = polled /\ r.n = calls[polled]
    BY DEF TheRequest
  <2> HIDE DEF r
  <2>3. side[polled] = "waiting" /\ outbox[polled] = <<>>
    BY <2>1 DEF CallIInv, ClientSide
  <2>4. \A i \in 1..Len(tasks') : \/ i \in 1..Len(tasks) /\ tasks'[i] = tasks[i]
                                  \/ i = Len(tasks) + 1 /\ tasks'[i] = r
    BY <2>1
  <2>5. /\ \A i \in 1..Len(tasks) : i \in 1..Len(tasks') /\ tasks'[i] = tasks[i]
        /\ Len(tasks) + 1 \in 1..Len(tasks') /\ tasks'[Len(tasks) + 1] = r
    BY <2>1
  <2>6. \A w \in Workers : Unanswered(w)' <=> Unanswered(w)
    BY <1>1, <2>1 DEF Unanswered, InHand
  <2>7. \A i \in 1..Len(tasks) : tasks[i].conn \in Clients \ {polled} /\ Current(tasks[i])
    <3>1. \A i \in 1..Len(tasks) : tasks[i] \in Requests /\ Current(tasks[i])
      BY <2>1 DEF CallIInv, ServerSide
    <3> QED BY <2>1, <3>1 DEF Requests, Current
  <2>8. \A w \in Workers : Unanswered(w) => cur[w].conn \in Clients \ {polled} /\ Current(cur[w])
    <3>1. \A w \in Workers : Unanswered(w) => cur[w] \in Requests /\ Current(cur[w])
      BY DEF Unanswered, InHand, TypeOK, Pool!TypeOK, CallIInv, ServerSide
    <3> QED BY <2>1, <3>1 DEF Requests, Current
  <2>9. ClientSide'
    BY <1>1, <2>1, <2>3 DEF CallIInv, ClientSide, Mine
  <2> DEFINE Then(q) == /\ side[q.conn] = "waiting" /\ q.n = calls[q.conn]
                        /\ inbox'[q.conn] = "empty" /\ outbox[q.conn] = <<>>
  <2>10. /\ Then(r)
         /\ \A i \in 1..Len(tasks) : Then(tasks[i])
         /\ \A w \in Workers : Unanswered(w) => Then(cur[w])
    BY <2>1, <2>2, <2>3, <2>7, <2>8 DEF Current
  <2>11. ServerSide'
    <3> HIDE DEF Then
    <3>1. \A i \in 1..Len(tasks') : Then(tasks'[i])
      BY <2>4, <2>10
    <3>2. \A i, j \in 1..Len(tasks') : tasks'[i].conn = tasks'[j].conn => i = j
      BY <2>2, <2>4, <2>7 DEF CallIInv, ServerSide
    <3>3. \A w \in Workers, i \in 1..Len(tasks') : Unanswered(w) => cur[w].conn # tasks'[i].conn
      BY <2>2, <2>4, <2>8 DEF CallIInv, ServerSide
    <3>4. \A w, v \in Workers :
            Unanswered(w) /\ Unanswered(v) /\ cur[w].conn = cur[v].conn => w = v
      BY DEF CallIInv, ServerSide
    <3> QED BY <1>1, <2>6, <2>10, <3>1, <3>2, <3>3, <3>4 DEF ServerSide, Current, Then
  <2>12. NotForgotten'
    <3> SUFFICES ASSUME NEW c \in Clients,
                        side[c] = "waiting" /\ inbox'[c] = "empty" /\ outbox[c] = <<>>
                 PROVE  \/ \E i \in 1..Len(tasks') : tasks'[i].conn = c
                        \/ \E w \in Workers : Unanswered(w) /\ cur[w].conn = c
      BY <1>1, <2>6 DEF NotForgotten
    <3>1. CASE c = polled
      BY <2>2, <2>5, <3>1
    <3>2. CASE c # polled
      BY <2>1, <2>5, <3>2 DEF CallIInv, NotForgotten
    <3> QED BY <3>1, <3>2
  <2>13. KeptOpen'
    BY <1>1, <2>1 DEF KeptOpen
  <2>14. \A e \in batch : e.fd # Listen => e.fd # NoFd
    BY ServerAssumption DEF TypeOK, Event
  <2>15. OnlyEpollCloses'
    BY <1>1, <2>1, <2>14 DEF OnlyEpollCloses, Open
  <2> QED BY <2>9, <2>11, <2>12, <2>13, <2>15 DEF CallIInv
<1> QED BY <1>4, <1>5, <1>6, <1>7, <1>8, <1>9, <1>10, <1>11 DEF Epoll

LEMMA PatientTake ==
  ASSUME TypeIInv, PatientIInv, NEW w \in Workers, Pool!Take(w), pc[w] # "task",
         UNCHANGED <<side, calls, inbox, outbox, reply>>
  PROVE  CallIInv'
<1> USE DEF TypeIInv, PatientIInv
<1>1. /\ tasks # <<>> /\ tasks \in Seq(Requests)
      /\ tasks' = Tail(tasks)
      /\ \A v \in Workers : cur'[v] = IF v = w THEN Head(tasks) ELSE cur[v]
      /\ \A v \in Workers : pc'[v] = IF v = w THEN "task" ELSE pc[v]
  BY DEF Pool!Take, Pool!TakeFront, TypeOK, Pool!TypeOK
<1>2. /\ Head(tasks) = tasks[1] /\ 1 \in 1..Len(tasks) /\ tasks[1] # Phantom
      /\ \A i \in 1..Len(tasks') :
           tasks'[i] = tasks[i + 1] /\ i + 1 \in 1..Len(tasks) /\ i + 1 # 1
      /\ \A i \in 1..Len(tasks) : i # 1 => i - 1 \in 1..Len(tasks') /\ tasks'[i - 1] = tasks[i]
  BY <1>1, PoolAssumption
<1>3. ~Unanswered(w) /\ reply[w].at = "start"
  BY DEF Unanswered, InHand, TypeOK
<1>4. /\ Unanswered(w)' /\ cur'[w] = tasks[1]
      /\ \A v \in Workers : v # w => (Unanswered(v)' <=> Unanswered(v)) /\ cur'[v] = cur[v]
  BY <1>1, <1>2, <1>3 DEF Unanswered, InHand
<1>5. ClientSide'
  BY DEF CallIInv, ClientSide, Mine
<1>6. ServerSide'
  <2>1. \A i \in 1..Len(tasks') : Current(tasks'[i])
    BY <1>2 DEF CallIInv, ServerSide
  <2>2. \A v \in Workers : Unanswered(v)' => Current(cur'[v])
    BY <1>2, <1>4 DEF CallIInv, ServerSide
  <2>3. \A i, j \in 1..Len(tasks') : tasks'[i].conn = tasks'[j].conn => i = j
    BY <1>2 DEF CallIInv, ServerSide
  <2>4. ASSUME NEW u \in Workers, NEW v \in Workers, Unanswered(u)', Unanswered(v)',
               cur'[u].conn = cur'[v].conn
        PROVE  u = v
    BY <1>2, <1>4, <2>4 DEF CallIInv, ServerSide
  <2>5. ASSUME NEW v \in Workers, NEW i \in 1..Len(tasks'), Unanswered(v)'
        PROVE  cur'[v].conn # tasks'[i].conn
    BY <1>2, <1>4, <2>5 DEF CallIInv, ServerSide
  <2> QED BY <2>1, <2>2, <2>3, <2>4, <2>5 DEF ServerSide, Current
<1>7. NotForgotten'
  <2> SUFFICES ASSUME NEW c \in Clients,
                      side[c] = "waiting" /\ inbox[c] = "empty" /\ outbox[c] = <<>>
               PROVE  \/ \E i \in 1..Len(tasks') : tasks'[i].conn = c
                      \/ \E v \in Workers : Unanswered(v)' /\ cur'[v].conn = c
    BY DEF NotForgotten
  <2>1. CASE \E i \in 1..Len(tasks) : tasks[i].conn = c
    BY <1>2, <1>4, <2>1
  <2>2. CASE \E v \in Workers : Unanswered(v) /\ cur[v].conn = c
    BY <1>3, <1>4, <2>2
  <2> QED BY <2>1, <2>2 DEF CallIInv, NotForgotten
<1> QED BY <1>5, <1>6, <1>7 DEF CallIInv

(***************************************************************************)
(* The answer goes to the client that waits for it, and always fits.       *)
(***************************************************************************)
LEMMA OnTarget ==
  ASSUME Patient, TypeIInv, RouteIInv, PatientIInv,
         NEW w \in Workers, pc[w] = "task", reply[w].at = "start",
         NEW f \in FDs, f \in Targets(w)
  PROVE  /\ Unanswered(w) /\ cur[w] \in Requests /\ Current(cur[w])
         /\ cur[w].conn \in Clients /\ table[f] = cur[w].conn /\ Open(f)
<1> USE DEF TypeIInv, PatientIInv
<1>1. cur[w] # Phantom /\ f = cur[w].fd
  BY DEF Targets, Patient
<1>2. cur[w] \in Requests
  BY <1>1 DEF TypeOK, Pool!TypeOK
<1>3. Unanswered(w) /\ Current(cur[w])
  BY <1>1 DEF Unanswered, InHand, CallIInv, ServerSide
<1>4. cur[w].conn \in Clients
  BY <1>2 DEF Requests
<1>5. srv[cur[w].conn] # "released"
  BY <1>3, <1>4 DEF Current, KeptOpen
<1>6. table[f] = cur[w].conn
  BY <1>1, <1>5 DEF RouteIInv, WellAddressed, Addressed
<1> QED BY <1>2, <1>3, <1>4, <1>6, ServerAssumption DEF Open

LEMMA PatientSend ==
  ASSUME Patient, TypeIInv, RouteIInv, PatientIInv, NEW w \in Workers, NEW f \in FDs, SendOk(w, f)
  PROVE  CallIInv'
<1> USE DEF TypeIInv, PatientIInv
<1> DEFINE c == cur[w].conn
<1>1. /\ UNCHANGED <<side, calls, inbox, tasks, pc, cur>>
      /\ pc[w] = "task" /\ reply[w].at = "start" /\ f \in Targets(w)
      /\ \A v \in Workers : reply'[v].at = IF v = w THEN "end" ELSE reply[v].at
  BY DEF SendOk, Sent, GoTo, In, TypeOK, clientVars, poolVars
<1>2. /\ Unanswered(w) /\ cur[w] \in Requests /\ Current(cur[w])
      /\ c \in Clients /\ table[f] = c
  BY <1>1, OnTarget
<1>3. side[c] = "waiting" /\ outbox[c] = <<>> /\ inbox[c] = "empty" /\ cur[w].n = calls[c]
  BY <1>2 DEF Current
<1>4. cur[w] # Phantom
  BY <1>2, PoolAssumption
<1> HIDE DEF c
<1>5. \A d \in Clients : outbox'[d] = IF d = c THEN <<cur[w]>> ELSE outbox[d]
  BY <1>2, <1>3 DEF SendOk, TypeOK
<1>6. /\ ~Unanswered(w)'
      /\ \A v \in Workers : v # w => (Unanswered(v)' <=> Unanswered(v))
  BY <1>1 DEF Unanswered, InHand
<1>7. ClientSide'
  <2>1. Len(outbox'[c]) = 1 /\ outbox'[c][1] = cur[w]
    BY <1>2, <1>5
  <2>2. cur[w].conn = c /\ cur[w].n = calls'[c]
    BY <1>1, <1>3 DEF c
  <2>3. ASSUME NEW d \in Clients
        PROVE  /\ side[d] # "waiting" => inbox[d] = "empty" /\ outbox'[d] = <<>>
               /\ inbox[d] # "empty" => outbox'[d] = <<>>
               /\ inbox[d] # "stub"
               /\ \/ outbox'[d] = <<>>
                  \/ /\ Len(outbox'[d]) = 1 /\ outbox'[d][1] # Phantom
                     /\ outbox'[d][1].conn = d /\ outbox'[d][1].n = calls'[d]
    <3>1. CASE d = c
      BY <1>3, <1>4, <2>1, <2>2, <3>1 DEF CallIInv, ClientSide
    <3>2. CASE d # c
      BY <1>1, <1>5, <3>2 DEF CallIInv, ClientSide, Mine
    <3> QED BY <3>1, <3>2
  <2> QED BY <1>1, <2>3 DEF ClientSide, Mine
<1>8. ServerSide'
  <2>1. \A i \in 1..Len(tasks) : tasks[i].conn \in Clients \ {c} /\ Current(tasks[i])
    <3>1. \A i \in 1..Len(tasks) : tasks[i] \in Requests
      BY DEF TypeOK, Pool!TypeOK
    <3> QED BY <1>2, <3>1 DEF Requests, CallIInv, ServerSide, c
  <2>2. \A v \in Workers : Unanswered(v) /\ v # w => cur[v].conn \in Clients \ {c} /\ Current(cur[v])
    <3>1. \A v \in Workers : Unanswered(v) => cur[v] \in Requests
      BY DEF Unanswered, InHand, TypeOK, Pool!TypeOK
    <3> QED BY <1>2, <3>1 DEF Requests, CallIInv, ServerSide, c
  <2>3. /\ \A i \in 1..Len(tasks) : Current(tasks[i])'
        /\ \A v \in Workers : Unanswered(v) /\ v # w => Current(cur[v])'
    BY <1>1, <1>5, <2>1, <2>2 DEF Current
  <2> QED BY <1>1, <1>6, <2>3 DEF CallIInv, ServerSide
<1>9. NotForgotten'
  <2> SUFFICES ASSUME NEW d \in Clients,
                      side[d] = "waiting" /\ inbox[d] = "empty" /\ outbox'[d] = <<>>
               PROVE  \/ \E i \in 1..Len(tasks) : tasks[i].conn = d
                      \/ \E v \in Workers : Unanswered(v)' /\ cur[v].conn = d
    BY <1>1 DEF NotForgotten
  <2>1. d # c /\ outbox[d] = <<>>
    BY <1>5
  <2> QED BY <1>6, <2>1 DEF CallIInv, NotForgotten, c
<1> QED BY <1>7, <1>8, <1>9 DEF CallIInv

LEMMA PatientWorker ==
  ASSUME Patient, TypeIInv, RouteIInv, PatientIInv, NEW w \in Workers, Work(w) \/ SpuriousWake(w)
  PROVE  PatientIInv'
<1> USE DEF TypeIInv, PatientIInv
<1>1. UNCHANGED <<side, calls, inbox, epollVars>>
  BY DEF Work, GetTask, SpuriousWake, NoAnswer, TaskEnd, CloseAfterError, EraseAfterError,
         SendOk, SendError, clientVars
<1>2. \A c \in Clients : inbox[c] # "stub"
  BY DEF CallIInv, ClientSide
<1>3. ASSUME UNCHANGED <<srv, table>>, \A v \in Workers : reply'[v].at \notin {"close", "erase"}
      PROVE  OnlyEpollCloses' /\ KeptOpen'
  BY <1>1, <1>3, SameEvents
<1>4. ASSUME UNCHANGED <<srv, table, outbox, tasks>>,
             \A v \in Workers : reply'[v].at \notin {"close", "erase"},
             \A v \in Workers : /\ Unanswered(v)' <=> Unanswered(v)
                                /\ Unanswered(v) => cur'[v] = cur[v]
      PROVE  PatientIInv'
  BY <1>1, <1>2, <1>3, <1>4, SameCalls
<1>5. \A v \in Workers : reply[v].at \notin {"close", "erase"}
  BY DEF OnlyEpollCloses
<1>6. CASE GetTask(w) /\ Pool!Take(w)
  <2>1. UNCHANGED <<outbox, srv, table, reply>> /\ pc[w] # "task"
    BY <1>6 DEF GetTask, Pool!Lock, Pool!Relock, Pool!In, connVars
  <2> QED BY <1>1, <1>3, <1>5, <1>6, <2>1, PatientTake
<1>7. CASE (GetTask(w) /\ ~Pool!Take(w)) \/ SpuriousWake(w)
  <2>1. /\ UNCHANGED <<outbox, srv, table, reply, tasks>>
        /\ \A v \in Workers : \/ pc'[v] = pc[v] /\ cur'[v] = cur[v]
                              \/ pc[v] # "task" /\ (pc'[v] # "task" \/ cur'[v] = Phantom)
    BY <1>7 DEF GetTask, SpuriousWake, Pool!SpuriousWake, Pool!Lock, Pool!Relock, Pool!In,
                connVars, TypeOK, Pool!TypeOK
  <2> QED BY <1>4, <1>5, <2>1 DEF Unanswered, InHand
<1>8. CASE TaskEnd(w)
  <2>1. /\ UNCHANGED <<outbox, srv, table, tasks>>
        /\ \A v \in Workers : v # w => pc'[v] = pc[v] /\ cur'[v] = cur[v] /\ reply'[v] = reply[v]
        /\ pc'[w] = "lock" /\ reply[w].at = "end" /\ reply'[w].at = "start"
    BY <1>8 DEF TaskEnd, Pool!TaskEnd, GoTo, In, connVars, TypeOK, Pool!TypeOK
  <2> QED BY <1>4, <1>5, <2>1 DEF Unanswered, InHand
<1>9. CASE NoAnswer(w)
  <2>1. cur[w] = Phantom
    BY <1>9 DEF NoAnswer, KindOf, In, Patient, TypeOK, Pool!TypeOK, Requests
  <2>2. /\ UNCHANGED <<outbox, srv, table, tasks, pc, cur>>
        /\ \A v \in Workers : v # w => reply'[v] = reply[v]
        /\ reply'[w].at = "end"
    BY <1>9 DEF NoAnswer, GoTo, connVars, poolVars, TypeOK
  <2> QED BY <1>4, <1>5, <2>1, <2>2 DEF Unanswered, InHand
<1>10. CASE CloseAfterError(w) \/ EraseAfterError(w)
  BY <1>5, <1>10 DEF CloseAfterError, EraseAfterError, In
<1>11. ASSUME NEW f \in FDs, SendError(w, f)
       PROVE  FALSE
  <2>1. pc[w] = "task" /\ reply[w].at = "start" /\ f \in Targets(w)
    BY <1>11 DEF SendError, In
  <2>2. Current(cur[w]) /\ table[f] = cur[w].conn /\ Open(f)
    BY <2>1, OnTarget
  <2>3. side[table[f]] = "waiting" /\ outbox[table[f]] = <<>>
    BY <2>2 DEF Current
  <2>4. Len(outbox[table[f]]) = 0 /\ Buffer \in Nat
    BY <2>3, ServerAssumption
  <2> QED BY <1>11, <2>2, <2>3, <2>4 DEF SendError, Patient
<1>12. ASSUME NEW f \in FDs, SendOk(w, f)
       PROVE  PatientIInv'
  <2>1. /\ UNCHANGED <<srv, table>>
        /\ \A v \in Workers : reply'[v].at = IF v = w THEN "end" ELSE reply[v].at
    BY <1>12 DEF SendOk, Sent, GoTo, connVars, TypeOK
  <2> QED BY <1>3, <1>5, <1>12, <2>1, PatientSend
<1> QED BY <1>6, <1>7, <1>8, <1>9, <1>10, <1>11, <1>12 DEF Work

LEMMA PatientInit == Init => PatientIInv
<1> SUFFICES ASSUME Init PROVE PatientIInv
  OBVIOUS
<1>1. tasks = <<>> /\ \A w \in Workers : pc[w] = "lock" /\ reply[w].at = "start"
  BY DEF Init, Pool!Init
<1>2. CallIInv
  BY <1>1 DEF Init, CallIInv, ClientSide, ServerSide, NotForgotten, Unanswered, InHand
<1>3. OnlyEpollCloses /\ KeptOpen
  BY <1>1 DEF Init, OnlyEpollCloses, KeptOpen
<1> QED BY <1>2, <1>3 DEF PatientIInv

LEMMA PatientNext ==
  ASSUME Patient, TypeIInv, RouteIInv, PatientIInv, [Next]_vars
  PROVE  PatientIInv'
<1>1. CASE UNCHANGED vars
  <2>1. /\ UNCHANGED <<side, calls, inbox, outbox, tasks, pc, cur, reply, srv, table, epollVars>>
        /\ \A c \in Clients : inbox[c] # "stub"
        /\ \A w \in Workers : reply[w].at \notin {"close", "erase"}
    BY <1>1 DEF vars, clientVars, connVars, poolVars, PatientIInv, CallIInv, ClientSide,
                OnlyEpollCloses
  <2> QED BY <2>1, SameCalls, SameEvents DEF TypeIInv, PatientIInv, Unanswered, InHand
<1> QED BY <1>1, PatientClient, PatientEpoll, PatientWorker DEF Next

LEMMA PatientInvariance ==
  ASSUME Patient
  PROVE  Spec => [](TypeIInv /\ RouteIInv /\ PatientIInv)
<1>1. TypeIInv /\ RouteIInv /\ PatientIInv /\ [Next]_vars => PatientIInv'
  BY PatientNext
<1> QED BY <1>1, TypeInit, TypeNext, RouteInit, RouteNext, PatientInit, PTL DEF Spec

(***************************************************************************)
(* Nobody closes the connection of a patient client: neither HangUp on a   *)
(* number that was reused, nor SendResult, nor RecvBuf.                    *)
(***************************************************************************)
THEOREM ConnectionsKept ==
  ASSUME Patient
  PROVE  Spec => []KeptOpen
<1>1. PatientIInv => KeptOpen
  BY DEF PatientIInv
<1> QED BY <1>1, PatientInvariance, PTL

(***************************************************************************)
(* The call of a patient client is never lost between RecvBuf, the list,   *)
(* a worker and the answer, nor in two of these places.                    *)
(***************************************************************************)
THEOREM CallsHaveOnePlace ==
  ASSUME Patient
  PROVE  Spec => []CallInOnePlace
<1>1. TypeIInv /\ PatientIInv => CallInOnePlace
  <2> SUFFICES ASSUME TypeIInv, PatientIInv, NEW c \in Clients
               PROVE  Cardinality(Places(c)) = IF side[c] = "waiting" THEN 1 ELSE 0
    BY DEF CallInOnePlace
  <2> USE DEF TypeIInv, PatientIInv, CallIInv
  <2> DEFINE InBox == IF inbox[c] # "empty" THEN {"inbox"} ELSE {}
             InList == {<<"tasks", i>> : i \in {j \in 1..Len(tasks) : Mine(c, tasks[j])}}
             AtWork == {<<"worker", w>> : w \in {v \in Workers :
                          /\ cur[v] \notin {Idle, Phantom} /\ Mine(c, cur[v])
                          /\ reply[v].at = "start"}}
             Back == {<<"outbox", i>> : i \in 1..Len(outbox[c])}
  <2>1. Places(c) = InBox \cup InList \cup AtWork \cup Back
    BY DEF Places
  <2>2. \A w \in Workers : Unanswered(w) <=> cur[w] \notin {Idle, Phantom} /\ reply[w].at = "start"
    BY DEF Unanswered, InHand, TypeOK, Pool!TypeOK
  <2>3. ASSUME NEW i \in 1..Len(tasks), tasks[i].conn = c
        PROVE  /\ side[c] = "waiting" /\ Mine(c, tasks[i])
               /\ InBox = {} /\ Back = {} /\ AtWork = {} /\ InList = {<<"tasks", i>>}
    <3>1. tasks[i] # Phantom /\ Current(tasks[i])
      BY PoolAssumption DEF TypeOK, Pool!TypeOK, ServerSide
    <3>2. side[c] = "waiting" /\ Mine(c, tasks[i]) /\ inbox[c] = "empty" /\ outbox[c] = <<>>
      BY <2>3, <3>1 DEF Current, Mine
    <3>3. AtWork = {}
      BY <2>2, <2>3 DEF ServerSide, Mine
    <3>4. InList = {<<"tasks", i>>}
      BY <2>3, <3>2 DEF ServerSide, Mine
    <3>5. Back = {}
      BY <3>2
    <3> QED BY <3>2, <3>3, <3>4, <3>5
  <2>4. ASSUME NEW w \in Workers, Unanswered(w), cur[w].conn = c
        PROVE  /\ side[c] = "waiting"
               /\ InBox = {} /\ Back = {} /\ InList = {} /\ AtWork = {<<"worker", w>>}
    <3>1. Current(cur[w]) /\ cur[w] # Phantom
      BY <2>4 DEF ServerSide, Unanswered, InHand
    <3>2. side[c] = "waiting" /\ Mine(c, cur[w]) /\ inbox[c] = "empty" /\ outbox[c] = <<>>
      BY <2>4, <3>1 DEF Current, Mine
    <3>3. InList = {}
      BY <2>4 DEF ServerSide, Mine
    <3>4. AtWork = {<<"worker", w>>}
      BY <2>2, <2>4, <3>2 DEF ServerSide, Mine
    <3>5. Back = {}
      BY <3>2
    <3> QED BY <3>2, <3>3, <3>4, <3>5
  <2>5. CASE \/ \E i \in 1..Len(tasks) : tasks[i].conn = c
             \/ \E w \in Workers : Unanswered(w) /\ cur[w].conn = c
    <3>1. side[c] = "waiting" /\ \E x : Places(c) = {x}
      BY <2>1, <2>3, <2>4, <2>5
    <3> QED BY <3>1, FS_Singleton
  <2>6. CASE ~ \/ \E i \in 1..Len(tasks) : tasks[i].conn = c
               \/ \E w \in Workers : Unanswered(w) /\ cur[w].conn = c
    <3>1. InList = {} /\ AtWork = {}
      BY <2>2, <2>6 DEF Mine
    <3>2. CASE side[c] # "waiting"
      <4>1. InBox = {} /\ Back = {}
        BY <3>2 DEF ClientSide
      <4> QED BY <2>1, <3>1, <3>2, <4>1, FS_EmptySet
    <3>3. CASE side[c] = "waiting" /\ inbox[c] # "empty"
      <4>1. InBox = {"inbox"} /\ Back = {}
        BY <3>3 DEF ClientSide
      <4>2. Places(c) = {"inbox"}
        BY <2>1, <3>1, <4>1
      <4> QED BY <3>3, <4>2, FS_Singleton
    <3>4. CASE side[c] = "waiting" /\ inbox[c] = "empty"
      <4>1. Len(outbox[c]) = 1
        BY <2>6, <3>4 DEF ClientSide, NotForgotten
      <4>2. Back = {<<"outbox", 1>>}
        BY <4>1
      <4>3. Places(c) = {<<"outbox", 1>>}
        BY <2>1, <3>1, <3>4, <4>2
      <4> QED BY <3>4, <4>3, FS_Singleton
    <3> QED BY <3>2, <3>3, <3>4
  <2> QED BY <2>5, <2>6
<1> QED BY <1>1, PatientInvariance, PTL

(***************************************************************************)
(* And so patient clients see remote procedure calls with their own        *)
(* answers; that the calls return is left to the liveness of Rpc.          *)
(***************************************************************************)
THEOREM CallsGetTheirAnswers ==
  ASSUME Patient
  PROVE  Spec => Calls!Init /\ [][Calls!Next]_(Calls!vars)
<1> DEFINE Answer(a) ==
      [call |-> <<a.conn, a.n>>,
       answerTo |-> IF a.to = Phantom THEN <<>> ELSE <<a.to.conn, a.to.n>>]
<1>1. Init => Calls!Init
  BY DEF Init, Calls!Init
<1>2. ASSUME TypeIInv, PatientIInv, [Next]_vars
      PROVE  [Calls!Next]_(Calls!vars)
  <2>1. ASSUME UNCHANGED <<side, calls, answers>>
        PROVE  UNCHANGED Calls!vars
    BY <2>1 DEF Calls!vars
  <2>2. CASE Epoll \/ \E w \in Workers : Work(w) \/ SpuriousWake(w)
    BY <2>1, <2>2 DEF Epoll, EpollWait, Insert, RecvPacket, RecvError, Notify, Accept, HangUp, Readable,
         Work, GetTask, SpuriousWake, NoAnswer, TaskEnd, CloseAfterError, EraseAfterError,
         SendOk, SendError, clientVars
  <2>3. CASE UNCHANGED vars
    BY <2>1, <2>3 DEF vars, clientVars
  <2>4. ASSUME NEW c \in Clients, Client(c)
        PROVE  [Calls!Next]_(Calls!vars)
    <3>1. CASE Connect(c)
      BY <3>1 DEF Connect, Calls!Next, Calls!Connect
    <3>2. CASE RestArrives(c)
      BY <2>1, <3>2 DEF RestArrives, clientVars
    <3>3. ASSUME NEW k \in Kinds, NEW p \in Pieces, Call(c, k, p)
          PROVE  [Calls!Next]_(Calls!vars)
      BY <3>3 DEF Call, Calls!Next, Calls!Call
    <3>4. CASE Leave(c)
      <4>1. side[c] = "idle"
        BY <1>2, <3>4, Patient DEF Leave, Patient, PatientIInv, KeptOpen
      <4> QED BY <3>4, <4>1 DEF Leave, Calls!Next, Calls!Leave
    <3>5. CASE Return(c)
      <4> DEFINE a0 == [conn |-> c, n |-> calls[c], to |-> Head(outbox[c])]
      <4>1. /\ side[c] = "waiting" /\ side' = [side EXCEPT ![c] = "idle"]
            /\ UNCHANGED calls /\ answers' = answers \cup {a0}
            /\ outbox[c] # <<>>
        BY <3>5 DEF Return
      <4>2. Mine(c, outbox[c][1])
        BY <1>2, <4>1 DEF PatientIInv, CallIInv, ClientSide
      <4>3. Head(outbox[c]) = outbox[c][1]
        BY <1>2, <4>1 DEF TypeIInv, TypeOK
      <4>4. Answer(a0) = [call |-> <<c, calls[c]>>, answerTo |-> <<c, calls[c]>>]
        BY <4>2, <4>3 DEF Mine
      <4>5. {Answer(a) : a \in answers'} = {Answer(a) : a \in answers} \cup {Answer(a0)}
        BY <4>1
      <4> QED BY <4>1, <4>4, <4>5 DEF Calls!Next, Calls!Return
    <3> QED BY <2>4, <3>1, <3>2, <3>3, <3>4, <3>5 DEF Client
  <2> QED BY <1>2, <2>2, <2>3, <2>4 DEF Next
<1> QED BY <1>1, <1>2, PatientInvariance, PTL DEF Spec
=============================================================================
