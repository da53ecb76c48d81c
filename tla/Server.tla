------------------------------- MODULE Server -------------------------------
(***************************************************************************)
(* One question server: the epoll loop of Sys::Run (src/server/sys.cpp),   *)
(* the thread pool it feeds (module ThreadPool) and the way a handler      *)
(* answers (SendResult in src/server/control.cpp), together with the       *)
(* clients at the other end of the connections.                            *)
(*                                                                         *)
(* What ties the parts together is the descriptor number.  A task carries  *)
(* the number of the connection it came from, not the connection; the      *)
(* epoll thread closes and accepts while tasks wait or run, and the kernel *)
(* gives a freed number to the next connection.  So a connection is an     *)
(* identity here, and a descriptor a slot of a table that may hold it.     *)
(*                                                                         *)
(* What a handler does with the databases is the subject of other modules: *)
(* here it answers, or (SelectQues, an unknown command) does not.          *)
(***************************************************************************)
EXTENDS Naturals, Sequences, FiniteSets

CONSTANTS Clients,   \* the connections that are ever made, each once
          FDs,       \* the numbers the kernel has for them
          NoFd,      \* no descriptor
          Listen,    \* the listening descriptor
          None,      \* no connection
          Workers, Idle, Phantom,     \* see ThreadPool
          MaxCalls,  \* bound: how many requests a client makes at most
          Buffer,    \* bound: how many unread responses a connection holds
          Kinds,     \* the kinds of request: "answered", "silent"
          Faults     \* what may go wrong, see below

(***************************************************************************)
(* "abandon": a client closes while its answer is outstanding.             *)
(* "fragment": the first bytes of a packet that arrive are fewer than a    *)
(*   header.                                                               *)
(* "stall": SendBuf gives up on a connection that is alive, because 1000   *)
(*   calls of send found no room for a large response.                     *)
(* "garbage": the command of a phantom task happens to be a known one.     *)
(* "spurious": a worker's wait returns though nobody notified it; without  *)
(*   it a task that another worker took first still leaves a phantom.      *)
(***************************************************************************)
ASSUME ServerAssumption ==
  /\ FDs \subseteq Nat
  /\ NoFd \notin FDs /\ Listen \notin FDs /\ None \notin Clients
  /\ MaxCalls \in Nat /\ Buffer \in Nat
  /\ Kinds \subseteq {"answered", "silent"}
  /\ Faults \subseteq {"abandon", "fragment", "stall", "garbage", "spurious"}

Requests == [fd : FDs, conn : Clients, n : 1..MaxCalls, kind : Kinds]

ASSUME PoolAssumption ==
  /\ Idle \notin Requests /\ Phantom \notin Requests /\ Idle # Phantom
  /\ Kinds # {}

VARIABLES
  side,      \* the client's end of each connection
  calls,     \* how many requests each client has made
  kind,      \* the kind of its latest request
  inbox,     \* how much of that request lies unread at the server
  outbox,    \* the responses the client has not read, oldest first
  answers,   \* history: which response each call was answered with
  srv,       \* the server's end of each connection
  table,     \* the descriptor table: the connection behind each number
  cliInfo,   \* _cliInfo: the numbers that have an entry
  batch,     \* the events of the last epoll_wait still to be dealt with
  reading,   \* the descriptor RecvBuf is reading, or NoFd
  polled,    \* the connection RecvBuf waits for
  accepted,  \* the number accept returned, not yet in _cliInfo, or NoFd
  reply,     \* where each worker is in its handler, and with which number
  tasks, pc, cur, notifying, submitted, started, finished  \* ThreadPool

clientVars == <<side, calls, kind, answers>>
poolVars == <<tasks, pc, cur, notifying, submitted, started, finished>>
epollVars == <<batch, reading, polled, accepted>>
connVars == <<srv, table, cliInfo>>
vars == <<clientVars, inbox, outbox, connVars, epollVars, reply, poolVars>>

Pool == INSTANCE ThreadPool

Event == [fd : FDs, rdhup : BOOLEAN] \cup [fd : {Listen}, rdhup : {FALSE}]
Steps == {"start", "close", "erase", "end"}

Init ==
  /\ side = [c \in Clients |-> "new"]
  /\ calls = [c \in Clients |-> 0]
  /\ kind = [c \in Clients |-> CHOOSE k \in Kinds : TRUE]
  /\ inbox = [c \in Clients |-> "empty"]
  /\ outbox = [c \in Clients |-> <<>>]
  /\ answers = {}
  /\ srv = [c \in Clients |-> "none"]
  /\ table = [f \in FDs |-> None]
  /\ cliInfo = {}
  /\ batch = {}
  /\ reading = NoFd
  /\ polled = None
  /\ accepted = NoFd
  /\ reply = [w \in Workers |-> [at |-> "start", fd |-> NoFd]]
  /\ Pool!Init

-----------------------------------------------------------------------------
(* The clients: src/client/cli_socket.cpp, one request at a time. *)

Connect(c) ==
  /\ side[c] = "new"
  /\ side' = [side EXCEPT ![c] = "idle"]
  /\ srv' = [srv EXCEPT ![c] = "backlog"]
  /\ UNCHANGED <<calls, kind, answers, inbox, outbox, table, cliInfo,
                 epollVars, reply, poolVars>>

(***************************************************************************)
(* A request is one send, but the stream may deliver it in pieces: less    *)
(* than a header, a header and not the whole body, or all of it.           *)
(***************************************************************************)
Pieces == {"part", "full"} \cup (IF "fragment" \in Faults THEN {"stub"} ELSE {})

Call(c, k, piece) ==
  /\ side[c] = "idle"
  /\ srv[c] # "released"
  /\ calls[c] < MaxCalls
  /\ side' = [side EXCEPT ![c] = "waiting"]
  /\ calls' = [calls EXCEPT ![c] = @ + 1]
  /\ kind' = [kind EXCEPT ![c] = k]
  /\ inbox' = [inbox EXCEPT ![c] = piece]
  /\ UNCHANGED <<answers, outbox, connVars, epollVars, reply, poolVars>>

RestArrives(c) ==
  /\ inbox[c] \in {"stub", "part"}
  /\ inbox' = [inbox EXCEPT ![c] = "full"]
  /\ UNCHANGED <<clientVars, outbox, connVars, epollVars, reply, poolVars>>

(***************************************************************************)
(* The client takes the next response on its connection for the answer to  *)
(* its call: nothing in a packet says which request it answers.            *)
(***************************************************************************)
Return(c) ==
  /\ side[c] = "waiting"
  /\ outbox[c] # <<>>
  /\ side' = [side EXCEPT ![c] = "idle"]
  /\ outbox' = [outbox EXCEPT ![c] = Tail(@)]
  /\ answers' = answers \cup {[conn |-> c, n |-> calls[c], to |-> Head(outbox[c])]}
  /\ UNCHANGED <<calls, kind, inbox, connVars, epollVars, reply, poolVars>>

(***************************************************************************)
(* The client leaves between two calls, in the middle of one if clients    *)
(* abandon calls, or because the server closed the connection.             *)
(***************************************************************************)
Leave(c) ==
  /\ \/ side[c] = "idle"
     \/ side[c] = "waiting" /\ "abandon" \in Faults
     \/ side[c] = "waiting" /\ srv[c] = "released" /\ outbox[c] = <<>>
  /\ side' = [side EXCEPT ![c] = "gone"]
  /\ UNCHANGED <<calls, kind, answers, inbox, outbox, connVars, epollVars,
                 reply, poolVars>>

-----------------------------------------------------------------------------
(* Descriptors. *)

Open(f) == table[f] # None
OpenFDs == {f \in FDs : Open(f)}

(***************************************************************************)
(* close(f): the number is free again.  Closing a number that is not open  *)
(* fails and changes nothing.                                              *)
(***************************************************************************)
CloseFd(f) ==
  /\ table' = [table EXCEPT ![f] = None]
  /\ srv' = [c \in Clients |-> IF c = table[f] THEN "released" ELSE srv[c]]

(***************************************************************************)
(* The kernel hands out the lowest free number.                            *)
(***************************************************************************)
Lowest(f) == f \in FDs \ OpenFDs /\ \A g \in FDs \ OpenFDs : f <= g

-----------------------------------------------------------------------------
(* The epoll thread. *)

EpollIdle == reading = NoFd /\ accepted = NoFd /\ ~notifying

EpollFree == batch # {} /\ EpollIdle

Ready ==
  {[fd |-> f, rdhup |-> side[table[f]] = "gone"] :
     f \in {g \in OpenFDs : inbox[table[g]] # "empty" \/ side[table[g]] = "gone"}}
  \cup {[fd |-> Listen, rdhup |-> FALSE] :
          c \in {d \in Clients : srv[d] = "backlog"}}

(***************************************************************************)
(* epoll_wait returns every event that is ready (at most 10000), and the   *)
(* loop works through that snapshot although the world moves on.           *)
(***************************************************************************)
EpollWait ==
  /\ batch = {} /\ EpollIdle
  /\ Ready # {}
  /\ batch' = Ready
  /\ UNCHANGED <<clientVars, inbox, outbox, connVars, reading, polled, accepted,
                 reply, poolVars>>

AddInfo(f) == cliInfo' = cliInfo \cup {f}
KeepInfo(f) == UNCHANGED cliInfo   \* mutant
EraseInfo(f) == cliInfo' = cliInfo \ {f}

(***************************************************************************)
(* Lines 138 to 151: accept, add to the epoll set.  Without a free number  *)
(* accept fails and the event is dropped.                                  *)
(***************************************************************************)
Accept(e) ==
  /\ EpollFree /\ e \in batch
  /\ e.fd = Listen
  /\ batch' = batch \ {e}
  /\ \/ \E c \in Clients, f \in FDs :
          /\ srv[c] = "backlog" /\ Lowest(f)
          /\ table' = [table EXCEPT ![f] = c]
          /\ srv' = [srv EXCEPT ![c] = "open"]
          /\ accepted' = f
     \/ OpenFDs = FDs /\ UNCHANGED <<srv, table, accepted>>
  /\ UNCHANGED <<clientVars, inbox, outbox, cliInfo, reading, polled, reply, poolVars>>

(***************************************************************************)
(* Line 152: the entry is inserted, whether or not a worker closed the     *)
(* number since it was accepted.                                           *)
(***************************************************************************)
Insert ==
  /\ accepted # NoFd
  /\ AddInfo(accepted)
  /\ accepted' = NoFd
  /\ UNCHANGED <<clientVars, inbox, outbox, srv, table, batch, reading, polled,
                 reply, poolVars>>

(***************************************************************************)
(* Lines 154 to 160: whatever was still to be read is dropped.  Close and  *)
(* erase are one step: only this thread accepts and inserts, so a worker   *)
(* in between finds the number closed and can at most erase the entry too. *)
(***************************************************************************)
HangUp(e) ==
  /\ EpollFree /\ e \in batch
  /\ e.rdhup
  /\ batch' = batch \ {e}
  /\ CloseFd(e.fd)
  /\ EraseInfo(e.fd)
  /\ UNCHANGED <<clientVars, inbox, outbox, reading, polled, accepted, reply, poolVars>>

(***************************************************************************)
(* Lines 161 to 164: RecvBuf polls the descriptor without a time limit.    *)
(***************************************************************************)
Readable(e) ==
  /\ EpollFree /\ e \in batch
  /\ e.fd # Listen /\ ~e.rdhup
  /\ batch' = batch \ {e}
  /\ reading' = e.fd
  /\ polled' = table[e.fd]
  /\ UNCHANGED <<clientVars, inbox, outbox, connVars, accepted, reply, poolVars>>

KeepPolled == reading' = NoFd /\ UNCHANGED polled   \* mutant

StopReading == reading' = NoFd /\ polled' = None

FirstNumber(c) ==   \* mutant: the number of the first event
  [fd |-> CHOOSE f \in FDs : \A g \in FDs : f <= g, conn |-> c, n |-> calls[c], kind |-> kind[c]]

TheRequest(c) == [fd |-> reading, conn |-> c, n |-> calls[c], kind |-> kind[c]]

(***************************************************************************)
(* A complete packet: the epoll thread appends a task that carries the     *)
(* number of the descriptor (lines 174 to 176).                            *)
(***************************************************************************)
RecvPacket ==
  /\ reading # NoFd /\ polled # None
  /\ table[reading] = polled
  /\ inbox[polled] = "full"
  /\ inbox' = [inbox EXCEPT ![polled] = "empty"]
  /\ Pool!AppandTask(TheRequest(polled))
  /\ StopReading
  /\ UNCHANGED <<clientVars, outbox, connVars, batch, accepted, reply>>

(***************************************************************************)
(* RecvBuf fails: on a number that is no longer open, on less than a       *)
(* header, and at the end of the stream.  It does not fail because the     *)
(* rest of a packet does not come: it waits.  Lines 165 to 173 then close  *)
(* the number and erase its entry.                                         *)
(***************************************************************************)
PartIsError ==   \* mutant: an incomplete packet is an error
  polled = None \/ table[reading] # polled \/ inbox[polled] # "full"

RecvFails ==
  IF polled = None THEN TRUE
  ELSE LET heard == inbox[polled] \in {"stub", "full"} \/ side[polled] = "gone"
       IN  heard /\ (table[reading] = polled => inbox[polled] # "full")

RecvError ==
  /\ reading # NoFd
  /\ RecvFails
  /\ CloseFd(reading)
  /\ EraseInfo(reading)
  /\ StopReading
  /\ UNCHANGED <<clientVars, inbox, outbox, batch, accepted, reply, poolVars>>

Notify ==
  /\ Pool!NotifyOne
  /\ UNCHANGED <<clientVars, inbox, outbox, connVars, epollVars, reply>>

Epoll ==
  \/ EpollWait \/ Insert \/ RecvPacket \/ RecvError \/ Notify
  \/ \E e \in batch : Accept(e) \/ HangUp(e) \/ Readable(e)

-----------------------------------------------------------------------------
(* The workers. *)

GetTask(w) ==
  /\ Pool!Lock(w) \/ Pool!Relock(w)
  /\ UNCHANGED <<clientVars, inbox, outbox, connVars, epollVars, reply>>

SpuriousWake(w) ==
  /\ "spurious" \in Faults
  /\ Pool!SpuriousWake(w)
  /\ UNCHANGED <<clientVars, inbox, outbox, connVars, epollVars, reply>>

GoTo(w, where, f) == reply' = [reply EXCEPT ![w] = [at |-> where, fd |-> f]]

In(w, where) == pc[w] = "task" /\ reply[w].at = where

SendAgain(w) == GoTo(w, "start", NoFd)   \* mutant: the send loop goes on
Sent(w) == GoTo(w, "end", NoFd)

NeverAnswers(w) == "silent"   \* mutant
KindOf(w) == IF cur[w] = Phantom THEN "silent" ELSE cur[w].kind

(***************************************************************************)
(* A handler that sends no response, and a command that has none.          *)
(***************************************************************************)
NoAnswer(w) ==
  /\ In(w, "start")
  /\ KindOf(w) = "silent"
  /\ GoTo(w, "end", NoFd)
  /\ UNCHANGED <<clientVars, inbox, outbox, connVars, epollVars, poolVars>>

(***************************************************************************)
(* The numbers a worker may send on: that of its task, or any at all when  *)
(* the task is a phantom with a known command.                             *)
(***************************************************************************)
Targets(w) ==
  IF cur[w] = Phantom THEN {f \in FDs : "garbage" \in Faults}
  ELSE {cur[w].fd : k \in {KindOf(w)} \cap {"answered"}}

(***************************************************************************)
(* SendResult, lines 11 to 22: the response goes to whatever connection is *)
(* behind the number now.  What arrives at a client that left is lost.     *)
(***************************************************************************)
SendOk(w, f) ==
  /\ In(w, "start")
  /\ f \in Targets(w) /\ Open(f)
  /\ Len(outbox[table[f]]) < Buffer
  /\ outbox' = IF side[table[f]] = "gone" THEN outbox
               ELSE [outbox EXCEPT ![table[f]] = Append(@, cur[w])]
  /\ Sent(w)
  /\ UNCHANGED <<clientVars, inbox, connVars, epollVars, poolVars>>

SendError(w, f) ==
  /\ In(w, "start")
  /\ f \in Targets(w)
  /\ Open(f) => \/ side[table[f]] = "gone" \/ "stall" \in Faults
                \/ Len(outbox[table[f]]) >= Buffer
  /\ GoTo(w, "close", f)
  /\ UNCHANGED <<clientVars, inbox, outbox, connVars, epollVars, poolVars>>

(***************************************************************************)
(* SendResult, lines 23 to 30, in the worker's own time: the number is     *)
(* closed whoever has it by now, and its entry erased afterwards.          *)
(***************************************************************************)
CloseAfterError(w) ==
  /\ In(w, "close")
  /\ CloseFd(reply[w].fd)
  /\ GoTo(w, "erase", reply[w].fd)
  /\ UNCHANGED <<clientVars, inbox, outbox, cliInfo, epollVars, poolVars>>

EraseAfterError(w) ==
  /\ In(w, "erase")
  /\ EraseInfo(reply[w].fd)
  /\ GoTo(w, "end", NoFd)
  /\ UNCHANGED <<clientVars, inbox, outbox, srv, table, epollVars, poolVars>>

TaskEnd(w) ==
  /\ In(w, "end")
  /\ Pool!TaskEnd(w)
  /\ GoTo(w, "start", NoFd)
  /\ UNCHANGED <<clientVars, inbox, outbox, connVars, epollVars>>

Work(w) ==
  \/ GetTask(w) \/ NoAnswer(w) \/ TaskEnd(w)
  \/ CloseAfterError(w) \/ EraseAfterError(w)
  \/ \E f \in FDs : SendOk(w, f) \/ SendError(w, f)

-----------------------------------------------------------------------------

Client(c) ==
  \/ Connect(c) \/ RestArrives(c) \/ Return(c) \/ Leave(c)
  \/ \E k \in Kinds, p \in Pieces : Call(c, k, p)

Next ==
  \/ \E c \in Clients : Client(c)
  \/ Epoll
  \/ \E w \in Workers : Work(w) \/ SpuriousWake(w)

Spec == Init /\ [][Next]_vars

(***************************************************************************)
(* The threads of the server run; the rest of a packet arrives in the end, *)
(* and a client reads its response.  Nobody has to connect, to call or to  *)
(* leave.                                                                  *)
(***************************************************************************)
Fairness ==
  /\ WF_vars(Epoll)
  /\ \A w \in Workers : WF_vars(Work(w))
  /\ \A c \in Clients : WF_vars(RestArrives(c)) /\ WF_vars(Return(c))

FairSpec == Spec /\ Fairness
-----------------------------------------------------------------------------
(* Properties. *)

(***************************************************************************)
(* The variables have their types, RecvBuf polls a connection only while   *)
(* it reads a number, and a worker that is not in Task has no reply.       *)
(***************************************************************************)
TypeOK ==
  /\ side \in [Clients -> {"new", "idle", "waiting", "gone"}]
  /\ calls \in [Clients -> 0..MaxCalls]
  /\ kind \in [Clients -> Kinds]
  /\ inbox \in [Clients -> {"empty", "stub", "part", "full"}]
  /\ outbox \in [Clients -> Seq(Requests \cup {Phantom})]
  /\ answers \subseteq [conn : Clients, n : 1..MaxCalls, to : Requests \cup {Phantom}]
  /\ srv \in [Clients -> {"none", "backlog", "open", "released"}]
  /\ table \in [FDs -> Clients \cup {None}]
  /\ cliInfo \subseteq FDs
  /\ batch \subseteq Event
  /\ reading \in FDs \cup {NoFd}
  /\ polled \in Clients \cup {None}
  /\ accepted \in FDs \cup {NoFd}
  /\ reply \in [Workers -> [at : Steps, fd : FDs \cup {NoFd}]]
  /\ reading = NoFd => polled = None
  /\ \A w \in Workers : pc[w] # "task" => reply[w].at = "start"
  /\ Pool!TypeOK

(***************************************************************************)
(* An entry of _cliInfo for a number nobody uses comes about in one way    *)
(* only, whichever thread closes a number and when: SendResult in a worker *)
(* closes the number between accept and insert.  In every other order the  *)
(* entry goes with its connection, or the worker that closed the number is *)
(* about to erase it.                                                      *)
(***************************************************************************)
Erasing == {reply[w].fd : w \in {v \in Workers : reply[v].at = "erase"}}
StaleEntries == (cliInfo \ OpenFDs) \ Erasing

StaleOnlyByInsert ==
  [][StaleEntries' \subseteq StaleEntries \cup ({accepted} \ OpenFDs)]_vars

Received(c) ==
  {outbox[c][i] : i \in 1..Len(outbox[c])}
    \cup {a.to : a \in {b \in answers : b.conn = c}}

(***************************************************************************)
(* A response goes to another client than the one that asked only if the   *)
(* server had closed the asking connection before: while a connection is   *)
(* open its number is its own, so neither a queue, nor a slow worker, nor  *)
(* a reused number can misdirect its responses.  (Phantom tasks answer a   *)
(* request nobody made.)                                                   *)
(***************************************************************************)
MisdeliveredOnlyAfterRelease ==
  \A c \in Clients : \A r \in Received(c) \ {Phantom} :
    r.conn # c => srv[r.conn] = "released"

(***************************************************************************)
(* A request is answered at most once, however connections are closed and  *)
(* numbers reused: its response is not delivered twice to one client nor   *)
(* to two.                                                                 *)
(***************************************************************************)
AnsweredOnce ==
  LET unread == {p \in {<<c, i>> : c \in Clients, i \in 1..Buffer} :
                   p[2] <= Len(outbox[p[1]])}
      places(r) == Cardinality({p \in unread : outbox[p[1]][p[2]] = r})
                     + Cardinality({a \in answers : a.to = r})
  IN  \A r \in Pool!Elements(submitted) : places(r) <= 1

(***************************************************************************)
(* The call a waiting client has made is in exactly one place: unread at   *)
(* the server, in the task list, with a worker that has not answered it,   *)
(* or answered and unread.                                                 *)
(***************************************************************************)
Mine(c, r) == r # Phantom /\ r.conn = c /\ r.n = calls[c]

Places(c) ==
  (IF inbox[c] # "empty" THEN {"inbox"} ELSE {})
  \cup {<<"tasks", i>> : i \in {j \in 1..Len(tasks) : Mine(c, tasks[j])}}
  \cup {<<"worker", w>> : w \in {v \in Workers :
                    /\ cur[v] \notin {Idle, Phantom} /\ Mine(c, cur[v])
                    /\ reply[v].at = "start"}}
  \cup {<<"outbox", i>> : i \in 1..Len(outbox[c])}

CallInOnePlace ==
  \A c \in Clients : Cardinality(Places(c)) = IF side[c] = "waiting" THEN 1 ELSE 0

(***************************************************************************)
(* The server does not close the connection of a client that is still      *)
(* there.                                                                  *)
(***************************************************************************)
KeptOpen ==
  \A c \in Clients : srv[c] = "released" => side[c] = "gone"

(***************************************************************************)
(* Patient clients see remote procedure calls that always return, with     *)
(* their own answers.                                                      *)
(***************************************************************************)
Calls == INSTANCE Rpc WITH
  returned <- {[call |-> <<a.conn, a.n>>,
                answerTo |-> IF a.to = Phantom THEN <<>> ELSE <<a.to.conn, a.to.n>>] : a \in answers}

ImplementsRpc == Calls!Spec
=============================================================================
