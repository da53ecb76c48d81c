------------------------------- MODULE Stream -------------------------------
(***************************************************************************)
(* One connection, byte by byte: what a client program writes, how TCP     *)
(* hands it over in pieces of any size, what RecvBuf of ser_socket.cpp and *)
(* of cli_socket.cpp make of the pieces, and what a handler reads from the *)
(* request it is given.  Server.tla has many connections and whole packets.*)
(*                                                                         *)
(* The client is the interactive one (view.cpp: one request, then the      *)
(* blocking RecvBuf), the load generator test.cpp (write, then read what   *)
(* is there, and again) or tress.cpp (one request a connection).  What     *)
(* those two show of an answer is not modelled.  RecvBuf reads all that    *)
(* there is and keeps the first packet only; once part of a packet is gone *)
(* with the rest, the connection is astray and not followed any further.   *)
(***************************************************************************)
EXTENDS Wire, SequencesExt

CONSTANTS Clients,    \* which of "view", "test", "tress" there may be
          Calls,      \* the requests a user may make: records [cmd, msg]
          Starts,     \* the first number of tress
          Answers,    \* what a handler may answer: records [ret, msg]
          MaxCalls    \* bound on the requests of the connection

\* A C string that the programs' buffers of 1 MB can hold.
Text == {s \in Seq(1 .. 255) : Len(s) < 1048576}

\* What a dialog may put into the message of a request.
MessagesOf(cmd) ==
  CASE cmd = REGISTER -> [name : Text, id : Int32Range, passwd : Text, type : Int32Range]
    [] cmd = LOGIN    -> [id : Int32Range, passwd : Text, type : Int32Range]
    [] cmd = INSERT   -> [degree : Int32Range, type : Int32Range, msg : Text]
    [] cmd = DELETE   -> [ret : Int32Range, msg : Text]
    [] cmd = GETALL   -> {<< >>}

\* Bound on the numbers that tress and test count with.
MaxNumber == 1000000

\* A handler answers IM_OK or IM_ERROR, never zero.
ASSUME StreamAssumption ==
  /\ Clients \subseteq {"view", "test", "tress"}
  /\ \A r \in Calls : /\ r.cmd \in {REGISTER, LOGIN, INSERT, DELETE, GETALL}
                      /\ r \in [cmd : {r.cmd}, msg : MessagesOf(r.cmd)]
  /\ Answers \subseteq [ret : Int32Range \ {0}, msg : Text]
  /\ Starts \subseteq 0 .. MaxNumber
  /\ MaxCalls \in 0 .. MaxNumber

VARIABLES
  client,    \* the program at the other end
  first,     \* the number tress or test begins with
  conn,      \* "open", or how the connection ended
  sent,      \* the requests so far: records [cmd, msg]
  overlap,   \* whether a request followed before the server had read the last
  up,        \* bytes under way to the server
  arrived,   \* bytes the server's socket holds
  buf,       \* RspBuffer of Run, while RecvBuf is not done
  tasks,     \* packets given to AppandTask and not yet handled
  handled,   \* the requests that handlers have read: records [cmd, msg]
  answered,  \* the answers written
  down,      \* bytes under way to the client
  here,      \* bytes the client's socket holds
  cbuf,      \* RspBuffer of the view, while RecvBuf is not done
  got        \* the answers the view has read

vars == << client, first, conn, sent, overlap, up, arrived, buf, tasks, handled,
           answered, down, here, cbuf, got >>

upward == << up, arrived, buf, tasks, handled, answered >>
downward == << down, here, cbuf, got >>

Init ==
  /\ client \in Clients
  /\ first \in (IF client = "tress" THEN Starts ELSE {0})
  /\ conn = "open" /\ sent = << >> /\ overlap = FALSE
  /\ up = << >> /\ arrived = << >> /\ buf = << >>
  /\ tasks = << >> /\ handled = << >> /\ answered = << >>
  /\ down = << >> /\ here = << >> /\ cbuf = << >> /\ got = << >>

-----------------------------------------------------------------------------
(* What the programs send.                                                 *)

RegisterPacket(m) == Packet(REGISTER, SerializeRegister(m), RegisterSize(m))
LoginPacket(m)    == Packet(LOGIN, SerializeLogin(m), LoginSize(m))
InsertPacket(m)   == Packet(INSERT, SerializeInsert(m), InsertSize(m))
DeletePacket(m)   == Packet(DELETE, SerializeRsp(m), RspSize(m))

GetAllUnset       == Header(GETALL, 0)   \* mutant

GetAllPacket      == Packet(GETALL, << >>, 0)

PacketOf(r) ==
  CASE r.cmd = REGISTER -> RegisterPacket(r.msg)
    [] r.cmd = LOGIN    -> LoginPacket(r.msg)
    [] r.cmd = INSERT   -> InsertPacket(r.msg)
    [] r.cmd = DELETE   -> DeletePacket(r.msg)
    [] r.cmd = GETALL   -> GetAllPacket

Send(r) ==
  /\ Len(sent) < MaxCalls
  /\ sent' = Append(sent, r)
  /\ overlap' = (overlap \/ buf \o arrived \o up # << >>)
  /\ up' = up \o PacketOf(r)

WaitingForServer == client = "view" /\ Len(handled) < Len(sent)   \* mutant

\* The user gets the next menu only after RecvBuf has returned.
Waiting == client = "view" /\ Len(got) < Len(sent)

\* A dialog of the view packs its request, sends it and calls RecvBuf.
ViewCall(r) ==
  /\ client = "view" /\ conn = "open" /\ ~Waiting
  /\ Send(r)
  /\ UNCHANGED << client, first, conn, arrived, buf, tasks, handled, answered, downward >>

\* "jiadai" and the number: a text of its own for each number.
Name(i) == [k \in 1 .. i + 1 |-> 106]
Passwd  == <<49>>

\* test.cpp writes whenever the socket takes it and then reads once without
\* blocking; sprintf counts id up before set_id reads it.
TestRound ==
  /\ client = "test" /\ conn = "open"
  /\ Send([cmd |-> REGISTER,
           msg |-> RegisterReq(Name(first + Len(sent)), first + Len(sent) + 1, Passwd, 1)])
  /\ here' = << >>
  /\ UNCHANGED << client, first, conn, arrived, buf, tasks, handled, answered,
                  down, cbuf, got >>

\* tress.cpp registers in one thread and logs in in the other.
TressLogin ==
  /\ client = "tress" /\ conn = "open" /\ sent = << >>
  /\ Send([cmd |-> LOGIN, msg |-> LoginReq(first, Passwd, 0)])
  /\ UNCHANGED << client, first, conn, arrived, buf, tasks, handled, answered, downward >>

TressRegister ==
  /\ client = "tress" /\ conn = "open" /\ sent = << >>
  /\ Send([cmd |-> REGISTER, msg |-> RegisterReq(Name(first), first, Passwd, 0)])
  /\ UNCHANGED << client, first, conn, arrived, buf, tasks, handled, answered, downward >>

\* It takes whatever the first recv returns for the answer and closes.
TressRead ==
  /\ client = "tress" /\ conn = "open" /\ here # << >>
  /\ conn' = "closed" /\ here' = << >>
  /\ UNCHANGED << client, first, sent, overlap, upward, down, cbuf, got >>

-----------------------------------------------------------------------------
(* TCP: any number of bytes, in order, before the other side looks.        *)

DeliverUp ==
  /\ conn = "open" /\ up # << >>
  /\ arrived' = Append(arrived, Head(up))
  /\ up' = Tail(up)
  /\ UNCHANGED << client, first, conn, sent, overlap, buf, tasks, handled, answered, downward >>

DeliverDown ==
  /\ conn = "open" /\ down # << >>
  /\ here' = Append(here, Head(down))
  /\ down' = Tail(down)
  /\ UNCHANGED << client, first, conn, sent, overlap, upward, cbuf, got >>

-----------------------------------------------------------------------------
(* The server.                                                             *)

\* What to do with the bytes received so far: give up, read on, or the
\* length of the packet.
PduProtocol(b) ==
  IF Len(b) < HeadLen THEN -1
  ELSE IF Len(b) < PackLen(b) THEN 0
  ELSE PackLen(b)

\* The bytes still to come begin with a packet.
AtBoundary(b) ==
  \E k \in 0 .. Len(sent) :
    b = FlattenSeq([i \in 1 .. Len(sent) - k |-> PacketOf(sent[k + i])])

\* recv and PduProtocol in the loop of RecvBuf; Run makes a task of the packet
\* and forgets the buffer, with all that is behind the packet.
RecvBuf ==
  /\ conn = "open" /\ arrived # << >>
  /\ arrived' = << >>
  /\ LET b == buf \o arrived
         len == PduProtocol(b)
     IN  \/ /\ len < 0
            /\ conn' = "refused" /\ buf' = << >> /\ tasks' = tasks
         \/ /\ len = 0
            /\ conn' = conn /\ buf' = b /\ tasks' = tasks
         \/ /\ len > 0
            /\ conn' = IF AtBoundary(up) THEN conn ELSE "astray"
            /\ buf' = << >>
            /\ tasks' = Append(tasks, SubSeq(b, 1, len))
  /\ UNCHANGED << client, first, sent, overlap, up, handled, answered, downward >>

\* What the handlers read from their packet.
RequestOf(packet) ==
  LET body == Body(packet)
  IN  [cmd |-> Cmd(packet),
       msg |-> CASE Cmd(packet) = REGISTER -> RegisterOf(ParseRegister(body))
                 [] Cmd(packet) = LOGIN    -> LoginOf(ParseLogin(body))
                 [] Cmd(packet) = INSERT   -> InsertOf(ParseInsert(body))
                 [] Cmd(packet) = DELETE   -> RspOf(ParseRsp(body))
                 [] Cmd(packet) = GETALL   -> << >>]

SendResult(cmd, a) == Packet(cmd, SerializeRsp(a), RspSize(a))

\* A worker runs the handler of any task: workers overtake each other.  The
\* answer to a connection that is gone is a matter of Server.tla.
Handle ==
  /\ \E i \in DOMAIN tasks, a \in Answers :
       /\ handled' = Append(handled, RequestOf(tasks[i]))
       /\ answered' = Append(answered, a)
       /\ down' = IF conn = "open" THEN down \o SendResult(Cmd(tasks[i]), a) ELSE down
       /\ tasks' = RemoveAt(tasks, i)
  /\ UNCHANGED << client, first, conn, sent, overlap, up, arrived, buf, here, cbuf, got >>

-----------------------------------------------------------------------------
(* RecvBuf of cli_socket.cpp and what the dialogs make of the answer.      *)

AnswerOneOff(b) == RspOf(ParseRsp(CString(SubSeq(b, HeadLen, Len(b)))))   \* mutant

Answer(b) == RspOf(ParseRsp(Body(b)))

ViewRecv ==
  /\ Waiting /\ conn = "open" /\ here # << >>
  /\ here' = << >>
  /\ LET b == cbuf \o here
         len == PduProtocol(b)
     IN  \/ /\ len < 0
            /\ conn' = "lost" /\ cbuf' = << >> /\ got' = got
         \/ /\ len = 0
            /\ conn' = conn /\ cbuf' = b /\ got' = got
         \/ /\ len > 0
            /\ conn' = conn /\ cbuf' = << >> /\ got' = Append(got, Answer(b))
  /\ UNCHANGED << client, first, sent, overlap, upward, down >>

Work == DeliverUp \/ DeliverDown \/ RecvBuf \/ Handle \/ ViewRecv

Next ==
  \/ \E r \in Calls : ViewCall(r)
  \/ TestRound \/ TressLogin \/ TressRegister \/ TressRead
  \/ Work

\* As long as TCP, the epoll thread, a worker or a waiting view has something
\* to do, one of them does it.  Nobody has to make a request.
Spec == Init /\ [][Next]_vars /\ WF_vars(Work)

-----------------------------------------------------------------------------
\* The order of the fields of a request on the wire.
Order(cmd) ==
  CASE cmd = REGISTER -> << "name", "id", "passwd", "type" >>
    [] cmd = LOGIN    -> << "id", "passwd", "type" >>
    [] cmd = INSERT   -> << "degree", "type", "msg" >>
    [] cmd = DELETE   -> << "ret", "msg" >>
    [] cmd = GETALL   -> << >>

Blank(f) == IF f \in {"name", "passwd", "msg"} THEN << >> ELSE 0

\* What a handler is to find of a request: the fields up to the first that is
\* zero or empty.
AsSent(r) ==
  LET o == Order(r.cmd)
      cut == {i \in DOMAIN o : r.msg[o[i]] = Blank(o[i])}
      kept(f) == \E i \in DOMAIN o : o[i] = f /\ \A j \in cut : i < j
  IN  [r EXCEPT !.msg = IF o = << >> THEN << >>
                        ELSE [f \in ToSet(o) |-> IF kept(f) THEN r.msg[f] ELSE Blank(f)]]

\* However the bytes are cut into pieces, a handler reads a request that was
\* sent, each once, with all its fields up to the first that is zero or empty
\* (GetBody is a C string, pdu.h:69); a view's and tress's are handled in the
\* order in which they were sent.
RequestsArrive ==
  /\ ToSet(handled) \subseteq {AsSent(sent[i]) : i \in DOMAIN sent}
  /\ client = "test" => Cardinality(ToSet(handled)) = Len(handled)
  /\ client # "test" => IsPrefix(handled, [i \in DOMAIN sent |-> AsSent(sent[i])])

\* While a client waits for its answers the connection stays in step
\* (ser_socket.cpp:194-210 discards what is behind a packet): what the server
\* has not read is the last request, whole, or nothing; every other request is
\* a task or handled; what a view has not read is its answer, whole, or nothing.
InStep ==
  conn = "open" /\ ~overlap =>
    LET unread == buf \o arrived \o up
        n == Len(tasks) + Len(handled)
    IN  /\ \/ unread = << >> /\ n = Len(sent)
           \/ n = Len(sent) - 1 /\ unread = PacketOf(sent[Len(sent)])
        /\ client = "view" =>
             \/ cbuf \o here \o down = << >> /\ Len(got) = Len(answered)
             \/ /\ Len(got) = Len(answered) - 1
                /\ cbuf \o here \o down =
                     SendResult(sent[Len(answered)].cmd, answered[Len(answered)])

\* A view reads the answer that was given to its own call, unchanged.
AnswersArrive ==
  client = "view" =>
    /\ IsPrefix(got, answered)
    /\ Len(answered) \in {Len(sent), Len(sent) - 1}

\* Every call of a view returns, or its connection ends because a piece was
\* shorter than a header (PduProtocol, ser_socket.cpp:303).
CallsReturn == Waiting ~> (~Waiting \/ conn \in {"refused", "lost"})
=============================================================================
