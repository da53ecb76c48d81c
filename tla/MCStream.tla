------------------------------ MODULE MCStream ------------------------------
(* Requests with numbers of one, two and ten bytes, zero and empty fields.  *)
EXTENDS Stream

MCCalls ==
  {[cmd |-> REGISTER, msg |-> RegisterReq(<<97>>, id, <<98>>, 2)] : id \in {-1, 0}}
    \cup {[cmd |-> LOGIN, msg |-> LoginReq(id, <<98>>, 1)] : id \in {0, 300}}
    \cup {[cmd |-> INSERT, msg |-> InsertMsg(5, 31, msg)] : msg \in {<< >>, <<99>>}}
    \cup {[cmd |-> DELETE, msg |-> RspMsg(1, <<99>>)], [cmd |-> GETALL, msg |-> << >>]}

MCAnswers == {RspMsg(IM_OK, <<121>>), RspMsg(IM_ERROR, <<110>>)}
=============================================================================
