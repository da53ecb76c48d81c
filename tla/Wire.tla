-------------------------------- MODULE Wire --------------------------------
(***************************************************************************)
(* What a request or an answer looks like on a connection: the header of   *)
(* pdu.h and the body that the generated protocol buffers write and read,  *)
(* byte by byte.  A byte is a number below 256, a string a sequence of     *)
(* bytes without a zero, a message a record of the fields whose "has" bit  *)
(* is set.  The pad bytes of the header are never read; they are zero here.*)
(* Bytes with another meaning than a message that was cut off are not      *)
(* parsed: unknown fields and groups cannot come up.                       *)
(***************************************************************************)
EXTENDS Integers, Sequences, FiniteSetsExt

REGISTER == 1
LOGIN    == 2
GETALL   == 4
INSERT   == 6
DELETE   == 7

IM_OK    == 1
IM_ERROR == -1

-----------------------------------------------------------------------------
(* The header.                                                             *)

HeadLen == 16

\* htons: a number of 16 bits, the high byte first.
Net16(n) == << (n \div 256) % 256, n % 256 >>

Header(cmd, len) ==
  Net16(len % 65536) \o <<0, 0>> \o Net16(cmd) \o <<0, 0>>
    \o <<0, 0, 0, 0>> \o Net16(len \div 65536) \o <<0, 0>>

PackLen(b) == b[1] * 256 + b[2] + 65536 * (b[13] * 256 + b[14])

Cmd(b) == b[5] * 256 + b[6]

\* A char* that becomes a std::string ends before its first zero byte.
CString(b) ==
  LET zeros == {i \in DOMAIN b : b[i] = 0}
  IN  IF zeros = {} THEN b ELSE SubSeq(b, 1, Min(zeros) - 1)

Body(b) == CString(SubSeq(b, HeadLen + 1, Len(b)))

\* Both sides pack the serialized string behind a header with its length.
Packet(cmd, body, size) == Header(cmd, HeadLen + size) \o SubSeq(body, 1, size)

-----------------------------------------------------------------------------
(* The encoding of numbers and strings by the runtime library.             *)

Varint(n) ==
  LET from[k \in 0 .. n] ==
        IF k < 128 THEN <<k>> ELSE <<128 + (k % 128)>> \o from[k \div 128]
  IN  from[n]

\* What one stands for in the first to fifth group of seven bits.
Unit == << 1, 128, 16384, 2097152, 268435456 >>

Int32Range == {n \in Int : n >= -2147483647 - 1 /\ n <= 2147483647}

\* A negative int32 is sent as a 64-bit number, in ten groups.
Int32(n) ==
  IF n >= 0 THEN Varint(n)
  ELSE [i \in 1 .. 9 |-> IF i <= 5 THEN 128 + ((n \div Unit[i]) % 128) ELSE 255] \o <<1>>

WriteInt32(number, m, f) ==
  IF f \in DOMAIN m THEN <<8 * number>> \o Int32(m[f]) ELSE << >>

WriteString(number, m, f) ==
  IF f \in DOMAIN m THEN <<8 * number + 2>> \o Varint(Len(m[f])) \o m[f] ELSE << >>

VarintSize(n) == IF n < 0 THEN 10 ELSE Min({k \in 1 .. 5 : k = 5 \/ n < Unit[k + 1]})

Int32Size(m, f) == IF f \in DOMAIN m THEN 1 + VarintSize(m[f]) ELSE 0

StringSize(m, f) ==
  IF f \in DOMAIN m THEN 1 + VarintSize(Len(m[f])) + Len(m[f]) ELSE 0

\* Where a number that begins at p ends: at its first byte below 128.  Bytes
\* past the end of b read as zero.
Ends(b) ==
  LET at(q) == IF q <= Len(b) THEN b[q] ELSE 0
  IN  [p \in 1 .. Len(b) + 1 |-> Min({q \in p .. Len(b) + 1 : at(q) < 128})]

\* The int32 that begins at p: the low 32 bits of its groups.
Int32s(b) ==
  LET end == Ends(b)
      group(p, i) == IF p + i <= end[p] /\ p + i <= Len(b) THEN b[p + i] % 128 ELSE 0
      top(p) == group(p, 4) % 16
  IN  [p \in 1 .. Len(b) + 1 |->
         group(p, 0) + Unit[2] * group(p, 1) + Unit[3] * group(p, 2) + Unit[4] * group(p, 3)
           + Unit[5] * (IF top(p) >= 8 THEN top(p) - 16 ELSE top(p))]

\* What _InternalParse reads from b; tags gives each field its tag.  After a
\* field that was cut off the parse fails, which nobody looks at, and leaves
\* the fields that were set.  It ends at a tag it does not know.
Fields(tags, b) ==
  LET end == Ends(b)
      int32 == Int32s(b)
      isString(p) == b[p] % 8 = 2
      value[p \in 1 .. Len(b)] ==
        IF isString(p) THEN SubSeq(b, end[p + 1] + 1, end[p + 1] + int32[p + 1])
                       ELSE int32[p + 1]
      starts[p \in Nat] ==   \* where fields begin, from p on
        IF p > Len(b) \/ (\A f \in DOMAIN tags : tags[f] # b[p]) \/ (isString(p) /\ int32[p + 1] < 0) THEN {}
        ELSE {p} \cup starts[end[p + 1] + 1 + (IF isString(p) THEN int32[p + 1] ELSE 0)]
      read[S \in SUBSET Nat] ==
        LET places(f) == {p \in S : b[p] = tags[f]}
        IN  [f \in {g \in DOMAIN tags : places(g) # {}} |-> value[Max(places(f))]]
  IN  read[starts[1]]

Get(m, default) == [f \in DOMAIN default |-> IF f \in DOMAIN m THEN m[f] ELSE default[f]]

-----------------------------------------------------------------------------
(* IMRegisterReq                                                           *)

NoRegister == [name |-> << >>, id |-> 0, passwd |-> << >>, type |-> 0]

RegisterReq(name, id, passwd, type) ==
  [name |-> name, id |-> id, passwd |-> passwd, type |-> type]

SerializeRegister(m) ==
  WriteString(1, m, "name") \o WriteInt32(2, m, "id")
    \o WriteString(3, m, "passwd") \o WriteInt32(4, m, "type")

RegisterSize(m) ==
  StringSize(m, "name") + StringSize(m, "passwd") + Int32Size(m, "id") + Int32Size(m, "type")

ParseRegister(b) ==
  Fields([name |-> 10, id |-> 16, passwd |-> 26, type |-> 32], b)

RegisterOf(m) == Get(m, NoRegister)

-----------------------------------------------------------------------------
(* IMLoginReq                                                              *)

NoLogin == [id |-> 0, passwd |-> << >>, type |-> 0]

LoginReq(id, passwd, type) == [id |-> id, passwd |-> passwd, type |-> type]

SerializeLogin(m) ==
  WriteInt32(1, m, "id") \o WriteString(2, m, "passwd") \o WriteInt32(4, m, "type")

LoginSize(m) == StringSize(m, "passwd") + Int32Size(m, "id") + Int32Size(m, "type")

ParseLoginShifted(b) == Fields([id |-> 8, passwd |-> 18, type |-> 24], b)   \* mutant

ParseLogin(b) == Fields([id |-> 8, passwd |-> 18, type |-> 32], b)

LoginOf(m) == Get(m, NoLogin)

-----------------------------------------------------------------------------
(* IMRspMsg, every answer and the request DELETE                           *)

NoRsp == [ret |-> 0, msg |-> << >>]

RspMsg(ret, msg) == [ret |-> ret, msg |-> msg]

SerializeRsp(m) == WriteInt32(1, m, "ret") \o WriteString(2, m, "msg")

RspSize(m) == StringSize(m, "msg") + Int32Size(m, "ret")

ParseRsp(b) == Fields([ret |-> 8, msg |-> 18], b)

RspOf(m) == Get(m, NoRsp)

-----------------------------------------------------------------------------
(* IMInsertMsg                                                             *)

NoInsert == [degree |-> 0, type |-> 0, msg |-> << >>]

InsertMsg(degree, type, msg) == [degree |-> degree, type |-> type, msg |-> msg]

SerializeInsert(m) ==
  WriteInt32(1, m, "degree") \o WriteInt32(2, m, "type") \o WriteString(3, m, "msg")

InsertSize(m) == StringSize(m, "msg") + Int32Size(m, "degree") + Int32Size(m, "type")

ParseInsert(b) == Fields([degree |-> 8, type |-> 16, msg |-> 26], b)

InsertOf(m) == Get(m, NoInsert)
=============================================================================
