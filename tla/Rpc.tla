-------------------------------- MODULE Rpc --------------------------------
(***************************************************************************)
(* What a client program of the question bank may rely on (src/client):    *)
(* on its connection it makes one call at a time, every call returns, and  *)
(* it returns with the answer to that very call.  The connection lasts     *)
(* until the client leaves, between two calls.                             *)
(*                                                                         *)
(* Server implements this specification as long as no client abandons a    *)
(* call and the faults of that module stay away.                           *)
(***************************************************************************)
EXTENDS Naturals

CONSTANTS Clients, MaxCalls

VARIABLES side,     \* "new", "idle", "waiting" or "gone"
          calls,    \* how many calls each client has made
          returned  \* the answers: which call got the answer to which call

vars == <<side, calls, returned>>

Init ==
  /\ side = [c \in Clients |-> "new"]
  /\ calls = [c \in Clients |-> 0]
  /\ returned = {}

Connect(c) ==
  /\ side[c] = "new"
  /\ side' = [side EXCEPT ![c] = "idle"]
  /\ UNCHANGED <<calls, returned>>

Call(c) ==
  /\ side[c] = "idle"
  /\ calls[c] < MaxCalls
  /\ side' = [side EXCEPT ![c] = "waiting"]
  /\ calls' = [calls EXCEPT ![c] = @ + 1]
  /\ UNCHANGED returned

Return(c) ==
  /\ side[c] = "waiting"
  /\ side' = [side EXCEPT ![c] = "idle"]
  /\ returned' = returned \cup {[call |-> <<c, calls[c]>>, answerTo |-> <<c, calls[c]>>]}
  /\ UNCHANGED calls

Leave(c) ==
  /\ side[c] = "idle"
  /\ side' = [side EXCEPT ![c] = "gone"]
  /\ UNCHANGED <<calls, returned>>

Next == \E c \in Clients : Connect(c) \/ Call(c) \/ Return(c) \/ Leave(c)

Spec == Init /\ [][Next]_vars /\ \A c \in Clients : WF_vars(Return(c))
=============================================================================
