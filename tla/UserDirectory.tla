--------------------------- MODULE UserDirectory ---------------------------
(***************************************************************************)
(* What the handlers of REGISTER and LOGIN promise (src/server/control.cpp *)
(* lines 49 to 187), without the databases: there is one account for an    *)
(* id, the first one registered, and every answer is true of the accounts  *)
(* at one moment between the request and the answer.                       *)
(*                                                                         *)
(* The promise has two limits.  A registration is answered with "ok" and   *)
(* forgotten if another one of the same id was stored since it found the   *)
(* id free, unless ids are a key of the table.  And an account whose text  *)
(* the commands change (see Kept and Cached in UserStore) may be stored as *)
(* another, and found in either form.  Accounts that are kept as they are, *)
(* with Kept[a] = Cached[a] = {a}, have one form and exact answers.        *)
(***************************************************************************)
CONSTANTS Ids, Accounts, NoAccount, Threads, NoRequest, UniqueId, Kept, Cached

VARIABLES accounts,  \* the account of each id
          request,   \* the request each worker handles
          verdict,   \* what it answers
          looked     \* the workers whose REGISTER found the id free

vars == <<accounts, request, verdict, looked>>

Requests == [op : {"register", "login"}, id : Ids, account : Accounts]

Init ==
  /\ accounts = [i \in Ids |-> NoAccount]
  /\ request = [t \in Threads |-> NoRequest]
  /\ verdict = [t \in Threads |-> "none"]
  /\ looked = {}

Receive(t, r) ==
  /\ request[t] = NoRequest
  /\ request' = [request EXCEPT ![t] = r]
  /\ UNCHANGED <<accounts, verdict, looked>>

Pending(t, op) ==
  /\ request[t] # NoRequest /\ verdict[t] = "none"
  /\ request[t].op = op

Current(t) == accounts[request[t].id]

Look(t) ==
  /\ Pending(t, "register")
  /\ Current(t) = NoAccount
  /\ looked' = looked \cup {t}
  /\ UNCHANGED <<accounts, request, verdict>>

Decide(t, v) ==
  /\ verdict' = [verdict EXCEPT ![t] = v]
  /\ looked' = looked \ {t}
  /\ UNCHANGED request

Store(t) ==
  \/ /\ Current(t) = NoAccount
     /\ \E a \in Kept[request[t].account] :
          accounts' = [accounts EXCEPT ![request[t].id] = a]
  \/ /\ Current(t) # NoAccount /\ ~UniqueId
     /\ UNCHANGED accounts

Register(t) ==
  /\ Pending(t, "register")
  /\ \/ Current(t) # NoAccount /\ UNCHANGED accounts /\ Decide(t, "exists")
     \/ t \in looked /\ Store(t) /\ (Decide(t, "ok") \/ Decide(t, "error"))

Forms(a) == {a} \cup Cached[a]

Login(t) ==
  /\ Pending(t, "login")
  /\ UNCHANGED accounts
  /\ \/ Current(t) = NoAccount /\ Decide(t, "absent")
     \/ /\ Current(t) # NoAccount
        /\ \E a \in Forms(Current(t)) :
             Decide(t, IF a = request[t].account THEN "ok" ELSE "wrong")

Fail(t) ==
  /\ request[t] # NoRequest /\ verdict[t] = "none"
  /\ UNCHANGED accounts
  /\ Decide(t, "error")

Finish(t) ==
  /\ verdict[t] # "none"
  /\ request' = [request EXCEPT ![t] = NoRequest]
  /\ verdict' = [verdict EXCEPT ![t] = "none"]
  /\ UNCHANGED <<accounts, looked>>

(***************************************************************************)
(* The server may exit; what was registered stays.                         *)
(***************************************************************************)
Exit ==
  /\ request' = [t \in Threads |-> NoRequest]
  /\ verdict' = [t \in Threads |-> "none"]
  /\ looked' = {}
  /\ UNCHANGED accounts

Next ==
  \/ \E t \in Threads :
       \/ \E r \in Requests : Receive(t, r)
       \/ Look(t) \/ Register(t) \/ Login(t) \/ Fail(t) \/ Finish(t)
  \/ Exit

Spec == Init /\ [][Next]_vars
=============================================================================
