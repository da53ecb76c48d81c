----------------------------- MODULE TaskQueue -----------------------------
(***************************************************************************)
(* What the thread pool of the question server promises to its user, the   *)
(* epoll loop: the requests that are submitted wait in one queue, each of  *)
(* them is started once, in the order of submission, by one worker, and is *)
(* finished by that worker.  Nothing is said of locks, of sleeping workers *)
(* or of the tasks that nobody submitted: ThreadPool implements this       *)
(* specification, and those are its own business.                          *)
(***************************************************************************)
EXTENDS Sequences, FiniteSets, Naturals

CONSTANTS Workers,      \* the threads of the pool
          Requests,     \* the requests that may be submitted, each at most once
          Idle          \* what a worker that runs no request is running

VARIABLES waiting,      \* the requests submitted and not started, oldest first
          running,      \* the request each worker runs
          finished      \* the requests that were run to their end

vars == <<waiting, running, finished>>

Waiting == {waiting[i] : i \in 1..Len(waiting)}
Running == {running[w] : w \in Workers} \ {Idle}

Init ==
  /\ waiting = <<>>
  /\ running = [w \in Workers |-> Idle]
  /\ finished = {}

Submit(r) ==
  /\ r \notin Waiting \cup Running \cup finished
  /\ waiting' = Append(waiting, r)
  /\ UNCHANGED <<running, finished>>

Start(w) ==
  /\ waiting # <<>>
  /\ running[w] = Idle
  /\ running' = [running EXCEPT ![w] = Head(waiting)]
  /\ waiting' = Tail(waiting)
  /\ UNCHANGED finished

Finish(w) ==
  /\ running[w] # Idle
  /\ finished' = finished \cup {running[w]}
  /\ running' = [running EXCEPT ![w] = Idle]
  /\ UNCHANGED waiting

Next ==
  \/ \E r \in Requests : Submit(r)
  \/ \E w \in Workers : Start(w) \/ Finish(w)

Spec == Init /\ [][Next]_vars

(***************************************************************************)
(* Some worker goes on as long as there is work.                           *)
(***************************************************************************)
Fairness ==
  /\ WF_vars(\E w \in Workers : Start(w))
  /\ \A w \in Workers : WF_vars(Finish(w))

FairSpec == Spec /\ Fairness
=============================================================================
