----------------------------- MODULE ThreadPool -----------------------------
(***************************************************************************)
(* The thread pool of the question server, class ThreadPoll of             *)
(* src/server/threadpoll.cpp: one producer (the epoll loop) appends tasks  *)
(* to a list under a mutex and calls notify_one after releasing it; the    *)
(* workers take tasks from the front of the list and sleep on a condition  *)
(* variable when it is empty.                                              *)
(*                                                                         *)
(* The code of a worker holds the mutex from one end of its critical       *)
(* section to the other (or to the wait), so a critical section is one     *)
(* step.  Three things are not atomic and are modelled as such: appending  *)
(* and notifying, being woken and getting the mutex back, and taking a     *)
(* task and finishing it.                                                  *)
(*                                                                         *)
(* A woken worker looks at the list a second time; if it is empty again,   *)
(* the `continue' of line 66 is meant for the outer loop but belongs to    *)
(* the inner do ... while (0): it leaves it, and the worker calls Task     *)
(* with a descriptor and a message it never set.  Such a run is Phantom.   *)
(***************************************************************************)
EXTENDS Naturals, Sequences, FiniteSets

CONSTANTS Workers,      \* the threads created by the constructor (5 of them)
          Requests,     \* the calls of AppandTask that may be made
          Idle,         \* a worker that runs nothing
          Phantom       \* a run of Task on uninitialised variables

ASSUME WorkersAssumption == IsFiniteSet(Workers) /\ Workers # {}
ASSUME RequestsAssumption ==
  Idle \notin Requests /\ Phantom \notin Requests /\ Idle # Phantom

VARIABLES
  tasks,        \* _tasks: the list of requests, oldest first
  pc,           \* where each worker is in ThreadWork
  cur,          \* the task a worker has taken and runs
  notifying,    \* the producer has released _mtx and not yet notified
  submitted,    \* history: the requests appended, in order
  started,      \* history: the requests taken, in order
  finished      \* history: the requests whose Task has returned

vars == <<tasks, pc, cur, notifying, submitted, started, finished>>

(***************************************************************************)
(* The program counter of a worker: "lock" before it takes the mutex (line *)
(* 51), "wait" asleep in wait (54), "woken" awake but without the mutex    *)
(* yet, "task" in Task (70).                                               *)
(***************************************************************************)
PCs == {"lock", "wait", "woken", "task"}

In(w, where) == pc[w] = where
Sleeping == {w \in Workers : pc[w] = "wait"}
Woken    == {w \in Workers : pc[w] = "woken"}
Elements(s) == {s[i] : i \in 1..Len(s)}

Init ==
  /\ tasks = <<>>
  /\ pc = [w \in Workers |-> "lock"]
  /\ cur = [w \in Workers |-> Idle]
  /\ notifying = FALSE
  /\ submitted = <<>>
  /\ started = <<>>
  /\ finished = {}

-----------------------------------------------------------------------------
(* The producer. *)

(***************************************************************************)
(* The first half of AppandTask: push_back under the mutex.                *)
(***************************************************************************)
AppandTask(r) ==
  /\ ~notifying
  /\ r \notin Elements(submitted)
  /\ tasks' = Append(tasks, r)
  /\ submitted' = Append(submitted, r)
  /\ notifying' = TRUE
  /\ UNCHANGED <<pc, cur, started, finished>>

(***************************************************************************)
(* The second half: notify_one wakes one sleeping worker, whichever the    *)
(* library chooses, or nobody when none sleeps.                            *)
(***************************************************************************)
NotifyOne ==
  /\ notifying
  /\ notifying' = FALSE
  /\ \/ \E w \in Sleeping : pc' = [pc EXCEPT ![w] = "woken"]
     \/ Sleeping = {} /\ UNCHANGED pc
  /\ UNCHANGED <<tasks, cur, submitted, started, finished>>

-----------------------------------------------------------------------------
(* The workers. *)

TakeBack(w) ==   \* mutant
  /\ cur' = [cur EXCEPT ![w] = tasks[Len(tasks)]]
  /\ started' = Append(started, tasks[Len(tasks)])
  /\ tasks' = SubSeq(tasks, 1, Len(tasks) - 1)

TakeWithoutPop(w) ==   \* mutant
  /\ cur' = [cur EXCEPT ![w] = Head(tasks)]
  /\ started' = Append(started, Head(tasks))
  /\ UNCHANGED tasks

PopWithoutTake(w) ==   \* mutant
  /\ UNCHANGED cur
  /\ started' = Append(started, Head(tasks))
  /\ tasks' = Tail(tasks)

(***************************************************************************)
(* Lines 60 to 62: the front of the list becomes the worker's task.        *)
(***************************************************************************)
TakeFront(w) ==
  /\ cur' = [cur EXCEPT ![w] = Head(tasks)]
  /\ started' = Append(started, Head(tasks))
  /\ tasks' = Tail(tasks)

Take(w) ==
  /\ tasks # <<>>
  /\ TakeFront(w)
  /\ pc' = [pc EXCEPT ![w] = "task"]
  /\ UNCHANGED <<notifying, submitted, finished>>

WaitWithoutLooking == TRUE   \* mutant
MustWait == tasks = <<>>

(***************************************************************************)
(* The worker gets the mutex for the first time in this turn: it sleeps    *)
(* when there is no task and takes one when there is.                      *)
(***************************************************************************)
Lock(w) ==
  /\ In(w, "lock")
  /\ \/ /\ MustWait
        /\ pc' = [pc EXCEPT ![w] = "wait"]
        /\ UNCHANGED <<tasks, cur, notifying, submitted, started, finished>>
     \/ ~MustWait /\ Take(w)

(***************************************************************************)
(* The condition variable may wake a worker that nobody notified.          *)
(***************************************************************************)
SpuriousWake(w) ==
  /\ In(w, "wait")
  /\ pc' = [pc EXCEPT ![w] = "woken"]
  /\ UNCHANGED <<tasks, cur, notifying, submitted, started, finished>>

(***************************************************************************)
(* Lines 57 to 67 for a worker that slept: it takes a task if there still  *)
(* is one, and otherwise runs Task on variables that hold nothing.         *)
(***************************************************************************)
Relock(w) ==
  /\ In(w, "woken")
  /\ \/ Take(w)
     \/ /\ tasks = <<>>
        /\ cur' = [cur EXCEPT ![w] = Phantom]
        /\ pc' = [pc EXCEPT ![w] = "task"]
        /\ UNCHANGED <<tasks, notifying, submitted, started, finished>>

(***************************************************************************)
(* Task returns, whatever its result, and the loop turns.                  *)
(***************************************************************************)
TaskEnd(w) ==
  /\ In(w, "task")
  /\ pc' = [pc EXCEPT ![w] = "lock"]
  /\ cur' = [cur EXCEPT ![w] = Idle]
  /\ finished' = finished \cup ({cur[w]} \ {Phantom})
  /\ UNCHANGED <<tasks, notifying, submitted, started>>

ThreadWork(w) == Lock(w) \/ Relock(w) \/ TaskEnd(w)

Next ==
  \/ \E r \in Requests : AppandTask(r)
  \/ NotifyOne
  \/ \E w \in Workers : ThreadWork(w) \/ SpuriousWake(w)

Spec == Init /\ [][Next]_vars

(***************************************************************************)
(* The scheduler runs every thread that can go on, a mutex is released     *)
(* after finitely many instructions, and a handler returns.  Nobody has to *)
(* submit anything and no spurious wake-up has to happen.                  *)
(***************************************************************************)
Fairness ==
  /\ WF_vars(NotifyOne)
  /\ \A w \in Workers : WF_vars(ThreadWork(w))

FairSpec == Spec /\ Fairness

-----------------------------------------------------------------------------
(* Properties. *)

(***************************************************************************)
(* The variables have their types, and a worker has a task exactly while   *)
(* it is in Task.                                                          *)
(***************************************************************************)
TypeOK ==
  /\ tasks \in Seq(Requests)
  /\ pc \in [Workers -> PCs]
  /\ cur \in [Workers -> Requests \cup {Idle, Phantom}]
  /\ notifying \in BOOLEAN
  /\ submitted \in Seq(Requests)
  /\ started \in Seq(Requests)
  /\ finished \in SUBSET Requests
  /\ \A w \in Workers : cur[w] = Idle <=> pc[w] # "task"

(***************************************************************************)
(* Requests start in the order in which the epoll loop appended them and   *)
(* none is dropped on the way: what was started, followed by what waits,   *)
(* is what was submitted.                                                  *)
(***************************************************************************)
FifoOrder == started \o tasks = submitted

Busy(r) == {w \in Workers : cur[w] = r}

(***************************************************************************)
(* Every request taken from the list is run by exactly one worker until it *)
(* is finished, and never again afterwards: no two workers take the same   *)
(* task and none is lost between the list and Task, however the workers    *)
(* are woken.                                                              *)
(***************************************************************************)
ServedOnce ==
  \A r \in Requests :
    /\ r \in Elements(started) <=> r \in finished \/ Busy(r) # {}
    /\ r \in finished => Busy(r) = {}
    /\ \A v, w \in Busy(r) : v = w

(***************************************************************************)
(* No lost wake-up: while a worker sleeps, every task in the list is       *)
(* matched by a worker that was woken for it and has not reached the mutex *)
(* yet, or by the notification the producer still owes.  Since             *)
(* AppandTask notifies after it released the mutex and only once per task, *)
(* this rests on workers looking at the list before they sleep.            *)
(***************************************************************************)
Owed == IF notifying THEN 1 ELSE 0

NoLostWakeup ==
  Sleeping # {} => Len(tasks) <= Cardinality(Woken) + Owed

(***************************************************************************)
(* Every request that AppandTask accepted is eventually finished, though   *)
(* workers oversleep, wake for nothing and run phantoms.                   *)
(***************************************************************************)
EveryRequestFinishes ==
  \A r \in Requests : r \in Elements(submitted) ~> r \in finished

(***************************************************************************)
(* The pool is a queue from which each request is started once, in order:  *)
(* the phantom runs are invisible.                                         *)
(***************************************************************************)
Abstract == INSTANCE TaskQueue WITH
  waiting <- tasks,
  running <- [w \in Workers |-> IF cur[w] = Phantom THEN Idle ELSE cur[w]]

ImplementsTaskQueue == Abstract!FairSpec
=============================================================================
