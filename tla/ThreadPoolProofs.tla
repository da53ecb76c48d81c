-------------------------- MODULE ThreadPoolProofs --------------------------
(***************************************************************************)
(* Proofs about ThreadPool: its invariants hold for every set of workers   *)
(* and of requests, and it implements TaskQueue.                           *)
(***************************************************************************)
EXTENDS ThreadPool, TLAPS, SequenceTheorems, FiniteSetTheorems

(***************************************************************************)
(* ServedOnce is not inductive by itself.  A worker that takes the front   *)
(* of the list takes a request nobody has only because the list and what   *)
(* was started make up the submissions (FifoOrder), and no request was     *)
(* submitted twice.                                                        *)
(***************************************************************************)
NoneTwice == \A i, j \in 1..Len(submitted) : submitted[i] = submitted[j] => i = j

IInv == TypeOK /\ FifoOrder /\ NoneTwice /\ ServedOnce

-----------------------------------------------------------------------------
(* Lemmas about the lists. *)

(***************************************************************************)
(* Appending adds one element to the elements of a list.                   *)
(***************************************************************************)
LEMMA ElementsOfAppend ==
  ASSUME NEW S, NEW s \in Seq(S), NEW x \in S
  PROVE  Elements(Append(s, x)) = Elements(s) \cup {x}
<1>1. /\ Len(s) \in Nat
      /\ Len(Append(s, x)) = Len(s) + 1
      /\ \A i \in 1..Len(s) : Append(s, x)[i] = s[i]
      /\ Append(s, x)[Len(s) + 1] = x
  BY AppendProperties, LenProperties
<1>2. 1..(Len(s) + 1) = 1..Len(s) \cup {Len(s) + 1}
  BY <1>1
<1> QED
  BY <1>1, <1>2 DEF Elements

(***************************************************************************)
(* Moving the head of one list to the end of another leaves their          *)
(* concatenation as it is.                                                 *)
(***************************************************************************)
LEMMA MoveHead ==
  ASSUME NEW S, NEW s \in Seq(S), NEW t \in Seq(S), t # <<>>
  PROVE  Append(s, Head(t)) \o Tail(t) = s \o t
<1>1. Head(t) \in S /\ Tail(t) \in Seq(S) /\ <<Head(t)>> \in Seq(S)
  BY HeadTailProperties
<1>2. t = <<Head(t)>> \o Tail(t)
  BY HeadTailProperties
<1>3. Append(s, Head(t)) = s \o <<Head(t)>>
  BY <1>1, AppendIsConcat
<1>4. (s \o <<Head(t)>>) \o Tail(t) = s \o (<<Head(t)>> \o Tail(t))
  BY <1>1, ConcatAssociative
<1> QED
  BY <1>2, <1>3, <1>4

(***************************************************************************)
(* The front of the list is a request that was submitted and not started.  *)
(***************************************************************************)
LEMMA HeadIsNew ==
  ASSUME TypeOK, FifoOrder, NoneTwice, tasks # <<>>
  PROVE  /\ Head(tasks) \in Requests
         /\ Head(tasks) \in Elements(submitted)
         /\ Head(tasks) \notin Elements(started)
<1>1. /\ tasks \in Seq(Requests) /\ started \in Seq(Requests)
      /\ Len(tasks) \in Nat \ {0} /\ Len(started) \in Nat
      /\ Head(tasks) \in Requests /\ Head(tasks) = tasks[1]
  BY HeadTailProperties, LenProperties, EmptySeq DEF TypeOK
<1>2. /\ Len(submitted) = Len(started) + Len(tasks)
      /\ \A i \in 1..Len(submitted) :
           submitted[i] = IF i <= Len(started) THEN started[i]
                          ELSE tasks[i - Len(started)]
  BY <1>1, ConcatProperties DEF FifoOrder
<1>3. submitted[Len(started) + 1] = Head(tasks)
  BY <1>1, <1>2
<1>4. \A i \in 1..Len(started) : submitted[i] = started[i]
  BY <1>1, <1>2
<1> QED
  BY <1>1, <1>2, <1>3, <1>4 DEF NoneTwice, Elements

-----------------------------------------------------------------------------
(* The invariant. *)

LEMMA InitIInv == Init => IInv
<1> SUFFICES ASSUME Init PROVE IInv
  OBVIOUS
<1>1. TypeOK
  BY RequestsAssumption, EmptySeq DEF Init, TypeOK, PCs
<1>2. FifoOrder
  BY ConcatEmptySeq, EmptySeq DEF Init, FifoOrder
<1>3. NoneTwice /\ ServedOnce
  BY EmptySeq, RequestsAssumption DEF Init, NoneTwice, ServedOnce, Elements, Busy
<1> QED
  BY <1>1, <1>2, <1>3 DEF IInv

LEMMA AppandTaskIInv ==
  ASSUME IInv, NEW r \in Requests, AppandTask(r)
  PROVE  IInv'
<1> USE DEF IInv
<1>1. TypeOK'
  BY AppendProperties DEF AppandTask, TypeOK
<1>2. FifoOrder'
  <2>1. started \o Append(tasks, r) = Append(started \o tasks, r)
    <3>1. <<r>> \in Seq(Requests)
      OBVIOUS
    <3>2. started \o tasks \in Seq(Requests)
      BY ConcatProperties DEF TypeOK
    <3>3. Append(tasks, r) = tasks \o <<r>>
      BY AppendIsConcat DEF TypeOK
    <3>4. Append(started \o tasks, r) = (started \o tasks) \o <<r>>
      BY <3>2, AppendIsConcat
    <3> QED
      BY <3>1, <3>3, <3>4, ConcatAssociative DEF TypeOK
  <2> QED
    BY <2>1 DEF AppandTask, FifoOrder
<1>3. NoneTwice'
  <2>1. /\ Len(submitted) \in Nat
        /\ Len(submitted') = Len(submitted) + 1
        /\ \A i \in 1..Len(submitted) : submitted'[i] = submitted[i]
        /\ submitted'[Len(submitted) + 1] = r
    BY AppendProperties, LenProperties DEF AppandTask, TypeOK
  <2>2. \A i \in 1..Len(submitted) : submitted[i] # r
    BY DEF AppandTask, Elements
  <2> QED
    BY <2>1, <2>2 DEF NoneTwice
<1>4. ServedOnce'
  BY DEF AppandTask, ServedOnce, Busy, Elements
<1> QED
  BY <1>1, <1>2, <1>3, <1>4

LEMMA TakeIInv ==
  ASSUME IInv, NEW w \in Workers, pc[w] # "task", Take(w)
  PROVE  IInv'
<1> USE DEF IInv
<1> DEFINE r == Head(tasks)
<1>1. /\ r \in Requests /\ r \notin Elements(started)
      /\ Tail(tasks) \in Seq(Requests)
  BY HeadIsNew, HeadTailProperties DEF Take, TypeOK
<1>2. cur[w] = Idle
  BY DEF TypeOK
<1>3. /\ cur' = [cur EXCEPT ![w] = r] /\ pc' = [pc EXCEPT ![w] = "task"]
      /\ started' = Append(started, r) /\ tasks' = Tail(tasks)
      /\ UNCHANGED <<notifying, submitted, finished>>
  BY DEF Take, TakeFront
<1>4. TypeOK'
  <2>1. started' \in Seq(Requests)
    BY <1>1, <1>3, AppendProperties DEF TypeOK
  <2>2. \A v \in Workers : cur'[v] = Idle <=> pc'[v] # "task"
    BY <1>1, <1>3, RequestsAssumption DEF TypeOK
  <2> QED
    BY <1>1, <1>3, <2>1, <2>2 DEF TypeOK, PCs
<1>5. FifoOrder'
  BY <1>3, MoveHead DEF TypeOK, FifoOrder, Take
<1>6. NoneTwice'
  BY <1>3 DEF NoneTwice
<1>7. ServedOnce'
  <2>1. Elements(started') = Elements(started) \cup {r}
    BY <1>1, <1>3, ElementsOfAppend DEF TypeOK
  <2>2. Busy(r) = {} /\ r \notin finished
    BY <1>1 DEF ServedOnce
  <2>3. \A q \in Requests : Busy(q)' = IF q = r THEN {w} ELSE Busy(q)
    BY <1>2, <1>3, <2>2, RequestsAssumption DEF Busy, TypeOK
  <2>4. finished' = finished
    BY <1>3
  <2>5. ASSUME NEW q \in Requests
        PROVE  /\ q \in Elements(started') <=> q \in finished' \/ Busy(q)' # {}
               /\ q \in finished' => Busy(q)' = {}
               /\ \A u, v \in Busy(q)' : u = v
    <3>1. /\ q \in Elements(started) <=> q \in finished \/ Busy(q) # {}
          /\ q \in finished => Busy(q) = {}
          /\ \A u, v \in Busy(q) : u = v
      BY DEF ServedOnce
    <3>2. CASE q = r
      BY <2>1, <2>2, <2>3, <2>4, <3>2
    <3>3. CASE q # r
      BY <2>1, <2>3, <2>4, <3>1, <3>3
    <3> QED
      BY <3>2, <3>3
  <2> QED
    BY <2>5 DEF ServedOnce, Elements
<1> QED
  BY <1>4, <1>5, <1>6, <1>7

(***************************************************************************)
(* Every step preserves the invariant.                                     *)
(***************************************************************************)
LEMMA NextIInv == IInv /\ [Next]_vars => IInv'
<1> SUFFICES ASSUME IInv, [Next]_vars PROVE IInv'
  OBVIOUS
<1> USE DEF IInv
<1>1. ASSUME NEW r \in Requests, AppandTask(r) PROVE IInv'
  BY <1>1, AppandTaskIInv
<1>2. ASSUME NotifyOne PROVE IInv'
  <2>1. TypeOK'
    BY <1>2 DEF NotifyOne, TypeOK, PCs, Sleeping
  <2> QED
    BY <1>2, <2>1 DEF NotifyOne, FifoOrder, NoneTwice, ServedOnce, Busy, Elements
<1>3. ASSUME NEW w \in Workers, Lock(w) PROVE IInv'
  <2>1. CASE Take(w)
    BY <1>3, <2>1, TakeIInv DEF Lock, In
  <2>2. CASE ~Take(w)
    <3>1. /\ pc[w] = "lock" /\ pc' = [pc EXCEPT ![w] = "wait"]
          /\ UNCHANGED <<tasks, cur, notifying, submitted, started, finished>>
      BY <1>3, <2>2 DEF Lock, In
    <3>2. TypeOK'
      BY <3>1 DEF TypeOK, PCs
    <3> QED
      BY <3>1, <3>2 DEF FifoOrder, NoneTwice, ServedOnce, Busy, Elements
  <2> QED
    BY <2>1, <2>2
<1>4. ASSUME NEW w \in Workers, SpuriousWake(w) PROVE IInv'
  <2>1. TypeOK'
    BY <1>4 DEF SpuriousWake, In, TypeOK, PCs
  <2> QED
    BY <1>4, <2>1 DEF SpuriousWake, FifoOrder, NoneTwice, ServedOnce, Busy, Elements
<1>5. ASSUME NEW w \in Workers, Relock(w) PROVE IInv'
  <2>1. CASE Take(w)
    BY <1>5, <2>1, TakeIInv DEF Relock, In
  <2>2. CASE ~Take(w)
    <3>1. /\ pc[w] = "woken" /\ pc' = [pc EXCEPT ![w] = "task"]
          /\ cur' = [cur EXCEPT ![w] = Phantom]
          /\ UNCHANGED <<tasks, notifying, submitted, started, finished>>
      BY <1>5, <2>2 DEF Relock, In
    <3>2. cur[w] = Idle
      BY <3>1 DEF TypeOK
    <3>3. TypeOK'
      BY <3>1, RequestsAssumption DEF TypeOK, PCs
    <3>4. \A r \in Requests : Busy(r)' = Busy(r)
      BY <3>1, <3>2, RequestsAssumption DEF Busy, TypeOK
    <3> QED
      BY <3>1, <3>3, <3>4 DEF FifoOrder, NoneTwice, ServedOnce, Elements
  <2> QED
    BY <2>1, <2>2
<1>6. ASSUME NEW w \in Workers, TaskEnd(w) PROVE IInv'
  <2>1. /\ pc[w] = "task" /\ pc' = [pc EXCEPT ![w] = "lock"]
        /\ cur' = [cur EXCEPT ![w] = Idle]
        /\ finished' = finished \cup ({cur[w]} \ {Phantom})
        /\ UNCHANGED <<tasks, notifying, submitted, started>>
    BY <1>6 DEF TaskEnd, In
  <2>2. cur[w] \in Requests \cup {Phantom}
    BY <2>1 DEF TypeOK
  <2>3. TypeOK'
    BY <2>1, <2>2 DEF TypeOK, PCs
  <2>4. \A r \in Requests : Busy(r)' = Busy(r) \ {w}
    BY <2>1, RequestsAssumption DEF Busy, TypeOK
  <2>5. ServedOnce'
    <3> SUFFICES ASSUME NEW r \in Requests
                 PROVE  /\ r \in Elements(started)' <=> r \in finished' \/ Busy(r)' # {}
                        /\ r \in finished' => Busy(r)' = {}
                        /\ \A u, v \in Busy(r)' : u = v
      BY DEF ServedOnce
    <3>1. /\ r \in Elements(started) <=> r \in finished \/ Busy(r) # {}
          /\ r \in finished => Busy(r) = {}
          /\ \A u, v \in Busy(r) : u = v
      BY DEF ServedOnce
    <3>2. Elements(started)' = Elements(started)
      BY <2>1 DEF Elements
    <3>3. CASE cur[w] = r
      <4>1. w \in Busy(r) /\ r \in finished'
        BY <2>1, <3>3, RequestsAssumption DEF Busy
      <4> QED
        BY <2>4, <3>1, <3>2, <4>1
    <3>4. CASE cur[w] # r
      <4>1. w \notin Busy(r) /\ (r \in finished' <=> r \in finished)
        BY <2>1, <3>4 DEF Busy
      <4> QED
        BY <2>4, <3>1, <3>2, <4>1
    <3> QED
      BY <3>3, <3>4
  <2> QED
    BY <2>1, <2>3, <2>5 DEF FifoOrder, NoneTwice
<1>7. CASE UNCHANGED vars
  BY <1>7 DEF vars, TypeOK, FifoOrder, NoneTwice, ServedOnce, Busy, Elements
<1> QED
  BY <1>1, <1>2, <1>3, <1>4, <1>5, <1>6, <1>7 DEF Next, ThreadWork

THEOREM Invariance == Spec => []IInv
  BY InitIInv, NextIInv, PTL DEF Spec

(***************************************************************************)
(* The variables keep their types, and a worker has a task exactly while   *)
(* it runs Task.                                                           *)
(***************************************************************************)
THEOREM TypeCorrect == Spec => []TypeOK
  BY Invariance, PTL DEF IInv

(***************************************************************************)
(* Requests start in the order of AppandTask, and none is dropped.         *)
(***************************************************************************)
THEOREM FirstInFirstOut == Spec => []FifoOrder
  BY Invariance, PTL DEF IInv

(***************************************************************************)
(* Each request that is started is run by one worker and finished once.    *)
(***************************************************************************)
THEOREM OnceEach == Spec => []ServedOnce
  BY Invariance, PTL DEF IInv

-----------------------------------------------------------------------------
(* No lost wake-up. *)

LEMMA FiniteSubsets ==
  ASSUME TypeOK
  PROVE  /\ IsFiniteSet(Woken) /\ Cardinality(Woken) \in Nat
         /\ Len(tasks) \in Nat
<1>1. Woken \in SUBSET Workers
  BY DEF Woken
<1> QED
  BY <1>1, WorkersAssumption, FS_Subset, FS_CardinalityType, LenProperties DEF TypeOK

(***************************************************************************)
(* The invariant is inductive: a worker sleeps only when it saw the list   *)
(* empty, every later task brings a notification, and a woken worker       *)
(* disappears only by taking a task or by finding none.                    *)
(***************************************************************************)
LEMMA InitNoLostWakeup == Init => NoLostWakeup
  BY DEF Init, NoLostWakeup, Sleeping

LEMMA TakeNoLostWakeup ==
  ASSUME TypeOK, NoLostWakeup, NEW w \in Workers, pc[w] # "task", Take(w)
  PROVE  NoLostWakeup'
<1>1. /\ pc' = [pc EXCEPT ![w] = "task"] /\ tasks # <<>> /\ tasks' = Tail(tasks)
      /\ notifying' = notifying
  BY DEF Take, TakeFront
<1>2. Len(tasks) \in Nat \ {0} /\ Len(tasks') = Len(tasks) - 1
  BY <1>1, HeadTailProperties, EmptySeq DEF TypeOK
<1>3. Sleeping' = Sleeping \ {w} /\ Woken' = Woken \ {w}
  BY <1>1 DEF Sleeping, Woken, TypeOK
<1>4. Cardinality(Woken) \in Nat /\ Cardinality(Woken \ {w}) \in Nat
      /\ Cardinality(Woken \ {w}) >= Cardinality(Woken) - 1
  <2>1. IsFiniteSet(Woken) /\ Cardinality(Woken) \in Nat
    BY FiniteSubsets
  <2>2. /\ IsFiniteSet(Woken \ {w})
        /\ Cardinality(Woken \ {w}) =
             IF w \in Woken THEN Cardinality(Woken) - 1 ELSE Cardinality(Woken)
    BY <2>1, FS_RemoveElement
  <2>3. Cardinality(Woken \ {w}) \in Nat
    BY <2>2, FS_CardinalityType
  <2> QED
    BY <2>1, <2>2, <2>3
<1>5. Owed \in {0, 1} /\ Owed' = Owed
  BY <1>1 DEF Owed
<1> QED
  BY <1>2, <1>3, <1>4, <1>5 DEF NoLostWakeup

LEMMA NextNoLostWakeup ==
  TypeOK /\ NoLostWakeup /\ [Next]_vars => NoLostWakeup'
<1> SUFFICES ASSUME TypeOK, NoLostWakeup, [Next]_vars PROVE NoLostWakeup'
  OBVIOUS
<1>0. Cardinality(Woken) \in Nat /\ IsFiniteSet(Woken) /\ Len(tasks) \in Nat
  BY FiniteSubsets
<1>1. ASSUME NEW r \in Requests, AppandTask(r) PROVE NoLostWakeup'
  <2>1. Len(tasks') = Len(tasks) + 1
    BY <1>1, AppendProperties DEF AppandTask, TypeOK
  <2>2. Owed = 0 /\ Owed' = 1 /\ Sleeping' = Sleeping /\ Woken' = Woken
    BY <1>1 DEF AppandTask, Owed, Sleeping, Woken
  <2> QED
    BY <1>0, <2>1, <2>2 DEF NoLostWakeup
<1>2. ASSUME NotifyOne PROVE NoLostWakeup'
  <2>1. Owed = 1 /\ Owed' = 0 /\ tasks' = tasks
    BY <1>2 DEF NotifyOne, Owed
  <2>2. CASE Sleeping = {} /\ UNCHANGED pc
    BY <2>2 DEF NoLostWakeup, Sleeping
  <2>3. ASSUME NEW w \in Sleeping, pc' = [pc EXCEPT ![w] = "woken"]
        PROVE  NoLostWakeup'
    <3>1. Woken' = Woken \cup {w} /\ w \notin Woken
      BY <2>3 DEF Sleeping, Woken, TypeOK
    <3>2. Cardinality(Woken') = Cardinality(Woken) + 1
      BY <1>0, <3>1, FS_AddElement
    <3>3. Sleeping # {}
      BY <2>3
    <3> QED
      BY <1>0, <2>1, <3>2, <3>3 DEF NoLostWakeup
  <2> QED
    BY <1>2, <2>2, <2>3 DEF NotifyOne
<1>3. ASSUME NEW w \in Workers, Lock(w) PROVE NoLostWakeup'
  <2>1. CASE Take(w)
    BY <1>3, <2>1, TakeNoLostWakeup DEF Lock, In
  <2>2. CASE ~Take(w)
    <3>1. /\ pc[w] = "lock" /\ pc' = [pc EXCEPT ![w] = "wait"]
          /\ tasks = <<>> /\ UNCHANGED <<tasks, notifying>>
      BY <1>3, <2>2 DEF Lock, In, MustWait
    <3>2. Woken' = Woken /\ Len(tasks') = 0 /\ Owed' \in {0, 1}
      BY <3>1, EmptySeq DEF Woken, TypeOK, Owed
    <3> QED
      BY <1>0, <3>2 DEF NoLostWakeup
  <2> QED
    BY <2>1, <2>2
<1>4. ASSUME NEW w \in Workers, SpuriousWake(w) PROVE NoLostWakeup'
  <2>1. /\ pc[w] = "wait" /\ pc' = [pc EXCEPT ![w] = "woken"]
        /\ UNCHANGED <<tasks, notifying>>
    BY <1>4 DEF SpuriousWake, In
  <2>2. w \in Sleeping /\ Woken' = Woken \cup {w} /\ w \notin Woken
    BY <2>1 DEF Sleeping, Woken, TypeOK
  <2>3. Cardinality(Woken') = Cardinality(Woken) + 1
    BY <1>0, <2>2, FS_AddElement
  <2>4. Owed \in {0, 1} /\ Owed' = Owed
    BY <2>1 DEF Owed
  <2> QED
    BY <1>0, <2>1, <2>2, <2>3, <2>4 DEF NoLostWakeup
<1>5. ASSUME NEW w \in Workers, Relock(w) PROVE NoLostWakeup'
  <2>1. CASE Take(w)
    BY <1>5, <2>1, TakeNoLostWakeup DEF Relock, In
  <2>2. CASE ~Take(w)
    <3>1. /\ pc[w] = "woken" /\ pc' = [pc EXCEPT ![w] = "task"]
          /\ tasks = <<>> /\ UNCHANGED <<tasks, notifying>>
      BY <1>5, <2>2 DEF Relock, In
    <3>2. Woken' = Woken \ {w} /\ Len(tasks') = 0 /\ Owed' \in {0, 1}
      BY <3>1, EmptySeq DEF Woken, TypeOK, Owed
    <3>3. Cardinality(Woken') \in Nat
      BY <1>0, <3>2, FS_RemoveElement, FS_CardinalityType
    <3> QED
      BY <3>2, <3>3 DEF NoLostWakeup
  <2> QED
    BY <2>1, <2>2
<1>6. ASSUME NEW w \in Workers, TaskEnd(w) PROVE NoLostWakeup'
  <2>1. /\ pc[w] = "task" /\ pc' = [pc EXCEPT ![w] = "lock"]
        /\ UNCHANGED <<tasks, notifying>>
    BY <1>6 DEF TaskEnd, In
  <2>2. Woken' = Woken /\ Sleeping' = Sleeping /\ Owed' = Owed
    BY <2>1 DEF Woken, Sleeping, TypeOK, Owed
  <2> QED
    BY <2>1, <2>2 DEF NoLostWakeup
<1>7. CASE UNCHANGED vars
  BY <1>7 DEF vars, NoLostWakeup, Woken, Sleeping, Owed
<1> QED
  BY <1>1, <1>2, <1>3, <1>4, <1>5, <1>6, <1>7 DEF Next, ThreadWork

(***************************************************************************)
(* No wake-up is lost: a worker sleeps only while every task in the list   *)
(* has a woken worker, or a notification, on its way.                      *)
(***************************************************************************)
THEOREM WakeupsSuffice == Spec => []NoLostWakeup
<1>1. Init => NoLostWakeup
  BY InitNoLostWakeup
<1>2. TypeOK /\ NoLostWakeup /\ [Next]_vars => NoLostWakeup'
  BY NextNoLostWakeup
<1> QED
  BY <1>1, <1>2, TypeCorrect, PTL DEF Spec

-----------------------------------------------------------------------------
(* Refinement. *)

LEMMA TakeStarts ==
  ASSUME IInv, NEW w \in Workers, pc[w] # "task", Take(w)
  PROVE  Abstract!Start(w)
<1>1. cur[w] = Idle /\ Head(tasks) \in Requests
  BY HeadIsNew DEF IInv, TypeOK, Take
<1>2. /\ cur' = [cur EXCEPT ![w] = Head(tasks)] /\ tasks' = Tail(tasks)
      /\ finished' = finished /\ tasks # <<>>
  BY DEF Take, TakeFront
<1> QED
  BY <1>1, <1>2, RequestsAssumption DEF Abstract!Start, IInv, TypeOK

(***************************************************************************)
(* The thread pool implements the abstract queue: submitting, starting and *)
(* finishing a request are its steps, and locking, sleeping, waking and    *)
(* the phantom runs of Task are stutters.                                  *)
(***************************************************************************)
THEOREM PoolIsAQueue == Spec => Abstract!Spec
<1>1. Init => Abstract!Init
  BY RequestsAssumption DEF Init, Abstract!Init
<1>2. IInv /\ [Next]_vars => [Abstract!Next]_Abstract!vars
  <2> SUFFICES ASSUME IInv, [Next]_vars
               PROVE  Abstract!Next \/ UNCHANGED Abstract!vars
    OBVIOUS
  <2>1. ASSUME NEW r \in Requests, AppandTask(r) PROVE Abstract!Submit(r)
    <3>1. r \notin Elements(tasks) /\ r \notin Elements(started)
      <4>1. /\ Len(submitted) = Len(started) + Len(tasks)
            /\ Len(started) \in Nat /\ Len(tasks) \in Nat
            /\ \A i \in 1..Len(submitted) :
                 submitted[i] = IF i <= Len(started) THEN started[i]
                                ELSE tasks[i - Len(started)]
        BY ConcatProperties, LenProperties DEF IInv, FifoOrder, TypeOK
      <4>2. \A i \in 1..Len(submitted) : submitted[i] # r
        BY <2>1 DEF AppandTask, Elements
      <4>3. ASSUME NEW i \in 1..Len(started) PROVE started[i] # r
        <5>1. i \in 1..Len(submitted) /\ submitted[i] = started[i]
          BY <4>1, <4>3
        <5> QED
          BY <5>1, <4>2
      <4>4. ASSUME NEW i \in 1..Len(tasks) PROVE tasks[i] # r
        <5>1. /\ Len(started) + i \in 1..Len(submitted)
              /\ submitted[Len(started) + i] = tasks[i]
          BY <4>1, <4>4
        <5> QED
          BY <5>1, <4>2
      <4> QED
        BY <4>3, <4>4 DEF Elements
    <3>2. r \notin finished /\ Busy(r) = {}
      BY <3>1 DEF IInv, ServedOnce
    <3>3. r \notin Abstract!Waiting
      BY <3>1 DEF Abstract!Waiting, Elements
    <3>4. r \notin Abstract!Running
      BY <3>2, RequestsAssumption DEF Abstract!Running, Busy
    <3> QED
      BY <2>1, <3>2, <3>3, <3>4 DEF Abstract!Submit, AppandTask
  <2>2. ASSUME NotifyOne PROVE UNCHANGED Abstract!vars
    BY <2>2 DEF NotifyOne, Abstract!vars
  <2>3. ASSUME NEW w \in Workers, Lock(w)
        PROVE  Abstract!Start(w) \/ UNCHANGED Abstract!vars
    <3>1. CASE Take(w)
      BY <2>3, <3>1, TakeStarts DEF Lock, In
    <3>2. CASE ~Take(w)
      BY <2>3, <3>2 DEF Lock, Abstract!vars
    <3> QED
      BY <3>1, <3>2
  <2>4. ASSUME NEW w \in Workers, SpuriousWake(w) PROVE UNCHANGED Abstract!vars
    BY <2>4 DEF SpuriousWake, Abstract!vars
  <2>5. ASSUME NEW w \in Workers, Relock(w)
        PROVE  Abstract!Start(w) \/ UNCHANGED Abstract!vars
    <3>1. CASE Take(w)
      BY <2>5, <3>1, TakeStarts DEF Relock, In
    <3>2. CASE ~Take(w)
      <4>1. /\ cur[w] = Idle /\ cur' = [cur EXCEPT ![w] = Phantom]
            /\ UNCHANGED <<tasks, finished>>
        BY <2>5, <3>2 DEF Relock, In, IInv, TypeOK
      <4> QED
        BY <4>1, RequestsAssumption DEF Abstract!vars, IInv, TypeOK
    <3> QED
      BY <3>1, <3>2
  <2>6. ASSUME NEW w \in Workers, TaskEnd(w)
        PROVE  Abstract!Finish(w) \/ UNCHANGED Abstract!vars
    <3>1. /\ pc[w] = "task" /\ cur' = [cur EXCEPT ![w] = Idle]
          /\ finished' = finished \cup ({cur[w]} \ {Phantom})
          /\ tasks' = tasks
      BY <2>6 DEF TaskEnd, In
    <3>2. cur \in [Workers -> Requests \cup {Idle, Phantom}] /\ cur[w] # Idle
      BY <3>1 DEF IInv, TypeOK
    <3>3. CASE cur[w] = Phantom
      BY <3>1, <3>2, <3>3, RequestsAssumption DEF Abstract!vars
    <3>4. CASE cur[w] # Phantom
      BY <3>1, <3>2, <3>4, RequestsAssumption DEF Abstract!Finish
    <3> QED
      BY <3>3, <3>4
  <2>7. CASE UNCHANGED vars
    BY <2>7 DEF vars, Abstract!vars
  <2> QED
    BY <2>1, <2>2, <2>3, <2>4, <2>5, <2>6, <2>7
       DEF Next, ThreadWork, Abstract!Next
<1> QED
  BY <1>1, <1>2, Invariance, PTL DEF Spec, Abstract!Spec
=============================================================================
