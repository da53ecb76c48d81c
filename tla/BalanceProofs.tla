--------------------------- MODULE BalanceProofs ---------------------------
(***************************************************************************)
(* Proofs about Balance, for any number of servers, ports, descriptors,    *)
(* positions and threads: the containers keep their types whatever the     *)
(* threads do, and as long as no registration and no removal have          *)
(* overlapped they agree with each other, and a lookup finds no deleted    *)
(* node once its removal is over.                                          *)
(***************************************************************************)
EXTENDS Balance, TLAPS, WellFoundedInduction

-----------------------------------------------------------------------------
(* The operators of the model.                                             *)

Function(f) == f = [x \in DOMAIN f |-> f[x]]

(***************************************************************************)
(* begin() of a map that is not empty is its smallest key, which exists    *)
(* however many keys there are.                                            *)
(***************************************************************************)
LEMMA HasLeast ==
  ASSUME NEW S, S \subseteq Nat, S # {}
  PROVE  Least(S) \in S /\ \A y \in S : Least(S) <= y
<1> DEFINE R == OpToRel(<, Nat)
<1>1. IsWellFoundedOn(R, Nat)
  BY NatLessThanWellFounded
<1> HIDE DEF R
<1>2. PICK x \in S : \A y \in S : ~(<<y, x>> \in R)
  BY <1>1, WFMin
<1>3. \A y \in S : x <= y
  <2>1. \A y \in S : <<y, x>> \in R <=> y < x
    BY DEF R, OpToRel
  <2>2. \A y \in S : ~(y < x)
    BY <1>2, <2>1
  <2> QED BY <2>2
<1> QED BY <1>3 DEF Least

LEMMA NoDomain ==
  ASSUME NEW f, Function(f), DOMAIN f = {}
  PROVE  f = <<>>
BY DEF Function

LEMMA PutFacts ==
  ASSUME NEW f, NEW x, NEW v
  PROVE  /\ Function(Put(f, x, v))
         /\ DOMAIN Put(f, x, v) = DOMAIN f \cup {x}
         /\ Put(f, x, v)[x] = v
         /\ \A y \in DOMAIN f : y # x => Put(f, x, v)[y] = f[y]
BY DEF Put, Function

LEMMA WithoutFacts ==
  ASSUME NEW f, NEW x
  PROVE  /\ Function(Without(f, x))
         /\ DOMAIN Without(f, x) = DOMAIN f \ {x}
         /\ \A y \in DOMAIN f \ {x} : Without(f, x)[y] = f[y]
BY DEF Without, Function

LEMMA AppendFacts ==
  ASSUME NEW S, NEW q \in Seq(S), NEW x \in S
  PROVE  /\ Append(q, x) \in Seq(S)
         /\ Append(q, x) # <<>>
         /\ Len(Append(q, x)) = Len(q) + 1
         /\ \A i \in 1..Len(q) : Append(q, x)[i] = q[i]
         /\ Append(q, x)[Len(q) + 1] = x
OBVIOUS

LEMMA TailFacts ==
  ASSUME NEW S, NEW q \in Seq(S), q # <<>>
  PROVE  /\ Tail(q) \in Seq(S)
         /\ Head(q) = q[1] /\ Head(q) \in S
         /\ Len(q) \in Nat /\ Len(q) >= 1
         /\ Len(Tail(q)) = Len(q) - 1
         /\ \A i \in 1..Len(Tail(q)) : Tail(q)[i] = q[i + 1]
OBVIOUS

LEMMA NextFacts ==
  ASSUME TypeOK, NEW f, Beyond(f) # {}
  PROVE  Least(Beyond(f)) \in DOMAIN listed
<1>1. Beyond(f) \subseteq Nat
  BY BalanceAssumption DEF Beyond, TypeOK
<1> QED BY <1>1, HasLeast DEF Beyond

LEMMA FreeFacts ==
  ASSUME FreeFDs # {}
  PROVE  Least(FreeFDs) \in FDs /\ table[Least(FreeFDs)] = None
<1>1. FreeFDs \subseteq Nat
  BY BalanceAssumption DEF FreeFDs
<1> QED BY <1>1, HasLeast DEF FreeFDs

-----------------------------------------------------------------------------
(* What holds at every moment while the process is up, overlap or not.     *)

(***************************************************************************)
(* The lists that are not being removed at this moment.                    *)
(***************************************************************************)
Counted(f) == f \in DOMAIN listed /\ ~(Removing /\ f = it)

Shapes ==
  /\ Function(ring) /\ Function(listed)
  /\ \A f \in DOMAIN listed : listed[f] # <<>>

Dealing ==
  /\ dpc = "idle" <=> dsrv = None
  /\ dpc = "idle" <=> dfd = None
  /\ dpc # "idle" => port[dsrv] \in Ports
  /\ dpc = "real" => HashOf[port[dsrv]][0] \notin DOMAIN ring /\ port[dsrv] \notin serport
  /\ dpc = "virtual" => dnext >= 1

(***************************************************************************)
(* Only servers that were accepted are in the containers, so that the next *)
(* one to be accepted is in none.                                          *)
(***************************************************************************)
Known(s) == life[s] \in {"linked", "dead"}

OnlyKnown ==
  /\ \A h \in DOMAIN ring : Known(ring[h].node)
  /\ \A f \in FDs : table[f] # None => Known(table[f])
  /\ \A s \in freed : Known(s)
  /\ dpc # "idle" => Known(dsrv)

(***************************************************************************)
(* The lists name positions of the ring, and none twice.                   *)
(***************************************************************************)
Lists ==
  /\ it # None => it \in DOMAIN listed
  /\ \A f \in DOMAIN listed : Counted(f) =>
       \A i \in 1..Len(listed[f]) : listed[f][i] \in DOMAIN ring
  /\ \A f, g \in DOMAIN listed : Counted(f) /\ Counted(g) =>
       \A i \in 1..Len(listed[f]), j \in 1..Len(listed[g]) :
         listed[f][i] = listed[g][j] => f = g /\ i = j

(***************************************************************************)
(* What a removal has still to erase is on the ring and in no other list.  *)
(***************************************************************************)
Removal ==
  Removing =>
    /\ hpc \in Erasing => left # <<>>
    /\ \A i \in 1..Len(left) : left[i] \in DOMAIN ring
    /\ \A i, j \in 1..Len(left) : left[i] = left[j] => i = j
    /\ \A f \in DOMAIN listed : Counted(f) =>
         \A i \in 1..Len(left), j \in 1..Len(listed[f]) : listed[f][j] # left[i]

(***************************************************************************)
(* An entry whose port is in serport: a real one, not yet being erased.    *)
(***************************************************************************)
Standing(h) == h \in DOMAIN ring /\ ring[h].real /\ ~(hpc \in Erasing /\ h = Dropped)

PortsKept ==
  /\ \A h \in DOMAIN ring : Standing(h) => port[ring[h].node] \in serport
  /\ \A p \in serport : \E h \in DOMAIN ring : Standing(h) /\ port[ring[h].node] = p
  /\ \A g, h \in DOMAIN ring :
       Standing(g) /\ Standing(h) /\ port[ring[g].node] = port[ring[h].node] => g = h

Containers == Shapes /\ Dealing /\ OnlyKnown /\ Lists /\ Removal /\ PortsKept

IInv == TypeOK /\ (Up => Containers)


(***************************************************************************)
(* The search finds an entry in a ring that is not empty.                  *)
(***************************************************************************)
LEMMA LowerBoundFacts ==
  ASSUME TypeOK, Containers, ring # <<>>, NEW h \in Hashes
  PROVE  LowerBound(h) \in DOMAIN ring
<1> DEFINE upper == {g \in DOMAIN ring : g >= h}
           hits == IF upper = {} THEN DOMAIN ring ELSE upper
<1>1. DOMAIN ring # {}
  BY NoDomain DEF Containers, Shapes
<1>2. hits \subseteq Nat /\ hits # {} /\ hits \subseteq DOMAIN ring
  BY <1>1, BalanceAssumption DEF TypeOK
<1>3. Least(hits) \in hits
  BY <1>2, HasLeast
<1> QED BY <1>2, <1>3 DEF LowerBound

(***************************************************************************)
(* The entry that is dropped is on the ring, as long as one is left.       *)
(***************************************************************************)
LEMMA DroppedFacts ==
  ASSUME TypeOK, Containers, Removing, left # <<>>
  PROVE  /\ Dropped = left[1] /\ Dropped \in DOMAIN ring
         /\ ring[Dropped] \in [real : BOOLEAN, node : Servers]
         /\ \A f \in DOMAIN listed : Counted(f) =>
              \A j \in 1..Len(listed[f]) : listed[f][j] # Dropped
<1>1. Dropped = left[1] /\ Len(left) \in Nat /\ Len(left) >= 1
  BY TailFacts DEF TypeOK, Dropped
<1> QED BY <1>1 DEF Containers, Removal, TypeOK

LEMMA InitIInv == Init => IInv
<1> SUFFICES ASSUME Init PROVE IInv
  OBVIOUS
<1>1. TypeOK
  <2>1. /\ found \in [Threads -> [at : Hashes, node : Servers] \cup {None}]
        /\ serving \in [Threads -> Clients \cup {None}]
        /\ client \in [Clients -> {"new", "queued", "taken", "served", "stranded"}]
        /\ answer \in [Clients -> Servers \cup {None, Garbage}]
        /\ tpc \in [Threads -> {"top", "accept", "check", "find", "use"}]
        /\ \A t \in Threads : mtx = t <=> tpc[t] = "accept"
    BY BalanceAssumption DEF Init
  <2>2. DOMAIN ring = {} /\ DOMAIN listed = {} /\ left \in Seq(Hashes)
    BY DEF Init
  <2>3. dnext \in 0..(VNodes + 1) /\ mtx = None
    BY BalanceAssumption DEF Init
  <2>4. overlapped \in BOOLEAN
    BY DEF Init
  <2> QED BY <2>1, <2>2, <2>3, <2>4 DEF Init, TypeOK
<1>2. Containers
  BY DEF Init, Containers, Shapes, Function, Dealing, OnlyKnown, Lists, Counted, Removal,
     Removing, PortsKept, Standing, Dropped, Erasing
<1> QED BY <1>1, <1>2 DEF IInv

(***************************************************************************)
(* Steps that touch no container.                                          *)
(***************************************************************************)
LEMMA ServerSteps ==
  ASSUME IInv, NEW s \in Servers, Connect(s) \/ Pong(s) \/ Die(s) \/ Refuse(s)
  PROVE  IInv'
<1>1. TypeOK'
  BY DEF IInv, TypeOK, Connect, Pong, Die, Refuse, ringVars, dealVars, heartVars, clientVars
<1>2. ASSUME Up' PROVE Containers'
  <2> USE DEF Connect, Pong, Die, Refuse, ringVars, dealVars, heartVars, clientVars
  <2>1. Up /\ Containers /\ TypeOK
    BY <1>2 DEF IInv, Up
  <2>2. Shapes' /\ Lists' /\ Removal'
    BY <2>1 DEF Containers, Shapes, Function, Lists, Removal, Removing, Counted
  <2>3. Dealing' /\ PortsKept'
    BY <2>1 DEF Containers, Dealing, PortsKept, Standing, Dropped, Removing, Erasing
  <2>4. OnlyKnown'
    BY <2>1 DEF Containers, Dealing, OnlyKnown, Known, TypeOK
  <2> QED BY <2>2, <2>3, <2>4 DEF Containers
<1> QED BY <1>1, <1>2 DEF IInv

LEMMA ClientSteps ==
  ASSUME IInv,
         \/ \E c \in Clients : Arrive(c)
         \/ \E t \in Threads :
              \/ Lock(t) \/ Check(t) \/ Answer(t)
              \/ \E c \in Clients : Accept(t, c)
              \/ \E h \in Hashes : Find(t, h)
  PROVE  IInv'
<1> USE DEF ringVars, serverVars, dealVars, heartVars
<1>1. TypeOK'
  <2>1. CASE \E c \in Clients : Arrive(c)
    BY <2>1 DEF IInv, TypeOK, Arrive
  <2>2. CASE \E t \in Threads : Lock(t)
    BY <2>2, BalanceAssumption DEF IInv, TypeOK, Lock
  <2>3. CASE \E t \in Threads, c \in Clients : Accept(t, c)
    BY <2>3, BalanceAssumption DEF IInv, TypeOK, Accept, Unlock
  <2>4. ASSUME NEW t \in Threads, Check(t) PROVE TypeOK'
    BY <2>4 DEF IInv, TypeOK, Check, Removing, Erasing
  <2>5. ASSUME NEW t \in Threads, NEW h \in Hashes, Find(t, h)
        PROVE  TypeOK'
    <3> DEFINE e == IF ring = <<>> THEN None
                    ELSE [at |-> LowerBound(h), node |-> ring[LowerBound(h)].node]
    <3>1. ring # <<>> => LowerBound(h) \in DOMAIN ring
      BY <2>5, LowerBoundFacts DEF Find, IInv
    <3>2. e \in [at : Hashes, node : Servers] \cup {None}
      BY <3>1 DEF IInv, TypeOK
    <3>3. found' = [found EXCEPT ![t] = e]
      BY <2>5 DEF Find
    <3> HIDE DEF e
    <3> QED BY <2>5, <3>2, <3>3 DEF IInv, TypeOK, Find
  <2>6. ASSUME NEW t \in Threads, Answer(t)
        PROVE  TypeOK'
    <3>1. Intact(found[t]) => found[t].node \in Servers
      BY DEF IInv, TypeOK, Intact, Stored
    <3>2. answer' \in [Clients -> Servers \cup {None, Garbage}]
      BY <2>6, <3>1 DEF IInv, TypeOK, Answer
    <3>3. found' \in [Threads -> [at : Hashes, node : Servers] \cup {None}]
      BY <2>6 DEF IInv, TypeOK, Answer
    <3>4. client' \in [Clients -> {"new", "queued", "taken", "served", "stranded"}]
      BY <2>6 DEF IInv, TypeOK, Answer
    <3>5. serving' \in [Threads -> Clients \cup {None}]
      BY <2>6 DEF IInv, TypeOK, Answer
    <3>6. /\ tpc' \in [Threads -> {"top", "accept", "check", "find", "use"}]
          /\ \A u \in Threads : mtx' = u <=> tpc'[u] = "accept"
          /\ mtx' \in Threads \cup {None}
      BY <2>6 DEF IInv, TypeOK, Answer
    <3>7. UNCHANGED <<ringVars, serverVars, dealVars, heartVars>>
      BY <2>6 DEF Answer
    <3> QED BY <3>2, <3>3, <3>4, <3>5, <3>6, <3>7 DEF IInv, TypeOK
  <2> QED BY <2>1, <2>2, <2>3, <2>4, <2>5, <2>6
<1>2. UNCHANGED <<ringVars, serverVars, dealVars, heartVars>>
  BY DEF Arrive, Lock, Accept, Check, Find, Answer
<1>3. Containers' = Containers /\ Up' = Up
  BY <1>2 DEF Containers, Shapes, Function, Dealing, OnlyKnown, Known, Lists, Counted, Removal,
     Removing, Erasing, PortsKept, Standing, Dropped, Up
<1> QED BY <1>1, <1>3 DEF IInv

LEMMA CrashStep ==
  ASSUME IInv, NEW t \in Threads, Crash(t)
  PROVE  IInv'
BY BalanceAssumption DEF IInv, TypeOK, Up, Crash, Erasing, ringVars, serverVars, dealVars, clientVars

(***************************************************************************)
(* The event loop registers a server.                                      *)
(***************************************************************************)
LEMMA SendPortStep ==
  ASSUME IInv, NEW s \in Servers, SendPort(s)
  PROVE  IInv'
<1> USE DEF SendPort, ringVars, heartVars, clientVars
<1>1. Up /\ Containers /\ TypeOK /\ life[s] = "queued" /\ dpc = "idle"
  BY DEF IInv
<1>2. Least(FreeFDs) \in FDs /\ table[Least(FreeFDs)] = None
  BY FreeFacts
<1>3. PICK p \in Ports \ serport : ~Taken(HashOf[p][0]) /\ port' = [port EXCEPT ![s] = p]
  OBVIOUS
<1>4. port'[s] = p /\ \A r \in Servers \ {s} : port'[r] = port[r]
  BY <1>1, <1>3 DEF TypeOK
<1>5. \A h \in DOMAIN ring : ring[h].node \in Servers \ {s}
  BY <1>1 DEF TypeOK, Containers, OnlyKnown, Known
<1>6. TypeOK'
  BY <1>1, <1>2, <1>3 DEF TypeOK
<1>7. Shapes' /\ Lists' /\ Removal'
  BY <1>1 DEF Containers, Shapes, Function, Lists, Removal, Removing, Counted
<1>8. Dealing'
  BY <1>1, <1>2, <1>3, <1>4, BalanceAssumption DEF Dealing, Taken
<1>9. OnlyKnown'
  <2>1. life'[s] = "linked" /\ \A r \in Servers : Known(r) => Known(r)'
    BY <1>1 DEF TypeOK, Known
  <2>2. \A f \in FDs : table'[f] = table[f] \/ table'[f] = s
    BY <1>1, <1>2 DEF TypeOK
  <2> QED BY <1>1, <2>1, <2>2 DEF TypeOK, Containers, OnlyKnown, Known
<1>10. PortsKept'
  BY <1>1, <1>4, <1>5 DEF Containers, PortsKept, Standing, Dropped, Removing, Erasing
<1> QED BY <1>6, <1>7, <1>8, <1>9, <1>10 DEF IInv, Containers

(***************************************************************************)
(* push_back on the list of a descriptor, new or not.                      *)
(***************************************************************************)
LEMMA PushBackFacts ==
  ASSUME TypeOK, Shapes, NEW f \in FDs, NEW h \in Hashes, PushBack(f, h)
  PROVE  /\ Function(listed)' /\ DOMAIN listed' = DOMAIN listed \cup {f}
         /\ \A g \in DOMAIN listed : g # f => listed'[g] = listed[g]
         /\ listed'[f] \in Seq(Hashes) /\ listed'[f] # <<>>
         /\ Len(listed'[f]) \in Nat /\ Len(listed'[f]) >= 1
         /\ listed'[f][Len(listed'[f])] = h
         /\ f \notin DOMAIN listed => Len(listed'[f]) = 1
         /\ f \in DOMAIN listed =>
              /\ Len(listed[f]) \in Nat /\ Len(listed[f]) >= 1
              /\ Len(listed'[f]) = Len(listed[f]) + 1
              /\ \A i \in 1..Len(listed[f]) : listed'[f][i] = listed[f][i]
<1> DEFINE old == IF f \in DOMAIN listed THEN listed[f] ELSE <<>>
<1>1. old \in Seq(Hashes)
  BY DEF TypeOK
<1>2. listed' = Put(listed, f, Append(old, h))
  BY DEF PushBack
<1>3. /\ Function(Put(listed, f, Append(old, h)))
      /\ DOMAIN listed' = DOMAIN listed \cup {f} /\ listed'[f] = Append(old, h)
      /\ \A g \in DOMAIN listed : g # f => listed'[g] = listed[g]
  BY <1>2 DEF Put, Function
<1>4. Function(listed)'
  BY <1>2, <1>3 DEF Function
<1>5. f \notin DOMAIN listed => old = <<>> /\ Len(old) = 0
  OBVIOUS
<1>6. f \in DOMAIN listed => old = listed[f] /\ listed[f] # <<>>
  BY DEF Shapes
<1>7. Len(old) \in Nat /\ (old # <<>> => Len(old) >= 1)
  BY <1>1
<1> HIDE DEF old
<1>8. /\ Append(old, h) \in Seq(Hashes) /\ Append(old, h) # <<>>
      /\ Len(Append(old, h)) = Len(old) + 1
      /\ \A i \in 1..Len(old) : Append(old, h)[i] = old[i]
      /\ Append(old, h)[Len(old) + 1] = h
  BY <1>1, AppendFacts
<1> QED BY <1>3, <1>4, <1>5, <1>6, <1>7, <1>8

(***************************************************************************)
(* A new entry of the ring and of a list, the same in both.                *)
(***************************************************************************)
LEMMA NewEntry ==
  ASSUME TypeOK, Containers, NEW f \in FDs, NEW h \in Hashes, NEW e,
         h \notin DOMAIN ring, ring' = Put(ring, h, e), PushBack(f, h),
         UNCHANGED heartVars
  PROVE  Shapes' /\ Lists' /\ Removal'
<1>1. /\ Function(listed)' /\ DOMAIN listed' = DOMAIN listed \cup {f}
      /\ \A g \in DOMAIN listed : g # f => listed'[g] = listed[g]
      /\ listed'[f] # <<>> /\ Len(listed'[f]) \in Nat /\ Len(listed'[f]) >= 1
      /\ listed'[f][Len(listed'[f])] = h
      /\ f \notin DOMAIN listed => Len(listed'[f]) = 1
      /\ f \in DOMAIN listed =>
           /\ Len(listed[f]) \in Nat
           /\ Len(listed'[f]) = Len(listed[f]) + 1
           /\ \A i \in 1..Len(listed[f]) : listed'[f][i] = listed[f][i]
  BY PushBackFacts DEF Containers
<1>2. Function(Put(ring, h, e)) /\ DOMAIN ring' = DOMAIN ring \cup {h}
  BY PutFacts
<1>3. Shapes'
  BY <1>1, <1>2 DEF Shapes, Containers, Function
<1>h. hpc' = hpc /\ it' = it /\ left' = left /\ (Removing' <=> Removing)
  BY DEF heartVars, Removing
<1>4. \A g \in DOMAIN listed' : Counted(g)' =>
        \A i \in 1..Len(listed'[g]) :
          \/ g = f /\ i = Len(listed'[g]) /\ listed'[g][i] = h
          \/ /\ g \in DOMAIN listed /\ Counted(g) /\ i \in 1..Len(listed[g])
             /\ listed'[g][i] = listed[g][i]
  BY <1>1, <1>h DEF Counted
<1>5. \A g \in DOMAIN listed : Counted(g) => \A i \in 1..Len(listed[g]) : listed[g][i] # h
  BY DEF Containers, Lists
<1>6. Lists'
  <2>1. (it # None => it \in DOMAIN listed)'
    BY <1>1 DEF Containers, Lists, heartVars
  <2>2. \A g \in DOMAIN listed' : Counted(g)' =>
          \A i \in 1..Len(listed'[g]) : listed'[g][i] \in DOMAIN ring'
    BY <1>2, <1>4 DEF Containers, Lists
  <2>3. ASSUME NEW a \in DOMAIN listed', NEW b \in DOMAIN listed', Counted(a)', Counted(b)',
               NEW i \in 1..Len(listed'[a]), NEW j \in 1..Len(listed'[b]),
               listed'[a][i] = listed'[b][j]
        PROVE  a = b /\ i = j
    <3>1. CASE a = f /\ i = Len(listed'[a]) /\ listed'[a][i] = h
      BY <1>4, <1>5, <2>3, <3>1
    <3>2. CASE b = f /\ j = Len(listed'[b]) /\ listed'[b][j] = h
      BY <1>4, <1>5, <2>3, <3>2
    <3>3. CASE /\ a \in DOMAIN listed /\ Counted(a) /\ i \in 1..Len(listed[a])
               /\ listed'[a][i] = listed[a][i]
               /\ b \in DOMAIN listed /\ Counted(b) /\ j \in 1..Len(listed[b])
               /\ listed'[b][j] = listed[b][j]
      <4>1. listed[a][i] = listed[b][j]
        BY <2>3, <3>3
      <4> QED BY <3>3, <4>1 DEF Containers, Lists
    <3> QED BY <1>4, <2>3, <3>1, <3>2, <3>3
  <2> QED BY <2>1, <2>2, <2>3 DEF Lists
<1>7. Removal'
  <2>1. SUFFICES ASSUME Removing' PROVE Removal'
    BY DEF Removal
  <2>2. Removing /\ left' = left /\ hpc' = hpc
    BY <1>h, <2>1
  <2>3. \A i \in 1..Len(left) : left[i] \in DOMAIN ring /\ left[i] # h
    BY <2>2 DEF Containers, Removal
  <2> QED BY <1>2, <1>4, <2>2, <2>3 DEF Containers, Removal
<1> QED BY <1>3, <1>6, <1>7

(***************************************************************************)
(* A real entry whose port no other has.                                   *)
(***************************************************************************)
LEMMA NewRealEntry ==
  ASSUME TypeOK, PortsKept, NEW s \in Servers, NEW h, NEW e,
         h \notin DOMAIN ring, port[s] \notin serport,
         e \in [real : BOOLEAN, node : Servers], e.real, e.node = s,
         DOMAIN ring' = DOMAIN ring \cup {h}, ring'[h] = e,
         \A g \in DOMAIN ring : ring'[g] = ring[g],
         serport' = serport \cup {port[s]}, UNCHANGED <<port, heartVars>>,
         hpc \in Erasing => h # Dropped
  PROVE  PortsKept'
<1>1. \A g \in DOMAIN ring : Standing(g)' <=> Standing(g)
  BY DEF Standing, heartVars, Dropped
<1>2. Standing(h)'
  BY DEF Standing, heartVars, Dropped
<1> HIDE DEF Standing
<1>3. \A g \in DOMAIN ring : Standing(g) => port[ring[g].node] \in serport
  BY DEF PortsKept
<1>4. \A g \in DOMAIN ring' : Standing(g)' => port'[ring'[g].node] \in serport'
  BY <1>1, <1>3
<1>5. \A p \in serport : \E g \in DOMAIN ring : Standing(g) /\ port[ring[g].node] = p
  BY DEF PortsKept
<1>6. \A p \in serport' : \E g \in DOMAIN ring' : Standing(g)' /\ port'[ring'[g].node] = p
  BY <1>1, <1>2, <1>5
<1>7. \A g, k \in DOMAIN ring :
        Standing(g) /\ Standing(k) /\ port[ring[g].node] = port[ring[k].node] => g = k
  BY DEF PortsKept
<1>8. \A g, k \in DOMAIN ring' :
        Standing(g)' /\ Standing(k)' /\ port'[ring'[g].node] = port'[ring'[k].node] => g = k
  BY <1>1, <1>3, <1>7
<1> QED BY <1>4, <1>6, <1>8 DEF PortsKept

LEMMA AddRealStep ==
  ASSUME IInv, AddReal
  PROVE  IInv'
<1> DEFINE h == HashOf[port[dsrv]][0]
           e == [real |-> TRUE, node |-> dsrv]
<1> USE DEF AddReal, serverVars, heartVars, clientVars
<1>1. Up /\ Containers /\ TypeOK /\ dsrv \in Servers /\ dfd \in FDs
  BY DEF IInv, TypeOK, Containers, Dealing
<1>2. port[dsrv] \in Ports /\ h \in Hashes /\ h \notin DOMAIN ring /\ port[dsrv] \notin serport
  BY <1>1, BalanceAssumption DEF Containers, Dealing
<1>3. ring' = Put(ring, h, e) /\ PushBack(dfd, h) /\ serport' = serport \cup {port[dsrv]}
  OBVIOUS
<1>4. Shapes' /\ Lists' /\ Removal'
  BY <1>1, <1>2, <1>3, NewEntry
<1>5. /\ DOMAIN ring' = DOMAIN ring \cup {h} /\ ring'[h] = e
      /\ \A g \in DOMAIN ring : ring'[g] = ring[g]
  BY <1>2, <1>3 DEF Put
<1>e. e \in [real : BOOLEAN, node : Servers] /\ e.real /\ e.node = dsrv
  BY <1>1
<1> HIDE DEF h, e
<1>6. /\ DOMAIN listed' = DOMAIN listed \cup {dfd} /\ listed'[dfd] \in Seq(Hashes)
      /\ \A g \in DOMAIN listed : g # dfd => listed'[g] = listed[g]
  BY <1>1, <1>2, <1>3, PushBackFacts DEF Containers
<1>7. TypeOK'
  <2>1. /\ DOMAIN ring' \subseteq Hashes
        /\ \A g \in DOMAIN ring' : ring'[g] \in [real : BOOLEAN, node : Servers]
    BY <1>1, <1>2, <1>5, <1>e DEF TypeOK
  <2>2. DOMAIN listed' \subseteq FDs /\ \A f \in DOMAIN listed' : listed'[f] \in Seq(Hashes)
    BY <1>1, <1>6 DEF TypeOK
  <2>3. serport' \subseteq Ports /\ dnext' \in 0..(VNodes + 1)
    BY <1>1, <1>2, BalanceAssumption DEF TypeOK
  <2> QED BY <1>1, <2>1, <2>2, <2>3 DEF TypeOK
<1>8. Dealing'
  BY <1>1 DEF Containers, Dealing
<1>9. OnlyKnown'
  BY <1>1, <1>5, <1>e DEF Containers, OnlyKnown, Known
<1>10. PortsKept'
  <2>1. PortsKept /\ TypeOK /\ UNCHANGED <<port, heartVars>>
    BY <1>1 DEF Containers
  <2>2. hpc \in Erasing => h # Dropped
    BY <1>1, <1>2, DroppedFacts DEF Containers, Removal, Removing
  <2> QED BY <1>1, <1>2, <1>3, <1>5, <1>e, <2>1, <2>2, NewRealEntry
<1> QED BY <1>4, <1>7, <1>8, <1>9, <1>10 DEF IInv, Containers

LEMMA AddVirtualStep ==
  ASSUME IInv, AddVirtual
  PROVE  IInv'
<1> DEFINE h == HashOf[port[dsrv]][dnext]
           e == [real |-> FALSE, node |-> dsrv]
<1> USE DEF AddVirtual, SkipVirtual, serverVars, heartVars, clientVars
<1>1. Up /\ Containers /\ TypeOK /\ dsrv \in Servers /\ dfd \in FDs
  BY DEF IInv, TypeOK, Containers, Dealing
<1>2. port[dsrv] \in Ports /\ dnext \in 1..VNodes /\ h \in Hashes
  BY <1>1, BalanceAssumption DEF Containers, Dealing, TypeOK
<1>3. CASE UNCHANGED <<ring, listed>>
  <2>1. TypeOK'
    BY <1>1, <1>2, <1>3, BalanceAssumption DEF TypeOK
  <2>2. Containers'
    BY <1>1, <1>2, <1>3 DEF Containers, Shapes, Function, Dealing, OnlyKnown, Known, Lists,
       Counted, Removal, Removing, PortsKept, Standing, Dropped, Erasing
  <2> QED BY <2>1, <2>2 DEF IInv
<1>4. CASE h \notin DOMAIN ring /\ ring' = Put(ring, h, e) /\ PushBack(dfd, h)
  <2>1. Shapes' /\ Lists' /\ Removal'
    BY <1>1, <1>2, <1>4, NewEntry
  <2>2. /\ DOMAIN ring' = DOMAIN ring \cup {h} /\ ring'[h] = e
        /\ \A g \in DOMAIN ring : ring'[g] = ring[g]
    BY <1>4 DEF Put
  <2>e. e \in [real : BOOLEAN, node : Servers] /\ ~e.real /\ e.node = dsrv
    BY <1>1
  <2> HIDE DEF h, e
  <2>3. /\ DOMAIN listed' = DOMAIN listed \cup {dfd} /\ listed'[dfd] \in Seq(Hashes)
        /\ \A g \in DOMAIN listed : g # dfd => listed'[g] = listed[g]
    BY <1>1, <1>2, <1>4, PushBackFacts DEF Containers
  <2>4. TypeOK'
    BY <1>1, <1>2, <2>2, <2>e, <2>3, BalanceAssumption DEF TypeOK
  <2>5. Dealing'
    BY <1>1, <1>2 DEF Containers, Dealing
  <2>6. OnlyKnown'
    BY <1>1, <2>2, <2>e DEF Containers, OnlyKnown, Known
  <2>7. PortsKept'
    BY <1>1, <2>2, <2>e DEF Containers, PortsKept, Standing, Dropped, Removing, Erasing
  <2> QED BY <2>1, <2>4, <2>5, <2>6, <2>7 DEF IInv, Containers
<1> QED BY <1>3, <1>4 DEF Taken

LEMMA RegisteredStep ==
  ASSUME IInv, Registered
  PROVE  IInv'
<1> USE DEF Registered, ringVars, serverVars, heartVars, clientVars
<1>1. Up /\ Containers /\ TypeOK
  BY DEF IInv
<1>2. TypeOK'
  BY <1>1, BalanceAssumption DEF TypeOK
<1>3. Containers'
  BY <1>1 DEF Containers, Shapes, Function, Dealing, OnlyKnown, Known, Lists, Counted, Removal,
     Removing, PortsKept, Standing, Dropped, Erasing
<1> QED BY <1>2, <1>3 DEF IInv

(***************************************************************************)
(* The heartbeat goes round.                                               *)
(***************************************************************************)
LEMMA RoundSteps ==
  ASSUME IInv, BeginRound \/ PingOk \/ Lost \/ RecvPong \/ Advance
  PROVE  IInv'
<1> USE DEF ringVars, dealVars, clientVars
<1>1. Up /\ Containers /\ TypeOK
  BY DEF IInv, Up, BeginRound, PingOk, Lost, RecvPong, Advance
<1>2. it # None => it \in FDs
  BY <1>1 DEF TypeOK
<1>3. TypeOK'
  <2>1. CASE BeginRound
    <3>1. DOMAIN listed # {} /\ DOMAIN listed \subseteq Nat
      BY <1>1, <2>1, NoDomain, BalanceAssumption DEF BeginRound, Containers, Shapes, TypeOK
    <3>2. it' \in DOMAIN listed
      BY <2>1, <3>1, HasLeast DEF BeginRound
    <3> QED BY <1>1, <2>1, <3>2, BalanceAssumption DEF BeginRound, TypeOK, serverVars
  <2>2. CASE PingOk
    BY <1>1, <2>2 DEF PingOk, TypeOK
  <2>3. CASE Lost
    BY <1>1, <2>3 DEF Lost, TypeOK
  <2>4. CASE RecvPong
    BY <1>1, <2>4 DEF RecvPong, TypeOK
  <2>5. CASE Advance
    <3>1. it' = None \/ it' \in DOMAIN listed
      BY <1>1, <2>5, NextFacts DEF Advance, Following, NextServer
    <3> QED BY <1>1, <2>5, <3>1, BalanceAssumption DEF Advance, TypeOK, serverVars
  <2> QED BY <2>1, <2>2, <2>3, <2>4, <2>5
<1>4. it' # None => it' \in DOMAIN listed
  <2>1. CASE BeginRound
    BY <1>1, <2>1, NoDomain, HasLeast, BalanceAssumption
       DEF BeginRound, Containers, Shapes, TypeOK
  <2>2. CASE Advance
    BY <1>1, <2>2, NextFacts DEF Advance, Following, NextServer
  <2> QED BY <1>1, <2>1, <2>2 DEF PingOk, Lost, RecvPong, Containers, Lists
<1>5. ~Removing /\ ~Removing'
  BY DEF Removing, BeginRound, PingOk, Lost, RecvPong, Advance, Erasing
<1>6. UNCHANGED <<ring, listed, serport, freed, port, life, dpc, dsrv, dfd, dnext>>
  BY DEF BeginRound, PingOk, Lost, RecvPong, Advance, serverVars
<1>7. \A f \in FDs : table'[f] = table[f] \/ table'[f] = None
  BY <1>1 DEF BeginRound, PingOk, Lost, RecvPong, Advance, serverVars, TypeOK
<1>s. \A h \in DOMAIN ring : Standing(h)' <=> Standing(h)
  BY <1>5, <1>6 DEF Standing, Removing
<1>8. Shapes' /\ Dealing' /\ PortsKept'
  BY <1>1, <1>6, <1>s DEF Containers, Shapes, Function, Dealing, PortsKept
<1>9. OnlyKnown'
  BY <1>1, <1>6, <1>7 DEF Containers, OnlyKnown, Known
<1>10. Lists' /\ Removal'
  BY <1>1, <1>4, <1>5, <1>6 DEF Containers, Lists, Removal, Counted
<1> QED BY <1>3, <1>8, <1>9, <1>10 DEF IInv, Containers

(***************************************************************************)
(* A removal, entry by entry.                                              *)
(***************************************************************************)
LEMMA BeginDropStep ==
  ASSUME IInv, BeginDrop
  PROVE  IInv'
<1> USE DEF BeginDrop, ringVars, serverVars, dealVars, clientVars
<1>1. Up /\ Containers /\ TypeOK /\ ~Removing
  BY DEF IInv, Up, Removing, Erasing
<1>2. it \in DOMAIN listed
  BY <1>1 DEF TypeOK, Containers, Lists
<1>3. TypeOK'
  BY <1>1, <1>2 DEF TypeOK
<1>4. Shapes' /\ Dealing' /\ PortsKept' /\ OnlyKnown'
  BY <1>1 DEF Containers, Shapes, Function, Dealing, PortsKept, OnlyKnown, Known, Standing,
     Dropped, Removing, Erasing
<1>5. Lists'
  BY <1>1 DEF Containers, Lists, Counted
<1>6. Removal'
  BY <1>1, <1>2 DEF Containers, Lists, Counted, Removal, Removing, Erasing
<1> QED BY <1>3, <1>4, <1>5, <1>6 DEF IInv, Containers

LEMMA StageSteps ==
  ASSUME IInv, DropEntry \/ DeleteNode \/ ClearEntry
  PROVE  IInv'
<1>1. Up /\ Containers /\ TypeOK /\ Removing /\ Removing' /\ left # <<>> /\ hpc' \in Erasing
  BY DEF IInv, Up, Removing, Erasing, DropEntry, DeleteNode, ClearEntry, Containers, Removal
<1>2. /\ Dropped \in DOMAIN ring /\ ring[Dropped] \in [real : BOOLEAN, node : Servers]
      /\ Dropped' = Dropped
  BY <1>1, DroppedFacts DEF DropEntry, DeleteNode, ClearEntry, Dropped
<1>3. UNCHANGED <<ring, listed, serverVars, dealVars, it, after, left, clientVars>>
  BY DEF DropEntry, DeleteNode, ClearEntry, ringVars
<1>4. freed' = freed \/ freed' = freed \cup {ring[Dropped].node}
  BY DEF DropEntry, DeleteNode, ClearEntry, ringVars
<1>5. \/ hpc \in Erasing /\ serport' = serport
      \/ hpc \notin Erasing /\ ring[Dropped].real /\ serport' = serport \ {port[ring[Dropped].node]}
      \/ hpc \notin Erasing /\ ~ring[Dropped].real /\ serport' = serport
  BY DEF DropEntry, DeleteNode, ClearEntry, ringVars, Erasing
<1>6. TypeOK'
  <2>1. serport' \subseteq Ports /\ freed' \subseteq Servers
    BY <1>1, <1>2, <1>4, <1>5 DEF TypeOK
  <2>2. it # None
    BY <1>1 DEF TypeOK, Removing, Erasing
  <2>3. hpc' \notin {"rest", "down"}
    BY <1>1 DEF Erasing
  <2> QED BY <1>1, <1>3, <2>1, <2>2, <2>3 DEF TypeOK, serverVars, dealVars, clientVars
<1>7. Shapes' /\ Lists'
  BY <1>1, <1>3 DEF Containers, Shapes, Function, Lists, Counted
<1>8. Removal'
  BY <1>1, <1>3 DEF Containers, Removal, Counted
<1>9. Dealing' /\ OnlyKnown'
  BY <1>1, <1>2, <1>3, <1>4, <1>5 DEF Containers, Dealing, OnlyKnown, Known, serverVars, dealVars
<1>10. PortsKept'
  <2>1. PortsKept /\ UNCHANGED <<port, ring>>
    BY <1>1, <1>3 DEF Containers, serverVars
  <2>2. \A g \in DOMAIN ring : Standing(g)' <=> Standing(g) /\ g # Dropped
    BY <1>1, <1>2, <2>1 DEF Standing
  <2> HIDE DEF Standing
  <2>3. \A g \in DOMAIN ring : Standing(g)' => port[ring[g].node] \in serport'
    <3>1. ASSUME NEW g \in DOMAIN ring, Standing(g)'
          PROVE  port[ring[g].node] \in serport'
      <4>1. Standing(g) /\ g # Dropped /\ port[ring[g].node] \in serport
        BY <2>1, <2>2, <3>1 DEF PortsKept
      <4>2. CASE ring[Dropped].real /\ hpc \notin Erasing
        <5>1. Standing(Dropped)
          BY <1>2, <4>2 DEF Standing
        <5>2. port[ring[g].node] # port[ring[Dropped].node]
          BY <1>2, <2>1, <4>1, <5>1 DEF PortsKept
        <5> QED BY <1>5, <4>1, <5>2
      <4> QED BY <1>5, <4>1, <4>2
    <3> QED BY <3>1
  <2>4. \A p \in serport' : \E g \in DOMAIN ring : Standing(g)' /\ port[ring[g].node] = p
    <3>1. ASSUME NEW p \in serport'
          PROVE  \E g \in DOMAIN ring : Standing(g)' /\ port[ring[g].node] = p
      <4>1. p \in serport
        BY <1>5, <3>1
      <4>2. PICK g \in DOMAIN ring : Standing(g) /\ port[ring[g].node] = p
        BY <2>1, <4>1 DEF PortsKept
      <4>3. g # Dropped
        BY <1>5, <3>1, <4>2 DEF Standing
      <4> QED BY <2>2, <4>2, <4>3
    <3> QED BY <3>1
  <2>5. \A g, k \in DOMAIN ring :
          Standing(g)' /\ Standing(k)' /\ port[ring[g].node] = port[ring[k].node] => g = k
    BY <2>1, <2>2 DEF PortsKept
  <2> QED BY <2>1, <2>3, <2>4, <2>5 DEF PortsKept
<1> QED BY <1>6, <1>7, <1>8, <1>9, <1>10 DEF IInv, Containers

LEMMA EraseEntryStep ==
  ASSUME IInv, EraseEntry
  PROVE  IInv'
<1> DEFINE h == Dropped
<1>1. Up /\ Containers /\ TypeOK /\ Removing /\ Removing' /\ left # <<>> /\ hpc \in Erasing
      /\ hpc' = "drop"
  BY DEF IInv, Up, Removing, Erasing, EraseEntry, Containers, Removal
<1>2. /\ h = left[1] /\ Len(left) \in Nat /\ Len(left) >= 1 /\ left' \in Seq(Hashes)
      /\ Len(left') = Len(left) - 1
      /\ \A i \in 1..Len(left') : left'[i] = left[i + 1]
  BY <1>1, TailFacts DEF TypeOK, EraseEntry, Dropped
<1>3. h \in DOMAIN ring /\ ring[h] \in [real : BOOLEAN, node : Servers]
  BY <1>1, DroppedFacts
<1>4. /\ Function(ring') /\ DOMAIN ring' = DOMAIN ring \ {h}
      /\ \A g \in DOMAIN ring' : ring'[g] = ring[g]
  BY WithoutFacts DEF EraseEntry, Forget
<1>5. UNCHANGED <<listed, serport, freed, serverVars, dealVars, it, after, clientVars>>
  BY DEF EraseEntry
<1>6. \A g \in DOMAIN ring' : Standing(g)' <=> Standing(g)
  BY <1>1, <1>4 DEF Standing, Erasing
<1>7. ~Standing(h)
  BY <1>1 DEF Standing
<1> HIDE DEF h, Standing
<1>8. TypeOK'
  <2>1. /\ DOMAIN ring' \subseteq Hashes
        /\ \A g \in DOMAIN ring' : ring'[g] \in [real : BOOLEAN, node : Servers]
    BY <1>1, <1>4 DEF TypeOK
  <2>2. it # None
    BY <1>1 DEF TypeOK, Removing, Erasing
  <2> QED BY <1>1, <1>2, <1>5, <2>1, <2>2 DEF TypeOK, serverVars, dealVars, clientVars
<1>9. Shapes'
  BY <1>1, <1>4, <1>5 DEF Containers, Shapes, Function
<1>10. Dealing'
  BY <1>1, <1>4, <1>5 DEF Containers, Dealing, serverVars, dealVars
<1>11. OnlyKnown'
  BY <1>1, <1>3, <1>4, <1>5 DEF Containers, OnlyKnown, Known, serverVars, dealVars
<1>12. Lists'
  <2>1. \A f \in DOMAIN listed : Counted(f) =>
          \A j \in 1..Len(listed[f]) : listed[f][j] # h
    BY <1>1, <1>2 DEF Containers, Removal
  <2> QED BY <1>1, <1>4, <1>5, <2>1 DEF Containers, Lists, Counted
<1>13. Removal'
  <2>1. \A i \in 1..Len(left') : i + 1 \in 1..Len(left) /\ left'[i] = left[i + 1]
    BY <1>2
  <2>2. \A i \in 1..Len(left') : left'[i] # h
    BY <1>1, <1>2, <2>1 DEF Containers, Removal
  <2>3. \A i \in 1..Len(left') : left'[i] \in DOMAIN ring'
    BY <1>1, <1>4, <2>1, <2>2 DEF Containers, Removal
  <2>4. \A i, j \in 1..Len(left') : left'[i] = left'[j] => i = j
    <3>1. \A i, j \in 1..Len(left') : left'[i] = left'[j] => i + 1 = j + 1
      BY <1>1, <2>1 DEF Containers, Removal
    <3> QED BY <3>1
  <2>5. \A f \in DOMAIN listed : Counted(f) =>
          \A i \in 1..Len(left'), j \in 1..Len(listed[f]) : listed[f][j] # left'[i]
    BY <1>1, <2>1 DEF Containers, Removal
  <2>6. hpc' \notin Erasing
    BY <1>1 DEF Erasing
  <2> QED BY <1>1, <1>5, <2>3, <2>4, <2>5, <2>6 DEF Removal, Counted
<1>14. PortsKept'
  <2>1. PortsKept /\ UNCHANGED <<port, serport>>
    BY <1>1, <1>5 DEF Containers, serverVars
  <2>2. \A g \in DOMAIN ring' : Standing(g)' => port[ring'[g].node] \in serport
    BY <1>4, <1>6, <2>1 DEF PortsKept
  <2>3. \A p \in serport : \E g \in DOMAIN ring' : Standing(g)' /\ port[ring'[g].node] = p
    BY <1>4, <1>6, <1>7, <2>1 DEF PortsKept
  <2>4. \A g, k \in DOMAIN ring' :
          Standing(g)' /\ Standing(k)' /\ port[ring'[g].node] = port[ring'[k].node] => g = k
    BY <1>4, <1>6, <2>1 DEF PortsKept
  <2> QED BY <2>1, <2>2, <2>3, <2>4 DEF PortsKept
<1> QED BY <1>8, <1>9, <1>10, <1>11, <1>12, <1>13, <1>14 DEF IInv, Containers

LEMMA EraseServerStep ==
  ASSUME IInv, EraseServer
  PROVE  IInv'
<1> USE DEF serverVars, dealVars, clientVars
<1>1. Up /\ Containers /\ TypeOK /\ Removing /\ ~Removing' /\ left = <<>>
  BY DEF IInv, Up, Removing, EraseServer, TypeOK, Erasing
<1>2. /\ Function(listed') /\ DOMAIN listed' = DOMAIN listed \ {it}
      /\ \A f \in DOMAIN listed' : listed'[f] = listed[f]
  BY WithoutFacts DEF EraseServer
<1>3. it' = None \/ it' \in DOMAIN listed'
  <2>1. Beyond(it) # {} => Least(Beyond(it)) \in Beyond(it)
    <3>1. Beyond(it) \subseteq Nat
      BY <1>1, BalanceAssumption DEF Beyond, TypeOK
    <3> QED BY <3>1, HasLeast
  <2>2. it \in FDs
    BY <1>1 DEF TypeOK, Removing, Erasing
  <2>3. \A f \in Beyond(it) : f \in DOMAIN listed'
    BY <1>1, <1>2, <2>2, BalanceAssumption DEF Beyond, TypeOK
  <2> QED BY <2>1, <2>3 DEF EraseServer
<1>4. UNCHANGED <<ring, serport, freed, serverVars, dealVars, after, left, clientVars>>
  BY DEF EraseServer
<1>5. \/ hpc' \in {"rest", "down"} /\ it' = None
      \/ hpc' = after /\ it' # None
  BY <1>1, HasLeast, BalanceAssumption, NextFacts DEF EraseServer, TypeOK
<1>6. TypeOK'
  <2>1. DOMAIN listed' \subseteq FDs /\ \A f \in DOMAIN listed' : listed'[f] \in Seq(Hashes)
    BY <1>1, <1>2 DEF TypeOK
  <2>2. it' \in FDs \cup {None} /\ hpc' \in {"rest", "ping", "recv", "next", "down"}
        /\ (it' = None <=> hpc' \in {"rest", "down"})
    BY <1>1, <1>3, <1>5, <2>1 DEF TypeOK
  <2> QED BY <1>1, <1>4, <2>1, <2>2 DEF TypeOK
<1>7. Shapes'
  BY <1>1, <1>2, <1>4 DEF Containers, Shapes, Function
<1>s. \A h \in DOMAIN ring : Standing(h)' <=> Standing(h)
  BY <1>1, <1>4 DEF Standing, Removing, Erasing, EraseServer
<1>8. Dealing' /\ OnlyKnown' /\ PortsKept'
  BY <1>1, <1>4, <1>s DEF Containers, Dealing, OnlyKnown, Known, PortsKept
<1>9. Lists' /\ Removal'
  BY <1>1, <1>2, <1>3, <1>4 DEF Containers, Lists, Removal, Counted, Removing
<1> QED BY <1>6, <1>7, <1>8, <1>9 DEF IInv, Containers

LEMMA NextIInv == IInv /\ [Next]_vars => IInv'
<1> SUFFICES ASSUME IInv, [Next]_vars PROVE IInv'
  OBVIOUS
<1>1. CASE \E s \in Servers : Connect(s) \/ Pong(s) \/ Die(s)
  BY <1>1, ServerSteps
<1>2. CASE DealServer
  BY <1>2, ServerSteps, SendPortStep, AddRealStep, AddVirtualStep, RegisteredStep DEF DealServer
<1>3. CASE HeartRate
  BY <1>3, RoundSteps, BeginDropStep, StageSteps, EraseEntryStep, EraseServerStep DEF HeartRate
<1>4. CASE \E c \in Clients : Arrive(c)
  BY <1>4, ClientSteps
<1>5. CASE \E t \in Threads : DealClient(t)
  BY <1>5, ClientSteps, CrashStep DEF DealClient
<1>6. CASE UNCHANGED vars
  BY <1>6 DEF vars, ringVars, serverVars, dealVars, heartVars, clientVars, IInv, TypeOK, Up,
     Containers, Shapes, Function, Dealing, OnlyKnown, Known, Lists, Counted, Removal, Removing,
     PortsKept, Standing, Dropped, Erasing
<1> QED BY <1>1, <1>2, <1>3, <1>4, <1>5, <1>6 DEF Next

(***************************************************************************)
(* Type correctness, whatever the threads do: no list ever names a         *)
(* position that is not on the ring when the heartbeat erases it, no       *)
(* search of a ring that is not empty fails (balance.cpp:193), and the     *)
(* iterator is one of fd_hashid.                                           *)
(***************************************************************************)
THEOREM BalanceTypeCorrect == Spec => []TypeOK
<1>1. IInv => TypeOK
  BY DEF IInv
<1> QED BY InitIInv, NextIInv, <1>1, PTL DEF Spec

-----------------------------------------------------------------------------
(* What holds as well if a registration and a removal do not overlap.      *)

Owned(f) == f \in DOMAIN listed /\ ~(Closing /\ f = it)
Tabled(s) == \E f \in FDs : table[f] = s

(***************************************************************************)
(* Each server has one descriptor, and none is deleted while it has.       *)
(***************************************************************************)
Tables ==
  /\ Closing => dpc = "idle" /\ table[it] = None
  /\ \A f, g \in FDs : table[f] = table[g] /\ table[f] # None => f = g
  /\ \A f \in FDs : table[f] \notin freed
  /\ dpc # "idle" => table[dfd] = dsrv
  /\ dpc = "real" => dfd \notin DOMAIN listed
  /\ dpc = "virtual" => dfd \in DOMAIN listed

(***************************************************************************)
(* The list of a descriptor names entries of the server behind it.         *)
(***************************************************************************)
Owners ==
  \A f \in DOMAIN listed : Owned(f) =>
    /\ table[f] # None
    /\ \A i \in 1..Len(listed[f]) : ring[listed[f][i]].node = table[f]

RealFirst ==
  \A f \in DOMAIN listed : Counted(f) =>
    \A i \in 1..Len(listed[f]) : ring[listed[f][i]].real <=> i = 1

(***************************************************************************)
(* What is being removed belongs to no server that has a descriptor, and   *)
(* is deleted only in the loop over the list.                              *)
(***************************************************************************)
Orphans ==
  /\ hpc = "closed" => \A i \in 1..Len(listed[it]) :
       ~Tabled(ring[listed[it][i]].node) /\ ring[listed[it][i]].node \notin freed
  /\ Removing => \A i \in 1..Len(left) : ~Tabled(ring[left[i]].node)

(***************************************************************************)
(* Every entry of the ring will be found by the removal of its server.     *)
(***************************************************************************)
Found(h) == \E f \in DOMAIN listed : Counted(f) /\ \E i \in 1..Len(listed[f]) : h = listed[f][i]
Leaving(h) == Removing /\ \E i \in 1..Len(left) : h = left[i]
Covered == \A h \in DOMAIN ring : Found(h) \/ Leaving(h)

Agreement == Tables /\ Owners /\ RealFirst /\ Orphans /\ Covered

Agreeing == IInv /\ (Up /\ ~overlapped => Agreement)

LEMMA InitAgreeing == Init => Agreeing
<1> SUFFICES ASSUME Init PROVE Agreeing
  OBVIOUS
<1>1. Agreement
  BY DEF Init, Agreement, Tables, Owners, RealFirst, Orphans, Covered, Closing, Removing, Erasing
<1> QED BY <1>1, InitIInv DEF Agreeing

(***************************************************************************)
(* Steps that leave containers, descriptors and removals alone.            *)
(***************************************************************************)
LEMMA FrameAgrees ==
  ASSUME Agreement, ~Closing, ~Closing', UNCHANGED <<ringVars, table, dpc, dsrv, dfd>>
  PROVE  Agreement'
<1> USE DEF ringVars
<1>1. Tables'
  BY DEF Agreement, Tables
<1>2. Owners' /\ RealFirst'
  BY DEF Agreement, Owners, RealFirst, Owned, Counted, Removing, Erasing, Closing
<1>3. Orphans'
  BY DEF Orphans, Closing
<1>4. Covered'
  BY DEF Agreement, Covered, Found, Leaving, Counted, Removing, Erasing, Closing
<1> QED BY <1>1, <1>2, <1>3, <1>4 DEF Agreement

LEMMA StillAgrees ==
  ASSUME Agreement, UNCHANGED <<ringVars, table, dpc, dsrv, dfd, hpc, it, left>>
  PROVE  Agreement'
BY DEF Agreement, Tables, Owners, RealFirst, Orphans, Covered, Closing, Owned, Tabled, Found,
   Leaving, Counted, Removing, ringVars

LEMMA SendPortAgrees ==
  ASSUME ~overlapped', IInv, Agreement, NEW s \in Servers, SendPort(s)
  PROVE  Agreement'
<1> DEFINE n == Least(FreeFDs)
<1>1. Up /\ Containers /\ TypeOK /\ ~Closing /\ ~Closing' /\ dpc = "idle"
  BY DEF IInv, SendPort, Closing, heartVars, Removing, Erasing
<1>2. n \in FDs /\ table[n] = None /\ dfd' = n /\ dsrv' = s /\ dpc' = "real"
  BY FreeFacts DEF SendPort
<1>3. table' = [table EXCEPT ![n] = s] /\ UNCHANGED <<ringVars, heartVars>>
  BY DEF SendPort
<1> HIDE DEF n
<1>4. s \notin freed /\ s # None /\ \A f \in FDs : table[f] # s
  <2>1. ~Known(s) /\ s # None
    BY BalanceAssumption DEF SendPort, Known
  <2> QED BY <1>1, <2>1 DEF Containers, OnlyKnown
<1>5. table'[n] = s /\ \A f \in FDs : f # n => table'[f] = table[f]
  BY <1>1, <1>2, <1>3 DEF TypeOK
<1>6. n \notin DOMAIN listed
  BY <1>1, <1>2 DEF Agreement, Owners, Owned
<1>7. Tables'
  BY <1>1, <1>2, <1>3, <1>4, <1>5, <1>6 DEF Agreement, Tables, ringVars
<1>8. Owners' /\ RealFirst'
  BY <1>1, <1>3, <1>5, <1>6
     DEF Agreement, Owners, RealFirst, Owned, Counted, Removing, ringVars, heartVars, Closing, TypeOK
<1>9. Orphans'
  BY <1>1 DEF Orphans, Closing
<1>10. Covered'
  BY <1>3 DEF Agreement, Covered, Found, Leaving, Counted, Removing, ringVars, heartVars
<1> QED BY <1>7, <1>8, <1>9, <1>10 DEF Agreement

(***************************************************************************)
(* A new entry, the first of its list if and only if it is real.           *)
(***************************************************************************)
LEMMA NewEntryAgrees ==
  ASSUME IInv, Up, Agreement, ~Closing, NEW h \in Hashes, NEW e,
         h \notin DOMAIN ring, dfd \in FDs, dsrv \in Servers, table[dfd] = dsrv,
         e.node = dsrv, e.real <=> dfd \notin DOMAIN listed,
         PushBack(dfd, h), DOMAIN ring' = DOMAIN ring \cup {h}, ring'[h] = e,
         \A g \in DOMAIN ring : ring'[g] = ring[g],
         dpc' = "virtual", UNCHANGED <<freed, table, dsrv, dfd, heartVars>>
  PROVE  Agreement'
<1>1. TypeOK /\ Containers
  BY DEF IInv
<1>2. /\ DOMAIN listed' = DOMAIN listed \cup {dfd}
      /\ \A g \in DOMAIN listed : g # dfd => listed'[g] = listed[g]
      /\ Len(listed'[dfd]) \in Nat /\ Len(listed'[dfd]) >= 1
      /\ listed'[dfd][Len(listed'[dfd])] = h
      /\ dfd \notin DOMAIN listed => Len(listed'[dfd]) = 1
      /\ dfd \in DOMAIN listed =>
           /\ Len(listed[dfd]) \in Nat /\ Len(listed[dfd]) >= 1
           /\ Len(listed'[dfd]) = Len(listed[dfd]) + 1
           /\ \A i \in 1..Len(listed[dfd]) : listed'[dfd][i] = listed[dfd][i]
  BY <1>1, PushBackFacts DEF Containers
<1>3. ~Closing' /\ ~Removing /\ ~Removing'
  BY DEF Closing, Removing, Erasing, heartVars
<1>4. \A g \in DOMAIN listed' : \A i \in 1..Len(listed'[g]) :
        \/ g = dfd /\ i = Len(listed'[g]) /\ listed'[g][i] = h
        \/ /\ g \in DOMAIN listed /\ i \in 1..Len(listed[g])
           /\ listed'[g][i] = listed[g][i]
  BY <1>2
<1>5. \A g \in DOMAIN listed : \A i \in 1..Len(listed[g]) : listed[g][i] \in DOMAIN ring
  BY <1>1, <1>3 DEF Containers, Lists, Counted
<1>6. Tables'
  BY <1>2, <1>3 DEF Agreement, Tables
<1>7. Owners'
  <2>1. \A g \in DOMAIN listed : table[g] # None /\
          \A i \in 1..Len(listed[g]) : ring[listed[g][i]].node = table[g]
    BY DEF Agreement, Owners, Owned
  <2>2. \A g \in DOMAIN listed' : table[g] # None
    BY <1>2, <2>1, BalanceAssumption
  <2>3. \A g \in DOMAIN listed' : \A i \in 1..Len(listed'[g]) : ring'[listed'[g][i]].node = table[g]
    BY <1>4, <1>5, <2>1
  <2> QED BY <2>2, <2>3 DEF Owners
<1>8. RealFirst'
  <2>1. \A g \in DOMAIN listed :
          \A i \in 1..Len(listed[g]) : ring[listed[g][i]].real <=> i = 1
    BY <1>3 DEF Agreement, RealFirst, Counted
  <2>2. ASSUME NEW g \in DOMAIN listed', NEW i \in 1..Len(listed'[g])
        PROVE  ring'[listed'[g][i]].real <=> i = 1
    <3>1. CASE g = dfd /\ i = Len(listed'[g]) /\ listed'[g][i] = h
      <4>1. e.real <=> i = 1
        BY <1>2, <3>1
      <4> QED BY <3>1, <4>1
    <3>2. CASE /\ g \in DOMAIN listed /\ i \in 1..Len(listed[g])
               /\ listed'[g][i] = listed[g][i]
      BY <1>5, <2>1, <3>2
    <3> QED BY <1>4, <3>1, <3>2
  <2> QED BY <2>2 DEF RealFirst
<1>9. Orphans'
  BY <1>3 DEF Orphans, Closing
<1>10. Covered'
  <2>1. ASSUME NEW g \in DOMAIN ring PROVE Found(g)'
    <3>1. PICK f \in DOMAIN listed : \E i \in 1..Len(listed[f]) : g = listed[f][i]
      BY <1>3 DEF Agreement, Covered, Found, Leaving
    <3>2. PICK i \in 1..Len(listed[f]) : g = listed[f][i]
      BY <3>1
    <3>3. f \in DOMAIN listed' /\ i \in 1..Len(listed'[f]) /\ listed'[f][i] = g
      BY <1>2, <3>2
    <3> QED BY <1>3, <3>3 DEF Found, Counted
  <2>2. Found(h)'
    BY <1>2, <1>3 DEF Found, Counted
  <2> QED BY <2>1, <2>2 DEF Covered
<1> QED BY <1>6, <1>7, <1>8, <1>9, <1>10 DEF Agreement

LEMMA AddRealAgrees ==
  ASSUME IInv, Agreement, AddReal
  PROVE  Agreement'
<1> DEFINE h == HashOf[port[dsrv]][0]
           e == [real |-> TRUE, node |-> dsrv]
<1>1. Up /\ Containers /\ TypeOK /\ dpc = "real" /\ dsrv \in Servers /\ dfd \in FDs
  BY DEF IInv, TypeOK, Containers, Dealing, AddReal
<1>2. h \in Hashes /\ h \notin DOMAIN ring
  BY <1>1, BalanceAssumption DEF Containers, Dealing
<1>3. ring' = Put(ring, h, e) /\ PushBack(dfd, h)
  BY DEF AddReal
<1>4. /\ DOMAIN ring' = DOMAIN ring \cup {h} /\ ring'[h] = e
      /\ \A g \in DOMAIN ring : ring'[g] = ring[g]
  BY <1>2, <1>3 DEF Put
<1>5. e.real /\ e.node = dsrv
  OBVIOUS
<1> HIDE DEF h, e
<1>6. ~Closing /\ table[dfd] = dsrv /\ dfd \notin DOMAIN listed
  BY <1>1 DEF Agreement, Tables
<1>7. dpc' = "virtual" /\ UNCHANGED <<freed, table, dsrv, dfd, heartVars>>
  BY DEF AddReal, serverVars
<1> QED BY <1>1, <1>2, <1>3, <1>4, <1>5, <1>6, <1>7, NewEntryAgrees

LEMMA AddVirtualAgrees ==
  ASSUME IInv, Agreement, AddVirtual
  PROVE  Agreement'
<1> DEFINE h == HashOf[port[dsrv]][dnext]
           e == [real |-> FALSE, node |-> dsrv]
<1>1. Up /\ Containers /\ TypeOK /\ dpc = "virtual" /\ dsrv \in Servers /\ dfd \in FDs
  BY DEF IInv, TypeOK, Containers, Dealing, AddVirtual
<1>2. h \in Hashes
  BY <1>1, BalanceAssumption DEF Containers, Dealing, TypeOK, AddVirtual
<1>3. dpc' = "virtual" /\ UNCHANGED <<freed, table, dsrv, dfd, heartVars>>
  BY <1>1 DEF AddVirtual, serverVars
<1>4. CASE UNCHANGED <<ring, listed>>
  <2>1. UNCHANGED <<ringVars, table, dpc, dsrv, dfd, hpc, it, left>>
    BY <1>1, <1>4 DEF AddVirtual, serverVars, heartVars, ringVars
  <2> QED BY <2>1, StillAgrees
<1>5. CASE h \notin DOMAIN ring /\ ring' = Put(ring, h, e) /\ PushBack(dfd, h)
  <2>1. /\ DOMAIN ring' = DOMAIN ring \cup {h} /\ ring'[h] = e
        /\ \A g \in DOMAIN ring : ring'[g] = ring[g]
    BY <1>5 DEF Put
  <2>2. ~e.real /\ e.node = dsrv
    OBVIOUS
  <2> HIDE DEF h, e
  <2>3. ~Closing /\ table[dfd] = dsrv /\ dfd \in DOMAIN listed
    BY <1>1 DEF Agreement, Tables
  <2> QED BY <1>1, <1>2, <1>3, <1>5, <2>1, <2>2, <2>3, NewEntryAgrees
<1> QED BY <1>4, <1>5 DEF AddVirtual, SkipVirtual, Taken

LEMMA RegisteredAgrees ==
  ASSUME IInv, Agreement, Registered
  PROVE  Agreement'
<1>1. dpc = "virtual" /\ dpc' = "idle" /\ UNCHANGED <<ringVars, table, hpc, it, left>>
  BY DEF Registered, serverVars, heartVars
<1>2. Tables'
  BY <1>1 DEF Agreement, Tables, Closing, ringVars, Removing, Erasing
<1>3. Owners' /\ RealFirst' /\ Orphans' /\ Covered'
  BY <1>1 DEF Agreement, Owners, RealFirst, Orphans, Covered, Owned, Counted, Removing, Erasing, Closing,
     Tabled, Found, Leaving, ringVars
<1> QED BY <1>2, <1>3 DEF Agreement

(***************************************************************************)
(* The number of a dead server is closed: its entries become orphans.      *)
(***************************************************************************)
LEMMA LostAgrees ==
  ASSUME ~overlapped', IInv, Agreement, Lost
  PROVE  Agreement'
<1>1. Up /\ Containers /\ TypeOK /\ ~Closing /\ Closing' /\ ~Removing /\ ~Removing'
  BY DEF IInv, Up, Closing, Removing, Erasing, Lost
<1>2. /\ dpc = "idle" /\ hpc' = "closed" /\ table' = [table EXCEPT ![it] = None]
      /\ UNCHANGED <<ringVars, dealVars, it, left>>
  BY DEF Lost
<1>3. it \in FDs /\ it \in DOMAIN listed
  BY <1>1 DEF TypeOK, Containers, Lists, Lost
<1>4. table'[it] = None /\ \A f \in FDs : f # it => table'[f] = table[f]
  BY <1>1, <1>2, <1>3 DEF TypeOK
<1>5. None \notin freed
  BY <1>1, BalanceAssumption DEF TypeOK
<1>6. Tables'
  BY <1>1, <1>2, <1>3, <1>4, <1>5 DEF Agreement, Tables, ringVars, dealVars
<1>7. Owners' /\ RealFirst'
  BY <1>1, <1>2, <1>4 DEF Agreement, Owners, RealFirst, Owned, Counted, Closing, ringVars, TypeOK
<1>8. Orphans'
  <2>1. table[it] # None /\ table[it] \notin freed
        /\ \A i \in 1..Len(listed[it]) : ring[listed[it][i]].node = table[it]
    BY <1>1, <1>3 DEF Agreement, Owners, Owned, Tables
  <2>2. \A f \in FDs : table'[f] # table[it]
    BY <1>3, <1>4, <2>1 DEF Agreement, Tables
  <2> QED BY <1>1, <1>2, <2>1, <2>2 DEF Orphans, Tabled, ringVars
<1>9. Covered'
  BY <1>1, <1>2 DEF Agreement, Covered, Found, Leaving, Counted, ringVars
<1> QED BY <1>6, <1>7, <1>8, <1>9 DEF Agreement

LEMMA BeginDropAgrees ==
  ASSUME IInv, Agreement, BeginDrop
  PROVE  Agreement'
<1>1. /\ Up /\ Containers /\ TypeOK /\ Closing /\ Closing' /\ ~Removing /\ Removing'
      /\ hpc = "closed" /\ hpc' = "drop" /\ left' = listed[it]
      /\ UNCHANGED <<ringVars, table, dpc, dsrv, dfd, it>>
  BY DEF IInv, Up, Closing, Removing, Erasing, BeginDrop, serverVars, dealVars
<1>2. Tables'
  BY <1>1 DEF Agreement, Tables, ringVars
<1>3. Owners' /\ RealFirst'
  BY <1>1 DEF Agreement, Owners, RealFirst, Owned, Counted, ringVars
<1>4. Orphans'
  BY <1>1 DEF Agreement, Orphans, Tabled, ringVars
<1>5. Covered'
  BY <1>1 DEF Agreement, Covered, Found, Leaving, Counted, ringVars
<1> QED BY <1>2, <1>3, <1>4, <1>5 DEF Agreement

LEMMA StageAgrees ==
  ASSUME IInv, Agreement, DropEntry \/ DeleteNode \/ ClearEntry
  PROVE  Agreement'
<1>1. /\ Up /\ Containers /\ TypeOK /\ Removing /\ Removing' /\ Closing /\ Closing'
      /\ hpc # "closed" /\ hpc' # "closed" /\ left # <<>>
  BY DEF IInv, Up, Removing, Erasing, Closing, DropEntry, DeleteNode, ClearEntry,
     Containers, Removal
<1>2. Dropped = left[1] /\ Len(left) \in Nat /\ Len(left) >= 1
  BY <1>1, TailFacts DEF TypeOK, Dropped
<1>3. ~Tabled(ring[Dropped].node)
  BY <1>1, <1>2 DEF Agreement, Orphans
<1>4. UNCHANGED <<ring, listed, table, dpc, dsrv, dfd, it, left>>
  BY DEF DropEntry, DeleteNode, ClearEntry, ringVars, serverVars, dealVars
<1>5. freed' = freed \/ freed' = freed \cup {ring[Dropped].node}
  BY DEF DropEntry, DeleteNode, ClearEntry, ringVars
<1>6. Tables'
  BY <1>1, <1>3, <1>4, <1>5 DEF Agreement, Tables, Tabled
<1>7. Owners' /\ RealFirst'
  BY <1>1, <1>4 DEF Agreement, Owners, RealFirst, Owned, Counted
<1>8. Orphans'
  BY <1>1, <1>4 DEF Agreement, Orphans, Tabled
<1>9. Covered'
  BY <1>1, <1>4 DEF Agreement, Covered, Found, Leaving, Counted
<1> QED BY <1>6, <1>7, <1>8, <1>9 DEF Agreement

LEMMA EraseEntryAgrees ==
  ASSUME IInv, Agreement, EraseEntry
  PROVE  Agreement'
<1> DEFINE h == Dropped
<1>1. /\ Up /\ Containers /\ TypeOK /\ Removing /\ Removing' /\ Closing /\ Closing'
      /\ hpc # "closed" /\ hpc' # "closed" /\ left # <<>>
  BY DEF IInv, Up, Removing, Erasing, Closing, EraseEntry, Containers, Removal
<1>2. /\ h = left[1] /\ Len(left) \in Nat /\ Len(left) >= 1
      /\ Len(left') = Len(left) - 1
      /\ \A i \in 1..Len(left') : left'[i] = left[i + 1]
  BY <1>1, TailFacts DEF TypeOK, EraseEntry, Dropped
<1>3. /\ DOMAIN ring' = DOMAIN ring \ {h}
      /\ \A g \in DOMAIN ring' : ring'[g] = ring[g]
  BY WithoutFacts DEF EraseEntry, Forget
<1>4. UNCHANGED <<listed, freed, table, dpc, dsrv, dfd, it>>
  BY DEF EraseEntry, serverVars, dealVars
<1> HIDE DEF h
<1>5. \A i \in 1..Len(left') : i + 1 \in 1..Len(left) /\ left'[i] = left[i + 1]
  BY <1>2
<1>6. \A i \in 1..Len(left') : left'[i] \in DOMAIN ring'
  <2>1. \A i \in 1..Len(left') : left'[i] # h
    BY <1>1, <1>2, <1>5 DEF Containers, Removal
  <2> QED BY <1>1, <1>3, <1>5, <2>1 DEF Containers, Removal
<1>7. \A f \in DOMAIN listed : Counted(f) =>
        \A i \in 1..Len(listed[f]) : listed[f][i] \in DOMAIN ring'
  BY <1>1, <1>2, <1>3 DEF Containers, Lists, Removal
<1>8. Tables'
  BY <1>1, <1>4 DEF Agreement, Tables
<1>9. Owners'
  BY <1>1, <1>3, <1>4, <1>7 DEF Agreement, Owners, Owned, Counted
<1>10. RealFirst'
  BY <1>1, <1>3, <1>4, <1>7 DEF Agreement, RealFirst, Counted
<1>11. Orphans'
  <2>1. \A i \in 1..Len(left') : ~Tabled(ring[left[i + 1]].node)
    BY <1>1, <1>5 DEF Agreement, Orphans
  <2>2. \A i \in 1..Len(left') : ~Tabled(ring'[left'[i]].node)
    BY <1>3, <1>5, <1>6, <2>1
  <2> QED BY <1>1, <1>4, <2>2 DEF Orphans, Tabled
<1>12. Covered'
  <2>1. ASSUME NEW g \in DOMAIN ring', NEW i \in 1..Len(left), g = left[i]
        PROVE  Leaving(g)'
    <3>1. i # 1
      BY <1>2, <1>3, <2>1
    <3>2. i - 1 \in 1..Len(left') /\ left'[i - 1] = left[i]
      BY <1>2, <3>1
    <3> QED BY <1>1, <2>1, <3>2 DEF Leaving
  <2>2. \A g \in DOMAIN ring : Found(g) => Found(g)'
    BY <1>1, <1>4 DEF Found, Counted
  <2> QED BY <1>3, <2>1, <2>2 DEF Agreement, Covered, Leaving
<1> QED BY <1>8, <1>9, <1>10, <1>11, <1>12 DEF Agreement

LEMMA EraseServerAgrees ==
  ASSUME IInv, Agreement, EraseServer
  PROVE  Agreement'
<1>1. Up /\ TypeOK /\ Removing /\ ~Removing' /\ Closing /\ ~Closing' /\ left = <<>>
  BY DEF IInv, Up, Removing, Erasing, Closing, EraseServer, TypeOK
<1>2. /\ DOMAIN listed' = DOMAIN listed \ {it}
      /\ \A f \in DOMAIN listed' : listed'[f] = listed[f]
  BY WithoutFacts DEF EraseServer
<1>3. UNCHANGED <<ring, freed, table, dpc, dsrv, dfd, left>>
  BY DEF EraseServer, serverVars, dealVars
<1>4. Tables'
  BY <1>1, <1>3 DEF Agreement, Tables
<1>5. Owners' /\ RealFirst'
  BY <1>1, <1>2, <1>3 DEF Agreement, Owners, RealFirst, Owned, Counted
<1>6. Orphans'
  BY <1>1 DEF Orphans, Closing
<1>7. Covered'
  <2>1. \A h \in DOMAIN ring : Found(h)
    BY <1>1 DEF Agreement, Covered, Leaving
  <2>2. \A h \in DOMAIN ring : Found(h)'
    BY <1>1, <1>2, <2>1 DEF Found, Counted
  <2> QED BY <1>3, <2>2 DEF Covered
<1> QED BY <1>4, <1>5, <1>6, <1>7 DEF Agreement

(***************************************************************************)
(* The history is not forgotten.                                           *)
(***************************************************************************)
LEMMA OverlapStays ==
  ASSUME [Next]_vars, overlapped
  PROVE  overlapped'
<1>1. CASE \E s \in Servers : Connect(s) \/ Pong(s) \/ Die(s)
  BY <1>1 DEF Connect, Pong, Die
<1>2. CASE DealServer
  BY <1>2 DEF DealServer, Refuse, SendPort, AddReal, AddVirtual, Registered, serverVars
<1>3. CASE HeartRate
  BY <1>3 DEF HeartRate, BeginRound, PingOk, Lost, RecvPong, Advance, BeginDrop, DropEntry,
     DeleteNode, ClearEntry, EraseEntry, EraseServer, serverVars
<1>4. CASE \E c \in Clients : Arrive(c)
  BY <1>4 DEF Arrive, serverVars
<1>5. CASE \E t \in Threads : DealClient(t)
  BY <1>5 DEF DealClient, Lock, Check, Accept, Find, Answer, Crash, serverVars
<1>6. CASE UNCHANGED vars
  BY <1>6 DEF vars, serverVars
<1> QED BY <1>1, <1>2, <1>3, <1>4, <1>5, <1>6 DEF Next

LEMMA NextAgreeing ==
  ASSUME Agreeing, [Next]_vars
  PROVE  Agreeing'
<1>1. IInv /\ IInv'
  BY NextIInv DEF Agreeing
<1>2. SUFFICES ASSUME Up', ~overlapped' PROVE Agreement'
  BY <1>1 DEF Agreeing
<1>a. ~overlapped
  BY <1>2, OverlapStays
<1>b. Up => Agreement
  BY <1>a DEF Agreeing
<1> DEFINE Same == UNCHANGED <<ringVars, table, dpc, dsrv, dfd, hpc, it, left>>
<1>3. Same => Agreement'
  BY <1>2, <1>b, StillAgrees DEF Up
<1>4. CASE \E s \in Servers : Connect(s) \/ Pong(s) \/ Die(s)
  BY <1>3, <1>4 DEF Connect, Pong, Die, dealVars, heartVars
<1>5. CASE DealServer
  <2>1. ASSUME NEW s \in Servers, Refuse(s) PROVE Agreement'
    BY <1>3, <2>1 DEF Refuse, dealVars, heartVars
  <2>2. Up
    BY <1>5 DEF DealServer, Refuse, SendPort, AddReal, AddVirtual, Registered
  <2> QED BY <1>1, <1>2, <1>5, <1>b, <2>1, <2>2, SendPortAgrees, AddRealAgrees,
             AddVirtualAgrees, RegisteredAgrees DEF DealServer
<1>6. CASE HeartRate
  <2>1. Up
    BY <1>6 DEF Up, HeartRate, BeginRound, PingOk, Lost, BeginDrop, DropEntry, DeleteNode,
       ClearEntry, EraseEntry, EraseServer, RecvPong, Advance
  <2>2. CASE BeginRound \/ PingOk \/ RecvPong \/ Advance
    <3>1. ~Closing /\ ~Closing' /\ UNCHANGED <<ringVars, table, dpc, dsrv, dfd>>
      BY <2>2 DEF BeginRound, PingOk, RecvPong, Advance, Closing, Removing, Erasing,
         serverVars, dealVars
    <3> QED BY <1>b, <2>1, <3>1, FrameAgrees
  <2> QED BY <1>1, <1>2, <1>6, <1>b, <2>1, <2>2, LostAgrees, BeginDropAgrees, StageAgrees,
             EraseEntryAgrees, EraseServerAgrees DEF HeartRate
<1>7. CASE \E c \in Clients : Arrive(c)
  BY <1>3, <1>7 DEF Arrive, serverVars, dealVars, heartVars
<1>8. CASE \E t \in Threads : DealClient(t)
  BY <1>2, <1>3, <1>8 DEF DealClient, Lock, Check, Accept, Find, Answer, Crash, Up,
     serverVars, dealVars, heartVars
<1>9. CASE UNCHANGED vars
  BY <1>3, <1>9 DEF vars, serverVars, dealVars, heartVars
<1> QED BY <1>4, <1>5, <1>6, <1>7, <1>8, <1>9 DEF Agreeing, Next

(***************************************************************************)
(* In every state between two changes fd_hashid lists exactly the entries  *)
(* of each server's node, the real one first, serport holds the ports of   *)
(* these servers, and no entry belongs to a deleted node, as long as no    *)
(* registration and no removal have overlapped (balance.cpp:96 to 158 and  *)
(* 215 to 254).                                                            *)
(***************************************************************************)
LEMMA AgreementGivesRingAgrees ==
  ASSUME Agreeing
  PROVE  RingAgrees
<1> SUFFICES ASSUME dpc = "idle", Up, ~Closing, ~overlapped
             PROVE  /\ \A f \in DOMAIN listed :
                         LET s == ring[listed[f][1]].node
                         IN  /\ Positions(f) = Entries(s)
                             /\ ring[listed[f][1]].real
                             /\ table[f] = s
                    /\ DOMAIN ring = UNION {Positions(f) : f \in DOMAIN listed}
                    /\ \A h \in DOMAIN ring : ring[h].node \notin freed
                    /\ serport = {port[ring[listed[f][1]].node] : f \in DOMAIN listed}
  BY DEF RingAgrees, Between
<1>1. TypeOK /\ Containers /\ Agreement /\ ~Removing
  BY DEF Agreeing, IInv, Closing
<1>p. \A h \in DOMAIN ring : ring[h].real => Standing(h)
  BY <1>1 DEF Standing, Removing
<1>2. \A f \in DOMAIN listed :
        /\ f \in FDs /\ Len(listed[f]) \in Nat /\ Len(listed[f]) >= 1
        /\ \A i \in 1..Len(listed[f]) :
             /\ listed[f][i] \in DOMAIN ring
             /\ ring[listed[f][i]].node = table[f]
             /\ ring[listed[f][i]].real <=> i = 1
        /\ table[f] # None /\ table[f] \notin freed
  <2>1. ASSUME NEW f \in DOMAIN listed
        PROVE  f \in FDs /\ Len(listed[f]) \in Nat /\ Len(listed[f]) >= 1
    <3>1. f \in FDs /\ listed[f] \in Seq(Hashes) /\ listed[f] # <<>>
      BY <1>1 DEF TypeOK, Containers, Shapes
    <3> QED BY <3>1
  <2>2. \A f \in DOMAIN listed : Counted(f) /\ Owned(f)
    BY <1>1 DEF Counted, Owned
  <2> QED BY <1>1, <2>1, <2>2 DEF Agreement, Tables, Owners, RealFirst, Containers, Lists
<1>3. \A h \in DOMAIN ring : \E f \in DOMAIN listed : \E i \in 1..Len(listed[f]) : h = listed[f][i]
  BY <1>1 DEF Agreement, Covered, Found, Leaving
<1>4. \A f, g \in DOMAIN listed : table[f] = table[g] => f = g
  BY <1>1, <1>2 DEF Agreement, Tables
<1>5. ASSUME NEW f \in DOMAIN listed
      PROVE  Positions(f) = Entries(table[f])
  <2>1. ASSUME NEW h \in Positions(f) PROVE h \in Entries(table[f])
    BY <1>2, <2>1 DEF Positions, Entries
  <2>2. ASSUME NEW h \in Entries(table[f]) PROVE h \in Positions(f)
    <3>1. PICK g \in DOMAIN listed : \E i \in 1..Len(listed[g]) : h = listed[g][i]
      BY <1>3 DEF Entries
    <3>2. g = f
      BY <1>2, <1>4, <3>1 DEF Entries
    <3> QED BY <3>1, <3>2 DEF Positions
  <2> QED BY <2>1, <2>2
<1>6. \A f \in DOMAIN listed :
        /\ ring[listed[f][1]].node = table[f] /\ ring[listed[f][1]].real
        /\ listed[f][1] \in DOMAIN ring
  BY <1>2
<1>7. DOMAIN ring = UNION {Positions(f) : f \in DOMAIN listed}
  <2>1. \A f \in DOMAIN listed : Positions(f) \subseteq DOMAIN ring
    BY <1>2 DEF Positions
  <2>2. \A h \in DOMAIN ring : \E f \in DOMAIN listed : h \in Positions(f)
    BY <1>3 DEF Positions
  <2> QED BY <2>1, <2>2
<1>8. ASSUME NEW h \in DOMAIN ring
      PROVE  ring[h].node \notin freed
  <2>1. PICK f \in DOMAIN listed : \E i \in 1..Len(listed[f]) : h = listed[f][i]
    BY <1>3
  <2>2. ring[h].node = table[f]
    BY <1>2, <2>1
  <2> QED BY <1>2, <2>2
<1>9. serport = {port[ring[listed[f][1]].node] : f \in DOMAIN listed}
  <2>1. ASSUME NEW p \in serport
        PROVE  \E f \in DOMAIN listed : p = port[ring[listed[f][1]].node]
    <3>1. PICK h \in DOMAIN ring : ring[h].real /\ port[ring[h].node] = p
      BY <1>1 DEF Containers, PortsKept, Standing
    <3>2. PICK f \in DOMAIN listed : \E i \in 1..Len(listed[f]) : h = listed[f][i]
      BY <1>3
    <3>3. h = listed[f][1]
      BY <1>2, <3>1, <3>2
    <3> QED BY <3>1, <3>3
  <2>2. \A f \in DOMAIN listed : port[ring[listed[f][1]].node] \in serport
    BY <1>1, <1>6, <1>p DEF Containers, PortsKept
  <2> QED BY <2>1, <2>2
<1> QED BY <1>5, <1>6, <1>7, <1>8, <1>9

THEOREM RingStaysAgreed == Spec => []RingAgrees
<1>1. Agreeing /\ [Next]_vars => Agreeing'
  BY NextAgreeing
<1>2. Agreeing => RingAgrees
  BY AgreementGivesRingAgrees
<1> QED BY InitAgreeing, <1>1, <1>2, PTL DEF Spec

(***************************************************************************)
(* Outside a removal no entry of the ring belongs to a deleted node.       *)
(***************************************************************************)
LEMMA NothingDangles ==
  ASSUME Agreeing, Up, ~overlapped, ~Removing
  PROVE  \A h \in DOMAIN ring : ring[h].node \notin freed
<1>1. Agreement
  BY DEF Agreeing
<1>2. \A f \in DOMAIN listed : \A i \in 1..Len(listed[f]) : ring[listed[f][i]].node \notin freed
  <2>1. ASSUME NEW f \in DOMAIN listed, Owned(f), NEW i \in 1..Len(listed[f])
        PROVE  ring[listed[f][i]].node \notin freed
    <3>1. f \in FDs
      BY DEF Agreeing, IInv, TypeOK
    <3> QED BY <1>1, <2>1, <3>1 DEF Agreement, Owners, Tables
  <2>2. \A f \in DOMAIN listed : ~Owned(f) => hpc = "closed" /\ f = it
    BY DEF Owned, Closing
  <2> QED BY <1>1, <2>1, <2>2 DEF Agreement, Orphans
<1> QED BY <1>1, <1>2 DEF Agreement, Covered, Found, Leaving

(***************************************************************************)
(* A lookup (balance.cpp:193) finds an entry of a deleted node only while  *)
(* entries are being erased, or after a registration and a removal have    *)
(* overlapped: a removal that is over leaves nothing to be found.          *)
(***************************************************************************)
THEOREM DeletedFoundOnlyWhileErased == Spec => DeletedFoundOnlyInRemoval
<1> DEFINE Good(t) == found[t] = None /\ found'[t] # None /\ found'[t].node \in freed =>
                        Removing \/ overlapped
           Sound == \A t \in Threads : Good(t)
<1>1. Agreeing /\ [Next]_vars => Agreeing'
  BY NextAgreeing
<1>2. ASSUME Agreeing, [Next]_vars PROVE [Sound]_vars
  <2>1. ASSUME UNCHANGED found PROVE Sound
    BY <2>1
  <2>2. ASSUME NEW t \in Threads, NEW h \in Hashes, Find(t, h) PROVE Sound
    <3>1. SUFFICES ASSUME ~Removing, ~overlapped, NEW u \in Threads,
                          found[u] = None, found'[u] # None
                   PROVE  found'[u].node \notin freed
      OBVIOUS
    <3>2. TypeOK /\ Containers /\ Up
      BY <1>2, <2>2 DEF Agreeing, IInv, Find
    <3>3. u = t /\ ring # <<>> /\ found'[u].node = ring[LowerBound(h)].node
      BY <2>2, <3>1, <3>2 DEF Find, TypeOK
    <3>4. LowerBound(h) \in DOMAIN ring
      BY <3>2, <3>3, LowerBoundFacts
    <3> QED BY <1>2, <3>1, <3>2, <3>3, <3>4, NothingDangles
  <2>3. ASSUME NEW t \in Threads, Answer(t) PROVE Sound
    BY <1>2, <2>3, BalanceAssumption DEF Answer, Agreeing, IInv, TypeOK
  <2>4. \/ UNCHANGED vars \/ UNCHANGED found
        \/ \E t \in Threads : Answer(t) \/ \E h \in Hashes : Find(t, h)
    <3>1. CASE \E s \in Servers : Connect(s) \/ Pong(s) \/ Die(s)
      BY <3>1 DEF Connect, Pong, Die, clientVars
    <3>2. CASE DealServer
      BY <3>2 DEF DealServer, Refuse, SendPort, AddReal, AddVirtual, Registered, clientVars
    <3>3. CASE HeartRate
      BY <3>3 DEF HeartRate, BeginRound, PingOk, Lost, BeginDrop, DropEntry, DeleteNode,
         ClearEntry, EraseEntry, EraseServer, RecvPong, Advance, clientVars
    <3>4. CASE \E c \in Clients : Arrive(c)
      BY <3>4 DEF Arrive
    <3>5. CASE \E t \in Threads : DealClient(t)
      BY <3>5 DEF DealClient, Lock, Check, Accept, Crash, clientVars
    <3> QED BY <1>2, <3>1, <3>2, <3>3, <3>4, <3>5 DEF Next
  <2> HIDE DEF Sound
  <2> QED BY <2>1, <2>2, <2>3, <2>4
<1> QED BY InitAgreeing, <1>1, <1>2, PTL DEF Spec, DeletedFoundOnlyInRemoval
=============================================================================
