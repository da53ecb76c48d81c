--------------------------- MODULE ImporterProofs ---------------------------
(***************************************************************************)
(* Proofs about Importer, for any list of questions and any set of fields: *)
(* what was stored when, and why the tool may stop.                        *)
(***************************************************************************)
EXTENDS Importer, TLAPS, FiniteSetTheorems

(***************************************************************************)
(* The pool holds the fewer connections the more tries have failed, so the *)
(* second failure finds it empty.                                          *)
(***************************************************************************)
PoolShrinks ==
  /\ pool \in Seq(Conns)
  /\ con \in Conns \cup {NoConn}
  /\ turn \in Turns
  /\ turn = "get" => Len(pool) <= 2
  /\ turn = "again" => Len(pool) <= 1
  /\ turn = "run" => Len(pool) <= 1 /\ con \in Conns
  /\ turn = "failed" => pool = <<>>

Commands == {"flushdb", "exists", "hexists", "hset", "done", "stopped"}

ToolTypeOK ==
  /\ table \in [Keys -> [Fields -> {Nothing, Old} \cup Numbers]]
  /\ at \in Commands
  /\ q \in Numbers
  /\ field \in Fields
  /\ asked \in Fields
  /\ others \in Nat
  /\ at = "flushdb" => q = 1

(***************************************************************************)
(* The tool asks about the field it is going to use, or never leaves the   *)
(* loop; so the field it writes is free.                                   *)
(***************************************************************************)
FieldIsFree ==
  others = 0 =>
    /\ at = "hexists" /\ ~Stored => field = asked
    /\ at = "hset" => table[Key][field] = Nothing

StoredAt(n) == \E f \in Fields : Places(n) = {<<Questions[n], f>>}

StoredSoFar ==
  others = 0 =>
    /\ \A n \in Numbers : n < q \/ at = "done" => StoredAt(n)
    /\ \A n \in Numbers : n > q => Places(n) = {}
    /\ at \notin {"done", "stopped"} => Places(q) = {}
    /\ Places(q) = {} \/ StoredAt(q)

ImportIInv == PoolShrinks /\ ToolTypeOK /\ FieldIsFree /\ StoredSoFar /\ StopsOnlyIfCut

LEMMA ImportInitIInv == ImportInit => ImportIInv
<1> SUFFICES ASSUME ImportInit PROVE ImportIInv
  OBVIOUS
<1>1. PoolShrinks
  <2>1. PICK n \in 0..Cardinality(Conns) : pool \in [1..n -> Conns]
    BY DEF ImportInit, PoolInit
  <2>2. n \in Nat /\ n <= 2
    BY SizeAssumption, FS_CardinalityType
  <2>3. pool \in Seq(Conns) /\ Len(pool) <= 2
    BY <2>1, <2>2
  <2> QED BY <2>3 DEF PoolShrinks, ImportInit, PoolInit, Turns
<1>2. ToolTypeOK
  BY QuestionsAssumption DEF ToolTypeOK, ImportInit, Commands, Numbers
<1>3. \A n \in Numbers : Places(n) = {}
  BY NothingAssumption DEF ImportInit, Places, Numbers
<1>4. FieldIsFree
  BY DEF FieldIsFree, ImportInit
<1>5. StoredSoFar
  BY <1>2, <1>3 DEF StoredSoFar, ImportInit, ToolTypeOK, Numbers
<1>6. StopsOnlyIfCut
  BY DEF StopsOnlyIfCut, ImportInit
<1> QED BY <1>1, <1>2, <1>4, <1>5, <1>6 DEF ImportIInv

(***************************************************************************)
(* Every step of the pool keeps the bound on its length.                   *)
(***************************************************************************)
LEMMA PoolStep ==
  ASSUME PoolShrinks,
         \/ GetOneConnect \/ GetNothing \/ Answered \/ Unanswered \/ NotSent
         \/ \E c \in Conns : Break(c)
         \/ UNCHANGED poolVars
  PROVE  PoolShrinks'
<1> USE DEF PoolShrinks, Turns
<1>1. CASE GetOneConnect
  BY <1>1 DEF GetOneConnect
<1>2. CASE GetNothing
  <2>1. CASE pool = <<>>
    BY <1>2, <2>1 DEF GetNothing, Unlucky
  <2>2. CASE pool # <<>>
    <3>1. /\ pool' = Tail(pool) /\ pool' \in Seq(Conns) /\ Len(pool') = Len(pool) - 1
      BY <1>2, <2>2 DEF GetNothing
    <3>2. CASE turn = "get"
      BY <1>2, <3>1, <3>2 DEF GetNothing, Unlucky
    <3>3. CASE turn = "again"
      <4>1. Len(pool') = 0 /\ turn' = "failed" /\ con' = con
        BY <1>2, <2>2, <3>1, <3>3 DEF GetNothing, Unlucky
      <4> QED BY <3>1, <4>1
    <3> QED BY <1>2, <3>2, <3>3 DEF GetNothing
  <2> QED BY <2>1, <2>2
<1>3. CASE Answered \/ Unanswered
  BY <1>3 DEF Answered, Unanswered, Close
<1>4. CASE NotSent
  BY <1>4 DEF NotSent
<1>5. CASE \E c \in Conns : Break(c)
  BY <1>5 DEF Break
<1>6. CASE UNCHANGED poolVars
  BY <1>6 DEF poolVars
<1> QED BY <1>1, <1>2, <1>3, <1>4, <1>5, <1>6

(***************************************************************************)
(* The question at hand gets one more place, the others keep theirs.       *)
(***************************************************************************)
LEMMA SetFieldPlaces ==
  ASSUME ToolTypeOK, table[Key][field] = Nothing, SetField
  PROVE  /\ table' \in [Keys -> [Fields -> {Nothing, Old} \cup Numbers]]
         /\ \A n \in Numbers \ {q} : Places(n)' = Places(n)
         /\ Places(q) = {} => {p \in Keys \X Fields : table'[p[1]][p[2]] = q} = {<<Key, field>>}
<1>1. Key \in Keys
  BY QuestionsAssumption DEF ToolTypeOK, Numbers, Key
<1>2. \A k \in Keys, f \in Fields :
        table'[k][f] = IF k = Key /\ f = field THEN q ELSE table[k][f]
  BY <1>1 DEF ToolTypeOK, SetField
<1>3. table' \in [Keys -> [Fields -> {Nothing, Old} \cup Numbers]]
  BY <1>1 DEF ToolTypeOK, SetField
<1>4. ASSUME NEW n \in Numbers \ {q}
      PROVE  Places(n)' = Places(n)
  <2>1. n # q /\ n # Nothing
    BY NothingAssumption DEF Numbers
  <2>2. \A k \in Keys, f \in Fields : table'[k][f] = n <=> table[k][f] = n
    BY <1>2, <2>1
  <2> QED BY <2>2 DEF Places
<1>5. ASSUME Places(q) = {}
      PROVE  {p \in Keys \X Fields : table'[p[1]][p[2]] = q} = {<<Key, field>>}
  <2>1. ASSUME NEW k \in Keys, NEW f \in Fields
        PROVE  table[k][f] # q
    <3> DEFINE p == <<k, f>>
    <3>1. p \in Keys \X Fields /\ p[1] = k /\ p[2] = f
      OBVIOUS
    <3>2. ~(table[p[1]][p[2]] = q)
      BY <1>5, <3>1 DEF Places
    <3> QED BY <3>1, <3>2
  <2>2. \A k \in Keys, f \in Fields : table'[k][f] = q <=> k = Key /\ f = field
    BY <1>2, <2>1
  <2>3. field \in Fields
    BY DEF ToolTypeOK
  <2> QED BY <1>1, <2>2, <2>3
<1> QED BY <1>3, <1>4, <1>5

LEMMA FlushDbStep ==
  ASSUME ImportIInv, FlushDb
  PROVE  ToolTypeOK' /\ FieldIsFree' /\ StoredSoFar' /\ StopsOnlyIfCut'
<1> USE DEF ImportIInv
<1>1. /\ at = "flushdb" /\ at' = "exists" /\ q' = q /\ field' = field /\ asked' = asked
      /\ others' = others /\ table' \in {table, Empty} /\ q = 1
  BY DEF FlushDb, Goto, ToolTypeOK
<1>2. ToolTypeOK'
  BY <1>1 DEF ToolTypeOK, Commands, Empty
<1>3. ASSUME others = 0, NEW n \in Numbers
      PROVE  Places(n)' = {}
  <2>1. Places(n) = {}
    BY <1>1, <1>3 DEF StoredSoFar, Numbers
  <2>2. n # Nothing
    BY NothingAssumption DEF Numbers
  <2> QED BY <1>1, <2>1, <2>2 DEF Places, Empty
<1>4. FieldIsFree' /\ StopsOnlyIfCut'
  BY <1>1 DEF FieldIsFree, StopsOnlyIfCut
<1>5. StoredSoFar'
  <2> SUFFICES ASSUME others = 0 PROVE StoredSoFar'
    BY <1>1 DEF StoredSoFar
  <2>1. q' \in Numbers
    BY <1>2 DEF ToolTypeOK, Numbers
  <2> QED BY <1>1, <1>3, <2>1 DEF StoredSoFar, Numbers, Places
<1> QED BY <1>2, <1>4, <1>5

LEMMA CommandFailsStep ==
  ASSUME ImportIInv, CommandFails
  PROVE  ToolTypeOK' /\ FieldIsFree' /\ StoredSoFar' /\ StopsOnlyIfCut'
<1> USE DEF ImportIInv
<1>1. /\ at \notin {"done", "stopped"} /\ at' = "stopped"
      /\ UNCHANGED <<q, field, table, asked, others>>
  BY DEF CommandFails, Goto
<1>2. ToolTypeOK'
  BY <1>1 DEF ToolTypeOK, Commands
<1>3. FieldIsFree'
  BY <1>1 DEF FieldIsFree
<1>4. StoredSoFar'
  BY <1>1 DEF StoredSoFar, StoredAt, Places
<1>5. refused' \/ pool' = <<>>
  BY DEF CommandFails, NotSent, PoolShrinks
<1> QED BY <1>2, <1>3, <1>4, <1>5 DEF StopsOnlyIfCut

LEMMA ExistsKeyStep ==
  ASSUME ImportIInv, ExistsKey
  PROVE  ToolTypeOK' /\ FieldIsFree' /\ StoredSoFar' /\ StopsOnlyIfCut'
<1> USE DEF ImportIInv
<1>1. /\ at = "exists" /\ at' \in {"hset", "hexists"}
      /\ UNCHANGED <<q, field, table, others>>
      /\ asked' \in {asked, field}
  BY DEF ExistsKey, Goto
<1>2. ToolTypeOK' /\ StopsOnlyIfCut'
  BY <1>1 DEF ToolTypeOK, Commands, StopsOnlyIfCut
<1>3. FieldIsFree'
  <2>1. CASE at' = "hexists"
    BY <1>1, <2>1 DEF ExistsKey, Goto, FieldIsFree
  <2>2. CASE at' = "hset"
    <3>1. table[Key] = Empty[Key]
      BY <2>2 DEF ExistsKey, Goto
    <3>2. Key \in Keys /\ field \in Fields
      BY QuestionsAssumption DEF ToolTypeOK, Numbers, Key
    <3>3. table[Key][field] = Nothing
      BY <3>1, <3>2 DEF Empty
    <3> QED BY <1>1, <2>2, <3>3 DEF FieldIsFree, Key
  <2> QED BY <1>1, <2>1, <2>2
<1>4. StoredSoFar'
  BY <1>1 DEF StoredSoFar, StoredAt, Places
<1> QED BY <1>2, <1>3, <1>4

LEMMA HExistsStep ==
  ASSUME ImportIInv, HExists
  PROVE  ToolTypeOK' /\ FieldIsFree' /\ StoredSoFar' /\ StopsOnlyIfCut'
<1> USE DEF ImportIInv
<1>1. /\ at = "hexists" /\ at' \in {"hset", "hexists"}
      /\ UNCHANGED <<q, table, others, asked>>
      /\ field' \in Fields
  BY DEF HExists, Goto, ToolTypeOK
<1>2. ToolTypeOK' /\ StopsOnlyIfCut'
  BY <1>1 DEF ToolTypeOK, Commands, StopsOnlyIfCut
<1>3. FieldIsFree'
  <2>1. CASE Stored /\ at' = at
    BY <1>1, <2>1 DEF FieldIsFree, Stored, Key
  <2>2. CASE ~Stored /\ Goto("hset")
    BY <1>1, <2>2 DEF FieldIsFree, Stored, Key, Goto
  <2> QED BY <2>1, <2>2 DEF HExists
<1>4. StoredSoFar'
  BY <1>1 DEF StoredSoFar, StoredAt, Places
<1> QED BY <1>2, <1>3, <1>4

(***************************************************************************)
(* While only the tool writes, HSET finds its field free, so the tool goes *)
(* on to the next question.                                                *)
(***************************************************************************)
LEMMA HSetStep ==
  ASSUME ImportIInv, HSet
  PROVE  ToolTypeOK' /\ FieldIsFree' /\ StoredSoFar' /\ StopsOnlyIfCut'
<1> USE DEF ImportIInv
<1>1. /\ at = "hset" /\ others' = others /\ asked' = asked
      /\ SetField \/ UNCHANGED table
      /\ \/ SetField /\ table[Key][field] = Nothing /\ NextQuestion
         \/ at' = "stopped" /\ UNCHANGED <<q, field>>
  BY DEF HSet, Goto
<1>2. Key \in Keys /\ q \in Numbers /\ field \in Fields /\ Len(Questions) \in Nat
  BY QuestionsAssumption DEF ToolTypeOK, Numbers, Key
<1>3. NextQuestion =>
        /\ q' \in Numbers /\ field' \in Fields
        /\ \/ at' = "done" /\ q' = q /\ q = Len(Questions)
           \/ at' = "exists" /\ q' = q + 1
  BY <1>2 DEF NextQuestion, Goto, Numbers
<1>4. ToolTypeOK'
  <2>1. table' \in [Keys -> [Fields -> {Nothing, Old} \cup Numbers]]
    BY <1>1, <1>2 DEF ToolTypeOK, SetField
  <2>2. at' \in Commands /\ at' # "flushdb" /\ q' \in Numbers /\ field' \in Fields
    BY <1>1, <1>2, <1>3 DEF Commands
  <2> QED BY <1>1, <2>1, <2>2 DEF ToolTypeOK
<1>5. FieldIsFree'
  BY <1>1, <1>3 DEF FieldIsFree
<1>6. StopsOnlyIfCut'
  <2> SUFFICES ASSUME at' = "stopped", others = 0
               PROVE  refused' \/ pool' = <<>>
    BY <1>1, <1>4 DEF StopsOnlyIfCut, ToolTypeOK
  <2>1. table[Key][field] = Nothing
    BY <1>1 DEF FieldIsFree
  <2>2. ~NextQuestion
    BY <1>3
  <2> QED BY <2>1, <2>2 DEF HSet, NotSent, PoolShrinks
<1>7. StoredSoFar'
  <2> SUFFICES ASSUME others = 0 PROVE StoredSoFar'
    BY <1>1 DEF StoredSoFar
  <2>1. table[Key][field] = Nothing /\ Places(q) = {}
    BY <1>1 DEF FieldIsFree, StoredSoFar
  <2>2. CASE SetField
    <3> DEFINE Now(n) == {p \in Keys \X Fields : table'[p[1]][p[2]] = n}
    <3>1. /\ \A n \in Numbers \ {q} : Now(n) = Places(n)
          /\ Now(q) = {<<Questions[q], field>>}
      BY <2>1, <2>2, SetFieldPlaces DEF Places, Key
    <3>2. \A n \in Numbers : n <= q => \E f \in Fields : Now(n) = {<<Questions[n], f>>}
      <4>1. ASSUME NEW n \in Numbers, n < q
            PROVE  \E f \in Fields : Now(n) = {<<Questions[n], f>>}
        <5>1. StoredAt(n)
          BY <4>1 DEF StoredSoFar
        <5>2. Now(n) = Places(n)
          BY <3>1, <4>1, <1>2 DEF Numbers
        <5> QED BY <5>1, <5>2 DEF StoredAt
      <4> HIDE DEF Now
      <4> QED BY <4>1, <3>1, <1>2 DEF Numbers
    <3>3. \A n \in Numbers : n > q => Now(n) = {}
      <4>1. ASSUME NEW n \in Numbers, n > q
            PROVE  Now(n) = {}
        <5>1. Places(n) = {}
          BY <4>1 DEF StoredSoFar
        <5>2. Now(n) = Places(n)
          BY <3>1, <4>1, <1>2 DEF Numbers
        <5> QED BY <5>1, <5>2
      <4> QED BY <4>1
    <3>4. /\ q' \in Numbers
          /\ \/ at' = "done" /\ q' = q /\ q = Len(Questions)
             \/ at' = "exists" /\ q' = q + 1
             \/ at' = "stopped" /\ q' = q
      BY <1>1, <1>2, <1>3
    <3>5. \A n \in Numbers : Places(n)' = Now(n)
      BY DEF Places
    <3>6. \A n \in Numbers : StoredAt(n)' <=> \E f \in Fields : Now(n) = {<<Questions[n], f>>}
      BY <3>5 DEF StoredAt
    <3> DEFINE Here == {p \in Keys \X Fields : table'[p[1]][p[2]] = q'}
    <3>7. /\ (\A n \in Numbers : n < q \/ at = "done" => StoredAt(n))'
          /\ (\A n \in Numbers : n > q => Places(n) = {})'
      <4> HIDE DEF Now
      <4>1. ASSUME NEW n \in Numbers, n < q' \/ at' = "done"
            PROVE  StoredAt(n)'
        <5>1. n <= q
          BY <3>4, <4>1, <1>2 DEF Numbers
        <5> QED BY <5>1, <3>2, <3>6
      <4>2. ASSUME NEW n \in Numbers, n > q'
            PROVE  Places(n)' = {}
        <5>1. n > q
          BY <3>4, <4>2, <1>2 DEF Numbers
        <5> QED BY <5>1, <3>3, <3>5
      <4>3. Numbers' = Numbers
        BY DEF Numbers
      <4> QED BY <4>1, <4>2, <4>3
    <3>8. (at \notin {"done", "stopped"} => Places(q) = {})'
      <4>1. at' \notin {"done", "stopped"} => Now(q') = {}
        <5> HIDE DEF Now
        <5>1. CASE at' = "exists"
          BY <5>1, <3>4, <3>3, <1>2 DEF Numbers
        <5> QED BY <5>1, <3>4
      <4> QED BY <4>1 DEF Places
    <3>9. (Places(q) = {} \/ StoredAt(q))'
      <4>1. Now(q') = {} \/ \E f \in Fields : Now(q') = {<<Questions[q'], f>>}
        <5> HIDE DEF Now
        <5>1. CASE q' = q
          BY <5>1, <3>4, <3>2, <1>2 DEF Numbers
        <5>2. CASE q' = q + 1
          BY <5>2, <3>4, <3>3, <1>2 DEF Numbers
        <5> QED BY <5>1, <5>2, <3>4
      <4> QED BY <4>1 DEF StoredAt, Places
    <3> QED BY <3>7, <3>8, <3>9 DEF StoredSoFar
  <2>3. CASE UNCHANGED table /\ at' = "stopped" /\ UNCHANGED <<q, field>>
    BY <1>1, <2>3 DEF StoredSoFar, StoredAt, Places
  <2> QED BY <1>1, <2>2, <2>3
<1> QED BY <1>4, <1>5, <1>6, <1>7

(***************************************************************************)
(* A client's write takes the premise of the claims away.                  *)
(***************************************************************************)
LEMMA ClientStep ==
  ASSUME ImportIInv, NEW k \in Keys, NEW f \in Fields, NEW v \in {Old, Nothing},
         Client(k, f, v)
  PROVE  ToolTypeOK' /\ FieldIsFree' /\ StoredSoFar' /\ StopsOnlyIfCut'
<1>1. others' # 0 /\ others' \in Nat /\ others' > 0
  BY DEF ImportIInv, ToolTypeOK, Client
<1>2. ToolTypeOK'
  BY <1>1 DEF ImportIInv, ToolTypeOK, Client
<1> QED BY <1>1, <1>2 DEF FieldIsFree, StoredSoFar, StopsOnlyIfCut

LEMMA ElsewhereStep ==
  ASSUME ImportIInv, UNCHANGED toolVars, Ended => UNCHANGED pool
  PROVE  ToolTypeOK' /\ FieldIsFree' /\ StoredSoFar' /\ StopsOnlyIfCut'
<1> USE DEF ImportIInv, toolVars
<1>1. ToolTypeOK'
  BY DEF ToolTypeOK
<1>2. FieldIsFree'
  BY DEF FieldIsFree, Stored, Key
<1>3. StoredSoFar'
  BY DEF StoredSoFar, StoredAt, Places
<1>4. StopsOnlyIfCut'
  BY DEF StopsOnlyIfCut, Ended
<1> QED BY <1>1, <1>2, <1>3, <1>4

LEMMA ImportNextIInv ==
  ASSUME ImportIInv, [ImportNext]_importVars
  PROVE  ImportIInv'
<1>1. PoolShrinks'
  <2>1. \/ GetOneConnect \/ GetNothing \/ Answered \/ Unanswered \/ NotSent
        \/ \E c \in Conns : Break(c)
        \/ UNCHANGED poolVars
    BY DEF ImportNext, importVars, Tool, FlushDb, ExistsKey, HExists, HSet,
           CommandFails, Client
  <2> QED BY <2>1, PoolStep DEF ImportIInv
<1>2. ToolTypeOK' /\ FieldIsFree' /\ StoredSoFar' /\ StopsOnlyIfCut'
  <2>1. CASE ~Ended /\ (GetOneConnect \/ GetNothing) /\ UNCHANGED toolVars
    BY <2>1, ElsewhereStep
  <2>2. CASE FlushDb
    BY <2>2, FlushDbStep
  <2>3. CASE ExistsKey
    BY <2>3, ExistsKeyStep
  <2>4. CASE HExists
    BY <2>4, HExistsStep
  <2>5. CASE HSet
    BY <2>5, HSetStep
  <2>6. CASE CommandFails
    BY <2>6, CommandFailsStep
  <2>7. ASSUME NEW c \in Conns, Break(c), UNCHANGED toolVars
        PROVE  ToolTypeOK' /\ FieldIsFree' /\ StoredSoFar' /\ StopsOnlyIfCut'
    BY <2>7, ElsewhereStep DEF Break
  <2>8. ASSUME NEW k \in Keys, NEW f \in Fields, Client(k, f, Old) \/ Client(k, f, Nothing)
        PROVE  ToolTypeOK' /\ FieldIsFree' /\ StoredSoFar' /\ StopsOnlyIfCut'
    BY <2>8, ClientStep
  <2>9. CASE UNCHANGED importVars
    BY <2>9, ElsewhereStep DEF importVars, poolVars
  <2> QED BY <2>1, <2>2, <2>3, <2>4, <2>5, <2>6, <2>7, <2>8, <2>9 DEF ImportNext, Tool
<1> QED BY <1>1, <1>2 DEF ImportIInv

THEOREM ImportInvariance == ImportSpec => []ImportIInv
<1>1. ImportIInv /\ [ImportNext]_importVars => ImportIInv'
  BY ImportNextIInv
<1> QED BY ImportInitIInv, <1>1, PTL DEF ImportSpec

(***************************************************************************)
(* While only the tool writes, it has stored every question before the     *)
(* current one, under its own key and in one field, and none after it.     *)
(***************************************************************************)
THEOREM StoresTheList == ImportSpec => []ImportedInOrder
<1>1. ImportIInv => ImportedInOrder
  <2> SUFFICES ASSUME ImportIInv, others = 0, NEW n \in Numbers
               PROVE  /\ n < q \/ at = "done" => StoredAt(n)
                      /\ n > q => Places(n) = {}
                      /\ n = q => Cardinality(Places(n)) <= 1
    BY DEF ImportedInOrder, StoredAt
  <2>1. Cardinality({}) = 0 /\ \A x : Cardinality({x}) = 1
    BY FS_EmptySet, FS_Singleton
  <2>2. n = q => Cardinality(Places(n)) <= 1
    <3> SUFFICES ASSUME n = q PROVE Cardinality(Places(n)) <= 1
      OBVIOUS
    <3>1. Places(n) = {} \/ \E p : Places(n) = {p}
      BY DEF ImportIInv, StoredSoFar, StoredAt
    <3>2. CASE Places(n) = {}
      BY <2>1, <3>2
    <3>3. ASSUME NEW p, Places(n) = {p}
          PROVE  Cardinality(Places(n)) <= 1
      <4>1. Cardinality({p}) = 1
        BY <2>1
      <4> QED BY <3>3, <4>1
    <3> QED BY <3>1, <3>2, <3>3
  <2> QED BY <2>2 DEF ImportIInv, StoredSoFar
<1> QED BY <1>1, ImportInvariance, PTL

(***************************************************************************)
(* The tool, main of insert/main.cpp, gives up halfway only when a command *)
(* was refused or cut off, the pool is empty or clients wrote meanwhile:   *)
(* of two connections one may break at any moment between commands.        *)
(***************************************************************************)
THEOREM OneBrokenConnectionIsNoReason == ImportSpec => []StopsOnlyIfCut
<1>1. ImportIInv => StopsOnlyIfCut
  BY DEF ImportIInv
<1> QED BY <1>1, ImportInvariance, PTL
=============================================================================
