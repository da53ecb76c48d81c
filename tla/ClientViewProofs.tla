-------------------------- MODULE ClientViewProofs --------------------------
(***************************************************************************)
(* Proofs about ClientView, for any bank, any degrees and any number of    *)
(* draws: the lists of a client, what it deletes, and what a student gets. *)
(***************************************************************************)
EXTENDS ClientView, TLAPS, FiniteSetTheorems

Questions == Contents \cup {Absent}

ListTypeOK ==
  /\ bank \in [Fields -> Questions]
  /\ mp1 \in Seq(Fields)
  /\ mp2 \in Seq(Questions)
  /\ Len(mp1) = Len(mp2)
  /\ reply \in Seq(Fields \X Questions)

(***************************************************************************)
(* While a list is on its way the old one is gone, and what has arrived of *)
(* the new one is as stale as what is shown may be.                        *)
(***************************************************************************)
NoOldList == pc \in {"list", "listed"} => mp1 = <<>> /\ mp2 = <<>>

ReplyStaleOnlyIfTouched ==
  pc = "listed" =>
    \A i \in 1..Len(reply) : reply[i][1] \notin touched => bank[reply[i][1]] = reply[i][2]

NumberInList == pc = "delete" => arg \in Numbers

ListViews == {"select", "getall", "flush", "delete"}
ListForAView == pc \in {"list", "listed"} => view \in ListViews

ListIInv ==
  /\ ListTypeOK
  /\ NoOldList
  /\ ReplyStaleOnlyIfTouched
  /\ NumberInList
  /\ ListForAView
  /\ StaleOnlyIfTouched

(***************************************************************************)
(* A change of the bank leaves a trace in touched.                         *)
(***************************************************************************)
LEMMA ChangeStep ==
  ASSUME ListIInv, NEW f \in Fields, NEW c \in Questions, Change(f, c),
         UNCHANGED <<mp1, mp2, reply>>,
         \/ UNCHANGED <<pc, view, arg>>
         \/ pc' \notin {"list", "listed", "delete"}
  PROVE  ListIInv'
<1> USE DEF ListIInv, Numbers
<1>1. bank' = [bank EXCEPT ![f] = c] /\ touched' = touched \cup {f}
  BY DEF Change
<1>2. ListTypeOK'
  BY <1>1 DEF ListTypeOK
<1>3. NoOldList' /\ NumberInList' /\ ListForAView'
  BY DEF NoOldList, NumberInList, ListForAView
<1>4. \A g \in Fields : g \notin touched' => g \notin touched /\ bank'[g] = bank[g]
  BY <1>1 DEF ListTypeOK
<1>5. ReplyStaleOnlyIfTouched'
  <2> SUFFICES ASSUME pc' = "listed", NEW i \in 1..Len(reply), reply[i][1] \notin touched'
               PROVE  bank'[reply[i][1]] = reply[i][2]
    BY DEF ReplyStaleOnlyIfTouched
  <2>1. reply[i][1] \in Fields
    BY DEF ListTypeOK
  <2> QED BY <2>1, <1>4 DEF ReplyStaleOnlyIfTouched
<1>6. StaleOnlyIfTouched'
  <2> SUFFICES ASSUME NEW i \in 1..Len(mp1), mp1[i] \notin touched'
               PROVE  bank'[mp1[i]] = mp2[i]
    BY DEF StaleOnlyIfTouched
  <2>1. mp1[i] \in Fields
    BY DEF ListTypeOK
  <2> QED BY <2>1, <1>4 DEF StaleOnlyIfTouched
<1> QED BY <1>2, <1>3, <1>5, <1>6

(***************************************************************************)
(* A step that touches neither the bank nor the lists, and does not leave  *)
(* the view at a point where something is claimed of it.                   *)
(***************************************************************************)
LEMMA ElsewhereStep ==
  ASSUME ListIInv, UNCHANGED <<bank, mp1, mp2, reply, touched>>,
         \/ UNCHANGED <<pc, view, arg>>
         \/ pc' \notin {"list", "listed", "delete"}
         \/ pc' = "delete" /\ arg' \in Numbers
  PROVE  ListIInv'
<1> USE DEF ListIInv, Numbers
<1>1. ListTypeOK'
  BY DEF ListTypeOK
<1>2. NoOldList' /\ NumberInList' /\ ListForAView'
  BY DEF NoOldList, NumberInList, ListForAView
<1>3. ReplyStaleOnlyIfTouched' /\ StaleOnlyIfTouched'
  BY DEF ReplyStaleOnlyIfTouched, StaleOnlyIfTouched
<1> QED BY <1>1, <1>2, <1>3

LEMMA OpenListStep ==
  ASSUME ListIInv, NEW v \in ListViews, OpenList(v)
  PROVE  ListIInv'
<1>1. CASE Stale(v) /\ Fetch
  <2> USE DEF ListIInv, Numbers
  <2>1. /\ mp1' = <<>> /\ mp2' = <<>> /\ pc' = "list" /\ view' = v
        /\ UNCHANGED <<bank, reply, touched, arg>>
    BY <1>1 DEF OpenList, Open, Fetch, ClearLists, Goto
  <2>2. mp1' \in Seq(Fields) /\ mp2' \in Seq(Questions) /\ Len(mp1') = 0 /\ Len(mp2') = 0
    BY <2>1
  <2>3. ListTypeOK'
    BY <2>1, <2>2 DEF ListTypeOK
  <2> QED BY <2>1, <2>2, <2>3
      DEF NoOldList, NumberInList, ListForAView, ReplyStaleOnlyIfTouched, StaleOnlyIfTouched
<1>2. CASE ~Stale(v) /\ Goto(Shown(v)) /\ UNCHANGED lists
  <2>1. pc' \in {"degree", "menu", "number"}
    BY <1>2 DEF Goto, Shown, ListViews
  <2> QED BY <1>2, <2>1, ElsewhereStep DEF OpenList, lists
<1> QED BY <1>1, <1>2 DEF OpenList

LEMMA ServeListStep ==
  ASSUME ListIInv, ServeList
  PROVE  ListIInv'
<1> USE DEF ListIInv, Numbers
<1>1. /\ pc = "list" /\ pc' = "listed" /\ touched' = {}
      /\ UNCHANGED <<bank, mp1, mp2, arg, view>>
      /\ mp1 = <<>> /\ mp2 = <<>>
  BY DEF ServeList, Goto, lists, NoOldList
<1>2. /\ reply' \in Seq(Fields \X Questions)
      /\ \A i \in 1..Len(reply') : bank[reply'[i][1]] = reply'[i][2]
  <2>1. CASE reply' = <<>>
    BY <2>1
  <2>2. CASE \E r \in Listings : reply' = r
    <3> DEFINE S == {<<f, bank[f]>> : f \in Stored}
    <3>1. IsFiniteSet(Stored)
      BY DegreeAssumption, FS_Subset DEF Stored
    <3>2. IsFiniteSet(S)
      <4> DEFINE g == [f \in Stored |-> <<f, bank[f]>>]
      <4>1. g \in Surjection(Stored, S)
        BY DEF Surjection
      <4> QED BY <3>1, <4>1, FS_Surjection
    <3>3. Cardinality(S) \in Nat
      BY <3>2, FS_CardinalityType
    <3>4. reply' \in [1..Cardinality(S) -> S]
      BY <2>2 DEF Listings, SetToSeqs
    <3>5. /\ S \subseteq Fields \X Questions
          /\ \A p \in S : bank[p[1]] = p[2]
      BY DEF Stored, ListTypeOK
    <3> HIDE DEF S
    <3>6. reply' \in Seq(S) /\ Len(reply') = Cardinality(S)
      BY <3>3, <3>4
    <3> QED BY <3>5, <3>6
  <2> QED BY <2>1, <2>2 DEF ServeList
<1>3. ListTypeOK'
  BY <1>1, <1>2 DEF ListTypeOK
<1> QED BY <1>1, <1>2, <1>3
    DEF NoOldList, NumberInList, ListForAView, ReplyStaleOnlyIfTouched, StaleOnlyIfTouched

(***************************************************************************)
(* Parse is given empty lists, so nothing of an old one is left.           *)
(***************************************************************************)
LEMMA OverwriteEmpty ==
  ASSUME NEW S, NEW s \in Seq(S)
  PROVE  Overwrite(<<>>, s) = s
<1>1. Len(<<>>) = 0 /\ Len(s) \in Nat
  OBVIOUS
<1>2. Overwrite(<<>>, s) = [i \in 1..Len(s) |-> s[i]]
  BY <1>1 DEF Overwrite
<1> QED BY <1>2

LEMMA ShowListStep ==
  ASSUME ListIInv, ShowList
  PROVE  ListIInv'
<1> USE DEF ListIInv, Numbers
<1> DEFINE fields == [i \in DOMAIN reply |-> reply[i][1]]
           questions == [i \in DOMAIN reply |-> reply[i][2]]
<1>1. /\ pc = "listed" /\ mp1 = <<>> /\ mp2 = <<>>
      /\ reply' = <<>> /\ UNCHANGED <<bank, touched, arg>>
      /\ mp1' = Overwrite(<<>>, fields) /\ mp2' = Overwrite(<<>>, questions)
  BY DEF ShowList, Parse, NoOldList
<1>2. pc' \in {"degree", "menu", "number"}
  BY DEF ShowList, Goto, Shown, ListForAView, ListViews
<1>3. /\ fields \in Seq(Fields) /\ questions \in Seq(Questions)
      /\ Len(fields) = Len(reply) /\ Len(questions) = Len(reply)
      /\ \A i \in 1..Len(reply) : fields[i] = reply[i][1] /\ questions[i] = reply[i][2]
  <2>1. reply \in Seq(Fields \X Questions) /\ DOMAIN reply = 1..Len(reply) /\ Len(reply) \in Nat
    BY DEF ListTypeOK
  <2>2. \A i \in 1..Len(reply) : reply[i][1] \in Fields /\ reply[i][2] \in Questions
    BY <2>1
  <2>3. fields \in [1..Len(reply) -> Fields] /\ questions \in [1..Len(reply) -> Questions]
    BY <2>1, <2>2
  <2> QED BY <2>1, <2>3
<1>4. mp1' = fields /\ mp2' = questions
  <2> HIDE DEF fields, questions
  <2> QED BY <1>1, <1>3, OverwriteEmpty
<1> HIDE DEF fields, questions
<1>5. ListTypeOK'
  BY <1>1, <1>3, <1>4 DEF ListTypeOK
<1>6. StaleOnlyIfTouched'
  BY <1>1, <1>3, <1>4 DEF StaleOnlyIfTouched, ReplyStaleOnlyIfTouched
<1> QED BY <1>2, <1>5, <1>6
    DEF NoOldList, NumberInList, ListForAView, ReplyStaleOnlyIfTouched

LEMMA ListNextIInv ==
  ASSUME ListIInv, [Next]_vars
  PROVE  ListIInv'
<1> USE DEF Goto, lists, st
<1>1. ASSUME NEW r \in Roles, OtherRegisters(r)
      PROVE  ListIInv'
  BY <1>1, ElsewhereStep DEF OtherRegisters
<1>2. ASSUME NEW v \in {"register", "login"}, NEW r \in Roles, OpenAccount(v, r)
      PROVE  ListIInv'
  BY <1>2, ElsewhereStep DEF OpenAccount
<1>3. CASE ServeRegister
  BY <1>3, ElsewhereStep DEF ServeRegister, Back, Lost
<1>4. CASE ServeLogin
  BY <1>4, ElsewhereStep DEF ServeLogin, Back, Lost
<1>5. CASE Logout \/ Leave
  BY <1>5, ElsewhereStep DEF Logout, Leave
<1>6. CASE \E v \in ListViews : OpenList(v)
  BY <1>6, OpenListStep
<1>7. CASE ServeList
  BY <1>7, ServeListStep
<1>8. CASE ShowList
  BY <1>8, ShowListStep
<1>9. CASE Expire
  BY <1>9, ElsewhereStep DEF Expire
<1>10. ASSUME NEW d \in Degrees, ChooseDegree(d) \/ OpenInsert(d)
       PROVE  ListIInv'
  BY <1>10, ElsewhereStep DEF ChooseDegree, OpenInsert, Open
<1>11. CASE DrawOne \/ Selected
  BY <1>11, ElsewhereStep DEF DrawOne, Selected
<1>12. ASSUME NEW i \in Numbers, ChooseNumber(i)
       PROVE  ListIInv'
  <2>1. Numbers' = Numbers
    BY <1>12 DEF ChooseNumber, Numbers
  <2> QED BY <1>12, <2>1, ElsewhereStep DEF ChooseNumber
<1>13. CASE ServeInsert
  <2>1. pc' \notin {"list", "listed", "delete"} /\ UNCHANGED <<mp1, mp2, reply>>
    BY <1>13 DEF ServeInsert, Back, Lost
  <2>2. CASE UNCHANGED <<bank, touched>>
    BY <2>1, <2>2, ElsewhereStep
  <2>3. ASSUME NEW f \in Fields, NEW c \in Contents, Change(f, c)
        PROVE  ListIInv'
    BY <2>1, <2>3, ChangeStep DEF Questions
  <2> QED BY <1>13, <2>2, <2>3 DEF ServeInsert
<1>14. CASE ServeDelete
  <2>1. pc' \notin {"list", "listed", "delete"} /\ UNCHANGED <<mp1, mp2, reply>>
    BY <1>14 DEF ServeDelete, Back, Lost
  <2>2. CASE UNCHANGED <<bank, touched>>
    BY <2>1, <2>2, ElsewhereStep
  <2>3. CASE Change(Numbered, Absent)
    <3>1. Numbered \in Fields /\ Absent \in Questions
      BY <1>14 DEF ServeDelete, Numbered, ListIInv, NumberInList, ListTypeOK, Numbers, Questions
    <3> QED BY <2>1, <2>3, <3>1, ChangeStep
  <2> QED BY <1>14, <2>2, <2>3 DEF ServeDelete
<1>15. CASE Close
  BY <1>15, ElsewhereStep DEF Close, Back
<1>16. CASE ListLost
  BY <1>16, ElsewhereStep DEF ListLost, Lost
<1>17. ASSUME NEW f \in Fields, NEW c \in Questions, OtherClient(f, c)
       PROVE  ListIInv'
  BY <1>17, ChangeStep DEF OtherClient
<1>18. CASE UNCHANGED vars
  BY <1>18, ElsewhereStep DEF vars
<1> QED BY <1>1, <1>2, <1>3, <1>4, <1>5, <1>6, <1>7, <1>8, <1>9, <1>10, <1>11, <1>12,
           <1>13, <1>14, <1>15, <1>16, <1>17, <1>18 DEF Next, ListViews, Questions

LEMMA ListInitIInv == Init => ListIInv
<1> SUFFICES ASSUME Init PROVE ListIInv
  OBVIOUS
<1>1. ListTypeOK
  BY DEF Init, ListTypeOK, Questions
<1>2. Len(mp1) = 0
  BY DEF Init
<1> QED BY <1>1, <1>2
    DEF Init, ListIInv, NoOldList, ReplyStaleOnlyIfTouched, NumberInList, ListForAView,
        StaleOnlyIfTouched, Numbers

THEOREM ListInvariance == Spec => []ListIInv
BY ListInitIInv, ListNextIInv, PTL DEF Spec

(***************************************************************************)
(* What view.cpp shows under a number is in the bank, unless its field was *)
(* changed since the list was fetched.                                     *)
(***************************************************************************)
THEOREM ListsDoNotMix == Spec => []StaleOnlyIfTouched
<1>1. ListIInv => StaleOnlyIfTouched
  BY DEF ListIInv
<1> QED BY <1>1, ListInvariance, PTL

(***************************************************************************)
(* DelQues deletes by field what was on the screen under the number, or    *)
(* what was written to that field since.                                   *)
(***************************************************************************)
THEOREM DeletionByNumber == Spec => DeletesWhatWasShown
<1> DEFINE A == pc = "delete" /\ pc' # "delete" /\ bank' # bank =>
                  LET f == mp1[arg]
                  IN  /\ bank' = [bank EXCEPT ![f] = Absent]
                      /\ f \in touched \/ bank[f] = mp2[arg]
<1>1. ASSUME ListIInv, [Next]_vars
      PROVE  A
  <2> SUFFICES ASSUME pc = "delete", pc' # "delete", bank' # bank
               PROVE  /\ bank' = [bank EXCEPT ![Numbered] = Absent]
                      /\ Numbered \in touched \/ bank[Numbered] = mp2[arg]
    BY DEF Numbered
  <2>1. arg \in Numbers
    BY <1>1 DEF ListIInv, NumberInList
  <2>2. ServeDelete
    BY <1>1 DEF Next, vars, lists, OtherRegisters, OpenAccount, ServeRegister, ServeLogin,
                Logout, Leave, OpenList, Open, ServeList, ShowList, Expire, ChooseDegree,
                OpenInsert, DrawOne, Selected, ChooseNumber, ServeInsert, Close, ListLost,
                OtherClient
  <2>3. bank' = [bank EXCEPT ![Numbered] = Absent]
    BY <2>2 DEF ServeDelete, Change
  <2> QED BY <1>1, <2>1, <2>3 DEF ListIInv, StaleOnlyIfTouched, Numbered
<1> QED BY <1>1, ListInvariance, PTL DEF Spec, DeletesWhatWasShown

-----------------------------------------------------------------------------
(* SelectQues. *)

(***************************************************************************)
(* While it draws, a view has shown fewer than there are, and none twice.  *)
(***************************************************************************)
DrawnSoFar ==
  /\ pc \notin {"draw", "selected"} => drawn = {} /\ shown = 0
  /\ pc = "draw" =>
       /\ drawn \subseteq WithDegree(arg)
       /\ Cardinality(drawn) = shown
       /\ shown <= Draws
       /\ Draws < Cardinality(WithDegree(arg))

DrawIInv == ListIInv /\ DrawnSoFar /\ FiveOfTheDegree

LEMMA NumbersAreFinite ==
  ASSUME ListIInv, NEW d
  PROVE  IsFiniteSet(WithDegree(d)) /\ Cardinality(WithDegree(d)) \in Nat
<1>1. Len(mp1) \in Nat
  BY DEF ListIInv, ListTypeOK
<1>2. IsFiniteSet(Numbers)
  BY <1>1, FS_Interval DEF Numbers
<1> QED BY <1>2, FS_Subset, FS_CardinalityType DEF WithDegree

LEMMA ChooseDegreeStep ==
  ASSUME DrawIInv, NEW d \in Degrees, ChooseDegree(d)
  PROVE  DrawnSoFar' /\ FiveOfTheDegree'
<1>1. /\ arg' = d /\ UNCHANGED mp1 /\ drawn = {} /\ shown = 0
      /\ WithDegree(d)' = WithDegree(d) /\ WithDegree(arg)' = WithDegree(d)
  BY DEF ChooseDegree, lists, DrawIInv, DrawnSoFar, WithDegree, Numbers
<1>2. Cardinality(WithDegree(d)) \in Nat /\ Cardinality({}) = 0 /\ Draws \in Nat
  BY NumbersAreFinite, FS_EmptySet, DrawsAssumption DEF DrawIInv
<1>3. CASE /\ FewEnough(d) /\ pc' = "selected"
           /\ drawn' = WithDegree(d) /\ shown' = Cardinality(WithDegree(d))
  BY <1>1, <1>2, <1>3 DEF DrawnSoFar, FiveOfTheDegree, FewEnough
<1>4. CASE ~FewEnough(d) /\ pc' = "draw" /\ UNCHANGED st
  BY <1>1, <1>2, <1>4 DEF DrawnSoFar, FiveOfTheDegree, FewEnough, st
<1> QED BY <1>3, <1>4 DEF ChooseDegree, Goto

LEMMA DrawStep ==
  ASSUME DrawIInv, DrawOne \/ Selected
  PROVE  DrawnSoFar' /\ FiveOfTheDegree'
<1>1. /\ pc = "draw" /\ UNCHANGED <<arg, mp1>>
      /\ WithDegree(arg)' = WithDegree(arg)
  BY DEF DrawOne, Selected, lists, WithDegree, Numbers
<1>2. /\ drawn \subseteq WithDegree(arg) /\ Cardinality(drawn) = shown /\ shown <= Draws
      /\ Draws < Cardinality(WithDegree(arg))
  BY <1>1 DEF DrawIInv, DrawnSoFar
<1>3. /\ Cardinality(WithDegree(arg)) \in Nat /\ Draws \in Nat
      /\ IsFiniteSet(drawn) /\ Cardinality(drawn) \in Nat
  BY <1>2, NumbersAreFinite, FS_Subset, FS_CardinalityType, DrawsAssumption DEF DrawIInv
<1>4. CASE DrawOne
  <2>1. PICK i \in WithDegree(arg) : i \notin drawn /\ drawn' = drawn \cup {i}
    BY <1>4 DEF DrawOne, Unseen
  <2>2. Cardinality(drawn') = Cardinality(drawn) + 1
    BY <1>3, <2>1, FS_AddElement
  <2>3. shown < Draws /\ shown' = shown + 1 /\ UNCHANGED pc
    BY <1>4 DEF DrawOne
  <2> QED BY <1>1, <1>2, <1>3, <2>1, <2>2, <2>3 DEF DrawnSoFar, FiveOfTheDegree
<1>5. CASE Selected
  <2>1. shown = Draws /\ pc' = "selected" /\ UNCHANGED <<drawn, shown>>
    BY <1>5 DEF Selected, Goto, st
  <2> QED BY <1>1, <1>2, <1>3, <2>1 DEF DrawnSoFar, FiveOfTheDegree
<1> QED BY <1>4, <1>5

(***************************************************************************)
(* Any other step leaves a view that draws or has drawn as it is, or       *)
(* forgets what was drawn.                                                 *)
(***************************************************************************)
LEMMA NotDrawing ==
  ASSUME DrawIInv,
         \/ UNCHANGED <<pc, arg, mp1, drawn, shown>>
         \/ pc' \notin {"draw", "selected"} /\ drawn' = {} /\ shown' = 0
  PROVE  DrawnSoFar' /\ FiveOfTheDegree'
<1>1. CASE UNCHANGED <<pc, arg, mp1, drawn, shown>>
  <2>1. WithDegree(arg)' = WithDegree(arg)
    BY <1>1 DEF WithDegree, Numbers
  <2> QED BY <1>1, <2>1 DEF DrawIInv, DrawnSoFar, FiveOfTheDegree
<1>2. CASE pc' \notin {"draw", "selected"} /\ drawn' = {} /\ shown' = 0
  BY <1>2 DEF DrawnSoFar, FiveOfTheDegree
<1> QED BY <1>1, <1>2

LEMMA DrawNextIInv ==
  ASSUME DrawIInv, [Next]_vars
  PROVE  DrawnSoFar' /\ FiveOfTheDegree'
<1> USE DEF Goto, lists, st
<1>1. pc \notin {"draw", "selected"} => drawn = {} /\ shown = 0
  BY DEF DrawIInv, DrawnSoFar
<1>2. CASE \E r \in Roles : OtherRegisters(r) \/ \E v \in {"register", "login"} : OpenAccount(v, r)
  BY <1>1, <1>2, NotDrawing DEF OtherRegisters, OpenAccount
<1>3. CASE ServeRegister \/ ServeLogin
  BY <1>1, <1>3, NotDrawing DEF ServeRegister, ServeLogin, Back, Lost
<1>4. CASE Logout \/ Leave \/ Expire
  BY <1>1, <1>4, NotDrawing DEF Logout, Leave, Expire
<1>5. ASSUME NEW v \in ListViews, OpenList(v)
      PROVE  DrawnSoFar' /\ FiveOfTheDegree'
  <2>1. pc' \in {"list", "degree", "menu", "number"} /\ pc = "menu" /\ UNCHANGED st
    BY <1>5 DEF OpenList, Open, Fetch, Shown, ListViews
  <2> QED BY <1>1, <2>1, NotDrawing
<1>6. CASE ServeList
  BY <1>1, <1>6, NotDrawing DEF ServeList
<1>7. CASE ShowList
  <2>1. pc' \in {"degree", "menu", "number"} /\ pc = "listed" /\ UNCHANGED st
    BY <1>7 DEF ShowList, Shown, ListViews, DrawIInv, ListIInv, ListForAView
  <2> QED BY <1>1, <2>1, NotDrawing
<1>8. ASSUME NEW d \in Degrees, ChooseDegree(d)
      PROVE  DrawnSoFar' /\ FiveOfTheDegree'
  BY <1>8, ChooseDegreeStep
<1>9. ASSUME NEW d \in Degrees, OpenInsert(d)
      PROVE  DrawnSoFar' /\ FiveOfTheDegree'
  BY <1>1, <1>9, NotDrawing DEF OpenInsert, Open
<1>10. CASE DrawOne \/ Selected
  BY <1>10, DrawStep
<1>11. ASSUME NEW i \in Numbers, ChooseNumber(i)
       PROVE  DrawnSoFar' /\ FiveOfTheDegree'
  BY <1>1, <1>11, NotDrawing DEF ChooseNumber
<1>12. CASE ServeInsert \/ ServeDelete
  BY <1>1, <1>12, NotDrawing DEF ServeInsert, ServeDelete, Back, Lost
<1>13. CASE Close \/ ListLost
  BY <1>1, <1>13, NotDrawing DEF Close, ListLost, Back, Lost
<1>14. ASSUME NEW f \in Fields, NEW c \in Questions, OtherClient(f, c)
       PROVE  DrawnSoFar' /\ FiveOfTheDegree'
  BY <1>14, NotDrawing DEF OtherClient
<1>15. CASE UNCHANGED vars
  BY <1>15, NotDrawing DEF vars
<1> QED BY <1>2, <1>3, <1>4, <1>5, <1>6, <1>7, <1>8, <1>9, <1>10, <1>11, <1>12, <1>13,
           <1>14, <1>15 DEF Next, ListViews, Questions

THEOREM DrawInvariance == Spec => []DrawIInv
<1>1. Init => DrawIInv
  <2> SUFFICES ASSUME Init PROVE DrawIInv
    OBVIOUS
  <2> QED BY ListInitIInv DEF Init, DrawIInv, DrawnSoFar, FiveOfTheDegree
<1>2. DrawIInv /\ [Next]_vars => DrawIInv'
  BY ListNextIInv, DrawNextIInv DEF DrawIInv
<1> QED BY <1>1, <1>2, PTL DEF Spec

(***************************************************************************)
(* SelectQues shows a student Draws different questions of the degree, or  *)
(* all of them if there are not more.                                      *)
(***************************************************************************)
THEOREM DrawsTheDegree == Spec => []FiveOfTheDegree
<1>1. DrawIInv => FiveOfTheDegree
  BY DEF DrawIInv
<1> QED BY <1>1, DrawInvariance, PTL

(***************************************************************************)
(* The loop of SelectQues that draws a number can always draw a new one.   *)
(***************************************************************************)
THEOREM DrawingEnds == Spec => []OneIsLeft
<1>1. DrawIInv => OneIsLeft
  <2> SUFFICES ASSUME DrawIInv, pc = "draw"
               PROVE  \E i \in WithDegree(arg) : i \notin drawn
    BY DEF OneIsLeft
  <2>1. drawn \subseteq WithDegree(arg) /\ Cardinality(drawn) <= Draws
    BY DEF DrawIInv, DrawnSoFar
  <2>2. Draws < Cardinality(WithDegree(arg)) /\ Draws \in Nat
    BY DrawsAssumption DEF DrawIInv, DrawnSoFar
  <2>3. /\ Cardinality(WithDegree(arg)) \in Nat
        /\ IsFiniteSet(drawn) /\ Cardinality(drawn) \in Nat
    BY <2>1, NumbersAreFinite, FS_Subset, FS_CardinalityType DEF DrawIInv
  <2>4. drawn # WithDegree(arg)
    BY <2>1, <2>2, <2>3
  <2> QED BY <2>1, <2>4
<1> QED BY <1>1, DrawInvariance, PTL
=============================================================================
