----------------------------- MODULE ClientView -----------------------------
(***************************************************************************)
(* A client, src/client/view.cpp and src/client/client.cpp: menus, and     *)
(* views that send one request and wait for its answer.  The client keeps  *)
(* the list of all questions for an hour (mp1 holds the fields, mp2 the    *)
(* questions, both by the number the user sees), and lets its user delete  *)
(* by that number while other clients insert and delete.                   *)
(*                                                                         *)
(* The server is seen from here as a bank of questions by field, which     *)
(* each request reads or changes at once; QuestionStore is what it does,   *)
(* and says what a listing may show of questions written meanwhile.  The   *)
(* other clients are whatever changes the bank besides.  Of the accounts   *)
(* only the type counts; UserDirectory is what the server does with them.  *)
(* A user who types nonsense three times, or a number that is not there,   *)
(* is back in the menu.                                                    *)
(***************************************************************************)
EXTENDS Naturals, Sequences, FiniteSets, SequencesExt

CONSTANTS Roles,      \* what accounts log in: students, teachers or both
          Fields,     \* the fields the server may choose for a question
          DegreeOf,   \* the degree in a field's name (1 to 5)
          TableOf,    \* when GetAllQues lists the hash the field is in (1 to 25)
          Contents,   \* the questions
          Absent,     \* no question
          Draws,      \* how many questions a student gets (5)
          Faults      \* whether requests may fail and the server may be lost

ASSUME RolesAssumption == Roles \subseteq {"student", "teacher"}
ASSUME DegreeAssumption == IsFiniteSet(Fields) /\ DegreeOf \in [Fields -> Nat]
ASSUME TableAssumption == TableOf \in [Fields -> Nat]
ASSUME AbsentAssumption == Absent \notin Fields \cup Contents
ASSUME DrawsAssumption == Draws \in Nat /\ Faults \in BOOLEAN

VARIABLES
  bank,      \* the questions of the server
  users,     \* the types of the accounts it has
  menu,      \* where the user is: Run, StudentRun or TeacherRun
  view,      \* the view that is shown, or none
  pc,        \* where it is in Process
  mp1, mp2,  \* the fields and the questions by number
  fresh,     \* whether tv has not passed
  arg,       \* the type, the degree or the number that the user chose
  reply,     \* what the server answered
  drawn,     \* SelectQues: st, the numbers (in mp2) drawn so far
  shown,     \* and how many questions it has shown
  touched    \* history: fields that changed since the last list was fetched

lists == <<mp1, mp2, fresh>>
st == <<drawn, shown>>
vars == <<bank, users, menu, view, pc, lists, arg, reply, drawn, shown, touched>>

Stored == {f \in Fields : bank[f] # Absent}
Degrees == {DegreeOf[f] : f \in Fields}
Numbers == 1..Len(mp1)

Init ==
  /\ bank \in [Fields -> Contents \cup {Absent}]
  /\ users = {}
  /\ menu = "main"
  /\ view = "none"
  /\ pc = "menu"
  /\ mp1 = <<>>
  /\ mp2 = <<>>
  /\ fresh = TRUE
  /\ arg = Absent
  /\ reply = <<>>
  /\ drawn = {}
  /\ shown = 0
  /\ touched = {}

Goto(l) == pc' = l

Back ==
  /\ Goto("menu")
  /\ view' = "none"
  /\ arg' = Absent
  /\ drawn' = {}
  /\ shown' = 0

(***************************************************************************)
(* The view gets no answer, because the server is lost: the client exits.  *)
(***************************************************************************)
Lost ==
  /\ Faults
  /\ Goto("gone")
  /\ UNCHANGED <<view, arg, st>>

-----------------------------------------------------------------------------
(* The main menu. *)

(***************************************************************************)
(* Register and Login ask for an account and its type, send it and wait.   *)
(***************************************************************************)
OpenAccount(v, r) ==
  /\ pc = "menu" /\ menu = "main" /\ view = "none"
  /\ view' = v
  /\ arg' = r
  /\ Goto("account")
  /\ UNCHANGED <<bank, users, menu, lists, reply, st, touched>>

(***************************************************************************)
(* Back to the main menu, whatever the answer was: an account was made, or *)
(* not, or made although the answer says that it was not; or the client    *)
(* exits, because there is no answer.                                      *)
(***************************************************************************)
ServeRegister ==
  /\ pc = "account" /\ view = "register"
  /\ users' = users \cup {arg} \/ UNCHANGED users
  /\ Back \/ Lost
  /\ UNCHANGED <<bank, menu, lists, reply, touched>>

(***************************************************************************)
(* DealLogin: the menu that opens is the one of the type the user typed,   *)
(* if the answer was IM_OK.                                                *)
(***************************************************************************)
Granted == IF arg \in users THEN arg ELSE "main"

ServeLogin ==
  /\ pc = "account" /\ view = "login"
  /\ \/ Back /\ menu' \in {Granted, "main"}
     \/ Lost /\ UNCHANGED menu
  /\ UNCHANGED <<bank, users, lists, reply, touched>>

(***************************************************************************)
(* Leaving the menu of a role leads back to the main one, and does not     *)
(* forget the lists; leaving the main one ends the client.                 *)
(***************************************************************************)
Logout ==
  /\ pc = "menu" /\ menu # "main" /\ view = "none"
  /\ menu' = "main"
  /\ UNCHANGED <<bank, users, view, pc, lists, arg, reply, st, touched>>

Leave ==
  /\ pc = "menu" /\ menu = "main" /\ view = "none"
  /\ Goto("gone")
  /\ UNCHANGED <<bank, users, menu, view, lists, arg, reply, st, touched>>

-----------------------------------------------------------------------------
(* The lists. *)

KeepLists == UNCHANGED <<mp1, mp2>>   \* mutant: mp1.clear() is forgotten
ClearLists == mp1' = <<>> /\ mp2' = <<>>

(***************************************************************************)
(* Send GETALL (lines 223 to 238, 546 to 561 and 736 to 751).              *)
(***************************************************************************)
Fetch ==
  /\ fresh' = TRUE
  /\ ClearLists
  /\ Goto("list")

Overwrite(old, new) ==
  [i \in 1..(IF Len(old) > Len(new) THEN Len(old) ELSE Len(new)) |->
     IF i <= Len(new) THEN new[i] ELSE old[i]]

(***************************************************************************)
(* The answer is a sequence of pairs of a field and a question; lines 258  *)
(* to 272, 586 to 600 and 772 to 786 number them.  An answer that reports  *)
(* a failure has IM_OK too, and is parsed as a list with nothing in it.    *)
(***************************************************************************)
Parse ==
  /\ mp1' = Overwrite(mp1, [i \in DOMAIN reply |-> reply[i][1]])
  /\ mp2' = Overwrite(mp2, [i \in DOMAIN reply |-> reply[i][2]])
  /\ reply' = <<>>

(***************************************************************************)
(* What each view does once it has a list.                                 *)
(***************************************************************************)
Shown(v) ==
  CASE v = "select" -> "degree"
    [] v = "getall" -> "menu"
    [] v = "flush" -> "menu"
    [] v = "delete" -> "number"

Open(v) ==
  /\ pc = "menu" /\ view = "none"
  /\ menu = IF v = "select" THEN "student" ELSE "teacher"
  /\ view' = v

(***************************************************************************)
(* SelectQues and GetAllQues fetch if a list is empty or the hour is over, *)
(* DelQues only if one is empty, FlushQues always.                         *)
(***************************************************************************)
Stale(v) ==
  \/ v = "flush"
  \/ mp1 = <<>> \/ mp2 = <<>>
  \/ v \in {"select", "getall"} /\ ~fresh

OpenList(v) ==
  /\ Open(v)
  /\ \/ /\ Stale(v)
        /\ Fetch
     \/ /\ ~Stale(v)
        /\ Goto(Shown(v))
        /\ UNCHANGED lists
  /\ UNCHANGED <<bank, users, menu, arg, reply, st, touched>>

(***************************************************************************)
(* GetAllQues lists one hash after the other, string:1 to string:5, then   *)
(* list:1 to list:5 and so on, and those of a hash in whatever order Redis *)
(* keeps them.                                                             *)
(***************************************************************************)
Listings ==
  {r \in SetToSeqs({<<f, bank[f]>> : f \in Stored}) :
     \A i, j \in DOMAIN r : i < j => TableOf[r[i][1]] <= TableOf[r[j][1]]}

ServeList ==
  /\ pc = "list"
  /\ \/ \E r \in Listings : reply' = r
     \/ Faults /\ reply' = <<>>
  /\ touched' = {}
  /\ Goto("listed")
  /\ UNCHANGED <<bank, users, menu, view, lists, arg, st>>

ShowList ==
  /\ pc = "listed"
  /\ Parse
  /\ Goto(Shown(view))
  /\ UNCHANGED <<bank, users, menu, view, fresh, arg, st, touched>>

(***************************************************************************)
(* An hour passes.                                                         *)
(***************************************************************************)
Expire ==
  /\ fresh
  /\ fresh' = FALSE
  /\ UNCHANGED <<bank, users, menu, view, pc, mp1, mp2, arg, reply, st, touched>>

-----------------------------------------------------------------------------
(* SelectQues. *)

WithDegree(d) == {i \in Numbers : DegreeOf[mp1[i]] = d}

ListIsShort(d) == Len(mp1) <= Draws   \* mutant: mp1.size() for vc.size()
FewEnough(d) == Cardinality(WithDegree(d)) <= Draws

ChooseDegree(d) ==
  /\ pc = "degree"
  /\ arg' = d
  /\ \/ /\ FewEnough(d)
        /\ drawn' = WithDegree(d)
        /\ shown' = Cardinality(WithDegree(d))
        /\ Goto("selected")
     \/ /\ ~FewEnough(d)
        /\ Goto("draw")
        /\ UNCHANGED st
  /\ UNCHANGED <<bank, users, menu, view, lists, reply, touched>>

(***************************************************************************)
(* Lines 363 to 375: five times, rand until the number is not in st, and   *)
(* show it.  A number that was drawn before changes nothing.               *)
(***************************************************************************)
Repeated(i) == TRUE   \* mutant: st.find is forgotten
Unseen(i) == i \notin drawn

DrawOne ==
  /\ pc = "draw" /\ shown < Draws
  /\ \E i \in WithDegree(arg) :
       /\ Unseen(i)
       /\ drawn' = drawn \cup {i}
  /\ shown' = shown + 1
  /\ UNCHANGED <<bank, users, menu, view, pc, lists, arg, reply, touched>>

Selected ==
  /\ pc = "draw" /\ shown = Draws
  /\ Goto("selected")
  /\ UNCHANGED <<bank, users, menu, view, lists, arg, reply, st, touched>>

-----------------------------------------------------------------------------
(* InsertQues and DelQues. *)

OpenInsert(d) ==
  /\ Open("insert")
  /\ arg' = d
  /\ Goto("insert")
  /\ UNCHANGED <<bank, users, menu, lists, reply, st, touched>>

Change(f, q) ==
  /\ bank' = [bank EXCEPT ![f] = q]
  /\ touched' = touched \cup {f}

(***************************************************************************)
(* Whether a request was carried out or not, its answer may not come.      *)
(***************************************************************************)
ServeInsert ==
  /\ pc = "insert"
  /\ \/ \E f \in Fields, q \in Contents : DegreeOf[f] = arg /\ Change(f, q)
     \/ Faults /\ UNCHANGED <<bank, touched>>
  /\ Back \/ Lost
  /\ UNCHANGED <<users, menu, lists, reply>>

ChooseNumber(i) ==
  /\ pc = "number"
  /\ arg' = i
  /\ Goto("delete")
  /\ UNCHANGED <<bank, users, menu, view, lists, reply, st, touched>>

CountFromZero == mp1[IF arg = 1 THEN Len(mp1) ELSE arg - 1]   \* mutant
Numbered == mp1[arg]

ServeDelete ==
  /\ pc = "delete"
  /\ \/ LET f == Numbered
        IN  IF bank[f] = Absent THEN UNCHANGED <<bank, touched>> ELSE Change(f, Absent)
     \/ Faults /\ UNCHANGED <<bank, touched>>
  /\ Back \/ Lost
  /\ UNCHANGED <<users, menu, lists, reply>>

-----------------------------------------------------------------------------

(***************************************************************************)
(* The user is back in the menu: the view is done, or gave up after three  *)
(* wrong inputs.                                                           *)
(***************************************************************************)
Close ==
  /\ pc \in {"degree", "number", "selected"} \/ (pc = "menu" /\ view # "none")
  /\ Back
  /\ UNCHANGED <<bank, users, menu, lists, reply, touched>>

ListLost ==
  /\ pc = "list"
  /\ Lost
  /\ UNCHANGED <<bank, users, menu, lists, reply, touched>>

(***************************************************************************)
(* Another client inserts or deletes a question, or registers.             *)
(***************************************************************************)
OtherClient(f, q) ==
  /\ bank[f] # q
  /\ Change(f, q)
  /\ UNCHANGED <<users, menu, view, pc, lists, arg, reply, st>>

OtherRegisters(r) ==
  /\ users' = users \cup {r}
  /\ UNCHANGED <<bank, menu, view, pc, lists, arg, reply, st, touched>>

Next ==
  \/ \E r \in Roles : OtherRegisters(r) \/ \E v \in {"register", "login"} : OpenAccount(v, r)
  \/ ServeRegister \/ ServeLogin \/ Logout \/ Leave
  \/ \E v \in {"select", "getall", "flush", "delete"} : OpenList(v)
  \/ ServeList \/ ShowList \/ Expire
  \/ \E d \in Degrees : ChooseDegree(d) \/ OpenInsert(d)
  \/ DrawOne \/ Selected
  \/ \E i \in Numbers : ChooseNumber(i)
  \/ ServeInsert \/ ServeDelete
  \/ Close \/ ListLost
  \/ \E f \in Fields, q \in Contents \cup {Absent} : OtherClient(f, q)

Spec == Init /\ [][Next]_vars

-----------------------------------------------------------------------------
(* Properties. *)

(***************************************************************************)
(* What a client shows under a number differs from the bank only if        *)
(* somebody changed that field since the list was fetched: it never mixes  *)
(* two lists, or a field with another one's question.                      *)
(***************************************************************************)
StaleOnlyIfTouched ==
  \A i \in Numbers : mp1[i] \notin touched => bank[mp1[i]] = mp2[i]

(***************************************************************************)
(* DelQues deletes by field what the user chose by number, from a list     *)
(* that may be old.  What goes is the question that was on the screen      *)
(* under that number, and no other, unless its field was written anew      *)
(* since the list was fetched.                                             *)
(***************************************************************************)
DeletesWhatWasShown ==
  [][pc = "delete" /\ pc' # "delete" /\ bank' # bank =>
       LET f == mp1[arg]
       IN  /\ bank' = [bank EXCEPT ![f] = Absent]
           /\ f \in touched \/ bank[f] = mp2[arg]]_vars

(***************************************************************************)
(* A student gets five questions of the degree that was chosen, or all     *)
(* there are in the list, and none of them twice, whoever filled the list  *)
(* and when.                                                               *)
(***************************************************************************)
FiveOfTheDegree ==
  pc = "selected" =>
    LET all == WithDegree(arg)
    IN  /\ drawn \subseteq all
        /\ Cardinality(drawn) = shown
        /\ shown = IF Cardinality(all) < Draws THEN Cardinality(all) ELSE Draws

(***************************************************************************)
(* The loop that draws until a number is new is not endless: as long as it *)
(* has questions to show, the list has one of the degree that was not      *)
(* drawn.  Only the size of vc, tested before, says so.                    *)
(***************************************************************************)
OneIsLeft ==
  pc = "draw" /\ shown < Draws => \E i \in WithDegree(arg) : i \notin drawn
=============================================================================
