------------------------------ MODULE Importer ------------------------------
(***************************************************************************)
(* The tool that fills the question tables, src/server/insert/main.cpp: it *)
(* empties Redis and then stores a fixed list of questions, each in a      *)
(* field it draws at random of the hash of its type and degree.  It talks  *)
(* to the master while the server may be up, whose clients insert and      *)
(* delete questions too.                                                   *)
(***************************************************************************)
EXTENDS RedisPool

CONSTANTS Keys,       \* the hashes, <type>:<degree>
          Fields,     \* the numbers of rand() % 9999 + 1
          Questions,  \* the key of each question of the list
          Nothing,    \* a field that is not there
          Old,        \* a question that was stored before, or by a client
          MaxOthers   \* bound on the writes of clients

ASSUME QuestionsAssumption == Questions \in Seq(Keys) /\ Questions # <<>>
ASSUME NothingAssumption == {Nothing, Old} \cap (1..Len(Questions)) = {}

VARIABLES
  table,   \* the field of each hash, with the number of the question in it
  at,      \* the command the tool is at
  q,       \* the question it is at
  field,   \* the field it drew last
  asked,   \* the field in the text of the hexists command
  others,  \* the number of writes by clients
  refused  \* history: a command got an error, or no answer

toolVars == <<table, at, q, field, asked, others, refused>>
importVars == <<poolVars, toolVars>>

Key == Questions[q]
Numbers == 1..Len(Questions)
Empty == [k \in Keys |-> [f \in Fields |-> Nothing]]

ImportInit ==
  /\ PoolInit
  /\ table \in [Keys -> [Fields -> {Nothing, Old}]]
  /\ at = "flushdb"
  /\ q = 1
  /\ field \in Fields
  /\ asked = field
  /\ others = 0
  /\ refused = FALSE

Goto(l) == at' = l /\ UNCHANGED <<q, field>>

(***************************************************************************)
(* Line 13: the flag of Exist is ignored, which is -1 also if all is well. *)
(***************************************************************************)
FlushDb ==
  /\ at = "flushdb"
  /\ \/ Answered /\ table' = Empty /\ UNCHANGED refused
     \/ Answered /\ UNCHANGED table /\ refused' = TRUE
     \/ Unanswered /\ table' \in {table, Empty} /\ refused' = TRUE
     \/ NotSent /\ UNCHANGED <<table, refused>>
  /\ Goto("exists")
  /\ UNCHANGED <<asked, others>>

(***************************************************************************)
(* A command that is answered by an error, or not at all, ends the tool.   *)
(***************************************************************************)
CommandFails ==
  /\ at \in {"exists", "hexists"}
  /\ \/ (Answered \/ Unanswered) /\ refused' = TRUE
     \/ NotSent /\ UNCHANGED refused
  /\ Goto("stopped")
  /\ UNCHANGED <<table, asked, others>>

ExistsKey ==
  /\ at = "exists"
  /\ Answered
  /\ \/ table[Key] = Empty[Key] /\ Goto("hset") /\ UNCHANGED asked
     \/ table[Key] # Empty[Key] /\ Goto("hexists") /\ asked' = field
  /\ UNCHANGED <<table, others, refused>>

(***************************************************************************)
(* The loop draws another field while the answer is 1, but cmd still names *)
(* the first one.                                                          *)
(***************************************************************************)
NeverStored == FALSE   \* mutant
Stored == table[Key][asked] # Nothing

HExists ==
  /\ at = "hexists"
  /\ Answered
  /\ \/ Stored /\ field' \in Fields /\ UNCHANGED <<at, q>>
     \/ ~Stored /\ Goto("hset")
  /\ UNCHANGED <<table, asked, others, refused>>

(***************************************************************************)
(* HSET answers 1 for a new field and 0 for one it has overwritten, which  *)
(* Insert takes for a failure.                                             *)
(***************************************************************************)
SetField == table' = [table EXCEPT ![Key][field] = q]

NextQuestion ==
  IF q = Len(Questions) THEN Goto("done")
  ELSE /\ at' = "exists"
       /\ q' = q + 1
       /\ field' \in Fields

HSet ==
  /\ at = "hset"
  /\ \/ /\ Answered /\ SetField /\ UNCHANGED refused
        /\ IF table[Key][field] = Nothing THEN NextQuestion ELSE Goto("stopped")
     \/ Answered /\ UNCHANGED table /\ refused' = TRUE /\ Goto("stopped")
     \/ Unanswered /\ (SetField \/ UNCHANGED table) /\ refused' = TRUE /\ Goto("stopped")
     \/ NotSent /\ UNCHANGED <<table, refused>> /\ Goto("stopped")
  /\ UNCHANGED <<asked, others>>

Ended == at \in {"done", "stopped"}

Tool ==
  \/ ~Ended /\ (GetOneConnect \/ GetNothing) /\ UNCHANGED toolVars
  \/ FlushDb \/ ExistsKey \/ HExists \/ HSet \/ CommandFails

(***************************************************************************)
(* A client of the server stores a question or deletes one.                *)
(***************************************************************************)
Client(k, f, v) ==
  /\ others < MaxOthers
  /\ table[k][f] # v
  /\ table' = [table EXCEPT ![k][f] = v]
  /\ others' = others + 1
  /\ UNCHANGED <<poolVars, at, q, field, asked, refused>>

ImportNext ==
  \/ Tool
  \/ \E c \in Conns : Break(c) /\ UNCHANGED toolVars
  \/ \E k \in Keys, f \in Fields : Client(k, f, Old) \/ Client(k, f, Nothing)

ImportSpec == ImportInit /\ [][ImportNext]_importVars /\ WF_importVars(Tool)

-----------------------------------------------------------------------------
(* Properties. *)

Places(n) == {p \in Keys \X Fields : table[p[1]][p[2]] = n}

(***************************************************************************)
(* Unless clients write as well, the questions before the current one are  *)
(* stored, each once and under its own key, whatever numbers are drawn and *)
(* whether or not the flush took place; none after it is.                  *)
(***************************************************************************)
ImportedInOrder ==
  others = 0 =>
    \A n \in Numbers :
      /\ n < q \/ at = "done" => \E f \in Fields : Places(n) = {<<Questions[n], f>>}
      /\ n > q => Places(n) = {}
      /\ n = q => Cardinality(Places(n)) <= 1

(***************************************************************************)
(* One broken connection does not stop the tool: it stops halfway only     *)
(* because a command was refused or cut off, because both connections are  *)
(* lost to the pool, or because a client wrote meanwhile.                  *)
(***************************************************************************)
StopsOnlyIfCut ==
  at = "stopped" => refused \/ pool = <<>> \/ others > 0

(***************************************************************************)
(* The tool comes to an end, unless it asks for ever for one field that    *)
(* was stored when it first asked.                                         *)
(***************************************************************************)
EndsOrAsksForEver ==
  \/ <>Ended
  \/ <>[](at = "hexists" /\ Stored)
=============================================================================
