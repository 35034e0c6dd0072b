------------------------------ MODULE Migration ------------------------------
(***************************************************************************)
(* The Python migration tool (src/rosplus/migration.py): what it makes of  *)
(* a ROS 1 node, and how migrate_tree walks a source tree and writes the   *)
(* output tree with the report.                                            *)
(*                                                                         *)
(* A source file is the set of the constructs in it that the tool tells    *)
(* apart.  Their sequence does not matter: the tool visits each by itself. *)
(* In the output tree path k is where the node of file k goes; the test    *)
(* scaffolds go to paths of their own, or to one of those.                 *)
(***************************************************************************)
EXTENDS Naturals, FiniteSets, Sequences

CONSTANTS
  Files,     \* How many files there are, in the order of sorted(rglob).
  Contents,  \* The sets of constructs a file may have.
  Layouts,   \* Where the test of each file may go: functions of 1..Files.
  Attempts,  \* Bound: how often the tool is started on one output.
  None

(* Constructs: import forms, calls of rospy, other references.             *)
(*   import rospy / import rospy as r / from rospy import                  *)
(*   import rospy.x or from rospy.x import                                 *)
(*   import tf, actionlib, dynamic_reconfigure                             *)
(*   a call with options that line 72 or 73 looks for: any of init_node's, *)
(*   keywords of Publisher and Subscriber other than queue_size            *)
(*   one that has no counterpart; a bare reference such as an exception    *)
(*   what is rewritten without a warning: a call as the helpers take it,   *)
(*   and one they do not take with options that no line looks for:         *)
(*   positional ones of Publisher and Subscriber (callback_args becomes    *)
(*   queue_size), any of Rate and spin, keywords of a log call             *)
(* and files that cannot be read (not UTF-8, a directory), do not parse,   *)
(* or are symbolic links.                                                  *)
Constructs ==
  {"import", "alias", "submodule", "from", "unsupported", "reviewed", "silent", "other",
   "reference", "unreadable", "syntax", "symlink"}

VARIABLES
  place,     \* where the output is: the source, inside, above, or apart
  dry,       \* --dry-run
  tests,     \* not --no-tests
  layout,    \* where the test of each file goes
  attempt,   \* which start of the tool this is
  content,   \* what the files are found to hold
  pc,        \* what migrate_tree does
  file,      \* the file it is at
  outputs,   \* MigrationResult.outputs
  manual,    \* files_manual > 0
  written,   \* the paths of the output tree that hold a migrated node
  scaffold,  \* and those that hold a test
  report,    \* migration_result.json: the result it holds
  code       \* the exit status of turbo

migrationVars == <<place, dry, tests, layout, attempt, content, pc, file, outputs, manual,
                   written, scaffold, report, code>>
choices == <<place, dry, tests, layout, attempt>>

-----------------------------------------------------------------------------
(* What Transform and migrate_python do with the constructs of a file.     *)

(* A file is looked at when it imports rospy, or from rospy. *)
Detected(c) == c \cap {"import", "alias", "from"} # {}

(* visit_Import, visit_ImportFrom and visit_Call: of the options of a call *)
(* only the reviewed ones leave a warning.                                 *)
TransformWarns(c) == c \cap {"alias", "from", "reviewed", "other"} # {}

(* The walk over the result: a name rospy, or a module that has no         *)
(* counterpart.                                                            *)
WalkWarns(c) == c \cap {"other", "reference", "unsupported"} # {}

Warned(c) == TransformWarns(c) \/ WalkWarns(c)

-----------------------------------------------------------------------------
MigrationInit ==
  /\ place \in {"source", "inside", "above", "apart"}
  /\ dry \in BOOLEAN /\ tests \in BOOLEAN /\ layout \in Layouts
  /\ attempt = 1
  /\ content = [k \in 1..Files |-> None]
  /\ pc = "check" /\ file = 1
  /\ outputs = {} /\ manual = FALSE
  /\ written = {} /\ scaffold = {} /\ report = None
  /\ code = None

(* Another command of turbo runs. *)
Unused ==
  /\ place = "apart" /\ dry = TRUE /\ tests = FALSE /\ layout \in Layouts /\ attempt = 1
  /\ content = [k \in 1..Files |-> None]
  /\ pc = "exit" /\ file = 1
  /\ outputs = {} /\ manual = FALSE
  /\ written = {} /\ scaffold = {} /\ report = None
  /\ code = None

(* output.exists() and any(output.iterdir()): above the source there is    *)
(* always the source.                                                      *)
Occupied == place = "above" \/ written # {} \/ scaffold # {} \/ report # None

Outside == place \notin {"source", "inside"}
BugAccepted == Outside /\ place # "above"  \* an output with files in it is accepted
Accepted    == Outside /\ ~Occupied

Check ==
  /\ pc = "check"
  /\ IF Accepted THEN pc' = "scan" /\ UNCHANGED code ELSE pc' = "exit" /\ code' = 1
  /\ UNCHANGED <<choices, content, file, outputs, manual, written, scaffold, report>>

(* A link, a file that does not parse, one that has nothing of rospy, or   *)
(* one to migrate.  What cannot be read ends the program.                  *)
Scan ==
  /\ pc = "scan" /\ file <= Files
  /\ \E c \in Contents :
       /\ content' = [content EXCEPT ![file] = c]
       /\ CASE "symlink" \in c -> manual' = TRUE /\ file' = file + 1 /\ UNCHANGED <<pc, outputs, code>>
            [] "symlink" \notin c /\ "unreadable" \in c ->
                 pc' = "exit" /\ code' = 1 /\ UNCHANGED <<file, outputs, manual>>
            [] c \cap {"symlink", "unreadable"} = {} /\ "syntax" \in c ->
                 manual' = TRUE /\ file' = file + 1 /\ UNCHANGED <<pc, outputs, code>>
            [] c \cap {"symlink", "unreadable", "syntax"} = {} /\ ~Detected(c) ->
                 file' = file + 1 /\ UNCHANGED <<pc, outputs, manual, code>>
            [] OTHER ->
                 /\ outputs' = outputs \union {file}
                 /\ manual' = (manual \/ Warned(c))
                 /\ IF dry THEN file' = file + 1 /\ UNCHANGED pc ELSE pc' = "write" /\ UNCHANGED file
                 /\ UNCHANGED code
  /\ UNCHANGED <<choices, written, scaffold, report>>

(* A file written where there is one takes its place. *)
PutNode(k) == written' = written \union {k} /\ scaffold' = scaffold \ {k}
PutTest(t) == scaffold' = scaffold \union {t} /\ written' = written \ {t}

Write ==
  /\ pc = "write"
  /\ PutNode(file)
  /\ IF tests THEN pc' = "test" /\ UNCHANGED file ELSE pc' = "scan" /\ file' = file + 1
  /\ UNCHANGED <<choices, content, outputs, manual, report, code>>

(* tests/test_<path with _ for />_migration.py: two files may have one,    *)
(* and so may a test and the node of a file that is under tests/ itself.   *)
WriteTest ==
  /\ pc = "test"
  /\ PutTest(layout[file])
  /\ pc' = "scan" /\ file' = file + 1
  /\ UNCHANGED <<choices, content, outputs, manual, report, code>>

Status == IF manual THEN "partial" ELSE "unvalidated"

(* The report is written last, whatever became of the files, and turbo     *)
(* exits with 2: no status says "success".                                 *)
Complete    == file > Files

WriteReport ==
  /\ pc = "scan" /\ Complete
  /\ report' = IF dry THEN report ELSE [status |-> Status, outputs |-> outputs]
  /\ pc' = "exit"
  /\ code' = IF Status # "success" THEN 2 ELSE 0
  /\ UNCHANGED <<choices, content, file, outputs, manual, written, scaffold>>

(* A write that fails, a process that is killed: what is written stays, a  *)
(* file that is half written too.                                          *)
Fail ==
  /\ pc \in {"scan", "write", "test"}
  /\ pc' = "exit" /\ code' = 1
  /\ \/ UNCHANGED <<written, scaffold>>
     \/ pc = "write" /\ PutNode(file)
     \/ pc = "test" /\ PutTest(layout[file])
  /\ UNCHANGED <<choices, content, file, outputs, manual, report>>

(* The tool is started again, on sources that may have been edited.        *)
Restart ==
  /\ pc = "exit" /\ attempt < Attempts
  /\ attempt' = attempt + 1
  /\ dry' \in BOOLEAN /\ tests' \in BOOLEAN
  /\ content' = [k \in 1..Files |-> None]
  /\ pc' = "check" /\ file' = 1
  /\ outputs' = {} /\ manual' = FALSE /\ code' = None
  /\ UNCHANGED <<place, layout, written, scaffold, report>>

MigrationNext == Check \/ Scan \/ Write \/ WriteTest \/ WriteReport \/ Fail \/ Restart

-----------------------------------------------------------------------------
(* The report on disk describes the output tree: every node it lists is at *)
(* its path, unless the test of a listed file has been written over it,    *)
(* the tests of the listed files are there, all or none, unless a node is, *)
(* and nothing else is there: all of it comes from the same run, whatever  *)
(* failed before and however often the tool is started again.  And nothing *)
(* is ever written among the sources (migration.py:101-102,121).           *)
TestsOf(nodes) == {layout[k] : k \in nodes}

ReportIsComplete ==
  /\ report # None =>
       /\ written \subseteq report.outputs /\ scaffold \subseteq TestsOf(report.outputs)
       /\ report.outputs \subseteq written \union scaffold
       /\ scaffold = {} \/ TestsOf(report.outputs) \subseteq written \union scaffold
  /\ (written # {} \/ scaffold # {} \/ report # None) => place = "apart"
=============================================================================
