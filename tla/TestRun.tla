------------------------------ MODULE TestRun ------------------------------
(***************************************************************************)
(* Test suites: what BUILD of the :BLUDTEST: operator does for each test   *)
(* of a :TEST: suite.  A test has a source, a file or a directory, and a   *)
(* workspace below the output directory.  The source is copied into the    *)
(* workspace when it differs, the action runs there, and an empty file     *)
(* marks a test that passed.                                               *)
(*                                                                         *)
(* All these names are relative.  The order-only prerequisites of a test   *)
(* are built by ordinary actions, whose cd lasts (shell.lua cd), so that   *)
(* from then on the same names are those of other files: what a test has   *)
(* is kept for every place from which its names are resolved.              *)
(*                                                                         *)
(* Any step may fail or be the last one of a process that is killed, and   *)
(* sources are edited at any time, so that workspace, marker and source    *)
(* can get out of step.                                                    *)
(***************************************************************************)
EXTENDS Naturals, Sequences

CONSTANTS
  Test,          \* the tests
  Name,          \* the names of files in a source
  Dot,           \* the reserved key of a directory's entries
  Content,       \* what a file may hold
  None, Torn,    \* no file; a file that was written in part
  Home, Away,    \* where the update of the suite starts; where an action may cd to
  Suites, MaxInvocations, MaxEdits

Missing == 0
Leaf == 1
Directory == 2
Regular == 3

File == Content \cup {None, Torn}

Place == {Home, Away}
Site == Test \X Place          \* a test, and where its names are resolved

(* names: what a source holds in the order it is copied, the one file of a *)
(* file source or the sorted entries of a directory as dircache has them.  *)
(* commands: the tests to build, in order, and the options.  leads_to:     *)
(* where the actions of order-only prerequisites may cd.                   *)
Command == [tests : Seq(Test), always_make : BOOLEAN, just_print : BOOLEAN]
Suite == [ kind     : [Site -> {"file", "directory"}],
           names    : [Site -> Seq(Name \cup {Dot})],
           source   : [Site -> [Name -> Content \cup {None}]],
           work     : [Site -> {Missing, Directory, Regular}],
           leads_to : SUBSET Place,
           commands : SUBSET Command ]

ASSUME TestConstants ==
  /\ Suites \subseteq Suite
  /\ None \notin Content \cup {Torn} /\ Torn \notin Content
  /\ Dot \notin Name /\ Home # Away
  /\ MaxInvocations \in Nat \ {0} /\ MaxEdits \in Nat

VARIABLES
  suite, cmd,    \* the suite, fixed, and the command that runs or ran last
  source,        \* [site][name]: the files of the sources
  work,          \* the type of the workspace's path
  staged,        \* [site][name]: the files in the workspaces
  marker,        \* the type of the path of bludtest.pass
  cwd, cwd_stack,\* the working directory, and AliasDir's stack of them
  pc, next, entry,   \* the step, the test in cmd.tests, the name in a source
  source_changed,
  verdict,       \* history: how the last action on each workspace ended
  ran_on,        \* history: the files the last action started with
  moved,         \* history: a source was edited during this invocation
  tested_in,     \* history: the place of each test that was begun
  epoch, edits

files == <<work, staged, marker>>
place == <<cwd, cwd_stack>>
local == <<suite, cmd, next, entry, source_changed>>
history == <<verdict, ran_on, moved, tested_in, epoch, edits>>
vars == <<suite, cmd, source, files, place, pc, next, entry, source_changed, history>>

Halted == {"ok", "exit", "error", "killed"}
Running == {"test", "order", "compare", "stage", "copy", "decide", "unmark", "enter",
            "action", "leave", "mark", "return"}

(* In a workspace, the way back is where the names are resolved.           *)
here == IF cwd_stack = <<>> THEN cwd ELSE cwd_stack[1]
this == <<cmd.tests[next], here>>
Names(s) == suite.names[s]
name == Names(this)[entry]
Files(s) == {Names(s)[i] : i \in DOMAIN Names(s)} \ {Dot}

-----------------------------------------------------------------------------
Start ==
  /\ cwd' = Home /\ cwd_stack' = <<>>
  /\ pc' = "test" /\ next' = 1 /\ entry' = 1 /\ source_changed' = FALSE
  /\ moved' = FALSE /\ tested_in' = <<>>

Init ==
  /\ suite \in Suites /\ cmd \in suite.commands
  /\ source = suite.source /\ work = suite.work
  /\ staged = [s \in Site |-> [n \in Name |-> None]]
  /\ marker = [s \in Site |-> Missing]
  /\ cwd = Home /\ cwd_stack = <<>>
  /\ pc = "test" /\ next = 1 /\ entry = 1 /\ source_changed = FALSE
  /\ verdict = [s \in Site |-> "none"] /\ ran_on = staged
  /\ moved = FALSE /\ tested_in = <<>> /\ epoch = 1 /\ edits = 0

Invoke ==
  /\ pc \in Halted /\ epoch < MaxInvocations
  /\ cmd' \in suite.commands /\ Start /\ epoch' = epoch + 1
  /\ UNCHANGED <<suite, source, files, verdict, ran_on, edits>>

(* The suite builds its tests one after the other.                         *)
NextTest ==
  /\ pc = "test" /\ next <= Len(cmd.tests)
  /\ pc' = "order"
  /\ UNCHANGED <<local, source, files, place, history>>

AllTested ==
  /\ pc = "test" /\ next > Len(cmd.tests)
  /\ pc' = "ok"
  /\ UNCHANGED <<local, source, files, place, history>>

(* Each test first builds its order-only prerequisites, which end in any   *)
(* way an update may.  Nothing takes back a cd of their actions; with -n   *)
(* the actions are only printed.                                           *)
BuildOrderOnly ==
  /\ pc = "order"
  /\ pc' \in {"compare", "exit", "error"}
  /\ cwd' \in {cwd} \cup (IF cmd.just_print THEN {} ELSE suite.leads_to)
  /\ tested_in' = Append(tested_in, cwd')
  /\ UNCHANGED <<local, source, files, cwd_stack, verdict, ran_on, moved, epoch, edits>>

Return ==
  /\ pc = "return"
  /\ pc' = "test" /\ next' = next + 1
  /\ UNCHANGED <<suite, cmd, entry, source_changed, source, files, place, history>>

-----------------------------------------------------------------------------
(***************************************************************************)
(* Comparing and copying the source.                                       *)
(***************************************************************************)
(* os_path_type of a name in the workspace: the reserved key names the     *)
(* workspace itself, and a file is a regular one.                          *)
PathType(s, n) ==
  IF n = Dot THEN work[s] ELSE IF staged[s][n] = None THEN Missing ELSE Regular

(* files_equal looks for a leaf.                                           *)
FilesEqualAny(s, n) ==          \* mutant: any file that is there
  PathType(s, n) # Missing
FilesEqual(s, n) == PathType(s, n) = Leaf /\ staged[s][n] = source[s][n]

scompare(s) ==
  work[s] = Directory /\ \A i \in DOMAIN Names(s) : FilesEqual(s, Names(s)[i])

SourceGone ==
  /\ pc = "compare" /\ suite.kind[this] = "file" /\ source[this][name] = None
  /\ pc' = "error"              \* test source does not exist
  /\ UNCHANGED <<local, source, files, place, history>>

AfterCompareAlways(c) == IF c THEN "stage" ELSE "decide"   \* mutant: -n ignored
AfterCompare(c) == IF c /\ ~cmd.just_print THEN "stage" ELSE "decide"

Compare ==
  /\ pc = "compare" /\ ~(suite.kind[this] = "file" /\ source[this][name] = None)
  /\ source_changed' = ~scompare(this)
  /\ pc' = AfterCompare(~scompare(this))
  /\ UNCHANGED <<suite, cmd, next, entry, source, files, place, history>>

EnsureDirectory ==
  /\ pc = "stage"
  /\ \/ /\ work[this] # Regular
        /\ work' = [work EXCEPT ![this] = Directory] /\ pc' = "copy"
     \/ /\ work[this] # Directory      \* not a directory, or mkdir failed
        /\ pc' = "error" /\ UNCHANGED work
  /\ UNCHANGED <<local, source, staged, marker, place, history>>

UpdateFile ==
  /\ pc = "copy" /\ entry <= Len(Names(this)) /\ name # Dot
  /\ FilesEqual(this, name) \/ source[this][name] # None
  /\ staged' = IF FilesEqual(this, name) THEN staged
               ELSE [staged EXCEPT ![this][name] = source[this][name]]
  /\ entry' = entry + 1
  /\ UNCHANGED <<suite, cmd, next, source_changed, source, work, marker, place,
                 pc, history>>

(* os_copy_file truncates a file that exists, and removes one it created.  *)
UpdateFails ==
  /\ pc = "copy" /\ entry <= Len(Names(this)) /\ name # Dot
  /\ \E f \in {staged[this][name], Torn} :
       /\ staged[this][name] = None => f = None
       /\ staged' = [staged EXCEPT ![this][name] = f]
  /\ pc' = "error"
  /\ UNCHANGED <<local, source, work, marker, place, history>>

(* The reserved key is taken for a file; its destination is a directory.   *)
UpdateReservedKey ==
  /\ pc = "copy" /\ entry <= Len(Names(this)) /\ name = Dot
  /\ ~FilesEqual(this, name)
  /\ pc' = "error"              \* source is a file but destination is a directory
  /\ UNCHANGED <<local, source, files, place, history>>

Updated ==
  /\ pc = "copy" /\ entry > Len(Names(this))
  /\ pc' = "decide" /\ entry' = 1
  /\ UNCHANGED <<suite, cmd, next, source_changed, source, files, place, history>>

-----------------------------------------------------------------------------
(***************************************************************************)
(* Running the action, and the marker.                                     *)
(***************************************************************************)
mustrun(s) == cmd.always_make \/ source_changed \/ marker[s] # Leaf

Decide ==
  /\ pc = "decide"
  /\ pc' = IF ~mustrun(this) THEN "return"
           ELSE IF cmd.just_print THEN "action" ELSE "unmark"
  /\ UNCHANGED <<local, source, files, place, history>>

UnmarkNot == marker' = marker          \* mutant: the marker stays
Unmark == marker' = [marker EXCEPT ![this] = Missing]

RemoveMarker ==
  /\ pc = "unmark"
  /\ \/ marker[this] # Directory /\ Unmark /\ pc' = "enter"
     \/ marker[this] # Missing /\ pc' = "error" /\ UNCHANGED marker
  /\ UNCHANGED <<local, source, work, staged, place, history>>

(* execute_test_action: into the workspace with push_cwd, out with pop_cwd *)
(* however the action ended.                                               *)
EnterWorkspace ==
  /\ pc = "enter"
  /\ \/ /\ work[this] = Directory
        /\ cwd' = this /\ cwd_stack' = Append(cwd_stack, cwd)
        /\ pc' = "action"
        /\ verdict' = [verdict EXCEPT ![this] = "running"]
        /\ ran_on' = [ran_on EXCEPT ![this] = staged[this]]
     \/ /\ pc' = "error"        \* could not enter test workspace
        /\ UNCHANGED <<place, verdict, ran_on>>
  /\ UNCHANGED <<local, source, files, moved, tested_in, epoch, edits>>

(* An action may write over what was staged, and cd.                       *)
Disturb(s) ==
  staged' \in {staged} \cup {[staged EXCEPT ![s][n] = Torn] : n \in Name}

RunAction ==
  /\ pc = "action" /\ ~cmd.just_print
  /\ Disturb(this) /\ cwd' \in {cwd, Away}
  /\ \E v \in {"passed", "failed", "raised"} : verdict' = [verdict EXCEPT ![this] = v]
  /\ pc' = "leave"
  /\ UNCHANGED <<local, source, work, marker, cwd_stack, ran_on, moved, tested_in, epoch,
                 edits>>

PrintAction ==
  /\ pc = "action" /\ cmd.just_print
  /\ pc' = "return"
  /\ UNCHANGED <<local, source, files, place, history>>

PopNot == UNCHANGED place              \* mutant: no pop_cwd
Pop ==
  /\ cwd' = cwd_stack[Len(cwd_stack)]
  /\ cwd_stack' = SubSeq(cwd_stack, 1, Len(cwd_stack) - 1)

LeaveWorkspace ==
  /\ pc = "leave"
  /\ \/ /\ Pop
        /\ pc' = CASE verdict[this] = "passed" -> "mark"
                   [] verdict[this] = "failed" -> "exit"
                   [] verdict[this] = "raised" -> "error"
     \/ pc' = "error" /\ UNCHANGED place   \* could not restore directory
  /\ UNCHANGED <<local, source, files, history>>

WriteMarker ==
  /\ pc = "mark"
  /\ \/ marker' = [marker EXCEPT ![this] = Regular] /\ pc' = "return"
     \/ /\ pc' = "error"
        /\ marker' \in {marker, [marker EXCEPT ![this] = Regular]}
  /\ UNCHANGED <<local, source, work, staged, place, history>>

-----------------------------------------------------------------------------
Kill ==
  /\ pc \in Running
  /\ \/ UNCHANGED staged
     \/ /\ pc = "copy" /\ entry <= Len(Names(this)) /\ name # Dot
        /\ staged' = [staged EXCEPT ![this][name] = Torn]
     \/ pc = "action" /\ ~cmd.just_print /\ Disturb(this)
  /\ pc' = "killed"
  /\ UNCHANGED <<local, source, work, marker, place, history>>

Edit ==
  /\ edits < MaxEdits /\ edits' = edits + 1
  /\ \E s \in Test \X ({Home} \cup suite.leads_to), c \in Content \cup {None} :
       \E n \in Files(s) :
         c # source[s][n] /\ source' = [source EXCEPT ![s][n] = c]
  /\ moved' = TRUE
  /\ UNCHANGED <<local, files, place, pc, verdict, ran_on, tested_in, epoch>>

Stage == SourceGone \/ Compare \/ EnsureDirectory \/ UpdateFile \/ UpdateFails
         \/ UpdateReservedKey \/ Updated
Execute == Decide \/ RemoveMarker \/ EnterWorkspace \/ RunAction \/ PrintAction
           \/ LeaveWorkspace \/ WriteMarker

Stop == pc \in Halted /\ epoch = MaxInvocations /\ UNCHANGED vars

Next == Invoke \/ NextTest \/ AllTested \/ BuildOrderOnly \/ Return \/ Stage \/ Execute
        \/ Kill \/ Edit \/ Stop

Spec == Init /\ [][Next]_vars

-----------------------------------------------------------------------------
(***************************************************************************)
(* Properties.                                                             *)
(***************************************************************************)

(* Types of the variables. *)
TypeOK ==
  /\ suite \in Suites /\ cmd \in suite.commands
  /\ source \in [Site -> [Name -> Content \cup {None}]]
  /\ work \in [Site -> {Missing, Directory, Regular}]
  /\ staged \in [Site -> [Name -> File]]
  /\ marker \in [Site -> {Missing, Regular}]
  /\ cwd \in Site \cup Place /\ cwd_stack \in Seq(Place)
  /\ pc \in Running \cup Halted
  /\ next \in Nat \ {0} /\ entry \in Nat \ {0} /\ source_changed \in BOOLEAN
  /\ verdict \in [Site -> {"none", "running", "passed", "failed", "raised"}]
  /\ ran_on \in [Site -> [Name -> File]]
  /\ moved \in BOOLEAN /\ tested_in \in Seq(Place)
  /\ epoch \in 1 .. MaxInvocations /\ edits \in 0 .. MaxEdits

(* A pass marker stands for a passed run: whatever failed or was killed    *)
(* since, the last action in that workspace has passed.                    *)
MarkerEarned == \A s \in Site : marker[s] = Regular => verdict[s] = "passed"

(* When a suite succeeded and no source was edited meanwhile, every test   *)
(* of it passed on exactly its source, whatever earlier runs left behind   *)
(* in its workspace: on the source that its names stand for where its      *)
(* order-only prerequisites have left blud.                                *)
SuiteTested ==
  pc = "ok" /\ ~cmd.just_print /\ ~moved =>
    \A i \in DOMAIN cmd.tests :
      LET s == <<cmd.tests[i], tested_in[i]>> IN
      /\ marker[s] = Regular /\ verdict[s] = "passed"
      /\ \A n \in Files(s) : ran_on[s][n] = source[s][n]

(* The cd of a test's action does not last, however the action ends; that  *)
(* of other actions does.  Outside an action blud is where the order-only  *)
(* prerequisites of the last test have left it, or where it was started,   *)
(* so that the relative names of source, workspace and marker mean the     *)
(* same from the comparison to the marker (operator.lua:735-758).          *)
HomeAgain ==
  pc \in Running \ {"action", "leave"} =>
    /\ cwd_stack = <<>>
    /\ cwd = IF tested_in = <<>> THEN Home ELSE tested_in[Len(tested_in)]

(* -n changes nothing in a workspace.                                      *)
PrintOnly == [][cmd.just_print => UNCHANGED files]_vars

(* A test that passed on a source that is still the same is not run again  *)
(* without -B (README:235).                                                *)
Unchanged(s) ==
  /\ marker[s] = Regular
  /\ \A n \in Files(s) : ran_on[s][n] = source[s][n] /\ staged[s][n] = source[s][n]
RunsWhenChanged ==
  [][\A s \in Site :
       Unchanged(s) /\ ~cmd.always_make /\ pc = "unmark" /\ this = s => marker'[s] # Missing]_vars

=============================================================================
