--------------------------- MODULE TestRunProofs ---------------------------
(***************************************************************************)
(* Markers, working directory, -n and success of test suites, for every    *)
(* suite, command, and history of failures, kills and edits.               *)
(***************************************************************************)
EXTENDS TestRun, TLAPS

(* The steps at which a test is at hand, and those that -n never takes.    *)
AtTest == Running \ {"test"}
Acting == {"stage", "copy", "unmark", "enter", "leave", "mark"}

Control ==
  /\ pc \in AtTest => next <= Len(cmd.tests)
  /\ pc \in Acting => ~cmd.just_print
  /\ pc = "leave" => verdict[this] \in {"passed", "failed", "raised"}

(* Where the last order-only prerequisites have left blud.  While it is    *)
(* between entering and leaving a workspace, the way there is on the stack.*)
Origin == IF tested_in = <<>> THEN Home ELSE tested_in[Len(tested_in)]
Places ==
  /\ HomeAgain
  /\ pc = "action" /\ cmd.just_print => cwd = Origin /\ cwd_stack = <<>>
  /\ pc = "leave" \/ (pc = "action" /\ ~cmd.just_print) => cwd_stack = <<Origin>>

(* The marker is gone while its action runs, and an action passed before   *)
(* it is marked.                                                           *)
Markers ==
  /\ MarkerEarned
  /\ pc \in {"enter", "action", "leave"} /\ ~cmd.just_print => marker[this] = Missing
  /\ pc = "mark" => verdict[this] = "passed"

TestInv == TypeOK /\ Control /\ Places /\ Markers

(* Names are resolved there all the time, so that the test at hand is the  *)
(* same at every step of it.                                               *)
LEMMA NamesAt == ASSUME Places, pc \in Running PROVE here = Origin
BY DEF Places, HomeAgain, Origin, here, Running

LEMMA OriginIsPlace == ASSUME TypeOK PROVE Origin \in Place
<1>1. tested_in \in Seq(Place) /\ Home \in Place
  BY DEF TypeOK, Place
<1>2. tested_in # <<>> => tested_in[Len(tested_in)] \in Place
  BY <1>1
<1> QED BY <1>1, <1>2 DEF Origin

LEMMA SameTest ==
  ASSUME Places, Places', pc \in Running, pc' \in Running, UNCHANGED <<cmd, next, tested_in>>
  PROVE  this' = this
<1>1. here = Origin /\ Origin' = Origin
  BY NamesAt DEF Origin
<1>2. here' = Origin'
  BY DEF Places, HomeAgain, Origin, here, Running
<1> QED BY <1>1, <1>2 DEF this

(* A test at hand is a test, and so the name at hand names one of its      *)
(* files, unless it is the reserved key.                                   *)
LEMMA AtHand ==
  ASSUME TypeOK, Control, Places
  PROVE  /\ pc \in AtTest => this \in Site
         /\ pc \in AtTest /\ entry <= Len(Names(this)) /\ name # Dot => name \in Name
<1>1. suite \in Suite /\ cmd \in Command
  BY TestConstants DEF TypeOK, Suite
<1>2. pc \in AtTest => this \in Site
  <2>1. pc \in AtTest => here \in Place
    BY NamesAt, OriginIsPlace DEF AtTest
  <2> QED BY <1>1, <2>1 DEF Control, TypeOK, Command, this, Site
<1>3. ASSUME pc \in AtTest, entry <= Len(Names(this)), name # Dot
      PROVE  name \in Name
  <2>1. Names(this) \in Seq(Name \cup {Dot})
    BY <1>1, <1>2, <1>3 DEF Suite, Names
  <2>2. entry \in 1 .. Len(Names(this))
    BY <1>3, <2>1 DEF TypeOK
  <2> QED BY <1>3, <2>1, <2>2 DEF name
<1> QED BY <1>2, <1>3

(* Init of a suite: nothing is staged, nothing is marked.                  *)
LEMMA TestInit == Init => TestInv
<1> SUFFICES ASSUME Init PROVE TestInv
  OBVIOUS
<1> USE DEF Init
<1>1. suite \in Suite
  BY TestConstants
<1>2. source \in [Site -> [Name -> Content \cup {None}]]
  BY <1>1 DEF Suite
<1>3. work \in [Site -> {Missing, Directory, Regular}]
  BY <1>1 DEF Suite
<1>4. staged \in [Site -> [Name -> File]] /\ ran_on \in [Site -> [Name -> File]]
  BY DEF File
<1>5. /\ marker \in [Site -> {Missing, Regular}]
      /\ verdict \in [Site -> {"none", "running", "passed", "failed", "raised"}]
  OBVIOUS
<1>6. epoch \in 1 .. MaxInvocations /\ edits \in 0 .. MaxEdits
  BY TestConstants
<1>7. TypeOK
  <2>1. suite \in Suites /\ cmd \in suite.commands /\ cwd \in Site \cup Place
    BY DEF Place
  <2>2. cwd_stack \in Seq(Place)
    OBVIOUS
  <2>3. /\ pc \in Running \cup Halted /\ next \in Nat \ {0} /\ entry \in Nat \ {0}
        /\ source_changed \in BOOLEAN /\ moved \in BOOLEAN /\ tested_in \in Seq(Place)
    <3>1. /\ pc = "test" /\ next = 1 /\ entry = 1 /\ source_changed = FALSE
          /\ moved = FALSE /\ tested_in = <<>>
      OBVIOUS
    <3> HIDE DEF Init
    <3>2. source_changed \in BOOLEAN /\ moved \in BOOLEAN
      BY <3>1, Zenon
    <3>3. tested_in \in Seq(Place)
      BY <3>1
    <3> QED BY <3>1, <3>2, <3>3 DEF Running
  <2> HIDE DEF Init
  <2> QED BY <1>2, <1>3, <1>4, <1>5, <1>6, <2>1, <2>2, <2>3 DEF TypeOK
<1>8. Control /\ Places
  BY DEF Control, AtTest, Acting, Places, HomeAgain, Origin
<1>9. Markers
  BY DEF Markers, MarkerEarned, Missing, Regular
<1> QED BY <1>7, <1>8, <1>9 DEF TestInv

(* Every step keeps the types.                                             *)
LEMMA TestTypes == TypeOK /\ Control /\ Places /\ [Next]_vars => TypeOK'
<1> SUFFICES ASSUME TypeOK, Control, Places, [Next]_vars PROVE TypeOK'
  OBVIOUS
<1>0. /\ pc \in AtTest => this \in Site
      /\ pc \in AtTest /\ entry <= Len(Names(this)) /\ name # Dot => name \in Name
  BY AtHand
<1> USE DEF TypeOK
<1>1. CASE Invoke
  <2>1. cmd' \in suite.commands /\ suite' = suite /\ epoch' \in 1 .. MaxInvocations
    BY <1>1, TestConstants DEF Invoke
  <2>2. /\ cwd' = Home /\ cwd_stack' = <<>> /\ pc' = "test" /\ next' = 1 /\ entry' = 1
        /\ source_changed' = FALSE /\ moved' = FALSE /\ tested_in' = <<>>
    BY <1>1 DEF Invoke, Start
  <2>3. UNCHANGED <<source, work, staged, marker, verdict, ran_on, edits>>
    BY <1>1 DEF Invoke, files
  <2>4. /\ cwd_stack' \in Seq(Place) /\ pc' \in Running /\ next' \in Nat \ {0}
        /\ entry' \in Nat \ {0} /\ source_changed' \in BOOLEAN /\ moved' \in BOOLEAN
        /\ tested_in' \in Seq(Place)
    <3> HIDE DEF TypeOK
    <3>1. source_changed' \in BOOLEAN /\ moved' \in BOOLEAN
      BY <2>2, Zenon
    <3>2. cwd_stack' \in Seq(Place) /\ tested_in' \in Seq(Place)
      BY <2>2
    <3> QED BY <2>2, <3>1, <3>2 DEF Running
  <2>5. cwd' \in Site \cup Place
    BY <2>2 DEF Place
  <2> QED BY <2>1, <2>3, <2>4, <2>5
<1>2. CASE NextTest \/ AllTested \/ Return
  BY <1>2 DEF NextTest, AllTested, Return, local, files, place, history, Running, Halted
<1>3. CASE SourceGone \/ Compare \/ UpdateReservedKey \/ Updated
  <2>1. UNCHANGED <<suite, cmd, next, source, files, place, history>>
    BY <1>3 DEF SourceGone, Compare, UpdateReservedKey, Updated, local
  <2>2. source_changed' \in BOOLEAN
    BY <1>3 DEF SourceGone, Compare, UpdateReservedKey, Updated, local
  <2>3. entry' \in Nat \ {0} /\ pc' \in Running \cup Halted
    BY <1>3 DEF SourceGone, Compare, UpdateReservedKey, Updated, local,
                AfterCompare, Running, Halted
  <2> QED BY <2>1, <2>2, <2>3 DEF files, place, history
<1>4. CASE EnsureDirectory
  BY <1>4 DEF EnsureDirectory, local, place, history, Running, Halted
<1>5. CASE UpdateFile \/ UpdateFails
  <2>1. this \in Site /\ name \in Name
    BY <1>0, <1>5 DEF UpdateFile, UpdateFails, AtTest, Running
  <2>2. staged' \in [Site -> [Name -> File]]
    <3>1. CASE UpdateFile
      <4>1. source[this][name] \in File
        BY <2>1 DEF File
      <4>2. staged' = staged \/ staged' = [staged EXCEPT ![this][name] = source[this][name]]
        BY <3>1 DEF UpdateFile
      <4>3. staged \in [Site -> [Name -> File]]
        OBVIOUS
      <4> HIDE DEF TypeOK
      <4> QED BY <2>1, <4>1, <4>2, <4>3
    <3>2. CASE UpdateFails
      <4>1. PICK f \in {staged[this][name], Torn} :
              staged' = [staged EXCEPT ![this][name] = f]
        BY <3>2 DEF UpdateFails
      <4>2. f \in File
        BY <2>1, <4>1 DEF File
      <4> QED BY <2>1, <4>1, <4>2
    <3> QED BY <1>5, <3>1, <3>2
  <2> QED BY <1>5, <2>2 DEF UpdateFile, UpdateFails, local, place, history,
                            Running, Halted
<1>6. CASE Decide \/ PrintAction
  BY <1>6 DEF Decide, PrintAction, local, files, place, history, Running
<1>7. CASE RemoveMarker \/ WriteMarker
  <2>1. this \in Site
    BY <1>0, <1>7 DEF RemoveMarker, WriteMarker, AtTest, Running
  <2>2. marker' \in [Site -> {Missing, Regular}]
    BY <1>7, <2>1 DEF RemoveMarker, WriteMarker, Unmark
  <2> QED BY <1>7, <2>2 DEF RemoveMarker, WriteMarker, local, place, history,
                            Running, Halted
<1>8. CASE EnterWorkspace
  <2>1. this \in Site
    BY <1>0, <1>8 DEF EnterWorkspace, AtTest, Running
  <2>2. cwd' \in Site \cup Place /\ cwd_stack' \in Seq(Place)
    <3>1. cwd \in Place /\ cwd_stack = <<>>
      BY <1>8, OriginIsPlace DEF EnterWorkspace, Places, HomeAgain, Origin, Running
    <3>2. \/ cwd' = this /\ cwd_stack' = Append(cwd_stack, cwd)
          \/ cwd' = cwd /\ cwd_stack' = cwd_stack
      BY <1>8 DEF EnterWorkspace, place
    <3>3. Append(<<>>, cwd) \in Seq(Place) /\ <<>> \in Seq(Place)
      BY <3>1
    <3> QED BY <2>1, <3>1, <3>2, <3>3
  <2>3. /\ verdict' \in [Site -> {"none", "running", "passed", "failed", "raised"}]
        /\ ran_on' \in [Site -> [Name -> File]]
    BY <1>8, <2>1 DEF EnterWorkspace
  <2> QED BY <1>8, <2>2, <2>3 DEF EnterWorkspace, local, files, Running, Halted
<1>9. CASE RunAction
  <2>1. this \in Site
    BY <1>0, <1>9 DEF RunAction, AtTest, Running
  <2>2. staged' \in [Site -> [Name -> File]]
    <3>1. CASE staged' = staged
      BY <3>1
    <3>2. ASSUME NEW n \in Name, staged' = [staged EXCEPT ![this][n] = Torn]
          PROVE  staged' \in [Site -> [Name -> File]]
      BY <2>1, <3>2 DEF File
    <3>3. Disturb(this)
      BY <1>9 DEF RunAction
    <3> HIDE DEF TypeOK
    <3> QED BY <3>1, <3>2, <3>3 DEF Disturb
  <2>3. verdict' \in [Site -> {"none", "running", "passed", "failed", "raised"}]
    BY <1>9, <2>1 DEF RunAction
  <2>4. cwd' \in Site \cup Place
    BY <1>9 DEF RunAction, Place
  <2> QED BY <1>9, <2>2, <2>3, <2>4 DEF RunAction, local, Running
<1>10. CASE LeaveWorkspace
  <2>1. cwd' \in Site \cup Place /\ cwd_stack' \in Seq(Place)
    <3>1. CASE Pop
      <4>1. cwd_stack = <<Origin>> /\ Origin \in Place
        BY <1>10, OriginIsPlace DEF LeaveWorkspace, Places
      <4> QED BY <3>1, <4>1 DEF Pop
    <3>2. CASE UNCHANGED place
      BY <3>2 DEF place
    <3> QED BY <1>10, <3>1, <3>2 DEF LeaveWorkspace
  <2>2. pc' \in Running \cup Halted
    <3>1. verdict[this] \in {"passed", "failed", "raised"}
      BY <1>10 DEF LeaveWorkspace, Control
    <3>2. pc' \in {"mark", "exit", "error"}
      BY <1>10, <3>1 DEF LeaveWorkspace
    <3> QED BY <3>2 DEF Running, Halted
  <2> QED BY <1>10, <2>1, <2>2 DEF LeaveWorkspace, local, files, history
<1>11. CASE Kill
  <2>1. staged' \in [Site -> [Name -> File]]
    <3>1. CASE staged' = staged
      BY <3>1
    <3>2. ASSUME pc \in AtTest, NEW n \in Name, staged' = [staged EXCEPT ![this][n] = Torn]
          PROVE  staged' \in [Site -> [Name -> File]]
      BY <1>0, <3>2 DEF File
    <3>3. CASE pc = "copy" /\ entry <= Len(Names(this)) /\ name # Dot
               /\ staged' = [staged EXCEPT ![this][name] = Torn]
      BY <1>0, <3>2, <3>3 DEF AtTest, Running
    <3>4. CASE pc = "action" /\ Disturb(this)
      BY <3>1, <3>2, <3>4 DEF Disturb, AtTest, Running
    <3> QED BY <1>11, <3>1, <3>3, <3>4 DEF Kill
  <2> QED BY <1>11, <2>1 DEF Kill, local, place, history, Halted
<1>12. CASE Edit
  <2>1. source' \in [Site -> [Name -> Content \cup {None}]]
    <3>1. PICK t \in Site, c \in Content \cup {None} :
            \E n \in Files(t) : source' = [source EXCEPT ![t][n] = c]
      <4>1. suite.leads_to \subseteq Place /\ Home \in Place
        BY TestConstants DEF Suite, Place
      <4>2. Test \X ({Home} \cup suite.leads_to) \subseteq Site
        BY <4>1 DEF Site
      <4> QED BY <1>12, <4>2 DEF Edit
    <3>2. PICK n \in Files(t) : source' = [source EXCEPT ![t][n] = c]
      BY <3>1
    <3>3. n \in Name
      <4>1. suite \in Suite
        BY TestConstants
      <4>2. Names(t) \in Seq(Name \cup {Dot})
        BY <3>1, <4>1 DEF Suite, Names
      <4> QED BY <4>2 DEF Files
    <3> QED BY <3>2, <3>3
  <2>2. edits' \in 0 .. MaxEdits
    BY <1>12, TestConstants DEF Edit
  <2> QED BY <1>12, <2>1, <2>2 DEF Edit, local, files, place
<1>13. CASE Stop \/ UNCHANGED vars
  BY <1>13 DEF Stop, vars, local, files, place, history
<1>14. CASE BuildOrderOnly
  <2>1. cwd' \in Place
    <3>1. suite.leads_to \subseteq Place
      BY TestConstants DEF Suite
    <3>2. cwd \in Place
      BY <1>14, OriginIsPlace DEF BuildOrderOnly, Places, HomeAgain, Origin, Running
    <3> QED BY <1>14, <3>1, <3>2 DEF BuildOrderOnly
  <2>2. tested_in' \in Seq(Place)
    BY <1>14, <2>1 DEF BuildOrderOnly
  <2> QED BY <1>14, <2>1, <2>2 DEF BuildOrderOnly, local, files, Running, Halted
<1> QED BY <1>1, <1>2, <1>3, <1>4, <1>5, <1>6, <1>7, <1>8, <1>9, <1>10, <1>11,
           <1>12, <1>13, <1>14 DEF Next, Stage, Execute

(* Every step keeps the way back.                                          *)
LEMMA PlacesStep == TypeOK /\ Control /\ Places /\ [Next]_vars => Places'
<1> SUFFICES ASSUME TypeOK, Control, Places, [Next]_vars PROVE Places'
  OBVIOUS
<1> USE DEF Places, HomeAgain, Origin, Running, Halted
<1>1. CASE Invoke
  BY <1>1 DEF Invoke, Start
<1>2. CASE NextTest \/ AllTested \/ Return
  BY <1>2 DEF NextTest, AllTested, Return, place, local, history
<1>3. CASE Stage
  BY <1>3 DEF Stage, SourceGone, Compare, EnsureDirectory, UpdateFile, UpdateFails,
              UpdateReservedKey, Updated, AfterCompare, place, local, history
<1>4. CASE Decide \/ RemoveMarker \/ PrintAction \/ WriteMarker
  BY <1>4 DEF Decide, RemoveMarker, PrintAction, WriteMarker, place, local, history
<1>5. CASE EnterWorkspace
  <2>1. cwd = Origin /\ cwd_stack = <<>> /\ ~cmd.just_print
    BY <1>5 DEF EnterWorkspace, Control, Acting
  <2>2. Append(cwd_stack, cwd) = <<Origin>>
    BY <2>1
  <2>3. Origin' = Origin /\ cmd' = cmd
    BY <1>5 DEF EnterWorkspace, local
  <2>4. CASE pc' = "action" /\ cwd_stack' = Append(cwd_stack, cwd)
    BY <2>1, <2>2, <2>3, <2>4
  <2>5. CASE pc' = "error"
    BY <2>5
  <2> QED BY <1>5, <2>4, <2>5 DEF EnterWorkspace
<1>6. CASE RunAction
  BY <1>6 DEF RunAction, local
<1>7. CASE LeaveWorkspace
  <2>1. cwd_stack = <<Origin>> /\ Origin' = Origin
    BY <1>7 DEF LeaveWorkspace, history
  <2>2. CASE Pop
    <3>1. cwd' = Origin /\ cwd_stack' = <<>>
      BY <2>1, <2>2 DEF Pop
    <3>2. pc' \in {"mark", "exit", "error"}
      BY <1>7 DEF LeaveWorkspace, Control
    <3> QED BY <2>1, <3>1, <3>2
  <2>3. CASE pc' = "error" /\ UNCHANGED place
    BY <2>3
  <2> QED BY <1>7, <2>2, <2>3 DEF LeaveWorkspace
<1>8. CASE Kill
  BY <1>8 DEF Kill
<1>9. CASE Edit
  BY <1>9 DEF Edit, place, local
<1>10. CASE Stop \/ UNCHANGED vars
  BY <1>10 DEF Stop, vars, place, local, history
<1>11. CASE BuildOrderOnly
  <2>1. cwd_stack' = <<>> /\ pc' \in {"compare", "exit", "error"}
    BY <1>11 DEF BuildOrderOnly
  <2>2. tested_in' # <<>> /\ tested_in'[Len(tested_in')] = cwd'
    BY <1>11 DEF BuildOrderOnly, TypeOK
  <2> QED BY <2>1, <2>2
<1> QED BY <1>1, <1>2, <1>3, <1>4, <1>5, <1>6, <1>7, <1>8, <1>9, <1>10, <1>11
        DEF Next, Execute

(* A step that leaves the test at hand, the command and where we are alone *)
(* only has to be looked at for what it says itself.                       *)
LEMMA ControlStep == TypeOK /\ Control /\ Places /\ [Next]_vars => Control'
<1> SUFFICES ASSUME TypeOK, Control, Places, [Next]_vars PROVE Control'
  OBVIOUS
<1>0. /\ pc \in AtTest => this \in Site
      /\ pc \in Running /\ pc' \in Running /\ UNCHANGED <<cmd, next, tested_in>> => this' = this
  BY AtHand, PlacesStep, SameTest
<1> USE DEF Control, AtTest, Acting, Running, Halted
<1>1. CASE Invoke
  BY <1>1 DEF Invoke, Start
<1>2. CASE NextTest
  BY <1>2 DEF NextTest, local, history
<1>3. CASE AllTested \/ BuildOrderOnly \/ Return
  BY <1>3 DEF AllTested, BuildOrderOnly, Return, local
<1>4. CASE Stage
  BY <1>4 DEF Stage, SourceGone, Compare, EnsureDirectory, UpdateFile, UpdateFails,
              UpdateReservedKey, Updated, AfterCompare, local
<1>5. CASE Decide \/ RemoveMarker \/ EnterWorkspace \/ PrintAction
  BY <1>5 DEF Decide, RemoveMarker, EnterWorkspace, PrintAction, local
<1>6. CASE RunAction
  <2>1. PICK v \in {"passed", "failed", "raised"} : verdict' = [verdict EXCEPT ![this] = v]
    BY <1>6 DEF RunAction
  <2>2. this' = this
    BY <1>0, <1>6 DEF RunAction, local
  <2>3. verdict'[this] = v
    BY <1>0, <1>6, <2>1 DEF RunAction, TypeOK
  <2> QED BY <1>6, <2>1, <2>2, <2>3 DEF RunAction, local
<1>7. CASE LeaveWorkspace
  <2>1. pc' \in {"mark", "exit", "error"}
    BY <1>7 DEF LeaveWorkspace
  <2> QED BY <1>7, <2>1 DEF LeaveWorkspace, local
<1>8. CASE WriteMarker \/ Kill
  BY <1>8 DEF WriteMarker, Kill, local
<1>9. CASE Edit
  <2>1. pc = "leave" => this' = this
    BY <1>0, <1>9 DEF Edit, local
  <2> QED BY <1>9, <2>1 DEF Edit, local
<1>10. CASE Stop \/ UNCHANGED vars
  <2>1. pc = "leave" => this' = this
    BY <1>0, <1>10 DEF Stop, vars, local, history
  <2> QED BY <1>10, <2>1 DEF Stop, vars, local, history
<1> QED BY <1>1, <1>2, <1>3, <1>4, <1>5, <1>6, <1>7, <1>8, <1>9, <1>10 DEF Next, Execute

(* Every step keeps the markers honest: only RemoveMarker and WriteMarker  *)
(* change one, only EnterWorkspace and RunAction change a verdict.         *)
LEMMA MarkersStep == TestInv /\ [Next]_vars => Markers'
<1> SUFFICES ASSUME TestInv, [Next]_vars PROVE Markers'
  OBVIOUS
<1>0. /\ TypeOK /\ Control /\ Markers
      /\ pc \in AtTest => this \in Site
      /\ pc \in Running /\ pc' \in Running /\ UNCHANGED <<cmd, next, tested_in>> => this' = this
      /\ marker \in [Site -> {Missing, Regular}]
      /\ verdict \in [Site -> {"none", "running", "passed", "failed", "raised"}]
  BY AtHand, PlacesStep, SameTest DEF TestInv, TypeOK
<1>a. Missing # Regular
  BY DEF Missing, Regular
<1> USE DEF Markers, MarkerEarned, Running, Halted
<1>1. CASE Invoke
  BY <1>0, <1>1 DEF Invoke, Start, files
<1>2. CASE NextTest \/ AllTested \/ BuildOrderOnly \/ Return
  BY <1>0, <1>2 DEF NextTest, AllTested, BuildOrderOnly, Return, files, local, history
<1>3. CASE Stage
  <2>1. UNCHANGED <<marker, verdict>>
    BY <1>3 DEF Stage, SourceGone, Compare, EnsureDirectory, UpdateFile, UpdateFails,
                UpdateReservedKey, Updated, files, history
  <2>2. pc' \in {"stage", "decide", "copy", "error"}
    BY <1>3 DEF Stage, SourceGone, Compare, EnsureDirectory, UpdateFile, UpdateFails,
                UpdateReservedKey, Updated, AfterCompare
  <2> QED BY <1>0, <2>1, <2>2
<1>4. CASE Decide
  <2>1. UNCHANGED <<marker, verdict, cmd>> /\ (pc' = "action" => cmd.just_print)
        /\ pc' \in {"return", "action", "unmark"}
    BY <1>4 DEF Decide, files, local, history
  <2> QED BY <1>0, <2>1
<1>5. CASE RemoveMarker
  <2>1. /\ UNCHANGED <<verdict, cmd>> /\ this \in Site /\ pc' \in {"enter", "error"}
        /\ pc' = "enter" => this' = this
    BY <1>0, <1>5 DEF RemoveMarker, history, local, AtTest
  <2>2. CASE Unmark /\ pc' = "enter"
    BY <1>0, <1>a, <2>1, <2>2 DEF Unmark
  <2>3. CASE UNCHANGED marker /\ pc' = "error"
    BY <1>0, <2>1, <2>3
  <2> QED BY <1>5, <2>2, <2>3 DEF RemoveMarker
<1>6. CASE EnterWorkspace
  <2>1. /\ UNCHANGED <<marker, cmd>> /\ this \in Site
        /\ marker[this] = Missing /\ pc' \in {"action", "error"}
        /\ pc' = "action" => this' = this
    BY <1>0, <1>6 DEF EnterWorkspace, files, local, AtTest, Control, Acting
  <2>2. \A t \in Site \ {this} : verdict'[t] = verdict[t]
    BY <1>0, <1>6 DEF EnterWorkspace
  <2> QED BY <1>0, <1>a, <2>1, <2>2
<1>7. CASE RunAction
  <2>1. /\ UNCHANGED <<marker, cmd>> /\ this' = this /\ this \in Site
        /\ marker[this] = Missing /\ pc' = "leave"
    BY <1>0, <1>7 DEF RunAction, local, AtTest
  <2>2. \A t \in Site \ {this} : verdict'[t] = verdict[t]
    BY <1>0, <1>7 DEF RunAction
  <2> QED BY <1>0, <1>a, <2>1, <2>2
<1>8. CASE PrintAction
  BY <1>0, <1>8 DEF PrintAction, files, history
<1>9. CASE LeaveWorkspace
  <2>1. UNCHANGED <<marker, verdict>> /\ (pc' = "mark" => this' = this)
    BY <1>0, <1>9 DEF LeaveWorkspace, files, history, local
  <2>2. pc' = "mark" => verdict[this] = "passed"
    BY <1>0, <1>9 DEF LeaveWorkspace, Control
  <2>3. pc' \in {"mark", "exit", "error"}
    BY <1>0, <1>9 DEF LeaveWorkspace, Control
  <2> QED BY <1>0, <2>1, <2>2, <2>3
<1>10. CASE WriteMarker
  <2>1. /\ verdict' = verdict /\ pc' \in {"return", "error"}
        /\ marker' \in {marker, [marker EXCEPT ![this] = Regular]}
    BY <1>10 DEF WriteMarker, history
  <2>2. this \in Site /\ verdict[this] = "passed"
    BY <1>0, <1>10 DEF WriteMarker, AtTest
  <2> QED BY <1>0, <2>1, <2>2
<1>11. CASE Kill
  BY <1>0, <1>11 DEF Kill, history
<1>12. CASE Edit
  <2>1. pc \in {"enter", "action", "leave", "mark"} => this' = this
    BY <1>0, <1>12 DEF Edit, local
  <2> QED BY <1>0, <1>12, <2>1 DEF Edit, files, local
<1>13. CASE Stop \/ UNCHANGED vars
  <2>1. pc \in {"enter", "action", "leave", "mark"} => this' = this
    BY <1>0, <1>13 DEF Stop, vars, local, history
  <2> QED BY <1>0, <1>13, <2>1 DEF Stop, vars, files, local, history
<1> QED BY <1>1, <1>2, <1>3, <1>4, <1>5, <1>6, <1>7, <1>8, <1>9, <1>10, <1>11,
           <1>12, <1>13 DEF Next, Execute

(* The parts together.                                                     *)
LEMMA TestInvariance == Spec => []TestInv
<1>1. TestInv /\ [Next]_vars => TestInv'
  BY TestTypes, ControlStep, PlacesStep, MarkersStep DEF TestInv
<1> QED BY TestInit, <1>1, PTL DEF Spec

(* Whatever failed or was killed since, a pass marker is that of a run     *)
(* that passed and was the last one in its workspace.                      *)
THEOREM MarkersEarned == Spec => []MarkerEarned
<1>1. TestInv => MarkerEarned
  BY DEF TestInv, Markers
<1> QED BY TestInvariance, <1>1, PTL

(* At every step outside an action blud is where the order-only            *)
(* prerequisites of the last test have left it, and before the first where *)
(* it was started (operator.lua:789-793, shell.lua:635-668).               *)
THEOREM AlwaysHome == Spec => []HomeAgain
<1>1. TestInv => HomeAgain
  BY DEF TestInv, Places
<1> QED BY TestInvariance, <1>1, PTL

(* With -n no step changes a workspace, a staged file or a marker.         *)
THEOREM PrintsOnly == Spec => PrintOnly
<1>1. TestInv /\ [Next]_vars => [cmd.just_print => UNCHANGED files]_vars
  <2> SUFFICES ASSUME Control, Next, cmd.just_print PROVE UNCHANGED files
    BY DEF TestInv
  <2>1. pc \notin Acting
    BY DEF Control
  <2>2. CASE Invoke \/ NextTest \/ AllTested \/ BuildOrderOnly \/ Return \/ Stop
    BY <2>2 DEF Invoke, NextTest, AllTested, BuildOrderOnly, Return, Stop, vars
  <2>3. CASE Stage
    BY <2>1, <2>3 DEF Acting, Stage, SourceGone, Compare, EnsureDirectory, UpdateFile,
                      UpdateFails, UpdateReservedKey, Updated
  <2>4. CASE Execute
    BY <2>1, <2>4 DEF Acting, Execute, Decide, RemoveMarker, EnterWorkspace, RunAction,
                      PrintAction, LeaveWorkspace, WriteMarker
  <2>5. CASE Kill
    BY <2>1, <2>5 DEF Acting, Kill, files
  <2>6. CASE Edit
    BY <2>6 DEF Edit
  <2> QED BY <2>2, <2>3, <2>4, <2>5, <2>6 DEF Next
<1> QED BY TestInvariance, <1>1, PTL DEF Spec, PrintOnly

-----------------------------------------------------------------------------
(* Why a suite that succeeded was tested.  A marker is Regular and never    *)
(* Leaf, so that nothing is ever up to date: every file is staged anew and  *)
(* every action runs.  A test that is named twice loses its marker until    *)
(* it has run again.                                                        *)
Passed(t) ==
  /\ marker[t] = Regular /\ verdict[t] = "passed"
  /\ \A n \in Files(t) : ran_on[t][n] = source[t][n]

Staged(t) == \A n \in Files(t) : staged[t][n] = source[t][n]
RanOn(t) == \A n \in Files(t) : ran_on[t][n] = source[t][n]
Again == {"enter", "action", "leave", "mark"}

(* The i-th test of the command, where it was begun.                       *)
Begun(i) == <<cmd.tests[i], tested_in[i]>>
Counted ==
  pc \in Running \cup {"ok"} =>
    Len(tested_in) = IF pc \in {"test", "order", "ok"} THEN next - 1 ELSE next

Earlier ==
  pc \in Running \cup {"ok"} =>
    \A i \in DOMAIN cmd.tests :
      i < next => Passed(Begun(i)) \/ (pc \in Again /\ Begun(i) = this)

Copied ==
  /\ pc \in Running \ {"copy"} => entry = 1
  /\ pc = "copy" =>
       \A i \in DOMAIN Names(this) : i < entry =>
         /\ Names(this)[i] # Dot
         /\ staged[this][Names(this)[i]] = source[this][Names(this)[i]]
  /\ pc \in {"decide", "unmark", "enter"} => Staged(this)
  /\ pc \in {"action", "leave", "mark"} => RanOn(this)

Ending ==
  /\ pc = "return" => Passed(this)
  /\ pc = "ok" => next > Len(cmd.tests)

Plain == ~cmd.just_print /\ ~moved
Tested == Plain => Earlier /\ Copied /\ Ending

LEMMA NothingEqual ==
  ASSUME TypeOK, NEW t \in Site, NEW n PROVE ~FilesEqual(t, n)
BY SMTT(30) DEF TypeOK, FilesEqual, PathType, Leaf, Missing, Directory, Regular

LEMMA AlwaysRuns ==
  ASSUME TypeOK, NEW t \in Site PROVE mustrun(t)
BY DEF TypeOK, mustrun, Leaf, Missing, Regular

(* What is compared as equal has no files.                                 *)
LEMMA EqualIsEmpty ==
  ASSUME TypeOK, NEW t \in Site, scompare(t) PROVE Files(t) = {}
BY NothingEqual DEF scompare, Files

LEMMA NothingBefore ==
  ASSUME TypeOK, NEW i \in DOMAIN cmd.tests PROVE i \in Nat \ {0}
BY TestConstants DEF TypeOK, Suite, Command

LEMMA TestedInit == Init => Tested
<1> SUFFICES ASSUME Init PROVE Tested
  OBVIOUS
<1>1. \A i \in DOMAIN cmd.tests : i \in Nat \ {0}
  BY TestInit, NothingBefore DEF TestInv
<1>2. pc = "test" /\ next = 1 /\ entry = 1
  BY DEF Init
<1>3. \A i \in DOMAIN cmd.tests : ~(i < next)
  BY <1>1, <1>2
<1> QED BY <1>2, <1>3 DEF Tested, Earlier, Copied, Ending

(* What the earlier tests are judged by, and which test is at hand.        *)
judged == <<cmd, source, marker, verdict, ran_on, next, suite>>

LEMMA StillPassed ==
  ASSUME UNCHANGED judged, NEW t PROVE Passed(t) => Passed(t)'
BY DEF judged, Passed, Files, Names

LEMMA EarlierKept ==
  ASSUME UNCHANGED <<judged, tested_in>>, Places, Places', Earlier, pc \in Running,
         pc \in Again => pc' \in Again
  PROVE  Earlier'
<1>1. cmd' = cmd /\ next' = next /\ (pc' \in Running => this' = this)
  BY SameTest DEF judged
<1>2. \A i : Begun(i)' = Begun(i)
  BY DEF judged, Begun
<1>3. \A i : Passed(Begun(i)) => Passed(Begun(i))'
  BY <1>2, StillPassed
<1> QED BY <1>1, <1>2, <1>3 DEF Earlier, Again, Running

(* Every test that was begun has its entry in tested_in.                   *)
LEMMA CountedStep == TypeOK /\ Control /\ Counted /\ [Next]_vars => Counted'
<1> SUFFICES ASSUME TypeOK, Control, Counted, [Next]_vars PROVE Counted'
  OBVIOUS
<1>0. next \in Nat /\ tested_in \in Seq(Place)
  BY DEF TypeOK
<1> USE DEF Counted, Running, Halted
<1>1. CASE Invoke
  BY <1>1 DEF Invoke, Start
<1>2. CASE NextTest \/ AllTested
  BY <1>2 DEF NextTest, AllTested, local, history
<1>3. CASE BuildOrderOnly
  <2>1. Len(tested_in') = Len(tested_in) + 1
    BY <1>0, <1>3 DEF BuildOrderOnly
  <2> QED BY <1>0, <1>3, <2>1 DEF BuildOrderOnly, local
<1>4. CASE Return
  BY <1>0, <1>4 DEF Return, history
<1>5. CASE Stage
  BY <1>5 DEF Stage, SourceGone, Compare, EnsureDirectory, UpdateFile, UpdateFails,
              UpdateReservedKey, Updated, AfterCompare, local, history
<1>6. CASE Decide \/ RemoveMarker \/ EnterWorkspace \/ RunAction \/ PrintAction \/ WriteMarker
  BY <1>6 DEF Decide, RemoveMarker, EnterWorkspace, RunAction, PrintAction, WriteMarker,
              local, history
<1>7. CASE LeaveWorkspace
  <2>1. pc' \in {"mark", "exit", "error"}
    BY <1>7 DEF LeaveWorkspace, Control
  <2> QED BY <1>7, <2>1 DEF LeaveWorkspace, local, history
<1>8. CASE Kill
  BY <1>8 DEF Kill
<1>9. CASE Edit
  BY <1>9 DEF Edit, local
<1>10. CASE Stop \/ UNCHANGED vars
  BY <1>10 DEF Stop, vars, local, history
<1> QED BY <1>1, <1>2, <1>3, <1>4, <1>5, <1>6, <1>7, <1>8, <1>9, <1>10 DEF Next, Execute

LEMMA StageStep ==
  ASSUME TypeOK, Control, Places, Places', Tested, Stage, Plain PROVE Tested'
<1> USE DEF Plain
<1>1. UNCHANGED <<judged, tested_in>> /\ this' = this /\ pc \in Running \ Again
  BY DEF Stage, SourceGone, Compare, EnsureDirectory, UpdateFile, UpdateFails,
         UpdateReservedKey, Updated, local, files, place, history, judged, this, here,
         Running, Again
<1>2. Earlier'
  BY <1>1, EarlierKept DEF Tested
<1>3. /\ this \in Site
      /\ entry <= Len(Names(this)) /\ name # Dot => name \in Name
  BY <1>1, AtHand DEF Stage, SourceGone, Compare, EnsureDirectory, UpdateFile, UpdateFails,
         UpdateReservedKey, Updated, AtTest, Running
<1>4. \A t : Names(t)' = Names(t) /\ Files(t)' = Files(t)
  BY <1>1 DEF judged, Names, Files
<1>5. Copied /\ Ending
  BY DEF Tested
<1>6. CASE SourceGone \/ UpdateFails \/ UpdateReservedKey
  BY <1>2, <1>6 DEF SourceGone, UpdateFails, UpdateReservedKey, Tested, Copied, Ending, Running
<1>7. CASE Compare
  <2>1. pc' \in {"stage", "decide"} /\ entry' = 1
        /\ UNCHANGED <<staged, source>>
    BY <1>5, <1>7 DEF Compare, AfterCompare, Copied, files, Running
  <2>2. pc' = "decide" => Staged(this)
    BY <1>3, <1>7, EqualIsEmpty DEF Compare, AfterCompare, Staged
  <2> QED BY <1>1, <1>2, <1>4, <2>1, <2>2 DEF Tested, Copied, Ending, Staged
<1>8. CASE EnsureDirectory
  <2>1. pc' \in {"copy", "error"} /\ entry' = 1 /\ entry = 1
    BY <1>5, <1>8 DEF EnsureDirectory, Copied, local, Running
  <2>2. \A i \in DOMAIN Names(this)' : ~(i < entry')
    <3>1. Names(this) \in Seq(Name \cup {Dot})
      BY <1>3, TestConstants DEF TypeOK, Suite, Names
    <3> QED BY <1>1, <1>4, <2>1, <3>1
  <2> QED BY <1>1, <1>2, <1>4, <2>1, <2>2 DEF Tested, Copied, Ending, Running
<1>9. CASE UpdateFile
  <2>1. /\ pc = "copy" /\ pc' = "copy" /\ entry <= Len(Names(this)) /\ name # Dot
        /\ entry' = entry + 1 /\ source' = source /\ entry \in Nat \ {0}
        /\ name \in Name
    BY <1>3, <1>9 DEF UpdateFile, TypeOK
  <2>2. staged' = [staged EXCEPT ![this][name] = source[this][name]]
    BY <1>3, <1>9, NothingEqual DEF UpdateFile
  <2>3. \A n \in Name : staged'[this][n] = IF n = name THEN source[this][name]
                                           ELSE staged[this][n]
    BY <1>3, <2>1, <2>2 DEF TypeOK
  <2>4. Names(this) \in Seq(Name \cup {Dot})
    BY <1>3, TestConstants DEF TypeOK, Suite, Names
  <2>5. ASSUME NEW i \in DOMAIN Names(this), i < entry + 1
        PROVE  /\ Names(this)[i] # Dot
               /\ staged'[this][Names(this)[i]] = source[this][Names(this)[i]]
    <3>1. Names(this)[i] \in Name \cup {Dot} /\ i \in Nat
      BY <2>4
    <3>2. CASE i = entry
      BY <2>1, <2>3, <3>2 DEF name
    <3>3. CASE i # entry
      <4>1. i < entry
        BY <2>1, <2>5, <3>1, <3>3
      <4>2. Names(this)[i] # Dot /\ staged[this][Names(this)[i]] = source[this][Names(this)[i]]
        BY <1>5, <2>1, <4>1 DEF Copied
      <4> QED BY <2>3, <3>1, <4>2
    <3> QED BY <3>2, <3>3
  <2> QED BY <1>1, <1>2, <1>4, <2>1, <2>5 DEF Tested, Copied, Ending
<1>10. CASE Updated
  <2>1. /\ pc = "copy" /\ pc' = "decide" /\ entry' = 1 /\ entry > Len(Names(this))
        /\ UNCHANGED <<staged, source>>
    BY <1>10 DEF Updated, files
  <2>2. Names(this) \in Seq(Name \cup {Dot}) /\ entry \in Nat
    BY <1>3, TestConstants DEF TypeOK, Suite, Names
  <2>3. Staged(this)
    <3> SUFFICES ASSUME NEW i \in DOMAIN Names(this)
                 PROVE  staged[this][Names(this)[i]] = source[this][Names(this)[i]]
      BY DEF Staged, Files
    <3>1. i < entry
      BY <2>1, <2>2
    <3> QED BY <1>5, <2>1, <3>1 DEF Copied
  <2> QED BY <1>1, <1>2, <1>4, <2>1, <2>3 DEF Tested, Copied, Ending, Staged
<1> QED BY <1>6, <1>7, <1>8, <1>9, <1>10 DEF Stage

LEMMA ExecuteStep ==
  ASSUME TypeOK, Control, Places, Places', Markers, Counted, Tested, Execute, Plain
  PROVE  Tested'
<1> USE DEF Plain
<1>1. /\ UNCHANGED <<cmd, source, suite, next, entry, tested_in>>
      /\ pc \in AtTest /\ (pc' \in Running => this' = this)
  <2>1. UNCHANGED <<cmd, source, suite, next, entry, tested_in>> /\ pc \in AtTest
    BY DEF Execute, Decide, RemoveMarker, EnterWorkspace, RunAction, PrintAction,
           LeaveWorkspace, WriteMarker, local, history, AtTest, Running
  <2> QED BY <2>1, SameTest DEF AtTest
<1>2. this \in Site
  BY <1>1, AtHand
<1>3. \A t : Names(t)' = Names(t) /\ Files(t)' = Files(t)
  BY <1>1 DEF Names, Files
<1>4. Earlier /\ Copied /\ Ending /\ entry' = entry
  BY <1>1 DEF Tested
<1>5. \A i \in DOMAIN cmd.tests :
        i < next => Passed(Begun(i)) \/ Begun(i) = this
  BY <1>1, <1>4 DEF Earlier, AtTest
<1>6. \A i \in DOMAIN cmd.tests : i < next => Begun(i) \in Site /\ Begun(i)' = Begun(i)
  <2>1. /\ cmd.tests \in Seq(Test) /\ tested_in \in Seq(Place) /\ next \in Nat
    BY TestConstants DEF TypeOK, Suite, Command
  <2>2. Len(tested_in) = next
    BY DEF Counted, Execute, Decide, RemoveMarker, EnterWorkspace, RunAction, PrintAction,
           LeaveWorkspace, WriteMarker, Running
  <2> QED BY <1>1, <2>1, <2>2 DEF Begun, Site
<1>7. entry = 1
  BY <1>4 DEF Copied, Execute, Decide, RemoveMarker, EnterWorkspace, RunAction,
              PrintAction, LeaveWorkspace, WriteMarker, Running
<1>8. CASE Decide
  <2>1. /\ pc' = "unmark" /\ UNCHANGED <<judged, tested_in>> /\ pc = "decide"
        /\ staged' = staged /\ this' = this
    BY <1>1, <1>2, <1>8, AlwaysRuns DEF Decide, local, history, files, judged, Running
  <2>2. Earlier'
    BY <1>4, <2>1, EarlierKept DEF Running, Again
  <2> QED BY <1>1, <1>3, <1>4, <1>7, <2>1, <2>2 DEF Tested, Copied, Ending, Staged
<1>9. CASE RemoveMarker
  <2>1. CASE pc' = "error"
    BY <2>1 DEF Tested, Earlier, Copied, Ending, Running
  <2>2. CASE pc' # "error"
    <3>1. /\ pc = "unmark" /\ pc' = "enter" /\ staged' = staged /\ this' = this
          /\ marker' = [marker EXCEPT ![this] = Missing]
          /\ UNCHANGED <<verdict, ran_on>>
      BY <1>1, <1>9, <2>2 DEF RemoveMarker, Unmark, history, Running
    <3>2. \A t \in Site \ {this} : Passed(t) => Passed(t)'
      BY <1>1, <1>3, <3>1 DEF Passed, TypeOK
    <3>3. Earlier'
      BY <1>1, <1>5, <1>6, <3>1, <3>2 DEF Earlier, Again
    <3> QED BY <1>1, <1>3, <1>4, <1>7, <3>1, <3>3 DEF Tested, Copied, Ending, Staged
  <2> QED BY <2>1, <2>2
<1>10. CASE EnterWorkspace
  <2>1. CASE pc' = "error"
    BY <2>1 DEF Tested, Earlier, Copied, Ending, Running
  <2>2. CASE pc' # "error"
    <3>1. /\ pc = "enter" /\ pc' = "action" /\ UNCHANGED <<staged, marker>> /\ this' = this
          /\ verdict' = [verdict EXCEPT ![this] = "running"]
          /\ ran_on' = [ran_on EXCEPT ![this] = staged[this]]
      BY <1>1, <1>10, <2>2 DEF EnterWorkspace, files, Running
    <3>2. \A t \in Site \ {this} : Passed(t) => Passed(t)'
      BY <1>1, <1>3, <3>1 DEF Passed, TypeOK
    <3>3. Earlier'
      BY <1>1, <1>5, <1>6, <3>1, <3>2 DEF Earlier, Again
    <3>4. RanOn(this)'
      <4>1. ran_on'[this] = staged[this]
        BY <1>2, <3>1 DEF TypeOK
      <4>2. Staged(this)
        BY <1>4, <3>1 DEF Copied
      <4> QED BY <1>1, <1>3, <3>1, <4>1, <4>2 DEF RanOn, Staged
    <3> QED BY <1>1, <1>7, <3>1, <3>3, <3>4 DEF Tested, Copied, Ending, RanOn
  <2> QED BY <2>1, <2>2
<1>11. CASE RunAction
  <2>1. /\ pc = "action" /\ pc' = "leave" /\ UNCHANGED <<marker, ran_on>> /\ this' = this
        /\ \E v : verdict' = [verdict EXCEPT ![this] = v]
    BY <1>1, <1>11 DEF RunAction, Running
  <2>2. \A t \in Site \ {this} : Passed(t) => Passed(t)'
    BY <1>1, <1>3, <2>1 DEF Passed, TypeOK
  <2>3. Earlier'
    BY <1>1, <1>5, <1>6, <2>1, <2>2 DEF Earlier, Again
  <2> QED BY <1>1, <1>3, <1>4, <1>7, <2>1, <2>3 DEF Tested, Copied, Ending, RanOn
<1>12. CASE PrintAction
  BY <1>1, <1>12 DEF PrintAction
<1>13. CASE LeaveWorkspace
  <2>1. /\ pc = "leave" /\ pc' \in {"mark", "exit", "error"}
        /\ UNCHANGED <<judged, tested_in>> /\ (pc' = "mark" => this' = this)
    BY <1>1, <1>13 DEF LeaveWorkspace, Control, history, files, judged, Running
  <2>2. CASE pc' = "mark"
    <3>1. Earlier'
      BY <1>4, <2>1, <2>2, EarlierKept DEF Running, Again
    <3> QED BY <1>1, <1>3, <1>4, <1>7, <2>1, <2>2, <3>1
            DEF Tested, Copied, Ending, RanOn, judged
  <2>3. CASE pc' \in {"exit", "error"}
    BY <2>3 DEF Tested, Earlier, Copied, Ending, Running
  <2> QED BY <2>1, <2>2, <2>3
<1>14. CASE WriteMarker
  <2>1. CASE pc' = "error"
    BY <2>1 DEF Tested, Earlier, Copied, Ending, Running
  <2>2. CASE pc' # "error"
    <3>1. /\ pc = "mark" /\ pc' = "return" /\ UNCHANGED <<verdict, ran_on>> /\ this' = this
          /\ marker' = [marker EXCEPT ![this] = Regular]
      BY <1>1, <1>14, <2>2 DEF WriteMarker, history, Running
    <3>2. \A t \in Site : Passed(t) => Passed(t)'
      BY <1>1, <1>3, <3>1 DEF Passed, TypeOK
    <3>3. Passed(this)'
      <4>1. RanOn(this) /\ verdict[this] = "passed"
        BY <1>4, <3>1 DEF Copied, Markers
      <4>2. marker'[this] = Regular
        BY <1>2, <3>1 DEF TypeOK
      <4> QED BY <1>1, <1>3, <3>1, <4>1, <4>2 DEF Passed, RanOn
    <3>4. Earlier'
      BY <1>1, <1>5, <1>6, <3>1, <3>2, <3>3 DEF Earlier
    <3> QED BY <1>1, <1>7, <3>1, <3>3, <3>4 DEF Tested, Copied, Ending
  <2> QED BY <2>1, <2>2
<1> QED BY <1>8, <1>9, <1>10, <1>11, <1>12, <1>13, <1>14 DEF Execute

LEMMA TestedStep == TestInv /\ Counted /\ Tested /\ [Next]_vars => Tested'
<1> SUFFICES ASSUME TypeOK, Control, Places, Places', Markers, Counted, Tested, [Next]_vars
             PROVE  Tested'
  BY PlacesStep DEF TestInv
<1>1. CASE Invoke
  <2>1. pc' = "test" /\ next' = 1 /\ entry' = 1
    BY <1>1 DEF Invoke, Start
  <2>2. \A i \in DOMAIN cmd'.tests : i \in Nat \ {0}
    BY <1>1, TestConstants DEF Invoke, TypeOK, Suite, Command
  <2>3. \A i \in DOMAIN cmd'.tests : ~(i < next')
    BY <2>1, <2>2
  <2> QED BY <2>1, <2>3 DEF Tested, Earlier, Copied, Ending
<1>2. CASE NextTest \/ AllTested
  <2>1. /\ UNCHANGED <<judged, tested_in>> /\ UNCHANGED <<moved, entry>> /\ pc \in Running \ {"copy"}
        /\ pc \notin Again /\ pc' \in {"order", "ok"}
        /\ pc' = "ok" => next > Len(cmd.tests)
    BY <1>2 DEF NextTest, AllTested, local, files, history, judged,
                Running, Again
  <2>2. Plain' => Plain
    BY <2>1 DEF Plain, judged
  <2>3. Tested /\ Plain => Earlier' /\ entry' = 1
    BY <2>1, EarlierKept DEF Tested, Copied
  <2> QED BY <2>1, <2>2, <2>3 DEF Tested, Copied, Ending, judged
<1>3. CASE Return
  <2>1. /\ pc = "return" /\ pc' = "test" /\ next' = next + 1 /\ next \in Nat
        /\ UNCHANGED <<suite, cmd, entry, source, marker, verdict, ran_on, moved, tested_in>>
    BY <1>3 DEF Return, files, history, TypeOK
  <2>2. ASSUME Plain
        PROVE  Earlier' /\ entry' = 1
    <3>1. /\ entry = 1 /\ Passed(this)
          /\ \A i \in DOMAIN cmd.tests : i < next => Passed(Begun(i))
      BY <2>1, <2>2 DEF Tested, Earlier, Copied, Ending, Running, Again
    <3>2. \A t : Passed(t) => Passed(t)'
      BY <2>1 DEF Passed, Files, Names
    <3>3. \A i \in DOMAIN cmd.tests : i < next + 1 => i < next \/ i = next
      BY <2>1, NothingBefore
    <3>4. Begun(next) = this
      <4>1. here = tested_in[next]
        <5>1. here = Origin /\ Len(tested_in) = next /\ tested_in \in Seq(Place) /\ next # 0
          BY <2>1, NamesAt DEF Counted, Running, TypeOK
        <5> QED BY <5>1 DEF Origin
      <4> QED BY <4>1 DEF Begun, this
    <3>5. \A i : Begun(i)' = Begun(i)
      BY <2>1 DEF Begun
    <3>6. Earlier'
      BY <2>1, <3>1, <3>2, <3>3, <3>4, <3>5 DEF Earlier
    <3> QED BY <2>1, <3>1, <3>6
  <2>3. Plain' => Plain
    BY <2>1 DEF Plain
  <2> QED BY <2>1, <2>2, <2>3 DEF Tested, Copied, Ending
<1>4. CASE Stage
  <2>1. Plain' => Plain
    BY <1>4 DEF Stage, SourceGone, Compare, EnsureDirectory, UpdateFile, UpdateFails,
                UpdateReservedKey, Updated, Plain, local, history
  <2> QED BY <1>4, <2>1, StageStep DEF Tested
<1>5. CASE Execute
  <2>1. Plain' => Plain
    BY <1>5 DEF Execute, Decide, RemoveMarker, EnterWorkspace, RunAction, PrintAction,
                LeaveWorkspace, WriteMarker, Plain, local, history
  <2> QED BY <1>5, <2>1, ExecuteStep DEF Tested
<1>6. CASE Kill
  BY <1>6 DEF Kill, Tested, Earlier, Copied, Ending, Running
<1>9. CASE BuildOrderOnly
  <2>1. /\ pc = "order" /\ pc' \in {"compare", "exit", "error"}
        /\ tested_in' = Append(tested_in, cwd') /\ UNCHANGED <<judged, moved, entry>>
    BY <1>9 DEF BuildOrderOnly, local, files, judged
  <2>2. Plain' => Plain
    BY <2>1 DEF Plain, judged
  <2>3. ASSUME Plain
        PROVE  Earlier' /\ entry' = 1
    <3>1. \A i \in DOMAIN cmd.tests : i < next => Passed(Begun(i)) /\ Begun(i)' = Begun(i)
      <4>1. Len(tested_in) = next - 1 /\ next \in Nat /\ tested_in \in Seq(Place)
        BY <2>1 DEF Counted, TypeOK, Running
      <4>2. \A i \in DOMAIN cmd.tests : i < next => tested_in'[i] = tested_in[i]
        BY <2>1, <4>1, NothingBefore
      <4> QED BY <2>1, <2>3, <4>2 DEF Tested, Earlier, Running, Again, Begun, judged
    <3>2. \A t : Passed(t) => Passed(t)'
      BY <2>1, StillPassed
    <3>3. entry = 1
      BY <2>1, <2>3 DEF Tested, Copied, Running
    <3> QED BY <2>1, <3>1, <3>2, <3>3 DEF Earlier, judged
  <2> QED BY <2>1, <2>2, <2>3 DEF Tested, Copied, Ending
<1>7. CASE Edit
  BY <1>7 DEF Edit, Tested, Plain
<1>8. CASE Stop \/ UNCHANGED vars
  <2>1. UNCHANGED vars
    BY <1>8 DEF Stop
  <2>2. /\ UNCHANGED <<judged, tested_in>> /\ UNCHANGED <<pc, entry, staged, moved>>
        /\ this' = this
    BY <2>1 DEF vars, local, files, place, history, judged, this, here
  <2>3. \A t : Passed(t)' = Passed(t) /\ Names(t)' = Names(t) /\ Files(t)' = Files(t)
    BY <2>2 DEF judged, Passed, Files, Names
  <2>4. \A i : Begun(i)' = Begun(i)
    BY <2>2 DEF judged, Begun
  <2> QED BY <2>2, <2>3, <2>4
          DEF Tested, Plain, Earlier, Copied, Ending, Staged, RanOn, judged
<1> QED BY <1>1, <1>2, <1>3, <1>4, <1>5, <1>6, <1>7, <1>8, <1>9 DEF Next

(* When a suite succeeded and no source was edited meanwhile, every test    *)
(* of it has passed on exactly its source, whatever is left of earlier      *)
(* invocations (operator.lua:755-860).                                      *)
THEOREM SuiteWasTested == Spec => []SuiteTested
<1>1. TestInv /\ Tested => SuiteTested
  <2> SUFFICES ASSUME TypeOK, Tested, Plain, pc = "ok", NEW i \in DOMAIN cmd.tests
               PROVE  Passed(Begun(i))
    BY DEF TestInv, Plain, SuiteTested, Passed, Begun
  <2>1. i < next
    <3>1. cmd.tests \in Seq(Test) /\ next \in Nat
      BY TestConstants DEF TypeOK, Suite, Command
    <3> QED BY <3>1 DEF Tested, Ending
  <2> QED BY <2>1 DEF Tested, Earlier, Again
<1>2. Init => Counted
  BY DEF Init, Counted
<1>3. TestInv /\ Counted /\ [Next]_vars => Counted'
  BY CountedStep DEF TestInv
<1> QED BY <1>1, <1>2, <1>3, TestInvariance, TestedInit, TestedStep, PTL DEF Spec

=============================================================================
