---------------------------- MODULE UpdateProofs ----------------------------
(***************************************************************************)
(* Theorems about Update, for every set of projects and command lines.     *)
(***************************************************************************)
EXTENDS UpdateInv, TLAPS

(* The innermost call and the calls around it.                             *)
LEMMA TopFrame ==
  ASSUME stack \in Seq(Frame), stack # <<>>
  PROVE  /\ Len(stack) \in Nat \ {0}
         /\ Top = stack[Len(stack)] /\ Top \in Frame
BY DEF Top

LEMMA PopFrame ==
  ASSUME stack \in Seq(Frame), stack # <<>>
  PROVE  /\ Pop \in Seq(Frame)
         /\ Len(Pop) = Len(stack) - 1
         /\ \A i \in 1 .. (Len(stack) - 1) : Pop[i] = stack[i]
BY DEF Pop

(* A timestamp that is looked up is one, and never nil.                     *)
LEMMA LookupType ==
  ASSUME TypeOK, NEW a \in Atom
  PROVE  /\ BoundDir(a) \in Dir
         /\ Snapshot(BoundDir(a)) \in [Atom -> FileTime]
         /\ Lookup(a, BoundDir(a)) \in Time
<1>1. BoundDir(a) \in Dir
  BY ConstantsAssumption DEF TypeOK, BoundDir
<1>2. Snapshot(BoundDir(a)) \in [Atom -> FileTime]
  BY <1>1, ConstantsAssumption DEF TypeOK, Snapshot
<1>3. Lookup(a, BoundDir(a)) \in Time
  BY <1>2, ConstantsAssumption DEF TypeOK, Lookup, Time, FileTime
<1> QED BY <1>1, <1>2, <1>3

(* BIND and get_timestamp keep the types of what they set.                  *)
LEMMA BindAndStampType ==
  ASSUME TypeOK, NEW a \in Atom, BindAndStamp(a)
  PROVE  /\ BOUND_NAME' \in [Atom -> Dir \cup {Nil}]
         /\ TIMESTAMP' \in [Atom -> Time \cup {Nil}]
         /\ dircache' \in [Dir -> [Atom -> FileTime] \cup {Nil}]
BY LookupType DEF TypeOK, BindAndStamp

(* A write keeps the disk and the clock below the newest time.              *)
LEMMA WriteType ==
  ASSUME TypeOK, NEW d, NEW files, Write(d, files)
  PROVE  disk' \in [Dir -> [Atom -> FileTime]] /\ clock' \in FileTime \ {0}
<1>1. clock' \in FileTime \ {0}
  BY ConstantsAssumption DEF TypeOK, Write, FileTime
<1> QED BY <1>1 DEF TypeOK, Write

(* The first invocation starts with variables of their types.               *)
LEMMA InitType == Init => TypeOK
<1> SUFFICES ASSUME Init PROVE TypeOK
  OBVIOUS
<1> USE ConstantsAssumption
<1>1. WellFormed(project) /\ inv \in Invocation
  BY ProjectsAssumption DEF Init, WellFormed, Project
<1>2. rule \in [Atom -> Rule] /\ disk \in [Dir -> [Atom -> FileTime]]
      /\ clock \in FileTime \ {0} /\ BOUND_NAME \in [Atom -> Dir \cup {Nil}]
  BY <1>1 DEF Init, WellFormed, Project, DeclaredDirs
<1>3. arg \in Atom
  BY <1>1 DEF Init, WellFormed, Invocation
<1>4. dircache \in [Dir -> [Atom -> FileTime] \cup {Nil}]
  BY <1>1 DEF Init, WellFormed, Project
<1>5. TIMESTAMP \in [Atom -> Time \cup {Nil}] /\ ran \in [Atom -> Nat]
  BY DEF Init
<1>6. epoch \in 1 .. MaxInvocations /\ edits \in 0 .. MaxEdits
  BY DEF Init
<1>7. stack \in Seq(Frame)
  BY DEF Init
<1>8. context \in Dir
  BY DEF Init
<1>12. BUILDING \subseteq Atom
  BY DEF Init
<1>9. root \in Nat \ {0} /\ pc \in Halted \cup Running
  BY DEF Init, Halted, Running
<1>13. needs \in BOOLEAN
  BY DEF Init
<1>10. ret \in Time \cup {Nil} /\ synced \in Seq(Atom) \cup {Nil}
  BY DEF Init
<1>11. settled \subseteq Atom /\ reported \subseteq Atom
  BY DEF Init
<1> QED BY <1>1, <1>2, <1>3, <1>4, <1>5, <1>6, <1>7, <1>8, <1>9, <1>10, <1>11, <1>12,
          <1>13 DEF TypeOK

(* A frame that moves on to its next prerequisite is still a frame.         *)
LEMMA AdvanceType ==
  ASSUME NEW f \in Frame, NEW t \in Time
  PROVE  Advance(f, t) \in Frame
<1>1. LaterOf(f.newest, t) \in Time /\ f.next + 1 \in Nat
  BY DEF LaterOf, Frame
<1> QED BY <1>1 DEF Advance, Frame

(* The end of a BUILD keeps the types of what it sets.                      *)
LEMMA CompleteType ==
  ASSUME TypeOK, stack # <<>>, NEW t \in Time, NEW n \in BOOLEAN, Complete(t, n)
  PROVE  /\ TIMESTAMP' \in [Atom -> Time \cup {Nil}] /\ BUILDING' \subseteq Atom
         /\ stack' \in Seq(Frame) /\ settled' \subseteq Atom
         /\ pc' \in Running /\ ret' \in Time /\ needs' \in BOOLEAN
<1>1. Top \in Frame /\ Top.atom \in Atom /\ Pop \in Seq(Frame)
  BY TopFrame, PopFrame DEF TypeOK, Frame
<1> QED BY <1>1 DEF TypeOK, Complete, Running

(* The types are preserved, action by action.                              *)
LEMMA TypePreserved == IInv /\ [Next]_vars => TypeOK'
<1> SUFFICES ASSUME TypeOK, RulesInv, PathInv, ControlInv, [Next]_vars
             PROVE  TypeOK'
  BY DEF IInv
<1> USE ConstantsAssumption DEF Halted, Running
<1> USE DEF vars, memory, calls, world, history
<1>1. CASE Invoke
  <2>1. inv' \in Invocation /\ arg' \in Atom
    BY <1>1 DEF Invoke, TypeOK, WellFormed, Project, Invocation
  <2>2. rule' \in [Atom -> Rule] /\ BOUND_NAME' \in [Atom -> Dir \cup {Nil}]
    BY <1>1 DEF Invoke, TypeOK, WellFormed, Project, DeclaredDirs
  <2>3. dircache' \in [Dir -> [Atom -> FileTime] \cup {Nil}]
    BY <1>1 DEF Invoke, TypeOK
  <2>4. TIMESTAMP' \in [Atom -> Time \cup {Nil}] /\ ran' \in [Atom -> Nat]
    BY <1>1 DEF Invoke
  <2>5. epoch' \in 1 .. MaxInvocations /\ edits' \in 0 .. MaxEdits
    BY <1>1 DEF Invoke, TypeOK
  <2>6. context' \in Dir
    BY <1>1 DEF Invoke
  <2>7. stack' \in Seq(Frame) /\ BUILDING' \subseteq Atom
    BY <1>1 DEF Invoke
  <2>8. root' \in Nat \ {0} /\ pc' \in Halted \cup Running
    BY <1>1 DEF Invoke
  <2>9. needs' \in BOOLEAN
    BY <1>1 DEF Invoke
  <2> QED BY <1>1, <2>1, <2>2, <2>3, <2>4, <2>5, <2>6, <2>7, <2>8, <2>9 DEF Invoke, TypeOK
<1>2. CASE NextRoot
  BY <1>2 DEF NextRoot, TypeOK, Invocation
<1>3. CASE AllRootsBuilt
  BY <1>3 DEF AllRootsBuilt, TypeOK, Invocation
<1>4. CASE RootReturns
  <2>1. inv.roots[root] \in Atom
    BY <1>4 DEF RootReturns, TypeOK, Invocation, ControlInv
  <2> QED BY <1>4, <2>1 DEF RootReturns, TypeOK
<1>5. CASE InventRule
  <2>1. project.implicit[arg] \in Seq(Rule)
    BY DEF TypeOK, WellFormed, Project
  <2>2. PICK i \in DOMAIN project.implicit[arg] :
               rule' = [rule EXCEPT ![arg] = project.implicit[arg][i]]
    BY <1>5 DEF InventRule
  <2>3. project.implicit[arg][i] \in Rule
    BY <2>1, <2>2
  <2> QED BY <1>5, <2>2, <2>3 DEF InventRule, TypeOK
<1>6. CASE NoRuleFound
  BY <1>6 DEF NoRuleFound, TypeOK
<1>7. CASE SourceExists
  BY <1>7, BindAndStampType, LookupType DEF SourceExists, TypeOK
<1>8. CASE SourceMissing
  <2>1. arg \in Atom /\ BindAndStamp(arg)
    BY <1>8 DEF SourceMissing, TypeOK
  <2> QED BY <1>8, <2>1, BindAndStampType DEF SourceMissing, TypeOK
<1>9. CASE Circular
  BY <1>9 DEF Circular, TypeOK
<1>10. CASE BeginBuild
  <2>1. stack' \in Seq(Frame)
    BY <1>10, LookupType DEF BeginBuild, TypeOK, Frame, Time, Oldest
  <2> QED BY <1>10, <2>1, BindAndStampType DEF BeginBuild, TypeOK
<1>11. CASE ActivateBuild
  <2>1. BOUND_NAME[arg] \in Dir
    BY <1>11 DEF ActivateBuild, TypeOK, RulesInv
  <2> QED BY <1>11, <2>1 DEF ActivateBuild, TypeOK
<1>12. CASE NextPrerequisite
  <2>1. Top \in Frame
    BY <1>12, TopFrame DEF NextPrerequisite, TypeOK, ControlInv
  <2>2. arg' \in Atom
    BY <1>12, <2>1, SMTT(30) DEF NextPrerequisite, TypeOK, Rule, Frame, PathInv, Top, ControlInv
  <2> QED BY <1>12, <2>2 DEF NextPrerequisite, TypeOK
<1>13. CASE PrerequisiteReturns
  <2>1. Pop \in Seq(Frame) /\ Advance(Top, ret) \in Frame
    BY <1>13, TopFrame, PopFrame, AdvanceType DEF PrerequisiteReturns, TypeOK
  <2>2. stack' \in Seq(Frame)
    BY <1>13, <2>1 DEF PrerequisiteReturns
  <2> QED BY <1>13, <2>2 DEF PrerequisiteReturns, TypeOK
<1>14. CASE BuildContextAsPrerequisite
  BY <1>14 DEF BuildContextAsPrerequisite, TypeOK
<1>15. CASE NothingToRun
  <2>1. Top \in Frame /\ stack # <<>>
    BY <1>15, TopFrame DEF NothingToRun, TypeOK, ControlInv
  <2>2. Top.time \in Time /\ NeedsBuilding(Top) \in BOOLEAN
    BY <2>1 DEF Frame, NeedsBuilding, TypeOK, Invocation
  <2> QED BY <1>15, <2>1, <2>2, CompleteType DEF NothingToRun, TypeOK
<1>16. CASE StartAction
  BY <1>16 DEF StartAction, TypeOK
<1>17. CASE ActionSucceeds
  <2>1. Top \in Frame /\ stack # <<>> /\ Top.atom \in Atom
    BY <1>17, TopFrame DEF ActionSucceeds, TypeOK, ControlInv, Frame
  <2>2. Newest \in Time
    BY DEF Time
  <2>3. ran' \in [Atom -> Nat]
    BY <1>17, <2>1 DEF ActionSucceeds, TypeOK
  <2>4. disk' \in [Dir -> [Atom -> FileTime]] /\ clock' \in FileTime \ {0}
    BY <1>17, <2>1, WriteType DEF ActionSucceeds, TypeOK
  <2> QED BY <1>17, <2>1, <2>2, <2>3, <2>4, CompleteType DEF ActionSucceeds, TypeOK
<1>18. CASE ActionFails
  BY <1>18, WriteType DEF ActionFails, TypeOK
<1>19. CASE Kill
  BY <1>19, WriteType DEF Kill, TypeOK
<1>20. CASE Edit
  BY <1>20, WriteType DEF Edit, TypeOK
<1>21. CASE Stop \/ UNCHANGED vars
  BY <1>21 DEF Stop, TypeOK
<1> QED
  BY <1>1, <1>2, <1>3, <1>4, <1>5, <1>6, <1>7, <1>8, <1>9, <1>10, <1>11, <1>12,
     <1>13, <1>14, <1>15, <1>16, <1>17, <1>18, <1>19, <1>20, <1>21
  DEF Next, Step, Enter, Decide

-----------------------------------------------------------------------------
(* The parts of a frame of the stack.                                       *)
LEMMA FrameTypes ==
  ASSUME TypeOK, NEW i \in 1 .. Len(stack)
  PROVE  /\ stack[i] \in Frame
         /\ stack[i].atom \in Atom /\ stack[i].next \in Nat
         /\ stack[i].time \in Time /\ stack[i].newest \in Time
<1>1. stack[i] \in Frame
  <2>1. stack \in Seq(Frame)
    BY DEF TypeOK
  <2> QED BY <2>1
<1> QED BY <1>1 DEF Frame

(* How the stack changes: by one frame at its end.                         *)
LEMMA PushedStack ==
  ASSUME TypeOK, BeginBuild
  PROVE  LET n == Len(stack) IN
         /\ n \in Nat /\ Len(stack') = n + 1
         /\ \A i \in 1 .. n : stack'[i] = stack[i]
         /\ stack'[n + 1] = [atom |-> arg, next |-> 1,
                            time |-> Lookup(arg, BoundDir(arg)), newest |-> Oldest]
BY LookupType DEF TypeOK, BeginBuild, Frame, Time, Oldest

(* Moving on replaces the innermost frame and touches no other.             *)
LEMMA AdvancedStack ==
  ASSUME TypeOK, PrerequisiteReturns
  PROVE  LET n == Len(stack) IN
         /\ n \in Nat \ {0} /\ Len(stack') = n /\ Top = stack[n]
         /\ \A i \in 1 .. (n - 1) : stack'[i] = stack[i]
         /\ stack'[n].atom = stack[n].atom /\ stack'[n].next = stack[n].next + 1
         /\ stack'[n].time = stack[n].time
         /\ stack'[n].newest = LaterOf(stack[n].newest, ret)
<1> DEFINE n == Len(stack)
<1>1. Top \in Frame /\ Top = stack[n] /\ n \in Nat \ {0} /\ Advance(Top, ret) \in Frame
  BY TopFrame, AdvanceType DEF TypeOK, PrerequisiteReturns
<1>2. /\ Pop \in Seq(Frame) /\ Len(Pop) = n - 1
      /\ \A i \in 1 .. (n - 1) : Pop[i] = stack[i]
  BY PopFrame DEF TypeOK, PrerequisiteReturns
<1>3. stack' = Append(Pop, Advance(Top, ret))
  BY DEF PrerequisiteReturns
<1>4. /\ Len(stack') = n /\ stack'[n] = Advance(Top, ret)
      /\ \A i \in 1 .. (n - 1) : stack'[i] = stack[i]
  BY <1>1, <1>2, <1>3
<1>5. /\ Advance(Top, ret).atom = Top.atom /\ Advance(Top, ret).next = Top.next + 1
      /\ Advance(Top, ret).time = Top.time
      /\ Advance(Top, ret).newest = LaterOf(Top.newest, ret)
  BY <1>1 DEF Advance, Frame
<1> QED BY <1>1, <1>4, <1>5

(* The end of a BUILD takes the innermost frame off the stack.              *)
LEMMA PoppedStack ==
  ASSUME TypeOK, stack # <<>>, NEW t, NEW b, Complete(t, b)
  PROVE  LET n == Len(stack) IN
         /\ n \in Nat \ {0} /\ Len(stack') = n - 1 /\ Top = stack[n]
         /\ \A i \in 1 .. (n - 1) : stack'[i] = stack[i]
BY TopFrame, PopFrame DEF TypeOK, Complete

(* A frame that is not the innermost one is the same in the popped stack.   *)
LEMMA FrameKept ==
  ASSUME NEW i, stack'[i].atom = stack[i].atom, stack'[i].next = stack[i].next,
         rule'[stack[i].atom] = rule[stack[i].atom]
  PROVE  Current(i)' = Current(i) /\ (AtPrerequisite(i)' <=> AtPrerequisite(i))
BY DEF Current, AtPrerequisite

(* A rule that is found late is the rule of an atom outside the stack.     *)
LEMMA InventedRule ==
  ASSUME TypeOK, PathInv, InventRule
  PROVE  /\ arg \in Atom /\ rule'[arg].op = ":"
         /\ \A a \in Atom \ {arg} : rule'[a] = rule[a]
         /\ \A i \in 1 .. Len(stack) :
              stack[i].atom \in Atom \ {arg} /\ rule'[stack[i].atom] = rule[stack[i].atom]
<1>1. PICK i \in DOMAIN project.implicit[arg] :
           rule' = [rule EXCEPT ![arg] = project.implicit[arg][i]]
  BY DEF InventRule
<1>2. arg \in Atom /\ project.implicit[arg][i].op = ":"
  BY <1>1 DEF TypeOK, WellFormed
<1>3. rule'[arg].op = ":" /\ \A a \in Atom \ {arg} : rule'[a] = rule[a]
  BY <1>1, <1>2 DEF TypeOK
<1>4. \A j \in 1 .. Len(stack) : stack[j].atom \in Atom \ {arg}
  <2> TAKE j \in 1 .. Len(stack)
  <2>1. stack[j].atom \in Atom
    BY FrameTypes
  <2>2. rule[stack[j].atom].op # rule[arg].op
    BY DEF PathInv, InventRule
  <2> QED BY <2>1, <2>2
<1> QED BY <1>2, <1>3, <1>4

(* What BIND and the timestamp leave alone.                                *)
LEMMA BoundAndStamped ==
  ASSUME TypeOK, NEW a \in Atom, BindAndStamp(a)
  PROVE  /\ TIMESTAMP'[a] = Lookup(a, BoundDir(a))
         /\ \A b \in Atom \ {a} : TIMESTAMP'[b] = TIMESTAMP[b]
         /\ \A b \in Atom : BOUND_NAME[b] # Nil => BOUND_NAME'[b] # Nil
         /\ dircache[Src] # Nil => dircache'[Src] = dircache[Src]
<1>1. BoundDir(a) \in Dir /\ Src \in Dir
  BY LookupType, ConstantsAssumption
<1> QED BY <1>1, ConstantsAssumption DEF TypeOK, BindAndStamp, Snapshot

-----------------------------------------------------------------------------
(* Every step keeps RulesInv.                                               *)
LEMMA RulesPreserved == IInv /\ [Next]_vars => RulesInv'
<1> SUFFICES ASSUME TypeOK, RulesInv, PathInv, ControlInv, [Next]_vars
             PROVE  RulesInv'
  BY DEF IInv
<1> USE DEF vars, memory, calls, world, history
<1>1. CASE Invoke
  <2>1. project.rule \in [Atom -> Rule] /\ WellFormed(project)
        /\ project.outdir \in [Atom -> Dir] /\ disk[Src] \in [Atom -> FileTime]
    BY ConstantsAssumption DEF TypeOK, WellFormed, Project
  <2>2. dircache'[Src] # Nil
    BY <1>1, <2>1, ConstantsAssumption DEF Invoke
  <2>3. \A a \in Atom : rule'[a].op = ":BUILD:" => BOUND_NAME'[a] # Nil
    BY <1>1, <2>1, ConstantsAssumption DEF Invoke, DeclaredDirs
  <2>4. \A a \in Atom : rule'[a].op # ":" => rule'[a].prereqs = <<>> /\ ~rule'[a].action
    BY <1>1, <2>1 DEF Invoke, WellFormed
  <2> QED BY <2>2, <2>3, <2>4 DEF RulesInv
<1>2. CASE InventRule
  BY <1>2, InventedRule DEF InventRule, RulesInv
<1>3. CASE SourceExists \/ SourceMissing \/ BeginBuild
  <2>1. arg \in Atom /\ BindAndStamp(arg) /\ rule' = rule
    BY <1>3 DEF SourceExists, SourceMissing, BeginBuild, TypeOK
  <2> QED BY <2>1, BoundAndStamped DEF RulesInv
<1>4. CASE \/ NextRoot \/ AllRootsBuilt \/ RootReturns \/ NoRuleFound \/ Circular
           \/ ActivateBuild \/ NextPrerequisite \/ PrerequisiteReturns
           \/ BuildContextAsPrerequisite \/ NothingToRun \/ StartAction
           \/ ActionSucceeds \/ ActionFails \/ Kill \/ Edit \/ Stop \/ UNCHANGED vars
  <2>1. UNCHANGED <<rule, dircache, BOUND_NAME>>
    BY <1>4 DEF NextRoot, AllRootsBuilt, RootReturns, NoRuleFound, Circular,
           ActivateBuild, NextPrerequisite, PrerequisiteReturns,
           BuildContextAsPrerequisite, NothingToRun, StartAction,
           ActionSucceeds, ActionFails, Kill, Edit, Stop
  <2> QED BY <2>1 DEF RulesInv
<1> QED BY <1>1, <1>2, <1>3, <1>4 DEF Next, Step, Enter, Decide

(* The stack stays a chain of distinct, flagged atoms.                     *)
LEMMA PathPreserved == IInv /\ [Next]_vars => PathInv'
<1> SUFFICES ASSUME TypeOK, RulesInv, PathInv, ControlInv, [Next]_vars
             PROVE  PathInv'
  BY DEF IInv
<1> DEFINE n == Len(stack)
<1>0. n \in Nat
  BY DEF TypeOK
<1> USE DEF vars, memory, calls, world, history
<1>1. CASE Invoke
  BY <1>1 DEF Invoke, PathInv
<1>2. CASE InventRule
  <2>1. UNCHANGED <<stack, BUILDING>>
    BY <1>2 DEF InventRule
  <2>2. \A i \in 1 .. n : rule'[stack[i].atom] = rule[stack[i].atom]
    BY <1>2, InventedRule
  <2>3. \A i \in 1 .. (n - 1) : AtPrerequisite(i)' /\ stack'[i + 1].atom = Current(i)'
    <3> TAKE i \in 1 .. (n - 1)
    <3>1. Current(i)' = Current(i) /\ (AtPrerequisite(i)' <=> AtPrerequisite(i))
      BY <1>0, <2>1, <2>2, FrameKept
    <3> QED BY <2>1, <3>1 DEF PathInv
  <2> QED BY <2>1, <2>2, <2>3 DEF PathInv
<1>3. CASE BeginBuild
  <2>1. /\ Len(stack') = n + 1
        /\ \A i \in 1 .. n : stack'[i] = stack[i]
        /\ stack'[n + 1].atom = arg /\ stack'[n + 1].next = 1
    BY <1>3, PushedStack
  <2>2. rule' = rule /\ rule[arg].op = ":" /\ BUILDING' = BUILDING \cup {arg}
        /\ arg \notin BUILDING
    BY <1>3 DEF BeginBuild
  <2>3. \A i \in 1 .. n : stack[i].atom # arg
    BY <2>2, FrameTypes DEF PathInv
  <2>4. n # 0 => AtPrerequisite(n) /\ arg = Current(n)
    BY <1>3 DEF BeginBuild, ControlInv
  <2>5. \A i \in 1 .. n : AtPrerequisite(i)' /\ stack'[i + 1].atom = Current(i)'
    <3> TAKE i \in 1 .. n
    <3>1. Current(i)' = Current(i) /\ (AtPrerequisite(i)' <=> AtPrerequisite(i))
      BY <2>1, <2>2, FrameKept
    <3>2. CASE i = n
      BY <1>0, <2>1, <2>4, <3>1, <3>2
    <3>3. CASE i \in 1 .. (n - 1)
      BY <1>0, <2>1, <3>1, <3>3 DEF PathInv
    <3> QED BY <1>0, <3>2, <3>3
  <2>6. \A i \in 1 .. Len(stack') :
         rule'[stack'[i].atom].op = ":" /\ stack'[i].next \in Nat \ {0}
    BY <1>0, <2>1, <2>2 DEF PathInv
  <2>7. \A i, j \in 1 .. Len(stack') : stack'[i].atom = stack'[j].atom => i = j
    BY <1>0, <2>1, <2>3 DEF PathInv
  <2>8. \A a \in Atom : a \in BUILDING' <=> \E i \in 1 .. Len(stack') : stack'[i].atom = a
    BY <1>0, <2>1, <2>2 DEF PathInv
  <2>9. \A i \in 1 .. (Len(stack') - 1) : AtPrerequisite(i)' /\ stack'[i + 1].atom = Current(i)'
    BY <1>0, <2>1, <2>5
  <2> QED BY <2>6, <2>7, <2>8, <2>9 DEF PathInv
<1>4. CASE PrerequisiteReturns
  <2>1. /\ n \in Nat \ {0} /\ Len(stack') = n
        /\ \A i \in 1 .. (n - 1) : stack'[i] = stack[i]
        /\ stack'[n].atom = stack[n].atom /\ stack'[n].next = stack[n].next + 1
    BY <1>4, AdvancedStack
  <2>2. rule' = rule /\ BUILDING' = BUILDING
    BY <1>4 DEF PrerequisiteReturns
  <2>3. \A i \in 1 .. n : stack'[i].atom = stack[i].atom
    BY <2>1
  <2>4. \A i \in 1 .. n : stack'[i].next \in Nat \ {0}
    BY <2>1 DEF PathInv
  <2>5. \A i \in 1 .. (n - 1) : AtPrerequisite(i)' /\ stack'[i + 1].atom = Current(i)'
    <3> TAKE i \in 1 .. (n - 1)
    <3>1. Current(i)' = Current(i) /\ (AtPrerequisite(i)' <=> AtPrerequisite(i))
      BY <2>1, <2>2, FrameKept
    <3>2. AtPrerequisite(i) /\ stack[i + 1].atom = Current(i)
      BY DEF PathInv
    <3>3. i + 1 \in 1 .. n
      BY <2>1
    <3> QED BY <2>3, <3>1, <3>2, <3>3
  <2>6. \A i \in 1 .. n : rule'[stack'[i].atom].op = ":"
    BY <2>2, <2>3 DEF PathInv
  <2>7. \A i, j \in 1 .. n : stack'[i].atom = stack'[j].atom => i = j
    BY <2>3 DEF PathInv
  <2>8. \A a \in Atom : a \in BUILDING' <=> \E i \in 1 .. n : stack'[i].atom = a
    BY <2>2, <2>3 DEF PathInv
  <2>9. Len(stack') = n
    BY <2>1
  <2> QED BY <2>4, <2>5, <2>6, <2>7, <2>8, <2>9 DEF PathInv
<1>5. CASE NothingToRun \/ ActionSucceeds
  <2>1. PICK t, b : Complete(t, b)
    BY <1>5 DEF NothingToRun, ActionSucceeds
  <2>2. stack # <<>> /\ rule' = rule
    BY <1>5 DEF NothingToRun, ActionSucceeds, ControlInv
  <2>3. /\ n \in Nat \ {0} /\ Len(stack') = n - 1 /\ Top = stack[n]
        /\ \A i \in 1 .. (n - 1) : stack'[i] = stack[i]
    BY <2>1, <2>2, PoppedStack
  <2>4. BUILDING' = BUILDING \ {stack[n].atom}
    BY <2>1, <2>3 DEF Complete
  <2>5. \A a \in Atom : a \in BUILDING' <=> \E i \in 1 .. Len(stack') : stack'[i].atom = a
    <3>1. \A a \in Atom : a \in BUILDING <=> \E i \in 1 .. n : stack[i].atom = a
      BY DEF PathInv
    <3>2. \A i \in 1 .. n : stack[i].atom = stack[n].atom => i = n
      BY <2>3 DEF PathInv
    <3>3. \A i : i \in 1 .. n <=> i \in 1 .. (n - 1) \/ i = n
      BY <2>3
    <3> QED BY <2>3, <2>4, <3>1, <3>2, <3>3
  <2>6. \A i \in 1 .. (n - 2) : AtPrerequisite(i)' /\ stack'[i + 1].atom = Current(i)'
    <3> TAKE i \in 1 .. (n - 2)
    <3>1. Current(i)' = Current(i) /\ (AtPrerequisite(i)' <=> AtPrerequisite(i))
      BY <2>2, <2>3, FrameKept
    <3>2. AtPrerequisite(i) /\ stack[i + 1].atom = Current(i)
      BY <2>3 DEF PathInv
    <3>3. i + 1 \in 1 .. (n - 1)
      BY <2>3
    <3> QED BY <2>3, <3>1, <3>2, <3>3
  <2>7. \A i \in 1 .. (Len(stack') - 1) : AtPrerequisite(i)' /\ stack'[i + 1].atom = Current(i)'
    BY <2>3, <2>6
  <2> QED BY <2>2, <2>3, <2>5, <2>7 DEF PathInv
<1>6. CASE \/ NextRoot \/ AllRootsBuilt \/ RootReturns \/ NoRuleFound \/ Circular
           \/ SourceExists \/ SourceMissing \/ ActivateBuild \/ NextPrerequisite
           \/ BuildContextAsPrerequisite \/ StartAction
           \/ ActionFails \/ Kill \/ Edit \/ Stop \/ UNCHANGED vars
  <2>1. UNCHANGED <<rule, stack, BUILDING>>
    BY <1>6 DEF NextRoot, AllRootsBuilt, RootReturns, NoRuleFound, Circular,
           SourceExists, SourceMissing, ActivateBuild, NextPrerequisite,
           BuildContextAsPrerequisite, StartAction, ActionFails, Kill, Edit, Stop
  <2> QED BY <2>1 DEF PathInv, AtPrerequisite, Current
<1> QED BY <1>1, <1>2, <1>3, <1>4, <1>5, <1>6 DEF Next, Step, Enter, Decide

(* Whether a pattern rule applies depends on one snapshot only.             *)
LEMMA PatternlessKept ==
  ASSUME NEW a, project' = project, dircache'[Src] = dircache[Src]
  PROVE  Patternless(a)' <=> Patternless(a)
BY DEF Patternless, Applies, Exists

(* Within an invocation the snapshot of the current directory never changes. *)
LEMMA SnapshotKept ==
  ASSUME IInv, [Next]_vars, ~Invoke
  PROVE  project' = project /\ dircache'[Src] = dircache[Src]
<1> USE DEF IInv, vars, memory, calls, world, history
<1>1. CASE SourceExists \/ SourceMissing \/ BeginBuild
  <2>1. arg \in Atom /\ BindAndStamp(arg) /\ project' = project
    BY <1>1 DEF SourceExists, SourceMissing, BeginBuild, TypeOK
  <2> QED BY <2>1, BoundAndStamped DEF RulesInv
<1>2. CASE \/ NextRoot \/ AllRootsBuilt \/ RootReturns \/ InventRule \/ NoRuleFound
           \/ Circular \/ ActivateBuild \/ NextPrerequisite \/ PrerequisiteReturns
           \/ BuildContextAsPrerequisite \/ NothingToRun \/ StartAction
           \/ ActionSucceeds \/ ActionFails \/ Kill \/ Edit \/ Stop \/ UNCHANGED vars
  BY <1>2 DEF NextRoot, AllRootsBuilt, RootReturns, InventRule, NoRuleFound, Circular,
       ActivateBuild, NextPrerequisite, PrerequisiteReturns,
       BuildContextAsPrerequisite, NothingToRun, StartAction,
       ActionSucceeds, ActionFails, Kill, Edit, Stop
<1> QED BY <1>1, <1>2 DEF Next, Step, Enter, Decide

(* Every step keeps ControlInv.                                             *)
LEMMA ControlPreserved == IInv /\ [Next]_vars => ControlInv'
<1> SUFFICES ASSUME IInv, [Next]_vars PROVE ControlInv'
  OBVIOUS
<1> PICK n \in Nat : n = Len(stack)       \* rigid: n' is n
  <2>1. Len(stack) \in Nat
    BY DEF IInv, TypeOK
  <2> QED BY <2>1
<1>0. (stack # <<>> => n # 0) /\ (stack = <<>> => n = 0)
  BY DEF IInv, TypeOK
<1> USE DEF vars, memory, calls, world, history, Running
<1>1. CASE Invoke
  BY <1>1 DEF Invoke, ControlInv
<1>2. CASE NextRoot
  BY <1>2 DEF NextRoot, ControlInv, IInv
<1>3. CASE RootReturns
  BY <1>3 DEF RootReturns, ControlInv
<1>4. CASE InventRule
  <2>1. UNCHANGED <<stack, arg, pc, root, inv>> /\ pc = "BUILD"
    BY <1>4 DEF InventRule
  <2>2. \A i \in 1 .. n : rule'[stack[i].atom] = rule[stack[i].atom]
    BY <1>4, InventedRule DEF IInv
  <2>3. stack # <<>> => Current(n)' = Current(n) /\ (AtPrerequisite(n)' <=> AtPrerequisite(n))
    BY <1>0, <2>1, <2>2, FrameKept
  <2> QED BY <2>1, <2>3 DEF ControlInv, IInv
<1>5. CASE NoRuleFound
  <2>1. Patternless(arg)
    BY <1>5 DEF NoRuleFound, Patternless
  <2>2. UNCHANGED <<stack, rule, arg, root, inv, project, dircache>>
        /\ pc = "BUILD" /\ pc' = "LEAF" /\ rule[arg].op = "none"
    BY <1>5 DEF NoRuleFound
  <2>3. Patternless(arg)'
    BY <2>1, <2>2 DEF Patternless, Applies, Exists
  <2> QED BY <2>2, <2>3 DEF ControlInv, IInv, Current, AtPrerequisite
<1>6. CASE SourceExists
  BY <1>6 DEF SourceExists, ControlInv, IInv, AtPrerequisite
<1>7. CASE BeginBuild
  BY <1>7, PushedStack, <1>0 DEF BeginBuild, ControlInv, IInv
<1>8. CASE ActivateBuild
  BY <1>8 DEF ActivateBuild, ControlInv, IInv, AtPrerequisite
<1>9. CASE NextPrerequisite
  <2>1. /\ UNCHANGED <<stack, rule, root, inv>> /\ pc = "PREREQ" /\ pc' = "BUILD"
        /\ stack # <<>> /\ arg' = Current(n) /\ stack[n].next <= Len(rule[stack[n].atom].prereqs)
    BY <1>9 DEF NextPrerequisite, IInv, ControlInv, Top, Current
  <2>2. AtPrerequisite(n)
    <3>1. stack[n].next \in Nat \ {0} /\ Len(rule[stack[n].atom].prereqs) \in Nat
      <4>1. n \in 1 .. n
        BY <1>0, <2>1
      <4>2. rule[stack[n].atom] \in Rule
        BY <4>1, FrameTypes DEF IInv, TypeOK
      <4> QED BY <4>1, <4>2 DEF IInv, PathInv, Rule
    <3> QED BY <2>1, <3>1 DEF AtPrerequisite
  <2> QED BY <2>1, <2>2 DEF ControlInv, IInv, AtPrerequisite, Current
<1>10. CASE PrerequisiteReturns
  BY <1>10, AdvancedStack DEF PrerequisiteReturns, ControlInv, IInv
<1>11. CASE NothingToRun \/ ActionSucceeds
  <2>1. PICK t, b : Complete(t, b)
    BY <1>11 DEF NothingToRun, ActionSucceeds
  <2>2. stack # <<>> /\ UNCHANGED <<rule, root, inv>> /\ pc' = "RETURN"
        /\ pc \in {"PREREQ", "ACTION"}
    BY <1>11, <2>1 DEF NothingToRun, ActionSucceeds, ControlInv, Complete, IInv
  <2>3. /\ n \in Nat \ {0} /\ Len(stack') = n - 1
        /\ \A i \in 1 .. (n - 1) : stack'[i] = stack[i]
    BY <2>1, <2>2, PoppedStack DEF IInv
  <2>4. stack' # <<>> => AtPrerequisite(Len(stack))'
    <3> SUFFICES ASSUME stack' # <<>> PROVE AtPrerequisite(Len(stack))'
      OBVIOUS
    <3>1. stack' \in Seq(Frame)
      BY TypePreserved DEF TypeOK
    <3>2. n - 1 \in 1 .. (n - 1)
      BY <2>3, <3>1
    <3>3. AtPrerequisite(n - 1) /\ (AtPrerequisite(n - 1)' <=> AtPrerequisite(n - 1))
      BY <2>2, <2>3, <3>2, FrameKept DEF IInv, PathInv
    <3> QED BY <2>3, <3>3 DEF AtPrerequisite
  <2> QED BY <2>2, <2>4 DEF ControlInv, IInv, AtPrerequisite
<1>12. CASE StartAction
  BY <1>12 DEF StartAction, ControlInv, IInv, AllBuilt, NeedsBuilding, Top
<1>13. CASE \/ AllRootsBuilt \/ Circular \/ SourceMissing
            \/ BuildContextAsPrerequisite \/ ActionFails \/ Kill
  BY <1>13 DEF AllRootsBuilt, Circular, SourceMissing, BuildContextAsPrerequisite,
       ActionFails, Kill, ControlInv
<1>14. CASE Edit
  BY <1>14 DEF Edit, Halted, ControlInv
<1>15. CASE Stop \/ UNCHANGED vars
  <2>1. UNCHANGED vars
    BY <1>15 DEF Stop
  <2> QED BY <2>1 DEF IInv, ControlInv, Current, AtPrerequisite, Patternless, Applies,
            Exists, AllBuilt, NeedsBuilding, Top
<1> QED BY <1>1, <1>2, <1>3, <1>4, <1>5, <1>6, <1>7, <1>8, <1>9, <1>10, <1>11, <1>12,
          <1>13, <1>14, <1>15 DEF Next, Step, Enter, Decide

(* A frame whose prerequisites are settled keeps them settled.              *)
LEMMA SeenKept ==
  ASSUME NEW i, stack'[i] = stack[i], rule'[stack[i].atom] = rule[stack[i].atom],
         settled \subseteq settled', SeenSettled(stack[i])
  PROVE  SeenSettled(stack[i])'
BY DEF SeenSettled

(* A target that is completed has its prerequisites behind it.             *)
LEMMA CompletedSettled ==
  ASSUME IInv, NothingToRun \/ StartAction \/ ActionSucceeds
  PROVE  /\ stack # <<>> /\ Top = stack[Len(stack)] /\ Len(stack) \in Nat \ {0}
         /\ Top.atom \in Atom /\ rule[Top.atom].op = ":"
         /\ \A j \in DOMAIN rule[Top.atom].prereqs : j \in 1 .. (Top.next - 1)
         /\ Prerequisites(Top.atom) \subseteq settled
<1> USE DEF IInv
<1>1. stack # <<>> /\ AllBuilt(Top)
  BY DEF NothingToRun, StartAction, ActionSucceeds, ControlInv
<1>2. Top = stack[Len(stack)] /\ Len(stack) \in Nat \ {0} /\ Top \in Frame
  BY <1>1, TopFrame DEF TypeOK
<1>3. Top.atom \in Atom /\ Top.next \in Nat /\ rule[Top.atom].op = ":"
  BY <1>2, FrameTypes DEF PathInv
<1>4. rule[Top.atom].prereqs \in Seq(Atom)
  BY <1>3 DEF TypeOK, Rule
<1>5. \A j \in DOMAIN rule[Top.atom].prereqs : j \in 1 .. (Top.next - 1)
  BY <1>1, <1>3, <1>4 DEF AllBuilt
<1>6. SeenSettled(Top)
  BY <1>2 DEF SettledInv
<1> QED BY <1>1, <1>2, <1>3, <1>5, <1>6 DEF SeenSettled, Prerequisites

(* An atom settles only after its prerequisites, and stays settled.        *)
LEMMA SettledPreserved == IInv /\ [Next]_vars => SettledInv'
<1> SUFFICES ASSUME IInv, [Next]_vars PROVE SettledInv'
  OBVIOUS
<1> PICK n \in Nat : n = Len(stack)       \* rigid: n' is n
  <2>1. Len(stack) \in Nat
    BY DEF IInv, TypeOK
  <2> QED BY <2>1
<1>0. (stack # <<>> => n # 0) /\ (stack = <<>> => n = 0)
  BY DEF IInv, TypeOK
<1> USE DEF vars, memory, calls, world, history
<1>1. CASE Invoke
  BY <1>1 DEF Invoke, SettledInv, SeenSettled
<1>2. CASE InventRule
  <2>1. UNCHANGED <<stack, settled, ran>> /\ pc' = "BUILD" /\ rule[arg].op = "none"
    BY <1>2 DEF InventRule
  <2>2. /\ arg \in Atom /\ rule'[arg].op = ":"
        /\ \A a \in Atom \ {arg} : rule'[a] = rule[a]
        /\ \A i \in 1 .. n : rule'[stack[i].atom] = rule[stack[i].atom]
    BY <1>2, InventedRule DEF IInv
  <2>3. arg \notin settled
    BY <1>2 DEF InventRule, IInv, SettledInv, Patternless
  <2>4. \A i \in 1 .. n : SeenSettled(stack[i])'
    <3> TAKE i \in 1 .. n
    <3>1. SeenSettled(stack[i]) /\ stack'[i] = stack[i]
      BY <2>1 DEF IInv, SettledInv
    <3>2. rule'[stack[i].atom] = rule[stack[i].atom] /\ settled \subseteq settled'
      BY <2>1, <2>2
    <3> QED BY <3>1, <3>2, SeenKept
  <2>5. \A a \in settled : rule'[a] = rule[a]
    BY <2>2, <2>3 DEF IInv, TypeOK
  <2>6. \A a \in settled : Patternless(a)' <=> Patternless(a)
    BY <1>2, PatternlessKept DEF InventRule
  <2> QED BY <2>1, <2>4, <2>5, <2>6 DEF SettledInv, IInv, Prerequisites
<1>3. CASE SourceExists \/ ActivateBuild
  <2>1. UNCHANGED <<stack, rule, ran>> /\ settled' \in {settled, settled \cup {arg}}
        /\ arg \in Atom /\ pc' \in {"RETURN", "error"}
        /\ (pc' = "RETURN" => settled' = settled \cup {arg})
    BY <1>3 DEF SourceExists, ActivateBuild, IInv, TypeOK
  <2>2. rule[arg].prereqs = <<>>
    BY <1>3, <2>1 DEF SourceExists, ActivateBuild, IInv, ControlInv, RulesInv
  <2>3. rule[arg].op = "none" => Patternless(arg)
    BY <1>3 DEF SourceExists, ActivateBuild, IInv, ControlInv
  <2>4. \A a \in Atom : Patternless(a)' <=> Patternless(a)
    BY <1>3, SnapshotKept, PatternlessKept DEF SourceExists, ActivateBuild, Next, Step,
       Enter, Invoke, Halted
  <2>5. \A i \in 1 .. n : SeenSettled(stack[i])'
    BY <2>1, SeenKept DEF IInv, SettledInv
  <2>6. stack # <<>> => arg = Current(n)
    BY <1>3 DEF SourceExists, ActivateBuild, IInv, ControlInv
  <2>7. Prerequisites(arg) = {}
    BY <2>2 DEF Prerequisites
  <2>8. \A a \in settled' : Prerequisites(a)' \subseteq settled'
    <3>1. \A a \in settled : Prerequisites(a) \subseteq settled
      BY DEF IInv, SettledInv
    <3>2. \A a : Prerequisites(a)' = Prerequisites(a)
      BY <2>1 DEF Prerequisites
    <3> QED BY <2>1, <2>7, <3>1, <3>2
  <2>9. \A a \in settled' : rule'[a].op = "none" => Patternless(a)'
    BY <2>1, <2>3, <2>4 DEF IInv, SettledInv, TypeOK
  <2> QED BY <2>1, <2>5, <2>6, <2>8, <2>9 DEF SettledInv, IInv, Current
<1>4. CASE BeginBuild
  <2>1. UNCHANGED <<rule, settled, ran, project>> /\ pc' = "PREREQ"
    BY <1>4 DEF BeginBuild
  <2>2. /\ Len(stack') = n + 1
        /\ \A i \in 1 .. n : stack'[i] = stack[i]
        /\ stack'[n + 1].next = 1
    BY <1>4, PushedStack DEF IInv
  <2>3. \A i \in 1 .. n : SeenSettled(stack[i])'
    BY <2>1, <2>2, SeenKept DEF IInv, SettledInv
  <2>4. SeenSettled(stack[n + 1])'
    BY <2>2 DEF SeenSettled
  <2>5. \A a \in Atom : Patternless(a)' <=> Patternless(a)
    BY <1>4, SnapshotKept, PatternlessKept DEF BeginBuild, Next, Step, Enter, Invoke, Halted
  <2>6. \A i \in 1 .. Len(stack') : SeenSettled(stack[i])'
    BY <2>2, <2>3, <2>4
  <2> QED BY <2>1, <2>5, <2>6 DEF SettledInv, IInv, Prerequisites, TypeOK
<1>5. CASE PrerequisiteReturns
  <2>1. UNCHANGED <<rule, settled, ran, project, dircache>> /\ pc' = "PREREQ"
        /\ Current(n) \in settled
    BY <1>5 DEF PrerequisiteReturns, IInv, SettledInv
  <2>2. /\ n # 0 /\ Len(stack') = n
        /\ \A i \in 1 .. (n - 1) : stack'[i] = stack[i]
        /\ stack'[n].atom = stack[n].atom /\ stack'[n].next = stack[n].next + 1
    BY <1>5, AdvancedStack DEF IInv
  <2>3. \A i \in 1 .. (n - 1) : SeenSettled(stack[i])'
    BY <2>1, <2>2, SeenKept DEF IInv, SettledInv
  <2>4. SeenSettled(stack[n])'
    <3>1. stack[n].next \in Nat \ {0} /\ SeenSettled(stack[n])
      BY <2>2 DEF IInv, PathInv, SettledInv
    <3> QED BY <2>1, <2>2, <3>1 DEF SeenSettled, Current
  <2>5. \A i \in 1 .. Len(stack') : SeenSettled(stack[i])'
    BY <2>2, <2>3, <2>4
  <2>6. \A a \in Atom : Patternless(a)' <=> Patternless(a)
    BY <2>1, PatternlessKept
  <2> QED BY <2>1, <2>5, <2>6 DEF SettledInv, IInv, Prerequisites, TypeOK
<1>6. CASE NothingToRun \/ ActionSucceeds
  <2>1. PICK t, b : Complete(t, b)
    BY <1>6 DEF NothingToRun, ActionSucceeds
  <2>2. /\ n # 0 /\ Top = stack[n] /\ Top.atom \in Atom /\ rule[Top.atom].op = ":"
        /\ Prerequisites(Top.atom) \subseteq settled /\ stack # <<>>
    BY <1>6, CompletedSettled
  <2>3. UNCHANGED <<rule, project, dircache>>
    BY <1>6 DEF NothingToRun, ActionSucceeds
  <2>4. /\ Len(stack') = n - 1
        /\ \A i \in 1 .. (n - 1) : stack'[i] = stack[i]
    BY <2>1, <2>2, PoppedStack DEF IInv
  <2>5. settled' = settled \cup {stack[n].atom} /\ pc' = "RETURN"
    BY <2>1, <2>2 DEF Complete
  <2>6. \A i \in 1 .. (n - 1) : SeenSettled(stack[i])'
    BY <2>3, <2>4, <2>5, SeenKept DEF IInv, SettledInv
  <2>7. stack' # <<>> => Current(Len(stack))' \in settled'
    <3> SUFFICES ASSUME stack' # <<>> PROVE Current(Len(stack))' \in settled'
      OBVIOUS
    <3>1. n - 1 \in 1 .. (n - 1)
      <4>1. stack' \in Seq(Frame)
        BY TypePreserved DEF TypeOK
      <4> QED BY <2>4, <4>1
    <3>2. stack[n].atom = Current(n - 1)
      BY <2>2, <3>1 DEF IInv, PathInv
    <3>3. Current(n - 1)' = Current(n - 1)
      BY <2>3, <2>4, <3>1, FrameKept
    <3> QED BY <2>4, <2>5, <3>2, <3>3 DEF Current
  <2>8. \A a \in Atom : Patternless(a)' <=> Patternless(a)
    BY <2>3, PatternlessKept
  <2>9. \A a \in settled' : Prerequisites(a)' \subseteq settled'
    BY <2>2, <2>3, <2>5 DEF IInv, SettledInv, Prerequisites
  <2>10. \A a \in settled' : rule'[a].op = "none" => Patternless(a)'
    BY <2>2, <2>3, <2>5, <2>8 DEF IInv, SettledInv, TypeOK
  <2>11. \A a \in Atom : ran'[a] > 0 => a \in settled'
    BY <1>6, <2>2, <2>5 DEF IInv, SettledInv, TypeOK, NothingToRun, ActionSucceeds
  <2> QED BY <2>4, <2>6, <2>7, <2>9, <2>10, <2>11 DEF SettledInv
<1>7. CASE \/ NextRoot \/ AllRootsBuilt \/ RootReturns \/ NoRuleFound \/ Circular
           \/ SourceMissing \/ NextPrerequisite \/ BuildContextAsPrerequisite
           \/ StartAction \/ ActionFails \/ Kill \/ Edit \/ Stop \/ UNCHANGED vars
  <2>1. UNCHANGED <<stack, rule, settled, ran>> /\ (pc' = "RETURN" => pc = "RETURN")
    BY <1>7 DEF NextRoot, AllRootsBuilt, RootReturns, NoRuleFound, Circular,
       SourceMissing, NextPrerequisite, BuildContextAsPrerequisite, StartAction,
       ActionFails, Kill, Edit, Stop
  <2>2. ~Invoke
    BY <1>7 DEF NextRoot, AllRootsBuilt, RootReturns, NoRuleFound, Circular,
       SourceMissing, NextPrerequisite, BuildContextAsPrerequisite, StartAction,
       ActionFails, Kill, Edit, Stop, Invoke, IInv, TypeOK
  <2>3. \A a \in Atom : Patternless(a)' <=> Patternless(a)
    BY <2>2, SnapshotKept, PatternlessKept
  <2>4. \A i \in 1 .. Len(stack') : SeenSettled(stack[i])'
    BY <2>1 DEF SettledInv, SeenSettled, IInv
  <2>5. \A a \in settled' : rule'[a].op = "none" => Patternless(a)'
    BY <2>1, <2>3 DEF SettledInv, IInv, TypeOK
  <2> QED BY <2>1, <2>4, <2>5 DEF SettledInv, IInv, Prerequisites, Current
<1> QED BY <1>1, <1>2, <1>3, <1>4, <1>5, <1>6, <1>7 DEF Next, Step, Enter, Decide

-----------------------------------------------------------------------------
(* BIND and get_timestamp never change a timestamp that is set.            *)
LEMMA LookupKeeps ==
  ASSUME TypeOK, StampsInv, NEW a \in Atom, NEW d, TIMESTAMP[a] # Nil
  PROVE  Lookup(a, d) = TIMESTAMP[a]
BY DEF TypeOK, StampsInv, Lookup

(* BIND and get_timestamp change no timestamp that is set, whoever asks.    *)
LEMMA StampKept ==
  ASSUME TypeOK, StampsInv, NEW a \in Atom, BindAndStamp(a), NEW b \in Atom,
         TIMESTAMP[b] # Nil
  PROVE  TIMESTAMP'[b] = TIMESTAMP[b]
BY LookupKeeps, BoundAndStamped

(* Every step keeps StampsInv.                                              *)
LEMMA StampsPreserved == IInv /\ [Next]_vars => StampsInv'
<1> SUFFICES ASSUME IInv, [Next]_vars PROVE StampsInv'
  OBVIOUS
<1> PICK n \in Nat : n = Len(stack)       \* rigid: n' is n
  <2>1. Len(stack) \in Nat
    BY DEF IInv, TypeOK
  <2> QED BY <2>1
<1>0. (stack # <<>> => n # 0) /\ (stack = <<>> => n = 0)
  BY DEF IInv, TypeOK
<1> USE DEF vars, memory, calls, world, history
<1>1. CASE Invoke
  <2>1. inv' \in Invocation
    BY <1>1 DEF Invoke, IInv, TypeOK, WellFormed, Project
  <2> QED BY <1>1, <2>1 DEF Invoke, StampsInv, Invocation
<1>2. CASE InventRule
  BY <1>2 DEF InventRule, StampsInv, IInv
<1>3. CASE SourceExists \/ SourceMissing
  <2>1. arg \in Atom /\ BindAndStamp(arg) /\ UNCHANGED <<stack, inv, rule>>
        /\ (pc' = "RETURN" => ret' = Lookup(arg, BoundDir(arg)))
    BY <1>3 DEF SourceExists, SourceMissing, IInv, TypeOK
  <2>2. stack # <<>> => arg = Current(n)
    BY <1>3 DEF SourceExists, SourceMissing, IInv, ControlInv
  <2>3. rule[arg].op = "none"
    BY <1>3 DEF SourceExists, SourceMissing, IInv, ControlInv
  <2>4. \A i \in 1 .. n : TIMESTAMP'[stack[i].atom] = TIMESTAMP[stack[i].atom]
    BY <2>1, <2>3, BoundAndStamped, FrameTypes DEF IInv, PathInv
  <2>5. \A a \in inv.assume_new : TIMESTAMP'[a] \in {Nil, Newest}
    BY <2>1, BoundAndStamped DEF IInv, StampsInv, TypeOK, Lookup, Invocation
  <2>6. TIMESTAMP'[arg] = Lookup(arg, BoundDir(arg))
    BY <2>1, BoundAndStamped DEF IInv
  <2> QED BY <2>1, <2>2, <2>4, <2>5, <2>6 DEF IInv, StampsInv, Current
<1>4. CASE BeginBuild
  <2>1. arg \in Atom /\ BindAndStamp(arg) /\ UNCHANGED <<inv, rule>>
        /\ pc' = "PREREQ" /\ arg \notin BUILDING
    BY <1>4 DEF BeginBuild, IInv, TypeOK
  <2>2. /\ Len(stack') = n + 1
        /\ \A i \in 1 .. n : stack'[i] = stack[i]
        /\ stack'[n + 1].atom = arg /\ stack'[n + 1].time = Lookup(arg, BoundDir(arg))
    BY <1>4, PushedStack DEF IInv
  <2>3. \A i \in 1 .. n : TIMESTAMP'[stack[i].atom] = TIMESTAMP[stack[i].atom]
    BY <2>1, BoundAndStamped, FrameTypes DEF IInv, PathInv
  <2>4. \A a \in inv.assume_new : TIMESTAMP'[a] \in {Nil, Newest}
    BY <2>1, BoundAndStamped DEF IInv, StampsInv, TypeOK, Lookup, Invocation
  <2>5. TIMESTAMP'[arg] = Lookup(arg, BoundDir(arg))
    BY <2>1, BoundAndStamped DEF IInv
  <2>6. \A i \in 1 .. Len(stack') : TIMESTAMP'[stack'[i].atom] = stack'[i].time
    BY <2>2, <2>3, <2>5 DEF IInv, StampsInv
  <2> QED BY <2>1, <2>4, <2>6 DEF StampsInv
<1>5. CASE PrerequisiteReturns
  <2>1. UNCHANGED <<TIMESTAMP, inv>> /\ pc' = "PREREQ"
    BY <1>5 DEF PrerequisiteReturns
  <2>2. /\ n # 0 /\ Len(stack') = n
        /\ \A i \in 1 .. (n - 1) : stack'[i] = stack[i]
        /\ stack'[n].atom = stack[n].atom /\ stack'[n].time = stack[n].time
    BY <1>5, AdvancedStack DEF IInv
  <2>3. \A i \in 1 .. Len(stack') : TIMESTAMP'[stack'[i].atom] = stack'[i].time
    <3> TAKE i \in 1 .. Len(stack')
    <3>1. stack'[i].atom = stack[i].atom /\ stack'[i].time = stack[i].time
      BY <2>2
    <3> QED BY <2>1, <2>2, <3>1 DEF IInv, StampsInv
  <2> QED BY <2>1, <2>3 DEF IInv, StampsInv
<1>6. CASE NothingToRun \/ ActionSucceeds
  <2>1. /\ n # 0 /\ Top = stack[n] /\ Top.atom \in Atom /\ stack # <<>>
    BY <1>6, CompletedSettled
  <2>2. PICK t \in {Top.time, Newest}, b \in BOOLEAN : Complete(t, b)
    BY <1>6 DEF NothingToRun, ActionSucceeds, NeedsBuilding, IInv, TypeOK, Invocation
  <2>3. /\ Len(stack') = n - 1
        /\ \A i \in 1 .. (n - 1) : stack'[i] = stack[i]
    BY <2>1, <2>2, PoppedStack DEF IInv
  <2>4. /\ TIMESTAMP' = [TIMESTAMP EXCEPT ![stack[n].atom] = t] /\ ret' = t
    BY <2>1, <2>2 DEF Complete
  <2>5. UNCHANGED <<inv, rule>>
    BY <1>6 DEF NothingToRun, ActionSucceeds
  <2>6. TIMESTAMP[stack[n].atom] = stack[n].time
    BY <2>1 DEF IInv, StampsInv
  <2>7. \A a \in inv.assume_new : TIMESTAMP'[a] \in {Nil, Newest}
    BY <2>1, <2>2, <2>4, <2>6 DEF IInv, StampsInv, TypeOK, Invocation
  <2>8. \A i \in 1 .. (n - 1) : TIMESTAMP'[stack[i].atom] = TIMESTAMP[stack[i].atom]
    <3> TAKE i \in 1 .. (n - 1)
    <3>1. stack[i].atom # stack[n].atom /\ stack[i].atom \in Atom
      BY <2>1, FrameTypes DEF IInv, PathInv
    <3> QED BY <2>4, <3>1 DEF IInv, TypeOK
  <2>9. \A i \in 1 .. Len(stack') : TIMESTAMP'[stack'[i].atom] = stack'[i].time
    BY <2>3, <2>8 DEF IInv, StampsInv
  <2>10. stack' # <<>> => TIMESTAMP'[Current(Len(stack))'] = ret'
    <3> SUFFICES ASSUME stack' # <<>> PROVE TIMESTAMP'[Current(Len(stack))'] = ret'
      OBVIOUS
    <3>1. n - 1 \in 1 .. (n - 1)
      <4>1. stack' \in Seq(Frame)
        BY TypePreserved DEF TypeOK
      <4> QED BY <2>3, <4>1
    <3>2. stack[n].atom = Current(n - 1)
      BY <2>1, <3>1 DEF IInv, PathInv
    <3>3. Current(n - 1)' = Current(n - 1)
      BY <2>3, <2>5, <3>1, FrameKept
    <3>4. TIMESTAMP'[stack[n].atom] = t
      BY <2>1, <2>4 DEF IInv, TypeOK
    <3> QED BY <2>3, <2>4, <3>2, <3>3, <3>4 DEF Current
  <2> QED BY <2>5, <2>7, <2>9, <2>10 DEF StampsInv
<1>7. CASE \/ NextRoot \/ AllRootsBuilt \/ RootReturns \/ NoRuleFound \/ Circular
           \/ ActivateBuild \/ NextPrerequisite \/ BuildContextAsPrerequisite
           \/ StartAction \/ ActionFails \/ Kill \/ Edit \/ Stop \/ UNCHANGED vars
  <2>1. UNCHANGED <<stack, rule, TIMESTAMP, inv>>
        /\ (pc' = "RETURN" /\ ret' # Nil => pc = "RETURN" /\ ret' = ret)
    BY <1>7 DEF NextRoot, AllRootsBuilt, RootReturns, NoRuleFound, Circular,
       ActivateBuild, NextPrerequisite, BuildContextAsPrerequisite, StartAction,
       ActionFails, Kill, Edit, Stop
  <2> QED BY <2>1 DEF StampsInv, IInv, Current
<1> QED BY <1>1, <1>2, <1>3, <1>4, <1>5, <1>6, <1>7 DEF Next, Step, Enter, Decide

-----------------------------------------------------------------------------
(* Without -B the action of a settled target never runs again: its newest  *)
(* prerequisite is no newer than it was.                                   *)
LEMMA NotAgain ==
  ASSUME IInv, pc = "ACTION", ~inv.always_make
  PROVE  Top.atom \notin settled
<1> SUFFICES ASSUME Top.atom \in settled PROVE FALSE
  OBVIOUS
<1>1. /\ Top = stack[Len(stack)] /\ Len(stack) \in 1 .. Len(stack)
      /\ NeedsBuilding(Top) /\ rule[Top.atom].action
  BY TopFrame DEF IInv, ControlInv, TypeOK
<1>2. Top.time \in Time /\ Top.newest \in Time /\ Top.atom \in Atom
  BY <1>1, FrameTypes DEF IInv
<1>3. NewestOfSeen(Top) /\ UpToDate(Top.atom) /\ TIMESTAMP[Top.atom] = Top.time
  BY <1>1 DEF IInv, TimesInv, StampsInv
<1>4. Top.newest > Top.time
  BY <1>1, <1>3 DEF NeedsBuilding, UpToDate
<1>5. Top.newest # Oldest
  BY <1>2, <1>4, ConstantsAssumption DEF Time, Oldest
<1>6. PICK p \in Prerequisites(Top.atom) : TIMESTAMP[p] = Top.newest
  BY <1>3, <1>5 DEF NewestOfSeen, Prerequisites
<1>7. Top.newest <= Top.time
  BY <1>3, <1>6 DEF UpToDate
<1> QED BY <1>2, <1>4, <1>7, ConstantsAssumption DEF Time

(* A timestamp, once it is known, stays until the action runs.             *)
LEMMA SettledStampKept ==
  ASSUME IInv, [Next]_vars, ~Invoke, ~inv.always_make,
         NEW p \in settled, TIMESTAMP[p] # Nil
  PROVE  TIMESTAMP'[p] = TIMESTAMP[p]
<1> USE DEF vars, memory, calls, world, history
<1>0. p \in Atom
  BY DEF IInv, TypeOK
<1>1. CASE SourceExists \/ SourceMissing \/ BeginBuild
  <2>1. arg \in Atom /\ BindAndStamp(arg)
    BY <1>1 DEF SourceExists, SourceMissing, BeginBuild, IInv, TypeOK
  <2> QED BY <1>0, <2>1, StampKept DEF IInv
<1>2. CASE NothingToRun
  <2>1. /\ Top = stack[Len(stack)] /\ Top.atom \in Atom
        /\ TIMESTAMP[Top.atom] = Top.time
    BY <1>2, CompletedSettled DEF IInv, StampsInv
  <2> QED BY <1>0, <1>2, <2>1 DEF NothingToRun, Complete, IInv, TypeOK
<1>3. CASE ActionSucceeds
  <2>1. p # Top.atom
    BY <1>3, NotAgain DEF ActionSucceeds
  <2> QED BY <1>0, <1>3, <2>1 DEF ActionSucceeds, Complete, IInv, TypeOK
<1>4. CASE \/ NextRoot \/ AllRootsBuilt \/ RootReturns \/ InventRule \/ NoRuleFound
           \/ Circular \/ ActivateBuild \/ NextPrerequisite \/ PrerequisiteReturns
           \/ BuildContextAsPrerequisite \/ StartAction
           \/ ActionFails \/ Kill \/ Edit \/ Stop \/ UNCHANGED vars
  BY <1>4 DEF NextRoot, AllRootsBuilt, RootReturns, InventRule, NoRuleFound, Circular,
       ActivateBuild, NextPrerequisite, PrerequisiteReturns,
       BuildContextAsPrerequisite, StartAction, ActionFails, Kill, Edit, Stop
<1> QED BY <1>1, <1>2, <1>3, <1>4 DEF Next, Step, Enter, Decide

(* What a call has seen of its prerequisites outlives any other step.       *)
LEMMA NewestKept ==
  ASSUME IInv, [Next]_vars, ~Invoke, ~inv.always_make, NEW i \in 1 .. Len(stack),
         stack'[i] = stack[i], rule'[stack[i].atom] = rule[stack[i].atom]
  PROVE  NewestOfSeen(stack[i])'
<1>1. NewestOfSeen(stack[i]) /\ SeenSettled(stack[i])
  BY DEF IInv, TimesInv, SettledInv
<1> DEFINE f == stack[i]
           P(j) == rule[f.atom].prereqs[j]
           D == DOMAIN rule[f.atom].prereqs
<1>2. \A j \in 1 .. (f.next - 1) : j \in D =>
        /\ TIMESTAMP[P(j)] # Nil /\ TIMESTAMP[P(j)] <= f.newest
        /\ TIMESTAMP'[P(j)] = TIMESTAMP[P(j)]
  BY <1>1, SettledStampKept DEF NewestOfSeen, SeenSettled
<1>3. f.newest # Oldest =>
        \E j \in 1 .. (f.next - 1) : j \in D /\ TIMESTAMP[P(j)] = f.newest
  BY <1>1 DEF NewestOfSeen
<1> QED BY <1>2, <1>3 DEF NewestOfSeen

(* A settled target that is up to date remains so.                          *)
LEMMA UpToDateKept ==
  ASSUME IInv, [Next]_vars, ~Invoke, ~inv.always_make,
         NEW a \in settled, rule'[a] = rule[a], UpToDate(a)
  PROVE  UpToDate(a)'
<1>1. Prerequisites(a)' = Prerequisites(a) /\ Prerequisites(a) \subseteq settled
  BY DEF Prerequisites, IInv, SettledInv
<1>2. TIMESTAMP'[a] = TIMESTAMP[a]
  BY SettledStampKept DEF UpToDate
<1>3. \A p \in Prerequisites(a) : TIMESTAMP'[p] = TIMESTAMP[p]
  BY <1>1, SettledStampKept DEF UpToDate
<1> QED BY <1>1, <1>2, <1>3 DEF UpToDate

(* Every step keeps TimesInv.                                               *)
LEMMA TimesPreserved == IInv /\ [Next]_vars => TimesInv'
<1> SUFFICES ASSUME IInv, [Next]_vars, ~inv'.always_make
             PROVE  /\ \A i \in 1 .. Len(stack') : NewestOfSeen(stack[i])'
                    /\ \A a \in settled' : rule'[a].action => UpToDate(a)'
  BY DEF TimesInv
<1> PICK n \in Nat : n = Len(stack)       \* rigid: n' is n
  <2>1. Len(stack) \in Nat
    BY DEF IInv, TypeOK
  <2> QED BY <2>1
<1> USE DEF vars, memory, calls, world, history
<1>1. CASE Invoke
  BY <1>1 DEF Invoke
<1>2. CASE InventRule
  <2>1. UNCHANGED <<inv, stack, settled>> /\ ~Invoke
    BY <1>2 DEF InventRule, Invoke, Halted
  <2>2. /\ \A i \in 1 .. n : rule'[stack[i].atom] = rule[stack[i].atom]
        /\ \A a \in Atom \ {arg} : rule'[a] = rule[a]
    BY <1>2, InventedRule DEF IInv
  <2>3. arg \notin settled
    BY <1>2 DEF InventRule, IInv, SettledInv, Patternless
  <2>4. \A a \in settled : rule'[a] = rule[a]
    BY <2>2, <2>3 DEF IInv, TypeOK
  <2>5. \A i \in 1 .. n : NewestOfSeen(stack[i])'
    <3> TAKE i \in 1 .. n
    <3>1. stack'[i] = stack[i] /\ rule'[stack[i].atom] = rule[stack[i].atom]
      BY <2>1, <2>2
    <3> QED BY <2>1, <3>1, NewestKept
  <2>6. \A a \in settled : rule[a].action => UpToDate(a)'
    BY <2>1, <2>4, UpToDateKept DEF IInv, TimesInv
  <2> QED BY <2>1, <2>4, <2>5, <2>6
<1>3. CASE SourceExists \/ ActivateBuild
  <2>1. UNCHANGED <<inv, stack, rule>> /\ settled' \subseteq settled \cup {arg} /\ ~Invoke
    BY <1>3 DEF SourceExists, ActivateBuild, Invoke, Halted
  <2>2. ~rule[arg].action
    BY <1>3 DEF SourceExists, ActivateBuild, IInv, ControlInv, RulesInv, TypeOK
  <2>3. \A i \in 1 .. n : NewestOfSeen(stack[i])'
    BY <2>1, NewestKept
  <2>4. \A a \in settled : rule[a].action => UpToDate(a)'
    BY <2>1, UpToDateKept DEF IInv, TimesInv
  <2> QED BY <2>1, <2>2, <2>3, <2>4
<1>4. CASE BeginBuild
  <2>1. UNCHANGED <<inv, rule, settled>> /\ ~Invoke
    BY <1>4 DEF BeginBuild, Invoke, Halted
  <2>2. /\ Len(stack') = n + 1
        /\ \A i \in 1 .. n : stack'[i] = stack[i]
        /\ stack'[n + 1].next = 1 /\ stack'[n + 1].newest = Oldest
    BY <1>4, PushedStack DEF IInv
  <2>3. \A i \in 1 .. n : NewestOfSeen(stack[i])'
    BY <2>1, <2>2, NewestKept
  <2>4. NewestOfSeen(stack[n + 1])'
    BY <2>2 DEF NewestOfSeen
  <2>5. \A a \in settled : rule[a].action => UpToDate(a)'
    BY <2>1, UpToDateKept DEF IInv, TimesInv
  <2> QED BY <2>1, <2>2, <2>3, <2>4, <2>5
<1>5. CASE PrerequisiteReturns
  <2>1. UNCHANGED <<inv, rule, settled, TIMESTAMP>> /\ ~Invoke
        /\ TIMESTAMP[Current(n)] = ret /\ ret \in Time /\ AtPrerequisite(n)
    BY <1>5 DEF PrerequisiteReturns, Invoke, Halted, IInv, StampsInv, TypeOK, ControlInv
  <2>2. /\ n # 0 /\ Len(stack') = n
        /\ \A i \in 1 .. (n - 1) : stack'[i] = stack[i]
        /\ stack'[n].atom = stack[n].atom /\ stack'[n].next = stack[n].next + 1
        /\ stack'[n].newest = LaterOf(stack[n].newest, ret)
    BY <1>5, AdvancedStack DEF IInv
  <2>3. \A i \in 1 .. (n - 1) : NewestOfSeen(stack[i])'
    BY <2>1, <2>2, NewestKept
  <2>4. NewestOfSeen(stack[n])'
    <3> DEFINE f == stack[n]
               P(j) == rule[f.atom].prereqs[j]
               D == DOMAIN rule[f.atom].prereqs
    <3>1. NewestOfSeen(f) /\ f.next \in Nat \ {0} /\ f.newest \in Time /\ f.atom \in Atom
      BY <2>1, <2>2, FrameTypes DEF IInv, TimesInv, PathInv
    <3>2. D = 1 .. Len(rule[f.atom].prereqs) /\ \A j \in D : P(j) \in Atom
      BY <3>1 DEF IInv, TypeOK, Rule
    <3>3. f.next \in D /\ TIMESTAMP[P(f.next)] = ret
      BY <2>1, <3>2 DEF AtPrerequisite, Current
    <3>4. /\ f.newest <= LaterOf(f.newest, ret) /\ ret <= LaterOf(f.newest, ret)
          /\ LaterOf(f.newest, ret) \in {f.newest, ret}
      BY <2>1, <3>1, ConstantsAssumption DEF LaterOf, Time
    <3>5. \A j \in 1 .. f.next : j \in D =>
            TIMESTAMP[P(j)] # Nil /\ TIMESTAMP[P(j)] <= LaterOf(f.newest, ret)
      <4> TAKE j \in 1 .. f.next
      <4> HAVE j \in D
      <4>1. CASE j = f.next
        <5>1. TIMESTAMP[P(j)] = ret /\ ret <= LaterOf(f.newest, ret)
          BY <3>3, <3>4, <4>1
        <5>2. ret # Nil
          BY <2>1, ConstantsAssumption DEF Time
        <5> QED BY <5>1, <5>2
      <4>2. CASE j # f.next
        <5>1. TIMESTAMP[P(j)] # Nil /\ TIMESTAMP[P(j)] <= f.newest
          <6>1. j \in 1 .. (f.next - 1)
            BY <3>1, <4>2
          <6> QED BY <3>1, <6>1 DEF NewestOfSeen
        <5>2. TIMESTAMP[P(j)] \in Time /\ LaterOf(f.newest, ret) \in Time
          BY <2>1, <3>1, <3>2, <3>4, <5>1 DEF IInv, TypeOK
        <5>3. /\ TIMESTAMP[P(j)] \in Nat /\ f.newest \in Nat
              /\ LaterOf(f.newest, ret) \in Nat
          BY <3>1, <5>2, ConstantsAssumption DEF Time
        <5> QED BY <3>4, <5>1, <5>3
      <4> QED BY <4>1, <4>2
    <3>6. LaterOf(f.newest, ret) # Oldest =>
            \E j \in 1 .. f.next : j \in D /\ TIMESTAMP[P(j)] = LaterOf(f.newest, ret)
      <4>1. CASE LaterOf(f.newest, ret) = ret
        BY <3>1, <3>3, <4>1
      <4>2. CASE LaterOf(f.newest, ret) = f.newest
        <5>1. \A j : j \in 1 .. (f.next - 1) => j \in 1 .. f.next
          BY <3>1
        <5>2. f.newest # Oldest =>
                \E j \in 1 .. (f.next - 1) : j \in D /\ TIMESTAMP[P(j)] = f.newest
          BY <3>1 DEF NewestOfSeen
        <5> QED BY <4>2, <5>1, <5>2
      <4> QED BY <3>4, <4>1, <4>2
    <3>7. stack'[n].next - 1 = f.next
      BY <2>2, <3>1
    <3> QED BY <2>1, <2>2, <3>5, <3>6, <3>7 DEF NewestOfSeen
  <2>5. \A a \in settled : rule[a].action => UpToDate(a)'
    BY <2>1, UpToDateKept DEF IInv, TimesInv
  <2>6. \A i \in 1 .. Len(stack') : NewestOfSeen(stack[i])'
    BY <2>2, <2>3, <2>4
  <2> QED BY <2>1, <2>5, <2>6
<1>6. CASE NothingToRun \/ ActionSucceeds
  <2>1. /\ n # 0 /\ Top = stack[n] /\ Top.atom \in Atom /\ stack # <<>>
        /\ Prerequisites(Top.atom) \subseteq settled
        /\ \A j \in DOMAIN rule[Top.atom].prereqs : j \in 1 .. (Top.next - 1)
    BY <1>6, CompletedSettled
  <2>2. PICK t, b : Complete(t, b)
    BY <1>6 DEF NothingToRun, ActionSucceeds
  <2>3. /\ Len(stack') = n - 1
        /\ \A i \in 1 .. (n - 1) : stack'[i] = stack[i]
    BY <2>1, <2>2, PoppedStack DEF IInv
  <2>4. UNCHANGED <<inv, rule>> /\ settled' = settled \cup {Top.atom} /\ ~Invoke
    BY <1>6, <2>2 DEF NothingToRun, ActionSucceeds, Complete, Invoke, Halted
  <2>5. \A i \in 1 .. (n - 1) : NewestOfSeen(stack[i])'
    BY <2>3, <2>4, NewestKept
  <2>6. \A a \in settled : rule[a].action => UpToDate(a)'
    BY <2>4, UpToDateKept DEF IInv, TimesInv
  <2>7. Top.time \in Time /\ Top.newest \in Time /\ NewestOfSeen(Top)
        /\ TIMESTAMP[Top.atom] = Top.time
    BY <2>1, <2>4, FrameTypes DEF IInv, TimesInv, StampsInv
  <2>8. \A p \in Prerequisites(Top.atom) :
          /\ TIMESTAMP[p] # Nil /\ TIMESTAMP[p] \in Time /\ TIMESTAMP[p] <= Top.newest
          /\ TIMESTAMP'[p] = TIMESTAMP[p]
    <3> TAKE p \in Prerequisites(Top.atom)
    <3>1. PICK j \in DOMAIN rule[Top.atom].prereqs : p = rule[Top.atom].prereqs[j]
      BY DEF Prerequisites
    <3>2. TIMESTAMP[p] # Nil /\ TIMESTAMP[p] <= Top.newest /\ p \in settled
      BY <2>1, <2>7, <3>1 DEF NewestOfSeen
    <3>3. TIMESTAMP[p] \in Time
      BY <3>2 DEF IInv, TypeOK
    <3> QED BY <2>4, <3>2, <3>3, SettledStampKept
  <2>9. PICK a \in Atom : a = Top.atom     \* rigid
    BY <2>1
  <2>10. rule[a].action => UpToDate(a)'
    <3> SUFFICES ASSUME rule[a].action
                 PROVE  \E u \in Time : /\ TIMESTAMP'[a] = u /\ u # Oldest
                          /\ \A p \in Prerequisites(a) : TIMESTAMP[p] <= u
      <4>1. Prerequisites(a)' = Prerequisites(a)
        BY <2>4 DEF Prerequisites
      <4>2. \A u \in Time : u # Nil
        BY ConstantsAssumption DEF Time
      <4> QED BY <2>8, <2>9, <4>1, <4>2 DEF UpToDate
    <3>1. CASE NothingToRun
      <4>1. Top.time # Oldest /\ ~(Top.newest > Top.time)
        BY <2>4, <2>9, <3>1 DEF NothingToRun, NeedsBuilding
      <4>2. TIMESTAMP'[a] = Top.time
        BY <2>9, <3>1 DEF NothingToRun, Complete, IInv, TypeOK
      <4> QED BY <2>7, <2>8, <2>9, <4>1, <4>2, ConstantsAssumption DEF Time
    <3>2. CASE ActionSucceeds
      <4>1. TIMESTAMP'[a] = Newest
        BY <2>9, <3>2 DEF ActionSucceeds, Complete, IInv, TypeOK
      <4> QED BY <2>8, <2>9, <4>1, ConstantsAssumption DEF Time, Oldest
    <3> QED BY <1>6, <3>1, <3>2
  <2>11. \A i \in 1 .. Len(stack') : NewestOfSeen(stack[i])'
    BY <2>3, <2>5
  <2> QED BY <2>4, <2>6, <2>9, <2>10, <2>11
<1>7. CASE \/ NextRoot \/ AllRootsBuilt \/ RootReturns \/ NoRuleFound \/ Circular
           \/ SourceMissing \/ NextPrerequisite \/ BuildContextAsPrerequisite
           \/ StartAction \/ ActionFails \/ Kill \/ Edit \/ Stop \/ UNCHANGED vars
  <2>1. UNCHANGED <<inv, stack, rule, settled, epoch>>
    BY <1>7 DEF NextRoot, AllRootsBuilt, RootReturns, NoRuleFound, Circular,
       SourceMissing, NextPrerequisite, BuildContextAsPrerequisite, StartAction,
       ActionFails, Kill, Edit, Stop
  <2>2. ~Invoke
    BY <2>1 DEF Invoke, IInv, TypeOK
  <2>3. \A i \in 1 .. n : NewestOfSeen(stack[i])'
    BY <2>1, <2>2, NewestKept
  <2>4. \A a \in settled : rule[a].action => UpToDate(a)'
    BY <2>1, <2>2, UpToDateKept DEF IInv, TimesInv
  <2> QED BY <2>1, <2>3, <2>4
<1> QED BY <1>1, <1>2, <1>3, <1>4, <1>5, <1>6, <1>7 DEF Next, Step, Enter, Decide

(* Every step keeps OnceInv.                                                *)
LEMMA OncePreserved == IInv /\ [Next]_vars => OnceInv'
<1> SUFFICES ASSUME IInv, [Next]_vars, ~inv'.always_make
             PROVE  \A a \in Atom : ran'[a] <= 1
  BY DEF OnceInv
<1> USE DEF vars, memory, calls, world, history
<1>1. CASE Invoke
  BY <1>1 DEF Invoke
<1>2. CASE ActionSucceeds
  <2>1. Top.atom \in Atom /\ Top.atom \notin settled
    BY <1>2, CompletedSettled, NotAgain DEF ActionSucceeds
  <2>2. ran[Top.atom] = 0
    BY <2>1 DEF IInv, SettledInv, TypeOK
  <2> QED BY <1>2, <2>1, <2>2 DEF ActionSucceeds, IInv, OnceInv, TypeOK
<1>3. CASE ~Invoke /\ ~ActionSucceeds
  <2>1. UNCHANGED <<inv, ran>>
    BY <1>3 DEF Next, Step, Enter, Decide, NextRoot, AllRootsBuilt, RootReturns,
       InventRule, NoRuleFound, SourceExists, SourceMissing, Circular, BeginBuild,
       ActivateBuild, NextPrerequisite, PrerequisiteReturns,
       BuildContextAsPrerequisite, NothingToRun, StartAction, ActionFails, Kill, Edit, Stop
  <2> QED BY <2>1 DEF IInv, OnceInv
<1> QED BY <1>1, <1>2, <1>3

-----------------------------------------------------------------------------
(* The inductive invariant holds when the first invocation starts.          *)
LEMMA InitInv == Init => IInv
<1> SUFFICES ASSUME Init PROVE IInv
  OBVIOUS
<1>1. TypeOK
  BY InitType
<1>2. RulesInv
  <2>1. WellFormed(project) /\ project.disk[Src] # Nil
    BY <1>1, ConstantsAssumption DEF TypeOK, WellFormed, Project
  <2>2. dircache[Src] # Nil
    BY <2>1, ConstantsAssumption DEF Init
  <2>3. \A a \in Atom : project.outdir[a] \in Dir
    BY <2>1 DEF WellFormed, Project
  <2> QED BY <2>1, <2>2, <2>3, ConstantsAssumption DEF Init, RulesInv, WellFormed, DeclaredDirs
<1>3. PathInv
  BY DEF Init, PathInv
<1>4. ControlInv
  <2>1. inv.roots \in Seq(Atom) /\ inv.roots # <<>>
    BY <1>1 DEF Init, TypeOK, WellFormed, Invocation
  <2> QED BY <2>1 DEF Init, ControlInv
<1>5. SettledInv
  BY DEF Init, SettledInv
<1>6. StampsInv
  BY <1>1 DEF Init, StampsInv, TypeOK, Invocation
<1>7. TimesInv
  BY DEF Init, TimesInv
<1>8. OnceInv
  <2> SUFFICES ASSUME NEW a \in Atom PROVE ran[a] <= 1
    BY DEF OnceInv
  <2>1. ran[a] = 0
    BY DEF Init
  <2> QED BY <2>1
<1> QED BY <1>1, <1>2, <1>3, <1>4, <1>5, <1>6, <1>7, <1>8 DEF IInv

(* Every step keeps the inductive invariant.                                *)
LEMMA InvPreserved == IInv /\ [Next]_vars => IInv'
BY TypePreserved, RulesPreserved, PathPreserved, ControlPreserved, SettledPreserved,
   StampsPreserved, TimesPreserved, OncePreserved DEF IInv

(* The inductive invariant IInv holds in every reachable state.             *)
THEOREM Invariance == Spec => []IInv
BY InitInv, InvPreserved, PTL DEF Spec

(* The variables keep their types.                                         *)
THEOREM TypeCorrect == Spec => []TypeOK
<1>1. IInv => TypeOK
  BY DEF IInv
<1> QED BY <1>1, Invariance, PTL

(* Without -B, whatever the rules, the disk and the interruptions, no      *)
(* action runs twice in an invocation.                                     *)
THEOREM RunsAtMostOnce == Spec => []AtMostOnce
<1>1. IInv => AtMostOnce
  BY DEF IInv, OnceInv, AtMostOnce
<1> QED BY <1>1, Invariance, PTL

(* The circular-dependency error is raised for real cycles only.           *)
THEOREM CircularOnlyOnCycle == Spec => []CircularOnCycle
<1>1. IInv => CircularOnCycle
  <2> SUFFICES ASSUME IInv, pc = "BUILD", arg \in BUILDING
               PROVE  \E i \in 1 .. Len(stack) :
                        /\ stack[i].atom = arg
                        /\ \A j \in i .. (Len(stack) - 1) :
                             stack[j + 1].atom \in Prerequisites(stack[j].atom)
                        /\ arg \in Prerequisites(Top.atom)
    BY DEF CircularOnCycle
  <2> DEFINE n == Len(stack)
  <2>1. PICK i \in 1 .. n : stack[i].atom = arg
    BY DEF IInv, TypeOK, PathInv
  <2>2. n \in Nat \ {0} /\ stack # <<>> /\ Top = stack[n]
    BY <2>1, TopFrame DEF IInv, TypeOK
  <2>3. \A j \in 1 .. n : AtPrerequisite(j) => Current(j) \in Prerequisites(stack[j].atom)
    <3> TAKE j \in 1 .. n
    <3>1. rule[stack[j].atom] \in Rule
      BY FrameTypes DEF IInv, TypeOK
    <3> QED BY <3>1 DEF AtPrerequisite, Current, Prerequisites, Rule
  <2>4. arg \in Prerequisites(Top.atom)
    BY <2>2, <2>3 DEF IInv, ControlInv
  <2>5. \A j \in 1 .. (n - 1) : stack[j + 1].atom \in Prerequisites(stack[j].atom)
    BY <2>2, <2>3 DEF IInv, PathInv
  <2> QED BY <2>1, <2>2, <2>4, <2>5
<1> QED BY <1>1, Invariance, PTL

(* Without -B no action runs after that of a target that depends on it.    *)
THEOREM RunsInOrder == Spec => OrderRespected
<1> DEFINE Ordered == \A p, t \in Atom :
             /\ ~inv.always_make
             /\ pc = "ACTION" /\ ran'[p] > ran[p] /\ p \in Prerequisites(t)
             => ran[t] = 0
<1>1. IInv /\ [Next]_vars => [Ordered]_vars
  <2> SUFFICES ASSUME IInv, [Next]_vars, NEW p \in Atom, NEW t \in Atom,
                      ~inv.always_make, pc = "ACTION", ran'[p] > ran[p],
                      p \in Prerequisites(t)
               PROVE  ran[t] = 0
    OBVIOUS
  <2>1. ActionSucceeds
    <3> SUFFICES ASSUME ~ActionSucceeds PROVE ran' = ran
      BY DEF IInv, TypeOK
    <3> QED BY DEF Next, Step, Enter, Decide, Invoke, NextRoot, AllRootsBuilt, RootReturns,
          InventRule, NoRuleFound, SourceExists, SourceMissing, Circular, BeginBuild,
          ActivateBuild, NextPrerequisite, PrerequisiteReturns, Halted,
          BuildContextAsPrerequisite, NothingToRun, StartAction, ActionFails, Kill, Edit,
          Stop, vars, history
  <2>2. Top.atom \in Atom /\ Top.atom \notin settled
    BY <2>1, CompletedSettled, NotAgain
  <2>3. p = Top.atom
    BY <2>1, <2>2 DEF ActionSucceeds, IInv, TypeOK
  <2>4. t \notin settled
    BY <2>2, <2>3 DEF IInv, SettledInv
  <2> QED BY <2>4 DEF IInv, SettledInv, TypeOK
<1> QED BY <1>1, Invariance, PTL DEF Spec, OrderRespected

(* The prerequisites of an atom are atoms.                                  *)
LEMMA PrerequisitesType ==
  ASSUME NEW r \in [Atom -> Rule], NEW a \in Atom
  PROVE  {r[a].prereqs[i] : i \in DOMAIN r[a].prereqs} \subseteq Atom
<1>1. r[a].prereqs \in Seq(Atom)
  BY DEF Rule
<1> QED BY <1>1

(* The traversal implements BuildOrder: every step of it is a step of the  *)
(* abstract specification or changes nothing of what that one sees.        *)
THEOREM Refinement == Spec => ImplementsBuildOrder
<1> DEFINE deps == [a \in Atom |-> Prerequisites(a)]
<1>a. TypeOK => deps \in [Atom -> SUBSET Atom] /\ inv.always_make \in BOOLEAN
  BY PrerequisitesType DEF TypeOK, Invocation, Prerequisites
<1>b. TypeOK' => deps' \in [Atom -> SUBSET Atom] /\ inv'.always_make \in BOOLEAN
  BY PrerequisitesType DEF TypeOK, Invocation, Prerequisites
<1>1. Init => Order!Init
  <2> SUFFICES ASSUME Init PROVE Order!Init
    OBVIOUS
  <2>1. deps \in [Atom -> SUBSET Atom] /\ inv.always_make \in BOOLEAN
    BY <1>a, InitType
  <2> QED BY <2>1 DEF Init, Order!Init, Order!Fresh
<1>2. IInv /\ [Next]_vars => [Order!Next]_Order!vars
  <2> SUFFICES ASSUME IInv, [Next]_vars PROVE [Order!Next]_Order!vars
    OBVIOUS
  <2> USE DEF vars, memory, calls, world, history
  <2>1. CASE Invoke
    <3>1. deps' \in [Atom -> SUBSET Atom] /\ inv'.always_make \in BOOLEAN
      BY <1>b, TypePreserved
    <3>2. settled' = {} /\ ran' = [a \in Atom |-> 0]
      BY <2>1 DEF Invoke
    <3> QED BY <3>1, <3>2 DEF Order!Next, Order!Restart, Order!Fresh
  <2>2. CASE InventRule
    <3>1. arg \in Atom /\ \A a \in Atom \ {arg} : rule'[a] = rule[a]
      BY <2>2, InventedRule DEF IInv
    <3>2. arg \notin settled /\ UNCHANGED <<settled, ran, inv>>
      BY <2>2 DEF InventRule, IInv, SettledInv, Patternless
    <3>3. deps'[arg] \in SUBSET Atom /\ deps' \in [Atom -> SUBSET Atom]
      BY <1>b, <3>1, TypePreserved
    <3>4. \A a \in Atom \ {arg} : deps'[a] = deps[a]
      BY <3>1 DEF Prerequisites
    <3>5. deps' = [deps EXCEPT ![arg] = deps'[arg]]
      BY <1>a, <3>1, <3>3, <3>4 DEF IInv
    <3>6. Order!Discover(arg)
      BY <3>2, <3>3, <3>5 DEF Order!Discover
    <3> QED BY <3>1, <3>6 DEF Order!Next
  <2>3. CASE SourceExists \/ ActivateBuild
    <3>1. UNCHANGED <<rule, ran, inv>> /\ settled' \in {settled, settled \cup {arg}}
          /\ arg \in Atom
      BY <2>3 DEF SourceExists, ActivateBuild, IInv, TypeOK
    <3>2. Prerequisites(arg) = {}
      <4>1. rule[arg].prereqs = <<>>
        BY <2>3, <3>1 DEF SourceExists, ActivateBuild, IInv, ControlInv, RulesInv
      <4> QED BY <4>1 DEF Prerequisites
    <3>3. deps' = deps
      BY <3>1 DEF Prerequisites
    <3>4. CASE settled' = settled
      BY <3>1, <3>3, <3>4 DEF Order!vars
    <3>5. CASE settled' # settled
      BY <3>1, <3>2, <3>3, <3>5 DEF Order!Next, Order!Settle
    <3> QED BY <3>4, <3>5
  <2>4. CASE NothingToRun \/ ActionSucceeds
    <3>1. Top.atom \in Atom /\ Prerequisites(Top.atom) \subseteq settled
      BY <2>4, CompletedSettled
    <3>2. UNCHANGED <<rule, inv>> /\ settled' = settled \cup {Top.atom}
          /\ ran' \in {ran, [ran EXCEPT ![Top.atom] = @ + 1]}
      BY <2>4 DEF NothingToRun, ActionSucceeds, Complete
    <3>3. deps' = deps
      BY <3>2 DEF Prerequisites
    <3>4. CASE Top.atom \notin settled
      BY <3>1, <3>2, <3>3, <3>4 DEF Order!Next, Order!Settle
    <3>5. CASE Top.atom \in settled /\ ran' = ran
      BY <3>2, <3>3, <3>5 DEF Order!vars
    <3>6. CASE Top.atom \in settled /\ ran' # ran
      <4>1. inv.always_make
        BY <2>4, <3>6, NotAgain DEF NothingToRun, ActionSucceeds
      <4> QED BY <3>1, <3>2, <3>3, <3>6, <4>1 DEF Order!Next, Order!Repeat
    <3> QED BY <3>4, <3>5, <3>6
  <2>5. CASE \/ NextRoot \/ AllRootsBuilt \/ RootReturns \/ NoRuleFound \/ Circular
             \/ SourceMissing \/ BeginBuild \/ NextPrerequisite \/ PrerequisiteReturns
             \/ BuildContextAsPrerequisite \/ StartAction \/ ActionFails \/ Kill \/ Edit
             \/ Stop \/ UNCHANGED vars
    <3>1. UNCHANGED <<rule, settled, ran, inv>>
      BY <2>5 DEF NextRoot, AllRootsBuilt, RootReturns, NoRuleFound, Circular,
         SourceMissing, BeginBuild, NextPrerequisite, PrerequisiteReturns,
         BuildContextAsPrerequisite, StartAction, ActionFails, Kill, Edit, Stop
    <3> QED BY <3>1 DEF Order!vars, Prerequisites
  <2> QED BY <2>1, <2>2, <2>3, <2>4, <2>5 DEF Next, Step, Enter, Decide
<1> QED BY <1>1, <1>2, Invariance, PTL DEF Spec, ImplementsBuildOrder, Order!Spec

-----------------------------------------------------------------------------
(* A write makes no file later than the clock.                              *)
LEMMA NothingLaterWritten ==
  ASSUME TypeOK, NothingLater, NEW d, NEW files, Write(d, files)
  PROVE  NothingLater'
<1>1. clock \in Nat /\ clock' \in {clock, clock + 1}
  BY ConstantsAssumption DEF TypeOK, Write, FileTime
<1>2. \A e \in Dir, a \in Atom :
        /\ disk[e][a] \in Nat /\ disk[e][a] <= clock
        /\ disk'[e][a] = disk[e][a] \/ disk'[e][a] = clock'
  BY ConstantsAssumption DEF TypeOK, Write, FileTime, NothingLater
<1> QED BY <1>1, <1>2 DEF NothingLater

(* The files and the clock change together, and only by a write.            *)
LEMMA NothingLaterPreserved == IInv /\ NothingLater /\ [Next]_vars => NothingLater'
<1> SUFFICES ASSUME IInv, NothingLater, [Next]_vars PROVE NothingLater'
  OBVIOUS
<1> USE DEF vars, memory, calls, world, history
<1>1. ASSUME NEW d, NEW files, Write(d, files) PROVE NothingLater'
  BY <1>1, NothingLaterWritten DEF IInv
<1>2. CASE UNCHANGED world
  BY <1>2 DEF NothingLater
<1>3. CASE ActionSucceeds \/ ActionFails \/ Kill \/ Edit
  BY <1>1, <1>2, <1>3 DEF ActionSucceeds, ActionFails, Kill, Edit
<1> QED BY <1>2, <1>3 DEF Next, Step, Enter, Decide, Invoke, NextRoot, AllRootsBuilt,
     RootReturns, InventRule, NoRuleFound, SourceExists, SourceMissing, Circular,
     BeginBuild, ActivateBuild, NextPrerequisite, PrerequisiteReturns,
     BuildContextAsPrerequisite, NothingToRun, StartAction, Stop

(* An invocation that has not failed had not failed before: what fails,     *)
(* kills it or edits a file behind it ends that for good.                   *)
LEMMA UnfailedBefore ==
  ASSUME IInv, [Next]_vars, ~Invoke, Unfailed'
  PROVE  /\ Unfailed /\ UNCHANGED <<project, inv>>
         /\ ~ActionFails /\ ~Kill /\ ~Edit /\ ~SourceMissing
<1> USE DEF vars, memory, calls, world, history
<1>1. UNCHANGED <<project, inv>>
  BY DEF Next, Step, Enter, Decide, NextRoot, AllRootsBuilt,
     RootReturns, InventRule, NoRuleFound, SourceExists, SourceMissing, Circular,
     BeginBuild, ActivateBuild, NextPrerequisite, PrerequisiteReturns,
     BuildContextAsPrerequisite, NothingToRun, StartAction, ActionSucceeds, ActionFails,
     Kill, Edit, Stop
<1>2. ~ActionFails /\ ~Kill /\ ~SourceMissing
  BY DEF Unfailed, Running, ActionFails, Kill, SourceMissing
<1>3. ~Edit
  <2>1. inv.roots # Nil
    BY ConstantsAssumption DEF IInv, TypeOK, Invocation
  <2> QED BY <1>1, <2>1 DEF Unfailed, Running, Halted, Edit
<1>4. pc \in Running \/ (pc = "ok" /\ synced = inv.roots)
  <2>1. CASE Stop \/ UNCHANGED vars
    BY <1>1, <2>1 DEF Unfailed, Stop
  <2>2. CASE Step
    BY <2>2 DEF Running, Step, Enter, Decide, NextRoot, AllRootsBuilt,
       RootReturns, InventRule, NoRuleFound, SourceExists, SourceMissing, Circular,
       BeginBuild, ActivateBuild, NextPrerequisite, PrerequisiteReturns,
       BuildContextAsPrerequisite, NothingToRun, StartAction, ActionSucceeds, ActionFails
  <2> QED BY <1>2, <1>3, <2>1, <2>2 DEF Next
<1>5. Plain(inv) /\ OnlyOwnFile
  BY <1>1 DEF Unfailed, Plain, OnlyOwnFile
<1> QED BY <1>1, <1>2, <1>3, <1>4, <1>5 DEF Unfailed

(* Once bound, a name stays where it is.                                    *)
LEMMA BoundKept ==
  ASSUME IInv, [Next]_vars, ~Invoke, NEW a \in Atom, BOUND_NAME[a] # Nil
  PROVE  BOUND_NAME'[a] = BOUND_NAME[a]
<1> USE DEF vars, memory, calls, world, history
<1>1. CASE SourceExists \/ SourceMissing \/ BeginBuild
  BY <1>1 DEF SourceExists, SourceMissing, BeginBuild, BindAndStamp, BoundDir, IInv, TypeOK
<1>2. CASE UNCHANGED BOUND_NAME
  BY <1>2
<1> QED BY <1>1, <1>2 DEF Next, Step, Enter, Decide, NextRoot, AllRootsBuilt, RootReturns,
     InventRule, NoRuleFound, Circular, ActivateBuild, NextPrerequisite,
     PrerequisiteReturns, BuildContextAsPrerequisite, NothingToRun, StartAction,
     ActionSucceeds, ActionFails, Kill, Edit, Stop

(* A name in a directory changes only when its own action runs there.       *)
LEMMA NameKept ==
  ASSUME IInv, [Next]_vars, ~Invoke, Unfailed', NEW d \in Dir, NEW a \in Atom,
         ~(ActionSucceeds /\ a = Top.atom)
  PROVE  disk'[d][a] = disk[d][a]
<1> USE DEF vars, memory, calls, world, history
<1>1. CASE ActionSucceeds
  <2>1. Top.atom \in Atom
    BY <1>1, CompletedSettled
  <2>2. project.outputs[Top.atom] \subseteq {Top.atom} /\ ~inv.just_print
    BY <2>1, UnfailedBefore DEF Unfailed, OnlyOwnFile, Plain
  <2>3. Write(BOUND_NAME[Top.atom], project.outputs[Top.atom])
    BY <1>1, <2>2 DEF ActionSucceeds
  <2>4. a \notin project.outputs[Top.atom]
    BY <1>1, <2>2
  <2> QED BY <2>3, <2>4 DEF Write, IInv, TypeOK
<1>2. CASE UNCHANGED disk
  BY <1>2
<1> QED BY <1>1, <1>2, UnfailedBefore DEF Next, Step, Enter, Decide, NextRoot, AllRootsBuilt,
     RootReturns, InventRule, NoRuleFound, SourceExists, SourceMissing, Circular,
     BeginBuild, ActivateBuild, NextPrerequisite, PrerequisiteReturns,
     BuildContextAsPrerequisite, NothingToRun, StartAction, Stop

(* So a file with a remembered time is the same until its action runs.      *)
LEMMA FileKept ==
  ASSUME IInv, DiskInv, [Next]_vars, ~Invoke, Unfailed', NEW a \in Atom,
         TIMESTAMP[a] # Nil, ~(ActionSucceeds /\ a = Top.atom)
  PROVE  File(a)' = File(a) /\ BOUND_NAME'[a] = BOUND_NAME[a] /\ BOUND_NAME[a] \in Dir
<1>1. BOUND_NAME[a] \in Dir /\ BOUND_NAME[a] # Nil
  BY UnfailedBefore DEF DiskInv, Remembered, IInv, TypeOK
<1>2. BOUND_NAME'[a] = BOUND_NAME[a]
  BY <1>1, BoundKept
<1>3. disk'[BOUND_NAME[a]][a] = disk[BOUND_NAME[a]][a]
  BY <1>1, NameKept
<1> QED BY <1>1, <1>2, <1>3 DEF File

(* The rule of a settled atom is not replaced.                              *)
LEMMA SettledRuleKept ==
  ASSUME IInv, [Next]_vars, ~Invoke, NEW t \in settled
  PROVE  rule'[t] = rule[t]
<1> USE DEF vars, memory, calls, world, history
<1>1. CASE InventRule
  BY <1>1, InventedRule DEF InventRule, IInv, SettledInv, Patternless, TypeOK
<1>2. CASE UNCHANGED rule
  BY <1>2
<1> QED BY <1>1, <1>2 DEF Next, Step, Enter, Decide, NextRoot, AllRootsBuilt, RootReturns,
     NoRuleFound, SourceExists, SourceMissing, Circular, BeginBuild, ActivateBuild,
     NextPrerequisite, PrerequisiteReturns, BuildContextAsPrerequisite, NothingToRun,
     StartAction, ActionSucceeds, ActionFails, Kill, Edit, Stop

(* A settled target stays fresh: its file and those of its prerequisites    *)
(* are not written again.                                                   *)
LEMMA FreshKept ==
  ASSUME IInv, DiskInv, [Next]_vars, ~Invoke, Unfailed', NEW t \in settled
  PROVE  Fresh(t)'
<1>1. Unfailed /\ UNCHANGED <<project, inv>> /\ rule'[t] = rule[t] /\ t \in Atom
  BY UnfailedBefore, SettledRuleKept DEF IInv, TypeOK
<1>2. SUFFICES ASSUME rule[t].action, project.outputs[t] = {t},
                      NEW p \in Prerequisites(t)
               PROVE  File(p)' <= File(t)'
  BY <1>1 DEF Fresh, Prerequisites
<1>3. ~inv.always_make
  BY <1>1 DEF Unfailed, Plain
<1>4. UpToDate(t) /\ p \in settled /\ p \in Atom
  BY <1>2, <1>3 DEF IInv, TimesInv, SettledInv, TypeOK
<1>5. TIMESTAMP[t] # Nil /\ TIMESTAMP[p] # Nil /\ File(p) <= File(t)
  BY <1>1, <1>2, <1>4 DEF UpToDate, DiskInv, Fresh
<1>6. ActionSucceeds => Top.atom \notin settled
  BY <1>3, NotAgain DEF ActionSucceeds
<1>7. File(t)' = File(t) /\ File(p)' = File(p)
  BY <1>1, <1>4, <1>5, <1>6, FileKept
<1> QED BY <1>5, <1>7

(* What is settled stays so within an invocation, and a directory that is   *)
(* read is read as it is.                                                   *)
LEMMA SettledStays ==
  ASSUME IInv, [Next]_vars, ~Invoke
  PROVE  /\ settled \subseteq settled'
         /\ \A d \in Dir : dircache'[d] \in {dircache[d], disk[d]}
<1> USE DEF vars, memory, calls, world, history
<1>1. settled \subseteq settled'
  BY DEF Next, Step, Enter, Decide, Complete, NextRoot, AllRootsBuilt, RootReturns,
     InventRule, NoRuleFound, SourceExists, SourceMissing, Circular, BeginBuild,
     ActivateBuild, NextPrerequisite, PrerequisiteReturns, BuildContextAsPrerequisite,
     NothingToRun, StartAction, ActionSucceeds, ActionFails, Kill, Edit, Stop
<1>2. CASE SourceExists \/ SourceMissing \/ BeginBuild
  <2>1. BindAndStamp(arg)
    BY <1>2 DEF SourceExists, SourceMissing, BeginBuild
  <2> QED BY <1>1, <2>1 DEF BindAndStamp, Snapshot, IInv, TypeOK
<1>3. CASE UNCHANGED dircache
  BY <1>1, <1>3
<1> QED BY <1>2, <1>3 DEF Next, Step, Enter, Decide, NextRoot, AllRootsBuilt, RootReturns,
     InventRule, NoRuleFound, Circular, ActivateBuild, NextPrerequisite,
     PrerequisiteReturns, BuildContextAsPrerequisite, NothingToRun, StartAction,
     ActionSucceeds, ActionFails, Kill, Edit, Stop

(* While its timestamp stays as it is, an atom is remembered and read as    *)
(* it is, unless its action runs.                                           *)
LEMMA RememberedKept ==
  ASSUME IInv, DiskInv, [Next]_vars, ~Invoke, Unfailed', NEW a \in Atom,
         TIMESTAMP'[a] = TIMESTAMP[a], ~(ActionSucceeds /\ a = Top.atom)
  PROVE  Remembered(a)' /\ AsRead(a)'
<1>1. Remembered(a) /\ AsRead(a)
  BY UnfailedBefore DEF DiskInv
<1>2. CASE TIMESTAMP[a] = Nil
  <2>1. \A d \in Dir : /\ disk'[d][a] = disk[d][a]
                       /\ dircache'[d] \in {dircache[d], disk[d]}
    BY NameKept, SettledStays
  <2>2. \A d \in Dir : dircache[d] # Nil => dircache[d][a] = disk[d][a]
    BY <1>1, <1>2 DEF AsRead
  <2> QED BY <1>2, <2>1, <2>2 DEF Remembered, AsRead
<1>3. CASE TIMESTAMP[a] # Nil
  <2>1. File(a)' = File(a) /\ BOUND_NAME'[a] = BOUND_NAME[a] /\ settled \subseteq settled'
    BY <1>3, FileKept, SettledStays
  <2> QED BY <1>1, <1>3, <2>1 DEF Remembered, AsRead
<1> QED BY <1>2, <1>3

(* A timestamp that is looked up for the first time is the file's.          *)
LEMMA FirstLookup ==
  ASSUME IInv, DiskInv, Unfailed, NEW a \in Atom, TIMESTAMP[a] = Nil, BindAndStamp(a)
  PROVE  /\ BOUND_NAME'[a] = BoundDir(a) /\ BoundDir(a) \in Dir
         /\ TIMESTAMP'[a] = disk[BoundDir(a)][a] /\ TIMESTAMP'[a] \in FileTime
<1>1. BoundDir(a) \in Dir /\ Snapshot(BoundDir(a)) \in [Atom -> FileTime]
  BY LookupType DEF IInv
<1>2. Lookup(a, BoundDir(a)) = Snapshot(BoundDir(a))[a]
  BY DEF Lookup, Unfailed, Plain
<1>3. Snapshot(BoundDir(a))[a] = disk[BoundDir(a)][a]
  BY <1>1 DEF DiskInv, AsRead, Snapshot
<1>4. TIMESTAMP'[a] = Lookup(a, BoundDir(a)) /\ BOUND_NAME'[a] = BoundDir(a)
  BY BoundAndStamped DEF BindAndStamp, IInv, TypeOK
<1> QED BY <1>1, <1>2, <1>3, <1>4

(* A target that settles without an action run is as new as the times say;  *)
(* one whose action ran is written after its prerequisites.                 *)
LEMMA FreshWhenSettled ==
  ASSUME IInv, DiskInv, [Next]_vars, Unfailed', NothingToRun \/ ActionSucceeds,
         Top.atom \notin settled, NEW a \in Atom, a = Top.atom
  PROVE  Fresh(a)'
<1> USE DEF vars, memory, calls, world, history
<1>1. ~Invoke /\ UNCHANGED <<rule, project, BOUND_NAME>>
  BY DEF NothingToRun, ActionSucceeds, Invoke, Halted
<1>2. SUFFICES ASSUME rule[a].action, project.outputs[a] = {a}, NEW p \in Prerequisites(a)
               PROVE  File(p)' <= File(a)'
  BY <1>1 DEF Fresh, Prerequisites
<1>3. Unfailed /\ ~inv.always_make /\ ~inv.just_print
  BY <1>1, UnfailedBefore DEF Unfailed, Plain
<1>4. /\ stack # <<>> /\ Top = stack[Len(stack)] /\ Len(stack) \in 1 .. Len(stack)
      /\ p \in settled /\ p \in Atom /\ p # a
      /\ \A j \in DOMAIN rule[a].prereqs : j \in 1 .. (Top.next - 1)
  BY <1>2, CompletedSettled DEF IInv, TypeOK
<1>5. NewestOfSeen(Top) /\ TIMESTAMP[a] = Top.time
      /\ Top.time \in Time /\ Top.newest \in Time
  BY <1>3, <1>4, FrameTypes DEF IInv, TimesInv, StampsInv
<1>6. TIMESTAMP[p] # Nil /\ TIMESTAMP[p] <= Top.newest /\ TIMESTAMP[p] \in Time
  <2>1. PICK j \in DOMAIN rule[a].prereqs : p = rule[a].prereqs[j]
    BY <1>2 DEF Prerequisites
  <2>2. TIMESTAMP[p] # Nil /\ TIMESTAMP[p] <= Top.newest
    BY <1>4, <1>5, <2>1 DEF NewestOfSeen
  <2> QED BY <1>4, <2>2 DEF IInv, TypeOK
<1>7. TIMESTAMP[a] # Nil /\ TIMESTAMP[a] # Newest /\ Remembered(a) /\ Remembered(p)
  <2>1. TIMESTAMP[a] # Nil
    BY <1>5, ConstantsAssumption DEF Time
  <2>2. Remembered(a) /\ Remembered(p)
    BY <1>3, <1>4 DEF DiskInv
  <2> QED BY <2>1, <2>2 DEF Remembered
<1>8. File(p)' = File(p) /\ BOUND_NAME[p] \in Dir /\ BOUND_NAME[a] \in Dir
  <2>1. File(p)' = File(p) /\ BOUND_NAME[p] \in Dir
    BY <1>1, <1>4, <1>6, FileKept
  <2> QED BY <1>7, <2>1 DEF Remembered, IInv, TypeOK
<1>9. CASE NothingToRun
  <2>1. ~(Top.newest > Top.time)
    BY <1>2, <1>9 DEF NothingToRun, NeedsBuilding
  <2>2. TIMESTAMP[p] <= TIMESTAMP[a] /\ TIMESTAMP[p] # Newest
    BY <1>5, <1>6, <1>7, <2>1, ConstantsAssumption DEF Time
  <2>3. File(p) = TIMESTAMP[p] /\ File(a) = TIMESTAMP[a]
    BY <1>6, <1>7, <2>2 DEF Remembered
  <2>4. File(a)' = File(a)
    BY <1>1, <1>7, <1>9, FileKept DEF NothingToRun, ActionSucceeds
  <2> QED BY <1>8, <2>2, <2>3, <2>4
<1>10. CASE ActionSucceeds
  <2>1. Write(BOUND_NAME[a], {a})
    BY <1>2, <1>3, <1>10 DEF ActionSucceeds
  <2>2. File(a)' = clock' /\ clock' \in {clock, clock + 1}
    BY <1>1, <1>8, <2>1 DEF Write, File, IInv, TypeOK
  <2>3. File(p) <= clock /\ File(p) \in Nat /\ clock \in Nat
    BY <1>4, <1>8, ConstantsAssumption DEF DiskInv, NothingLater, File, IInv, TypeOK, FileTime
  <2> QED BY <1>8, <2>2, <2>3
<1> QED BY <1>9, <1>10

(* Every step keeps DiskInv.                                                *)
LEMMA DiskPreserved == IInv /\ DiskInv /\ [Next]_vars => DiskInv'
<1> SUFFICES ASSUME IInv, DiskInv, [Next]_vars PROVE DiskInv'
  OBVIOUS
<1>1. SUFFICES ASSUME Unfailed'
               PROVE  /\ \A a \in Atom : Remembered(a)' /\ AsRead(a)'
                      /\ \A t \in settled' : Fresh(t)'
  BY NothingLaterPreserved DEF DiskInv
<1> USE DEF vars, memory, calls, world, history
<1>2. CASE Invoke
  BY <1>2 DEF Invoke, Remembered, AsRead
<1>3. ASSUME ~Invoke
      PROVE  /\ \A t \in settled : Fresh(t)'
             /\ Unfailed /\ ~inv.always_make
  BY <1>1, <1>3, FreshKept, UnfailedBefore DEF Unfailed, Plain
<1>4. CASE SourceExists \/ BeginBuild
  <2>1. /\ arg \in Atom /\ BindAndStamp(arg) /\ ~Invoke /\ ~ActionSucceeds
        /\ UNCHANGED <<rule, disk>>
        /\ settled' \subseteq settled \cup {arg}
    BY <1>4 DEF SourceExists, BeginBuild, Invoke, ActionSucceeds, Halted, IInv, TypeOK
  <2>2. ASSUME NEW a \in Atom PROVE Remembered(a)' /\ AsRead(a)'
    <3>1. CASE a # arg \/ TIMESTAMP[a] # Nil
      <4>1. TIMESTAMP'[a] = TIMESTAMP[a]
        BY <2>1, <3>1, BoundAndStamped, StampKept DEF IInv
      <4> QED BY <1>1, <2>1, <4>1, RememberedKept
    <3>2. CASE a = arg /\ TIMESTAMP[a] = Nil
      <4>1. /\ BOUND_NAME'[a] \in Dir
            /\ TIMESTAMP'[a] = disk[BOUND_NAME'[a]][a] /\ TIMESTAMP'[a] \in FileTime
        BY <1>3, <2>1, <3>2, FirstLookup
      <4>2. TIMESTAMP'[a] # Newest /\ TIMESTAMP'[a] # Nil /\ BOUND_NAME'[a] # Nil
        BY <4>1, ConstantsAssumption DEF FileTime
      <4> QED BY <2>1, <4>1, <4>2 DEF Remembered, AsRead, File
    <3> QED BY <3>1, <3>2
  <2>3. arg \notin settled /\ arg \in settled' => ~rule[arg].action
    BY <1>4 DEF SourceExists, BeginBuild, IInv, ControlInv, RulesInv, TypeOK
  <2> QED BY <1>3, <2>1, <2>2, <2>3 DEF Fresh
<1>5. CASE NothingToRun \/ ActionSucceeds
  <2>1. /\ stack # <<>> /\ Top = stack[Len(stack)] /\ Len(stack) \in 1 .. Len(stack)
        /\ Top.atom \in Atom
    BY <1>5, CompletedSettled
  <2>2. PICK k \in Atom : k = Top.atom       \* rigid
    BY <2>1
  <2>3. ~Invoke /\ settled' = settled \cup {k} /\ UNCHANGED <<rule, BOUND_NAME>>
    BY <1>5, <2>2 DEF NothingToRun, ActionSucceeds, Complete, Invoke, Halted
  <2>4. TIMESTAMP[k] = Top.time /\ Top.time # Nil
    <3>1. TIMESTAMP[k] = Top.time /\ Top.time \in Time
      BY <2>1, <2>2, FrameTypes DEF IInv, StampsInv
    <3> QED BY <3>1, ConstantsAssumption DEF Time
  <2>5. ASSUME NEW a \in Atom PROVE Remembered(a)' /\ AsRead(a)'
    <3>1. CASE NothingToRun \/ a # k
      <4>1. TIMESTAMP'[a] = TIMESTAMP[a] /\ ~(ActionSucceeds /\ a = Top.atom)
        BY <1>5, <2>2, <2>4, <3>1 DEF NothingToRun, ActionSucceeds, Complete, IInv, TypeOK
      <4> QED BY <1>1, <2>3, <4>1, RememberedKept
    <3>2. CASE ActionSucceeds /\ a = k
      <4>1. TIMESTAMP'[a] = Newest /\ Newest # Nil
        BY <2>2, <3>2, ConstantsAssumption DEF ActionSucceeds, Complete, IInv, TypeOK
      <4>2. BOUND_NAME[a] # Nil
        BY <1>3, <2>3, <2>4, <3>2 DEF DiskInv, Remembered
      <4> QED BY <2>3, <3>2, <4>1, <4>2 DEF Remembered, AsRead
    <3> QED BY <1>5, <3>1, <3>2
  <2>6. k \notin settled => Fresh(k)'
    BY <1>1, <1>5, <2>2, FreshWhenSettled
  <2> QED BY <1>3, <2>3, <2>5, <2>6
<1>6. CASE \/ NextRoot \/ AllRootsBuilt \/ RootReturns \/ InventRule \/ NoRuleFound
           \/ Circular \/ ActivateBuild \/ NextPrerequisite \/ PrerequisiteReturns
           \/ BuildContextAsPrerequisite \/ StartAction \/ Stop \/ UNCHANGED vars
  <2>1. UNCHANGED TIMESTAMP /\ settled' \subseteq settled \cup {arg}
        /\ (settled' # settled => ActivateBuild)
    BY <1>6 DEF NextRoot, AllRootsBuilt, RootReturns, InventRule, NoRuleFound, Circular,
       ActivateBuild, NextPrerequisite, PrerequisiteReturns,
       BuildContextAsPrerequisite, StartAction, Stop
  <2>2. UNCHANGED clock /\ UNCHANGED ran
    BY <1>6 DEF NextRoot, AllRootsBuilt, RootReturns, InventRule, NoRuleFound, Circular,
       ActivateBuild, NextPrerequisite, PrerequisiteReturns,
       BuildContextAsPrerequisite, StartAction, Stop
  <2>3. ~ActionSucceeds
    <3> SUFFICES ASSUME ActionSucceeds PROVE FALSE
      OBVIOUS
    <3>1. Top.atom \in Atom
      BY CompletedSettled
    <3>2. ran'[Top.atom] = ran[Top.atom] + 1 /\ ran[Top.atom] \in Nat
      BY <3>1 DEF ActionSucceeds, IInv, TypeOK
    <3> QED BY <2>2, <3>2
  <2>4. ~Invoke
    <3>1. UNCHANGED epoch
      BY <1>6 DEF NextRoot, AllRootsBuilt, RootReturns, InventRule, NoRuleFound, Circular,
         ActivateBuild, NextPrerequisite, PrerequisiteReturns,
         BuildContextAsPrerequisite, StartAction, Stop
    <3> QED BY <3>1 DEF Invoke, IInv, TypeOK
  <2>5. \A a \in Atom : Remembered(a)' /\ AsRead(a)'
    BY <1>1, <2>1, <2>3, <2>4, RememberedKept
  <2>6. ActivateBuild => ~rule'[arg].action /\ arg \in Atom
    BY DEF ActivateBuild, IInv, RulesInv, TypeOK
  <2> QED BY <1>3, <2>1, <2>4, <2>5, <2>6 DEF Fresh
<1>7. Invoke \/ (~SourceMissing /\ ~ActionFails /\ ~Kill /\ ~Edit)
  BY <1>1, UnfailedBefore
<1> QED BY <1>2, <1>4, <1>5, <1>6, <1>7 DEF Next, Step, Enter, Decide

(* It holds when the first invocation starts.                               *)
LEMMA InitDisk == Init => DiskInv
<1> SUFFICES ASSUME Init PROVE DiskInv
  OBVIOUS
<1>1. WellFormed(project)
  BY ProjectsAssumption DEF Init
<1>2. NothingLater
  BY <1>1 DEF Init, WellFormed, NothingLater
<1> QED BY <1>2 DEF Init, DiskInv, Remembered, AsRead

(* When a plain invocation has succeeded, no file its actions make or keep  *)
(* is older than a direct prerequisite, although every directory is read    *)
(* once and every timestamp before the prerequisites are built.             *)
THEOREM FreshAfterSuccess == Spec => []FreshOnSuccess
<1>1. DiskInv => FreshOnSuccess
  BY DEF DiskInv, FreshOnSuccess, Unfailed, Fresh
<1> QED BY <1>1, InitDisk, Invariance, DiskPreserved, PTL DEF Spec

-----------------------------------------------------------------------------
(***************************************************************************)
(* The second build.                                                       *)
(***************************************************************************)
(* The rule that an atom without one gets is that of its first pattern     *)
(* whose prerequisites are there; there is one such pattern at most.       *)
LEMMA ChosenFirst ==
  ASSUME NEW p, NEW names, NEW a, NEW i, FirstShown(p, names, a, i),
         p.rule[a].op = "none", p.implicit[a] \in Seq(Rule)
  PROVE  ChosenRule(p, names, a) = p.implicit[a][i]
<1> DEFINE D == DOMAIN p.implicit[a]
           c == CHOOSE j \in D : FirstShown(p, names, a, j)
<1>1. i \in D /\ c \in D /\ FirstShown(p, names, a, c)
  BY DEF FirstShown
<1>2. D \subseteq Nat
  OBVIOUS
<1>3. c = i
  <2>1. ASSUME NEW j \in D, NEW k \in D, FirstShown(p, names, a, j),
               FirstShown(p, names, a, k), j < k
        PROVE  FALSE
    <3>1. j \in 1 .. (k - 1)
      BY <1>2, <2>1
    <3> QED BY <2>1, <3>1 DEF FirstShown
  <2> HIDE DEF c, D
  <2>2. ~(c < i) /\ ~(i < c)
    BY <1>1, <2>1
  <2> QED BY <1>1, <1>2, <2>2
<1> QED BY <1>1, <1>3 DEF ChosenRule

(* Without such a pattern, or with a rule of its own, it keeps what it has. *)
LEMMA ChosenOwn ==
  ASSUME NEW p, NEW names, NEW a,
         p.rule[a].op # "none" \/ ~(\E i \in DOMAIN p.implicit[a] : FirstShown(p, names, a, i))
  PROVE  ChosenRule(p, names, a) = p.rule[a]
BY DEF ChosenRule

(* A chosen rule is a rule.                                                 *)
LEMMA ChosenType ==
  ASSUME NEW p, WellFormed(p), NEW names, NEW a \in Atom
  PROVE  /\ ChosenRule(p, names, a) \in Rule
         /\ Listed(ChosenRule(p, names, a)) \subseteq Atom
         /\ IsContext(p, a) <=> ChosenRule(p, names, a).op = ":BUILD:"
         /\ ChosenRule(p, names, a).action => ChosenRule(p, names, a).op = ":"
<1>1. /\ p.rule[a] \in Rule /\ p.implicit[a] \in Seq(Rule)
      /\ \A i \in DOMAIN p.implicit[a] : p.implicit[a][i].op = ":"
      /\ p.rule[a].op # ":" => ~p.rule[a].action
  BY DEF WellFormed, Project
<1>2. \A i \in DOMAIN p.implicit[a] : p.implicit[a][i] \in Rule
  BY <1>1
<1>3. \/ ChosenRule(p, names, a) = p.rule[a]
      \/ /\ p.rule[a].op = "none"
         /\ \E i \in DOMAIN p.implicit[a] : ChosenRule(p, names, a) = p.implicit[a][i]
  BY <1>1, ChosenFirst, ChosenOwn
<1>4. \A r \in Rule : Listed(r) \subseteq Atom
  BY DEF Rule, Listed
<1> QED BY <1>1, <1>2, <1>3, <1>4 DEF IsContext

(* The roots are reached, and with an atom what its rule lists.             *)
LEMMA ReachedRoots ==
  ASSUME NEW p, WellFormed(p), NEW names, NEW roots, NEW k
  PROVE  /\ \A i \in 1 .. k : roots[i] \in Atom => roots[i] \in Reached(p, names, roots, k)
         /\ \A a \in Reached(p, names, roots, k) :
              Listed(ChosenRule(p, names, a)) \subseteq Reached(p, names, roots, k)
<1>1. \A i \in 1 .. k : roots[i] \in Atom => roots[i] \in Reached(p, names, roots, k)
  BY DEF Reached
<1>2. ASSUME NEW a \in Reached(p, names, roots, k), NEW b \in Listed(ChosenRule(p, names, a))
      PROVE  b \in Reached(p, names, roots, k)
  <2>1. a \in Atom
    BY DEF Reached
  <2>2. b \in Atom
    BY <1>2, <2>1, ChosenType
  <2>3. ASSUME NEW S \in SUBSET Atom, Closed(p, names, S), \A i \in 1 .. k : roots[i] \in S
        PROVE  b \in S
    <3>1. a \in S
      BY <2>3 DEF Reached
    <3> QED BY <1>2, <2>3, <3>1 DEF Closed
  <2> QED BY <2>2, <2>3 DEF Reached
<1> QED BY <1>1, <1>2

(* A closed set that has the roots has all that is reached.                 *)
LEMMA ReachedLeast ==
  ASSUME NEW p, NEW names, NEW roots, NEW k, NEW S \in SUBSET Atom, Closed(p, names, S),
         \A i \in 1 .. k : roots[i] \in S
  PROVE  Reached(p, names, roots, k) \subseteq S
BY DEF Reached

(* More roots reach more.                                                   *)
LEMMA ReachedGrows ==
  ASSUME NEW p, NEW names, NEW roots, NEW j \in Nat, NEW k \in Nat, j <= k
  PROVE  Reached(p, names, roots, j) \subseteq Reached(p, names, roots, k)
<1>1. 1 .. j \subseteq 1 .. k
  OBVIOUS
<1> QED BY <1>1 DEF Reached

(* The context when a root begins is one only.                              *)
LEMMA OneContext ==
  ASSUME NEW p, NEW roots, NEW k \in Nat, NEW d, NEW e,
         ContextOf(p, roots, k, d), ContextOf(p, roots, k, e)
  PROVE  d = e
<1>1. ASSUME NEW i \in 1 .. (k - 1), NEW j \in 1 .. (k - 1), i < j, IsContext(p, roots[j]),
             \A l \in (i + 1) .. (k - 1) : ~IsContext(p, roots[l])
      PROVE  FALSE
  <2>1. j \in (i + 1) .. (k - 1)
    BY <1>1
  <2> QED BY <1>1, <2>1
<1>2. CASE d = Src /\ \A j \in 1 .. (k - 1) : ~IsContext(p, roots[j])
  BY <1>2 DEF ContextOf
<1>3. CASE e = Src /\ \A j \in 1 .. (k - 1) : ~IsContext(p, roots[j])
  BY <1>3 DEF ContextOf
<1>4. ASSUME NEW i \in 1 .. (k - 1), IsContext(p, roots[i]), d = p.outdir[roots[i]],
             \A l \in (i + 1) .. (k - 1) : ~IsContext(p, roots[l]),
             NEW j \in 1 .. (k - 1), IsContext(p, roots[j]), e = p.outdir[roots[j]],
             \A l \in (j + 1) .. (k - 1) : ~IsContext(p, roots[l])
      PROVE  d = e
  <2>1. ~(i < j) /\ ~(j < i)
    BY <1>1, <1>4
  <2>2. i = j
    BY <2>1
  <2> QED BY <1>4, <2>2
<1> QED BY <1>2, <1>3, <1>4 DEF ContextOf

(* An atom is bound in one directory only.                                  *)
LEMMA OnePlace ==
  ASSUME NEW p, NEW names, NEW roots, NEW a, NEW d, NEW e, Len(roots) \in Nat,
         Placed(p, names, roots, a, d), Placed(p, names, roots, a, e)
  PROVE  d = e
<1>1. CASE IsContext(p, a) \/ ~ChosenRule(p, names, a).action
  BY <1>1 DEF Placed
<1>2. CASE ~IsContext(p, a) /\ ChosenRule(p, names, a).action
  <2>1. PICK i \in 1 .. Len(roots) :
             FirstFrom(p, names, roots, a, i) /\ ContextOf(p, roots, i, d)
    BY <1>2 DEF Placed
  <2>2. PICK j \in 1 .. Len(roots) :
             FirstFrom(p, names, roots, a, j) /\ ContextOf(p, roots, j, e)
    BY <1>2 DEF Placed
  <2>3. ASSUME NEW m \in 1 .. Len(roots), NEW n \in 1 .. Len(roots), m < n,
               FirstFrom(p, names, roots, a, m), FirstFrom(p, names, roots, a, n)
        PROVE  FALSE
    <3>1. m \in Nat /\ n - 1 \in Nat /\ m <= n - 1
      BY <2>3
    <3>2. Reached(p, names, roots, m) \subseteq Reached(p, names, roots, n - 1)
      BY <3>1, ReachedGrows
    <3> QED BY <2>3, <3>2 DEF FirstFrom
  <2>4. ~(i < j) /\ ~(j < i)
    BY <2>1, <2>2, <2>3
  <2>5. i = j /\ i \in Nat
    BY <2>4
  <2> QED BY <2>1, <2>2, <2>5, OneContext
<1> QED BY <1>1, <1>2

(* Directories that agree on what pattern rules look at give the same       *)
(* rules, so the same places.                                               *)
LEMMA SameChoices ==
  ASSUME WellFormed(project), PatternsFromSources, NEW m, NEW n,
         \A x \in Atom : NeverMade(x) => (m[x] = Oldest <=> n[x] = Oldest)
  PROVE  /\ \A a \in Atom : ChosenRule(project, m, a) = ChosenRule(project, n, a)
         /\ \A roots, k : Reached(project, m, roots, k) = Reached(project, n, roots, k)
         /\ \A roots, d : \A a \in Atom :
              Placed(project, m, roots, a, d) <=> Placed(project, n, roots, a, d)
<1>1. ASSUME NEW a \in Atom PROVE ChosenRule(project, m, a) = ChosenRule(project, n, a)
  <2>1. project.implicit[a] \in Seq(Rule)
    BY DEF WellFormed, Project
  <2>2. \A i \in DOMAIN project.implicit[a] :
          Shows(m, project.implicit[a][i]) <=> Shows(n, project.implicit[a][i])
    <3> TAKE i \in DOMAIN project.implicit[a]
    <3> DEFINE ps == project.implicit[a][i].prereqs
    <3>1. project.implicit[a][i] \in Rule /\ ps \in Seq(Atom)
      <4>1. project.implicit[a][i] \in Rule
        BY <2>1
      <4> QED BY <4>1 DEF Rule
    <3>2. \A j \in DOMAIN ps : ps[j] \in Atom /\ NeverMade(ps[j])
      BY <3>1 DEF PatternsFromSources
    <3> QED BY <3>2 DEF Shows
  <2>3. \A i \in DOMAIN project.implicit[a] :
          FirstShown(project, m, a, i) <=> FirstShown(project, n, a, i)
    <3> TAKE i \in DOMAIN project.implicit[a]
    <3>1. \A j \in 1 .. (i - 1) : j \in DOMAIN project.implicit[a]
      BY <2>1
    <3> QED BY <2>2, <3>1 DEF FirstShown
  <2> QED BY <2>1, <2>3, ChosenFirst, ChosenOwn
<1>2. \A S \in SUBSET Atom : Closed(project, m, S) <=> Closed(project, n, S)
  BY <1>1 DEF Closed
<1>3. ASSUME NEW roots, NEW k
      PROVE  Reached(project, m, roots, k) = Reached(project, n, roots, k)
  BY <1>2 DEF Reached
<1>4. ASSUME NEW roots, NEW d, NEW a \in Atom
      PROVE  Placed(project, m, roots, a, d) <=> Placed(project, n, roots, a, d)
  <2>1. \A k : FirstFrom(project, m, roots, a, k) <=> FirstFrom(project, n, roots, a, k)
    BY <1>3 DEF FirstFrom
  <2> QED BY <1>1, <2>1 DEF Placed
<1> QED BY <1>1, <1>3, <1>4

(* Only a new invocation changes what is invoked, or reads the current     *)
(* directory.                                                              *)
LEMMA SameInvocation ==
  ASSUME IInv, [Next]_vars, ~Invoke
  PROVE  UNCHANGED <<project, inv>> /\ dircache'[Src] = dircache[Src]
<1> USE DEF vars, memory, calls, world, history
<1>1. UNCHANGED <<project, inv>>
  BY DEF Next, Step, Enter, Decide, NextRoot, AllRootsBuilt,
     RootReturns, InventRule, NoRuleFound, SourceExists, SourceMissing, Circular,
     BeginBuild, ActivateBuild, NextPrerequisite, PrerequisiteReturns,
     BuildContextAsPrerequisite, NothingToRun, StartAction, ActionSucceeds, ActionFails,
     Kill, Edit, Stop
<1>2. CASE SourceExists \/ SourceMissing \/ BeginBuild
  <2>1. arg \in Atom /\ BindAndStamp(arg)
    BY <1>2 DEF SourceExists, SourceMissing, BeginBuild, IInv, TypeOK
  <2> QED BY <1>1, <2>1, BoundAndStamped DEF IInv, RulesInv
<1>3. CASE UNCHANGED dircache
  BY <1>1, <1>3
<1> QED BY <1>2, <1>3 DEF Next, Step, Enter, Decide, NextRoot, AllRootsBuilt, RootReturns,
     InventRule, NoRuleFound, Circular, ActivateBuild, NextPrerequisite,
     PrerequisiteReturns, BuildContextAsPrerequisite, NothingToRun, StartAction,
     ActionSucceeds, ActionFails, Kill, Edit, Stop

(* A new invocation starts with the explicit rules and the directory as it *)
(* is.                                                                     *)
LEMMA Invoked ==
  ASSUME IInv, Invoke
  PROVE  /\ rule' = project.rule /\ project' = project /\ disk' = disk /\ synced' = synced
         /\ inv' \in Invocation /\ inv'.roots # <<>>
         /\ dircache'[Src] = disk[Src] /\ context' = Src /\ settled' = {} /\ BUILDING' = {}
         /\ TIMESTAMP' = [a \in Atom |-> Nil] /\ ran' = [a \in Atom |-> 0]
         /\ stack' = <<>> /\ pc' = "ROOT" /\ root' = 1
         /\ \A a \in Atom : IsContext(project, a) => BOUND_NAME'[a] = project.outdir[a]
         /\ \A a \in Atom : ~IsContext(project, a) => BOUND_NAME'[a] = Nil
<1>1. inv' \in project.commands /\ project.commands \subseteq Invocation
      /\ \A i \in project.commands : i.roots # <<>>
  BY DEF Invoke, IInv, TypeOK, WellFormed, Project
<1> QED BY <1>1, ConstantsAssumption DEF Invoke, world, DeclaredDirs, IsContext

(* Every step keeps ChoiceInv.                                              *)
LEMMA ChoicePreserved == IInv /\ ChoiceInv /\ [Next]_vars => ChoiceInv'
<1> SUFFICES ASSUME IInv, ChoiceInv, [Next]_vars PROVE ChoiceInv'
  OBVIOUS
<1> USE DEF vars, memory, calls, world, history
<1>1. CASE Invoke
  <2>1. \A a \in Atom : rule'[a].op # "none" => rule'[a] = ChosenRule(project, disk[Src], a)
    BY <1>1, Invoked, ChosenOwn
  <2> QED BY <1>1, <2>1, Invoked DEF ChoiceInv
<1>2. CASE ~Invoke
  <2>1. UNCHANGED <<project, inv>> /\ dircache'[Src] = dircache[Src]
    BY <1>2, SameInvocation
  <2>2. ASSUME NEW a \in Atom, IsContext(project, a) PROVE BOUND_NAME'[a] = project.outdir[a]
    <3>1. project.outdir[a] \in Dir
      BY DEF IInv, TypeOK, WellFormed, Project
    <3> QED BY <1>2, <2>2, <3>1, BoundKept, ConstantsAssumption DEF ChoiceInv
  <2>3. CASE InventRule
    <3>1. arg \in Atom /\ \A a \in Atom \ {arg} : rule'[a] = rule[a]
      BY <2>3, InventedRule DEF IInv
    <3>2. PICK i \in DOMAIN project.implicit[arg] :
               /\ Applies(project.implicit[arg][i])
               /\ \A j \in 1 .. (i - 1) : ~Applies(project.implicit[arg][j])
               /\ rule' = [rule EXCEPT ![arg] = project.implicit[arg][i]]
      BY <2>3 DEF InventRule
    <3>3. FirstShown(project, dircache[Src], arg, i)
      BY <3>2 DEF FirstShown, Shows, Applies, Exists
    <3>4. project.rule[arg].op = "none" /\ project.implicit[arg] \in Seq(Rule)
      BY <2>3, <3>1 DEF InventRule, ChoiceInv, IInv, TypeOK, WellFormed, Project
    <3>5. rule'[arg] = ChosenRule(project, dircache[Src], arg)
      BY <3>1, <3>2, <3>3, <3>4, ChosenFirst DEF IInv, TypeOK
    <3>6. rule'[arg].op # "none"
      BY <2>3, InventedRule DEF IInv
    <3> QED BY <2>1, <2>2, <3>1, <3>5, <3>6 DEF ChoiceInv
  <2>4. CASE UNCHANGED rule
    BY <2>1, <2>2, <2>4 DEF ChoiceInv
  <2> QED BY <1>2, <2>3, <2>4 DEF Next, Step, Enter, Decide, NextRoot, AllRootsBuilt,
     RootReturns, NoRuleFound, SourceExists, SourceMissing, Circular, BeginBuild,
     ActivateBuild, NextPrerequisite, PrerequisiteReturns, BuildContextAsPrerequisite,
     NothingToRun, StartAction, ActionSucceeds, ActionFails, Kill, Edit, Stop
<1> QED BY <1>1, <1>2

(* A settled atom has the rule that was chosen for it.                      *)
LEMMA SettledChosen ==
  ASSUME IInv, ChoiceInv, NEW a \in Atom,
         rule[a].op # "none" \/ Patternless(a)
  PROVE  rule[a] = ChosenRule(project, dircache[Src], a)
<1>1. CASE rule[a].op # "none"
  BY <1>1 DEF ChoiceInv
<1>2. CASE rule[a].op = "none" /\ Patternless(a)
  <2>1. ~(\E i \in DOMAIN project.implicit[a] : FirstShown(project, dircache[Src], a, i))
    BY <1>2 DEF Patternless, FirstShown, Shows, Applies, Exists
  <2> QED BY <1>2, <2>1, ChosenOwn DEF ChoiceInv
<1> QED BY <1>1, <1>2

(* What has settled is closed: it has all that the roots built so far      *)
(* reach.                                                                   *)
LEMMA ReachedSettled ==
  ASSUME IInv, ChoiceInv, RootInv, Active, NEW k, k = root - 1
  PROVE  Reached(project, dircache[Src], inv.roots, k) \subseteq settled
<1>1. settled \subseteq Atom
  BY DEF IInv, TypeOK
<1>2. \A a \in settled : rule[a] = ChosenRule(project, dircache[Src], a)
                         /\ Prerequisites(a) \subseteq settled
  BY <1>1, SettledChosen DEF IInv, SettledInv
<1>3. Closed(project, dircache[Src], settled)
  BY <1>2 DEF Closed, Listed, Prerequisites
<1>4. \A i \in 1 .. k : inv.roots[i] \in settled
  BY DEF RootInv
<1> QED BY <1>1, <1>3, <1>4, ReachedLeast

(* An invocation that is active was active before, or begins.               *)
LEMMA ActiveBefore ==
  ASSUME [Next]_vars, ~Invoke, Active'
  PROVE  /\ Active /\ (pc' \in Running => pc \in Running)
         /\ ~ActionFails /\ ~Kill /\ ~SourceMissing /\ ~Circular /\ ~BuildContextAsPrerequisite
<1> USE DEF vars, memory, calls, world, history
<1>1. ~ActionFails /\ ~Kill /\ ~SourceMissing /\ ~Circular /\ ~BuildContextAsPrerequisite
  BY DEF Active, Running, ActionFails, Kill, SourceMissing, Circular, BuildContextAsPrerequisite
<1>2. CASE Stop \/ UNCHANGED vars \/ Edit
  BY <1>1, <1>2 DEF Active, Stop, Edit
<1>3. CASE Step
  BY <1>1, <1>3 DEF Active, Running, Step, Enter, Decide, NextRoot, AllRootsBuilt,
     RootReturns, InventRule, NoRuleFound, SourceExists, SourceMissing, Circular,
     BeginBuild, ActivateBuild, NextPrerequisite, PrerequisiteReturns,
     BuildContextAsPrerequisite, NothingToRun, StartAction, ActionSucceeds, ActionFails
<1> QED BY <1>1, <1>2, <1>3 DEF Next

(* Every step keeps RootInv.                                                *)
LEMMA RootPreserved == IInv /\ RootInv /\ [Next]_vars => RootInv'
<1> SUFFICES ASSUME IInv, RootInv, [Next]_vars, Active' PROVE RootInv'
  BY DEF RootInv
<1> USE DEF vars, memory, calls, world, history
<1>1. CASE Invoke
  BY <1>1, Invoked DEF RootInv
<1>2. CASE ~Invoke
  <2>1. /\ UNCHANGED <<project, inv>> /\ settled \subseteq settled' /\ Active
        /\ root \in Nat \ {0} /\ inv.roots \in Seq(Atom) /\ stack \in Seq(Frame)
        /\ Len(inv.roots) \in Nat
    BY <1>2, SameInvocation, SettledStays, ActiveBefore DEF IInv, TypeOK, Invocation
  <2>2. CASE NextRoot
    BY <2>1, <2>2 DEF NextRoot, RootInv, IInv, ControlInv
  <2>3. CASE AllRootsBuilt
    <3>1. root - 1 <= Len(inv.roots)
      <4>1. CASE root = 1
        BY <2>1, <4>1
      <4>2. CASE root # 1
        BY <2>1, <4>2 DEF RootInv
      <4> QED BY <4>1, <4>2
    <3>2. root = Len(inv.roots) + 1
      BY <2>1, <2>3, <3>1 DEF AllRootsBuilt
    <3> QED BY <2>1, <2>3, <3>2 DEF AllRootsBuilt, RootInv, IInv, ControlInv
  <2>4. CASE RootReturns
    <3>1. root <= Len(inv.roots) /\ inv.roots[root] \in settled
      BY <2>1, <2>4 DEF RootReturns, RootInv, IInv, ControlInv, Running
    <3>2. root' = root + 1 /\ pc' = "ROOT" /\ UNCHANGED <<stack, settled>> /\ stack = <<>>
      BY <2>4 DEF RootReturns
    <3>3. \A i \in 1 .. (root' - 1) : i <= Len(inv.roots) /\ inv.roots[i] \in settled
      BY <2>1, <3>1, <3>2 DEF RootInv
    <3> QED BY <2>1, <3>2, <3>3 DEF RootInv
  <2>5. CASE InventRule \/ NoRuleFound
    BY <2>1, <2>5 DEF InventRule, NoRuleFound, RootInv
  <2>6. CASE SourceExists \/ ActivateBuild
    <3>1. /\ UNCHANGED <<stack, root>> /\ pc' = "RETURN" /\ arg \in settled'
          /\ pc \in {"BUILD", "LEAF"}
      BY <2>6 DEF SourceExists, ActivateBuild, Active, Running
    <3> QED BY <2>1, <3>1 DEF RootInv
  <2>7. CASE BeginBuild
    <3>1. /\ Len(stack) \in Nat /\ Len(stack') = Len(stack) + 1 /\ stack' # <<>>
          /\ \A i \in 1 .. Len(stack) : stack'[i] = stack[i]
          /\ stack'[Len(stack) + 1].atom = arg
      BY <2>7, PushedStack DEF IInv
    <3>2. stack'[1].atom = inv.roots[root]
      <4>1. CASE stack = <<>>
        <5>1. Len(stack) = 0 /\ arg = inv.roots[root]
          BY <2>1, <2>7, <4>1 DEF BeginBuild, RootInv
        <5>2. Len(stack) + 1 = 1
          BY <5>1
        <5> QED BY <3>1, <5>1, <5>2
      <4>2. CASE stack # <<>>
        <5>1. 1 \in 1 .. Len(stack)
          BY <2>1, <4>2
        <5> QED BY <2>1, <3>1, <4>2, <5>1 DEF RootInv
      <4> QED BY <4>1, <4>2
    <3> QED BY <2>1, <2>7, <3>1, <3>2 DEF BeginBuild, RootInv
  <2>8. CASE NextPrerequisite \/ StartAction
    BY <2>1, <2>8 DEF NextPrerequisite, StartAction, RootInv, IInv, ControlInv
  <2>9. CASE PrerequisiteReturns
    <3>1. stack'[1].atom = stack[1].atom /\ stack' # <<>>
      BY <2>9, AdvancedStack DEF IInv
    <3> QED BY <2>1, <2>9, <3>1 DEF PrerequisiteReturns, RootInv
  <2>10. CASE NothingToRun \/ ActionSucceeds
    <3>1. /\ stack # <<>> /\ Len(stack') = Len(stack) - 1 /\ Top = stack[Len(stack)]
          /\ \A i \in 1 .. (Len(stack) - 1) : stack'[i] = stack[i]
      <4>1. stack # <<>>
        BY <2>10 DEF NothingToRun, ActionSucceeds, IInv, ControlInv
      <4>2. \E t, b : Complete(t, b)
        BY <2>10 DEF NothingToRun, ActionSucceeds
      <4> QED BY <4>1, <4>2, PoppedStack DEF IInv
    <3>2. UNCHANGED root /\ pc' = "RETURN" /\ Top.atom \in settled'
      BY <2>10 DEF NothingToRun, ActionSucceeds, Complete
    <3>3. stack[1].atom = inv.roots[root]
      BY <2>1, <3>1 DEF RootInv
    <3>4. CASE Len(stack) = 1
      <4>1. stack' = <<>>
        <5>1. stack' \in Seq(Frame)
          BY TypePreserved DEF IInv, TypeOK
        <5> QED BY <3>1, <3>4, <5>1
      <4> QED BY <2>1, <3>1, <3>2, <3>3, <3>4, <4>1 DEF RootInv
    <3>5. CASE Len(stack) # 1
      <4>1. Len(stack') # 0 /\ 1 \in 1 .. (Len(stack) - 1)
        BY <2>1, <3>1, <3>5
      <4> QED BY <2>1, <3>1, <3>2, <3>3, <4>1 DEF RootInv
    <3> QED BY <3>4, <3>5
  <2>11. CASE Edit \/ Stop \/ UNCHANGED vars
    <3>1. UNCHANGED <<pc, stack, root, settled, arg>>
      BY <2>11 DEF Edit, Stop
    <3> QED BY <2>1, <3>1 DEF RootInv, Active
  <2> QED BY <1>2, <2>2, <2>3, <2>4, <2>5, <2>6, <2>7, <2>8, <2>9, <2>10, <2>11, ActiveBefore
         DEF Next, Step, Enter, Decide
<1> QED BY <1>1, <1>2

(* An atom that is about to be built is reached from the roots built so    *)
(* far.                                                                    *)
LEMMA ArgReached ==
  ASSUME IInv, ChoiceInv, RootInv, ReachedInv, pc = "BUILD"
  PROVE  arg \in Reached(project, dircache[Src], inv.roots, root)
<1>1. WellFormed(project) /\ arg \in Atom /\ root \in Nat \ {0} /\ pc \in Running /\ Active
  BY DEF IInv, TypeOK, Running, Active
<1>2. CASE stack = <<>>
  <2>1. arg = inv.roots[root] /\ root \in 1 .. root
    BY <1>1, <1>2 DEF RootInv
  <2> QED BY <1>1, <2>1, ReachedRoots
<1>3. CASE stack # <<>>
  <2> DEFINE n == Len(stack)
             a == stack[n].atom
  <2>1. n \in 1 .. n /\ stack \in Seq(Frame)
    BY <1>3 DEF IInv, TypeOK
  <2>2. a \in Reached(project, dircache[Src], inv.roots, root) /\ a \in Atom
    BY <1>1, <2>1, FrameTypes DEF ReachedInv, IInv
  <2>3. rule[a].op = ":" /\ AtPrerequisite(n) /\ arg = Current(n)
    BY <1>3, <2>1 DEF IInv, PathInv, ControlInv
  <2>4. rule[a] = ChosenRule(project, dircache[Src], a)
    BY <2>2, <2>3, SettledChosen
  <2>5. arg \in Listed(rule[a])
    BY <2>1, <2>2, <2>3, SMTT(30) DEF Listed, AtPrerequisite, Current, IInv, TypeOK, Rule
  <2> QED BY <1>1, <2>2, <2>4, <2>5, ReachedRoots
<1> QED BY <1>2, <1>3

(* Every step keeps ReachedInv.                                             *)
LEMMA ReachedPreserved ==
  IInv /\ ChoiceInv /\ RootInv /\ ReachedInv /\ [Next]_vars => ReachedInv'
<1> SUFFICES ASSUME IInv, ChoiceInv, RootInv, ReachedInv, [Next]_vars, pc' \in Running,
                    NEW i \in 1 .. Len(stack')
             PROVE  stack'[i].atom \in Reached(project, dircache[Src], inv.roots, root)'
  BY DEF ReachedInv
<1> USE DEF vars, memory, calls, world, history
<1>0. ~Invoke
  BY Invoked
<1>1. /\ UNCHANGED <<project, inv>> /\ dircache'[Src] = dircache[Src]
      /\ pc \in Running /\ stack \in Seq(Frame)
  BY <1>0, SameInvocation, ActiveBefore DEF Active, IInv, TypeOK
<1>2. CASE RootReturns
  BY <1>2 DEF RootReturns
<1>3. CASE BeginBuild
  <2>1. /\ Len(stack) \in Nat /\ Len(stack') = Len(stack) + 1
        /\ \A j \in 1 .. Len(stack) : stack'[j] = stack[j]
        /\ stack'[Len(stack) + 1].atom = arg
    BY <1>3, PushedStack DEF IInv
  <2>2. UNCHANGED root /\ pc = "BUILD"
    BY <1>3 DEF BeginBuild
  <2>3. stack'[i].atom \in Reached(project, dircache[Src], inv.roots, root)
    <3>1. CASE i = Len(stack) + 1
      BY <2>1, <2>2, <3>1, ArgReached
    <3>2. CASE i # Len(stack) + 1
      BY <1>1, <2>1, <3>2 DEF ReachedInv
    <3> QED BY <3>1, <3>2
  <2> QED BY <1>1, <2>2, <2>3
<1>4. CASE PrerequisiteReturns
  <2>1. /\ Len(stack') = Len(stack) /\ Len(stack) \in Nat
        /\ \A j \in 1 .. Len(stack) : stack'[j].atom = stack[j].atom
    BY <1>4, AdvancedStack DEF IInv
  <2> QED BY <1>1, <1>4, <2>1 DEF PrerequisiteReturns, ReachedInv
<1>5. CASE NothingToRun \/ ActionSucceeds
  <2>1. /\ Len(stack) \in Nat /\ Len(stack') = Len(stack) - 1
        /\ \A j \in 1 .. (Len(stack) - 1) : stack'[j] = stack[j]
    <3>1. stack # <<>>
      BY <1>5 DEF NothingToRun, ActionSucceeds, IInv, ControlInv
    <3>2. \E t, b : Complete(t, b)
      BY <1>5 DEF NothingToRun, ActionSucceeds
    <3> QED BY <3>1, <3>2, PoppedStack DEF IInv
  <2>2. UNCHANGED root
    BY <1>5 DEF NothingToRun, ActionSucceeds
  <2>3. i \in 1 .. Len(stack) /\ stack'[i] = stack[i]
    BY <2>1
  <2> QED BY <1>1, <2>2, <2>3 DEF ReachedInv
<1>6. CASE \/ NextRoot \/ AllRootsBuilt \/ InventRule \/ NoRuleFound \/ SourceExists
           \/ ActivateBuild \/ NextPrerequisite \/ StartAction \/ Edit \/ Stop
           \/ UNCHANGED vars
  <2>1. UNCHANGED <<stack, root>>
    BY <1>6 DEF NextRoot, AllRootsBuilt, InventRule, NoRuleFound, SourceExists,
       ActivateBuild, NextPrerequisite, StartAction, Edit, Stop
  <2> QED BY <1>1, <2>1 DEF ReachedInv
<1> QED BY <1>0, <1>1, <1>2, <1>3, <1>4, <1>5, <1>6, ActiveBefore
       DEF Next, Step, Enter, Decide, Active

(* The end of a BUILD, whether or not its action ran.                       *)
LEMMA Completed ==
  ASSUME IInv, NothingToRun \/ ActionSucceeds
  PROVE  /\ stack # <<>> /\ Len(stack) \in Nat \ {0} /\ Len(stack') = Len(stack) - 1
         /\ Top = stack[Len(stack)] /\ Top \in Frame /\ Top.atom \in Atom
         /\ \A i \in 1 .. (Len(stack) - 1) : stack'[i] = stack[i]
         /\ Top.atom \in BUILDING /\ rule[Top.atom].op = ":"
         /\ TIMESTAMP[Top.atom] = Top.time
         /\ BUILDING' = BUILDING \ {Top.atom} /\ settled' = settled \cup {Top.atom}
         /\ pc' = "RETURN" /\ ret' \in Time /\ ret' # Nil
         /\ UNCHANGED <<project, inv, rule, BOUND_NAME, dircache, context, root, reported>>
<1>1. stack # <<>> /\ stack \in Seq(Frame)
  BY DEF NothingToRun, ActionSucceeds, IInv, ControlInv, TypeOK
<1>2. PICK t, b : Complete(t, b) /\ t \in {Top.time, Newest}
  BY DEF NothingToRun, ActionSucceeds
<1>3. /\ Len(stack) \in Nat \ {0} /\ Len(stack') = Len(stack) - 1
      /\ Top = stack[Len(stack)] /\ Top \in Frame
      /\ \A i \in 1 .. (Len(stack) - 1) : stack'[i] = stack[i]
  BY <1>1, <1>2, PoppedStack, TopFrame DEF IInv
<1>4. Len(stack) \in 1 .. Len(stack)
  BY <1>3
<1>5. /\ Top.atom \in Atom /\ Top.atom \in BUILDING /\ rule[Top.atom].op = ":"
      /\ TIMESTAMP[Top.atom] = Top.time
  BY <1>3, <1>4, FrameTypes DEF IInv, PathInv, StampsInv
<1>6. Top.time \in Time /\ Newest \in Time
  BY <1>3, ConstantsAssumption DEF Frame, Time
<1>7. ret' \in Time /\ ret' # Nil
  BY <1>2, <1>6, ConstantsAssumption DEF Complete, Time
<1>8. /\ BUILDING' = BUILDING \ {Top.atom} /\ settled' = settled \cup {Top.atom}
      /\ pc' = "RETURN"
  BY <1>2 DEF Complete
<1>9. UNCHANGED <<project, inv, rule, BOUND_NAME, dircache, context, root, reported>>
  BY DEF NothingToRun, ActionSucceeds
<1> QED BY <1>1, <1>3, <1>5, <1>7, <1>8, <1>9

(* Where BIND puts a name, it is placed.                                    *)
LEMMA BoundWhere ==
  ASSUME IInv, ChoiceInv, RootInv, ReachedInv, PlacedInv, SourceExists \/ BeginBuild,
         NEW d, d = BoundDir(arg)
  PROVE  d \in Dir /\ d # Nil /\ Placed(project, dircache[Src], inv.roots, arg, d)
<1>1. arg \in Atom /\ d \in Dir /\ d # Nil
  BY LookupType, ConstantsAssumption DEF IInv, TypeOK
<1>2. Active /\ root \in Nat \ {0} /\ ~AfterContext
  BY DEF SourceExists, BeginBuild, Active, Running, AfterContext, IInv, TypeOK
<1>3. CASE BOUND_NAME[arg] # Nil
  BY <1>1, <1>2, <1>3 DEF BoundDir, PlacedInv
<1>4. CASE BOUND_NAME[arg] = Nil
  <2>1. ~IsContext(project, arg)
    <3>1. project.outdir[arg] \in Dir
      BY <1>1 DEF IInv, TypeOK, WellFormed, Project
    <3> QED BY <1>1, <1>4, <3>1, ConstantsAssumption DEF ChoiceInv
  <2>2. rule[arg] = ChosenRule(project, dircache[Src], arg)
    BY <1>1, SettledChosen DEF SourceExists, BeginBuild, IInv, ControlInv
  <2>3. CASE ~rule[arg].action
    <3>1. d = Src /\ ~ChosenRule(project, dircache[Src], arg).action
      BY <1>4, <2>2, <2>3 DEF BoundDir
    <3> QED BY <1>1, <2>1, <3>1 DEF Placed
  <2>4. CASE rule[arg].action
    <3>1. BeginBuild
      BY <1>1, <2>4 DEF SourceExists, IInv, ControlInv, RulesInv
    <3>2. arg \in Reached(project, dircache[Src], inv.roots, root)
      BY <3>1, ArgReached DEF BeginBuild
    <3>3. arg \notin Reached(project, dircache[Src], inv.roots, root - 1)
      BY <1>2, <1>4, ReachedSettled DEF PlacedInv
    <3>4. root \in 1 .. Len(inv.roots)
      BY <1>2, <3>1 DEF BeginBuild, IInv, ControlInv, Running, TypeOK, Invocation
    <3>5. d = context /\ ContextOf(project, inv.roots, root, d)
      BY <1>2, <1>4, <2>4 DEF BoundDir, PlacedInv
    <3>6. FirstFrom(project, dircache[Src], inv.roots, arg, root)
      BY <3>2, <3>3, <3>4 DEF FirstFrom
    <3>7. ChosenRule(project, dircache[Src], arg).action
      BY <2>2, <2>4
    <3> QED BY <1>1, <2>1, <3>4, <3>5, <3>6, <3>7 DEF Placed
  <2> QED BY <2>3, <2>4
<1> QED BY <1>3, <1>4

(* The context follows the roots.                                           *)
LEMMA NextContext ==
  ASSUME NEW p, NEW roots, NEW k \in Nat \ {0}, NEW d,
         IF IsContext(p, roots[k]) THEN d = p.outdir[roots[k]] ELSE ContextOf(p, roots, k, d)
  PROVE  ContextOf(p, roots, k + 1, d)
<1>1. CASE IsContext(p, roots[k])
  <2>1. k \in 1 .. ((k + 1) - 1) /\ (k + 1) .. ((k + 1) - 1) = {}
    OBVIOUS
  <2> QED BY <1>1, <2>1 DEF ContextOf
<1>2. CASE ~IsContext(p, roots[k])
  <2>1. (k + 1) - 1 = k /\ \A j \in 1 .. k : j = k \/ j \in 1 .. (k - 1)
    OBVIOUS
  <2>2. CASE d = Src /\ \A j \in 1 .. (k - 1) : ~IsContext(p, roots[j])
    BY <1>2, <2>1, <2>2 DEF ContextOf
  <2>3. CASE \E j \in 1 .. (k - 1) :
               /\ IsContext(p, roots[j]) /\ d = p.outdir[roots[j]]
               /\ \A l \in (j + 1) .. (k - 1) : ~IsContext(p, roots[l])
    <3>1. PICK j \in 1 .. (k - 1) :
               /\ IsContext(p, roots[j]) /\ d = p.outdir[roots[j]]
               /\ \A l \in (j + 1) .. (k - 1) : ~IsContext(p, roots[l])
      BY <2>3
    <3>2. j \in 1 .. k /\ \A l \in (j + 1) .. k : l = k \/ l \in (j + 1) .. (k - 1)
      BY <3>1
    <3> QED BY <1>2, <2>1, <3>1, <3>2 DEF ContextOf
  <2> QED BY <1>2, <2>2, <2>3 DEF ContextOf
<1> QED BY <1>1, <1>2

(* Every step keeps PlacedInv.                                              *)
LEMMA PlacedPreserved ==
  IInv /\ ChoiceInv /\ RootInv /\ ReachedInv /\ PlacedInv /\ [Next]_vars => PlacedInv'
<1> SUFFICES ASSUME IInv, ChoiceInv, RootInv, ReachedInv, PlacedInv, [Next]_vars, Active'
             PROVE  PlacedInv'
  BY DEF PlacedInv
<1> USE DEF vars, memory, calls, world, history
<1>1. CASE Invoke
  <2>1. \A a \in Atom : BOUND_NAME'[a] # Nil =>
          Placed(project', dircache'[Src], inv'.roots, a, BOUND_NAME'[a])
    BY <1>1, Invoked DEF Placed
  <2>2. ContextOf(project', inv'.roots, root', context')
    BY <1>1, Invoked DEF ContextOf
  <2> QED BY <1>1, <2>1, <2>2, Invoked DEF PlacedInv
<1>2. CASE ~Invoke
  <2>1. /\ UNCHANGED <<project, inv>> /\ dircache'[Src] = dircache[Src] /\ Active
        /\ root \in Nat \ {0}
    BY <1>2, SameInvocation, ActiveBefore DEF IInv, TypeOK
  <2>2. ASSUME UNCHANGED <<BOUND_NAME>>
        PROVE  \A a \in Atom : BOUND_NAME'[a] # Nil =>
                 Placed(project', dircache'[Src], inv'.roots, a, BOUND_NAME'[a])
    BY <2>1, <2>2 DEF PlacedInv
  <2>3. CASE RootReturns
    <3>1. /\ root' = root + 1 /\ pc' = "ROOT" /\ pc = "RETURN" /\ stack = <<>>
          /\ UNCHANGED <<BOUND_NAME, settled, BUILDING, context>>
      BY <2>3 DEF RootReturns
    <3>2. ContextOf(project, inv.roots, root + 1, context)
      BY <2>1, <3>1, NextContext DEF PlacedInv, AfterContext
    <3> QED BY <2>1, <2>2, <3>1, <3>2 DEF PlacedInv
  <2>4. CASE SourceExists \/ BeginBuild
    <3> DEFINE d == BoundDir(arg)
    <3>1. /\ arg \in Atom /\ BOUND_NAME' = [BOUND_NAME EXCEPT ![arg] = d]
          /\ UNCHANGED <<context, root>>
          /\ settled' \subseteq settled \cup {arg} /\ BUILDING' \subseteq BUILDING \cup {arg}
          /\ pc \in {"BUILD", "LEAF"}
      BY <2>4 DEF SourceExists, BeginBuild, BindAndStamp, IInv, TypeOK
    <3>2. d # Nil /\ Placed(project, dircache[Src], inv.roots, arg, d)
      BY <2>4, BoundWhere
    <3>3. \A a \in Atom : BOUND_NAME'[a] = IF a = arg THEN d ELSE BOUND_NAME[a]
      BY <3>1 DEF IInv, TypeOK
    <3>4. \A a \in Atom : BOUND_NAME'[a] # Nil =>
            Placed(project', dircache'[Src], inv'.roots, a, BOUND_NAME'[a])
      BY <2>1, <3>2, <3>3 DEF PlacedInv
    <3>5. \A a \in settled' \cup BUILDING' : BOUND_NAME'[a] # Nil
      BY <2>1, <3>1, <3>2, <3>3 DEF PlacedInv, IInv, TypeOK
    <3>6. ContextOf(project', inv'.roots, root', context')
      BY <2>1, <3>1 DEF PlacedInv, AfterContext
    <3>7. pc' = "RETURN" /\ stack' = <<>> => ret' # Nil /\ ~IsContext(project', inv'.roots[root'])
      <4>1. CASE SourceExists
        <5>1. ret' # Nil
          BY <2>4, <3>1, <4>1, LookupType, ConstantsAssumption
             DEF SourceExists, IInv, TypeOK, Time
        <5>2. ~IsContext(project, arg)
          BY <3>1, <4>1 DEF SourceExists, IInv, ControlInv, ChoiceInv, IsContext
        <5>3. stack = <<>> => arg = inv.roots[root]
          BY <2>1, <3>1 DEF RootInv
        <5> QED BY <2>1, <3>1, <4>1, <5>1, <5>2, <5>3 DEF SourceExists
      <4>2. CASE BeginBuild
        BY <4>2 DEF BeginBuild
      <4> QED BY <2>4, <4>1, <4>2
    <3> QED BY <3>4, <3>5, <3>6, <3>7 DEF PlacedInv
  <2>5. CASE ActivateBuild
    <3>1. /\ pc' = "RETURN" /\ ret' = Nil /\ settled' = settled \cup {arg} /\ pc = "BUILD"
          /\ context' = BOUND_NAME[arg] /\ UNCHANGED <<BOUND_NAME, BUILDING, stack, root>>
          /\ arg \in Atom /\ rule[arg].op = ":BUILD:"
      BY <2>5 DEF ActivateBuild, Active, Running, IInv, TypeOK
    <3>2. IsContext(project, arg)
      <4>1. rule[arg] = ChosenRule(project, dircache[Src], arg)
        BY <3>1, SettledChosen
      <4> QED BY <3>1, <4>1, ChosenType DEF IInv, TypeOK
    <3>3. context' = project.outdir[arg] /\ BOUND_NAME[arg] # Nil
      BY <3>1, <3>2 DEF ChoiceInv, IInv, RulesInv
    <3>4. stack = <<>> => arg = inv.roots[root]
      BY <2>1, <3>1 DEF RootInv
    <3> QED BY <2>1, <2>2, <3>1, <3>2, <3>3, <3>4 DEF PlacedInv, AfterContext
  <2>6. CASE NothingToRun \/ ActionSucceeds
    <3>1. /\ settled' \cup BUILDING' \subseteq settled \cup BUILDING
          /\ pc' = "RETURN" /\ ret' # Nil /\ UNCHANGED <<BOUND_NAME, context, root>>
          /\ pc \in {"PREREQ", "ACTION"} /\ stack # <<>>
      BY <2>6, Completed DEF NothingToRun, ActionSucceeds
    <3>2. stack' = <<>> => ~IsContext(project, inv.roots[root])
      <4>1. SUFFICES ASSUME stack' = <<>> PROVE ~IsContext(project, inv.roots[root])
        OBVIOUS
      <4>2. Len(stack) = 1 /\ Top = stack[1] /\ Top.atom \in Atom /\ rule[Top.atom].op = ":"
        BY <2>6, <4>1, Completed
      <4>3. Top.atom = inv.roots[root]
        BY <2>1, <3>1, <4>2 DEF RootInv
      <4>4. rule[Top.atom] = ChosenRule(project, dircache[Src], Top.atom)
        BY <4>2, SettledChosen
      <4> QED BY <4>2, <4>3, <4>4, ChosenType DEF IInv, TypeOK
    <3>3. ContextOf(project, inv.roots, root, context)
      BY <2>1, <3>1 DEF PlacedInv, AfterContext
    <3> QED BY <2>1, <2>2, <3>1, <3>2, <3>3 DEF PlacedInv, AfterContext
  <2>7. CASE \/ NextRoot \/ AllRootsBuilt \/ InventRule \/ NoRuleFound
             \/ NextPrerequisite \/ PrerequisiteReturns \/ StartAction
    <3>1. /\ UNCHANGED <<BOUND_NAME, settled, BUILDING, context, root>>
          /\ pc' # "RETURN" /\ ~AfterContext
      BY <2>7 DEF NextRoot, AllRootsBuilt, InventRule, NoRuleFound,
         NextPrerequisite, PrerequisiteReturns, StartAction, AfterContext
    <3> QED BY <2>1, <2>2, <3>1 DEF PlacedInv
  <2>8. CASE Edit \/ Stop \/ UNCHANGED vars
    <3>1. UNCHANGED <<BOUND_NAME, settled, BUILDING, context, root, pc, ret, stack>>
      BY <2>8 DEF Edit, Stop
    <3> QED BY <2>1, <2>2, <3>1 DEF PlacedInv, AfterContext
  <2> QED BY <1>2, <2>3, <2>4, <2>5, <2>6, <2>7, <2>8, ActiveBefore
         DEF Next, Step, Enter, Decide
<1> QED BY <1>1, <1>2

(* What no action makes has no action, by whatever rule.                    *)
LEMMA NeverMadeNoAction ==
  ASSUME WellFormed(project), NEW a \in Atom, NeverMade(a), NEW names
  PROVE  ~ChosenRule(project, names, a).action
<1>1. project.implicit[a] \in Seq(Rule)
  BY DEF WellFormed, Project
<1> QED BY <1>1, ChosenFirst, ChosenOwn DEF NeverMade

(* Every step keeps SourcesInv: an edit changes no file that is missing, an *)
(* action writes only its own target.                                      *)
LEMMA SourcesPreserved == IInv /\ ChoiceInv /\ SourcesInv /\ [Next]_vars => SourcesInv'
<1> SUFFICES ASSUME IInv, ChoiceInv, SourcesInv, [Next]_vars, Active',
                    OnlyOwnFile', PatternsFromSources', NEW x \in Atom, NeverMade(x)'
             PROVE  dircache'[Src][x] = Oldest <=> disk'[Src][x] = Oldest
  BY DEF SourcesInv
<1> USE DEF vars, memory, calls, world, history
<1>1. CASE Invoke
  BY <1>1, Invoked
<1>2. CASE ~Invoke
  <2>1. /\ UNCHANGED <<project, inv>> /\ dircache'[Src] = dircache[Src] /\ Active
        /\ OnlyOwnFile /\ PatternsFromSources /\ NeverMade(x)
    BY <1>2, SameInvocation, ActiveBefore DEF OnlyOwnFile, PatternsFromSources, NeverMade
  <2>2. dircache[Src][x] = Oldest <=> disk[Src][x] = Oldest
    BY <2>1 DEF SourcesInv
  <2>3. CASE Edit
    <3>1. PICK y \in Atom : disk[Src][y] # Oldest /\ Write(Src, {y})
      BY <2>3 DEF Edit
    <3>2. clock' # Oldest
      BY <3>1, WriteType DEF IInv, Oldest
    <3>3. disk'[Src][x] = IF x = y THEN clock' ELSE disk[Src][x]
      BY <3>1, ConstantsAssumption DEF Write, IInv, TypeOK
    <3> QED BY <2>1, <2>2, <3>1, <3>2, <3>3
  <2>4. CASE ActionSucceeds /\ ~inv.just_print
    <3>1. Top.atom \in Atom /\ rule[Top.atom].action /\ rule[Top.atom].op = ":"
      BY <2>4, Completed DEF ActionSucceeds, IInv, ControlInv
    <3>2. rule[Top.atom] = ChosenRule(project, dircache[Src], Top.atom)
      BY <3>1, SettledChosen
    <3>3. x # Top.atom
      BY <2>1, <3>1, <3>2, NeverMadeNoAction DEF IInv, TypeOK
    <3>4. x \notin project.outputs[Top.atom]
      BY <2>1, <3>1, <3>3 DEF OnlyOwnFile
    <3>5. disk'[Src][x] = disk[Src][x]
      BY <2>4, <3>4, ConstantsAssumption DEF ActionSucceeds, Write, IInv, TypeOK
    <3> QED BY <2>1, <2>2, <3>5
  <2>5. CASE UNCHANGED disk
    BY <2>1, <2>2, <2>5
  <2> QED BY <1>2, <2>3, <2>4, <2>5, ActiveBefore DEF Next, Step, Enter, Decide, NextRoot,
     AllRootsBuilt, RootReturns, InventRule, NoRuleFound, SourceExists, BeginBuild,
     ActivateBuild, NextPrerequisite, PrerequisiteReturns, NothingToRun, StartAction,
     ActionSucceeds, Stop
<1> QED BY <1>1, <1>2

(* Every step keeps MadeInv: the file of a settled target with an action    *)
(* is there, because it was when nothing had to run, or was just written.  *)
LEMMA MadePreserved == IInv /\ DiskInv /\ MadeInv /\ [Next]_vars => MadeInv'
<1> SUFFICES ASSUME IInv, DiskInv, MadeInv, [Next]_vars, Unfailed',
                    NEW t \in settled', rule'[t].action, project'.outputs[t] = {t}
             PROVE  File(t)' # Oldest
  BY DEF MadeInv
<1> USE DEF vars, memory, calls, world, history
<1>0. ~Invoke
  BY Invoked
<1>1. /\ Unfailed /\ UNCHANGED <<project, inv>> /\ ~inv.always_make /\ ~inv.just_print
      /\ settled \subseteq Atom
  BY <1>0, UnfailedBefore DEF Unfailed, Plain, IInv, TypeOK
<1>2. CASE t \in settled
  <2>1. rule'[t] = rule[t] /\ TIMESTAMP[t] # Nil /\ t \in Atom
    BY <1>0, <1>1, <1>2, SettledRuleKept DEF IInv, TimesInv, UpToDate
  <2>2. ActionSucceeds => t # Top.atom
    BY <1>1, <1>2, NotAgain DEF ActionSucceeds
  <2>3. File(t)' = File(t)
    BY <1>0, <2>1, <2>2, FileKept
  <2> QED BY <1>1, <1>2, <2>1, <2>3 DEF MadeInv
<1>3. CASE t \notin settled /\ (NothingToRun \/ ActionSucceeds)
  <2>1. /\ t = Top.atom /\ t \in Atom /\ TIMESTAMP[t] = Top.time /\ Top.time \in Time
        /\ UNCHANGED <<rule, BOUND_NAME>> /\ rule[t].action
    BY <1>3, Completed DEF Frame
  <2>2. /\ TIMESTAMP[t] # Nil /\ TIMESTAMP[t] # Newest
        /\ BOUND_NAME[t] # Nil /\ File(t) = TIMESTAMP[t]
    BY <1>1, <1>3, <2>1, ConstantsAssumption DEF DiskInv, Remembered, Time
  <2>3. CASE NothingToRun
    <3>1. Top.time # Oldest
      BY <2>1, <2>3 DEF NothingToRun, NeedsBuilding
    <3>2. ~ActionSucceeds
      BY <2>3 DEF NothingToRun, ActionSucceeds
    <3>3. File(t)' = File(t)
      BY <1>0, <2>1, <2>2, <3>2, FileKept
    <3> QED BY <2>1, <2>2, <3>1, <3>3
  <2>4. CASE ActionSucceeds
    <3>0. BOUND_NAME[t] \in Dir
      BY <2>1, <2>2 DEF IInv, TypeOK
    <3>1. Write(BOUND_NAME[t], {t}) /\ BOUND_NAME[t] \in Dir
      <4>1. Write(BOUND_NAME[Top.atom], project.outputs[Top.atom])
        BY <1>1, <2>4 DEF ActionSucceeds
      <4>2. project.outputs[t] = {t}
        BY <1>1, <2>1
      <4> QED BY <2>1, <3>0, <4>1, <4>2
    <3>2. File(t)' = clock'
      BY <2>1, <3>1 DEF Write, File, IInv, TypeOK
    <3>3. clock' # Oldest
      BY <3>1, WriteType DEF IInv, Oldest
    <3> QED BY <3>2, <3>3
  <2> QED BY <1>3, <2>3, <2>4
<1>4. CASE t \notin settled /\ (SourceExists \/ ActivateBuild)
  <2>1. t = arg /\ UNCHANGED rule /\ rule[arg].op # ":"
    BY <1>4 DEF SourceExists, ActivateBuild, IInv, ControlInv
  <2> QED BY <2>1 DEF IInv, RulesInv, TypeOK
<1>5. CASE UNCHANGED settled
  BY <1>2, <1>5
<1> QED BY <1>0, <1>2, <1>3, <1>4, <1>5 DEF Next, Step, Enter, Decide, NextRoot,
   AllRootsBuilt, RootReturns, InventRule, NoRuleFound, SourceMissing, Circular, BeginBuild,
   NextPrerequisite, PrerequisiteReturns, BuildContextAsPrerequisite, StartAction,
   ActionFails, Kill, Edit, Stop

(* Every step keeps UnmadeInv: an action that runs ends what was synced.    *)
LEMMA UnmadePreserved == IInv /\ UnmadeInv /\ [Next]_vars => UnmadeInv'
<1> SUFFICES ASSUME IInv, UnmadeInv, [Next]_vars, pc' \in Running, Plain(inv'), synced' # Nil,
                    NEW a \in Atom
             PROVE  ran'[a] = 0 /\ TIMESTAMP'[a] # Newest
  BY DEF UnmadeInv, Plain
<1> USE DEF vars, memory, calls, world, history
<1>1. CASE Invoke
  BY <1>1, Invoked, ConstantsAssumption
<1>2. CASE ~Invoke
  <2>1. /\ UNCHANGED <<project, inv>> /\ pc \in Running /\ Plain(inv) /\ ~inv.just_print
        /\ inv.assume_new = {}
    BY <1>2, SameInvocation, ActiveBefore DEF Active, Plain
  <2>2. ~ActionSucceeds /\ ~AllRootsBuilt /\ UNCHANGED <<synced, ran>>
    BY <1>2, <2>1, ActiveBefore DEF Active, Next, Step, Enter, Decide, NextRoot, AllRootsBuilt,
     RootReturns, InventRule, NoRuleFound, SourceExists, SourceMissing, Circular, BeginBuild,
     ActivateBuild, NextPrerequisite, PrerequisiteReturns, BuildContextAsPrerequisite,
     NothingToRun, StartAction, ActionSucceeds, ActionFails, Kill, Edit, Stop, Running
  <2>3. ran[a] = 0 /\ \A b \in Atom : TIMESTAMP[b] # Newest
    BY <2>1, <2>2 DEF UnmadeInv
  <2>4. CASE SourceExists \/ BeginBuild
    <3>1. arg \in Atom /\ BindAndStamp(arg)
      BY <2>4 DEF SourceExists, BeginBuild, IInv, TypeOK
    <3>2. Lookup(arg, BoundDir(arg)) # Newest
      <4>1. Snapshot(BoundDir(arg))[arg] \in FileTime
        BY <3>1, LookupType DEF IInv
      <4>2. Snapshot(BoundDir(arg))[arg] # Newest
        BY <4>1, ConstantsAssumption DEF FileTime
      <4> QED BY <2>1, <2>3, <3>1, <4>2 DEF Lookup
    <3> QED BY <2>2, <2>3, <3>1, <3>2, BoundAndStamped DEF IInv
  <2>5. CASE NothingToRun
    <3>1. Top.atom \in Atom /\ TIMESTAMP' = [TIMESTAMP EXCEPT ![Top.atom] = Top.time]
          /\ TIMESTAMP[Top.atom] = Top.time
      BY <2>5, Completed DEF NothingToRun, Complete
    <3> QED BY <2>2, <2>3, <3>1 DEF IInv, TypeOK
  <2>6. CASE UNCHANGED TIMESTAMP
    BY <2>2, <2>3, <2>6
  <2> QED BY <1>2, <2>1, <2>2, <2>4, <2>5, <2>6, ActiveBefore DEF Active, Next, Step, Enter,
     Decide, NextRoot, RootReturns, InventRule, NoRuleFound, ActivateBuild,
     NextPrerequisite, PrerequisiteReturns, StartAction, Edit, Stop
<1> QED BY <1>1, <1>2

(* Every step keeps ReportedInv.                                            *)
LEMMA ReportedPreserved == IInv /\ RootInv /\ ReportedInv /\ [Next]_vars => ReportedInv'
<1> SUFFICES ASSUME IInv, RootInv, ReportedInv, [Next]_vars, Active' PROVE ReportedInv'
  BY DEF ReportedInv
<1> USE DEF vars, memory, calls, world, history
<1>1. CASE Invoke
  BY <1>1, Invoked DEF ReportedInv
<1>2. CASE ~Invoke
  <2>1. /\ UNCHANGED <<project, inv>> /\ Active /\ root \in Nat \ {0}
        /\ inv.roots \in Seq(Atom) /\ settled \subseteq Atom
    BY <1>2, SameInvocation, ActiveBefore DEF IInv, TypeOK, Invocation
  <2>2. ASSUME UNCHANGED <<reported, root>>
        PROVE  \A i \in 1 .. (root' - 1) :
                 LET r == inv'.roots[i] IN rule'[r].action /\ ran'[r] = 0 => r \in reported'
    <3> SUFFICES ASSUME NEW i \in 1 .. (root - 1), NEW r, r = inv.roots[i],
                        rule'[r].action, ran'[r] = 0
                 PROVE  r \in reported
      BY <2>1, <2>2
    <3>1. r \in settled /\ r \in Atom
      BY <2>1 DEF RootInv
    <3>2. rule'[r] = rule[r]
      BY <1>2, <3>1, SettledRuleKept
    <3>3. ran[r] = 0
      <4>1. CASE ActionSucceeds
        <5>1. ran' = [ran EXCEPT ![Top.atom] = @ + 1]
          BY <4>1 DEF ActionSucceeds
        <5> QED BY <3>1, <5>1 DEF IInv, TypeOK
      <4>2. CASE UNCHANGED ran
        BY <4>2
      <4> QED BY <1>2, <4>1, <4>2 DEF Next, Step, Enter, Decide, NextRoot, AllRootsBuilt,
         RootReturns, InventRule, NoRuleFound, SourceExists, SourceMissing, Circular,
         BeginBuild, ActivateBuild, NextPrerequisite, PrerequisiteReturns,
         BuildContextAsPrerequisite, NothingToRun, StartAction, ActionFails, Kill, Edit, Stop
    <3> QED BY <2>1, <3>2, <3>3 DEF ReportedInv
  <2>3. CASE RootReturns
    <3>1. /\ root' = root + 1 /\ pc' = "ROOT" /\ pc = "RETURN" /\ stack = <<>>
          /\ UNCHANGED <<rule, ran>>
          /\ reported' = IF ret # Nil /\ ~needs THEN reported \cup {inv.roots[root]}
                         ELSE reported
      BY <2>3 DEF RootReturns
    <3>2. ASSUME NEW i \in 1 .. root, NEW r, r = inv.roots[i], rule[r].action, ran[r] = 0
          PROVE  r \in reported'
      <4>1. CASE i = root
        BY <2>1, <3>1, <3>2, <4>1 DEF ReportedInv
      <4>2. CASE i # root
        <5>1. i \in 1 .. (root - 1)
          BY <2>1, <4>2
        <5> QED BY <2>1, <3>1, <3>2, <5>1 DEF ReportedInv
      <4> QED BY <4>1, <4>2
    <3>3. root' - 1 = root
      BY <2>1, <3>1
    <3> QED BY <2>1, <3>1, <3>2, <3>3 DEF ReportedInv
  <2>4. CASE SourceExists \/ ActivateBuild
    <3>1. UNCHANGED <<reported, root, stack, rule>> /\ pc \in {"BUILD", "LEAF"}
      BY <2>4 DEF SourceExists, ActivateBuild
    <3>2. arg \in Atom /\ ~rule[arg].action
      BY <2>4 DEF SourceExists, ActivateBuild, IInv, ControlInv, RulesInv, TypeOK
    <3>3. stack = <<>> => arg = inv.roots[root]
      BY <2>1, <3>1 DEF RootInv
    <3> QED BY <2>1, <2>2, <3>1, <3>2, <3>3 DEF ReportedInv
  <2>5. CASE NothingToRun \/ ActionSucceeds
    <3>1. UNCHANGED <<reported, root, rule>> /\ ret' # Nil
      BY <2>5, Completed
    <3>2. ASSUME stack' = <<>>, rule[inv.roots[root]].action, ran'[inv.roots[root]] = 0
          PROVE  ~needs'
      <4>1. /\ Len(stack) = 1 /\ Top = stack[1] /\ Top.atom \in Atom /\ stack # <<>>
        BY <2>5, <3>2, Completed
      <4>2. Top.atom = inv.roots[root]
        BY <2>1, <4>1 DEF RootInv
      <4>3. NothingToRun
        <5>1. ASSUME ActionSucceeds PROVE FALSE
          <6>1. ran' = [ran EXCEPT ![Top.atom] = @ + 1]
            BY <5>1 DEF ActionSucceeds
          <6>2. ran'[Top.atom] = ran[Top.atom] + 1 /\ ran[Top.atom] \in Nat
            BY <4>1, <6>1 DEF IInv, TypeOK
          <6> QED BY <3>2, <4>2, <6>2
        <5> QED BY <2>5, <5>1
      <4>4. ~NeedsBuilding(Top) /\ needs' = NeedsBuilding(Top)
        BY <3>2, <4>2, <4>3 DEF NothingToRun, Complete
      <4> QED BY <4>4
    <3> QED BY <2>1, <2>2, <3>1, <3>2 DEF ReportedInv
  <2>6. CASE \/ NextRoot \/ AllRootsBuilt \/ InventRule \/ NoRuleFound \/ BeginBuild
             \/ NextPrerequisite \/ PrerequisiteReturns \/ StartAction
    <3>1. UNCHANGED <<reported, root>> /\ pc' # "RETURN"
      BY <2>6 DEF NextRoot, AllRootsBuilt, InventRule, NoRuleFound, BeginBuild,
         NextPrerequisite, PrerequisiteReturns, StartAction
    <3> QED BY <2>2, <3>1 DEF ReportedInv
  <2>7. CASE Edit \/ Stop \/ UNCHANGED vars
    <3>1. UNCHANGED <<reported, root, pc, stack, rule, ran, ret, needs>>
      BY <2>7 DEF Edit, Stop
    <3> QED BY <2>1, <2>2, <3>1 DEF ReportedInv
  <2> QED BY <1>2, <2>3, <2>4, <2>5, <2>6, <2>7, ActiveBefore DEF Next, Step, Enter, Decide
<1> QED BY <1>1, <1>2

(* A plain invocation that succeeds leaves the disk up to date for its      *)
(* roots.                                                                  *)
LEMMA SyncedWhenBuilt ==
  ASSUME IInv, DiskInv, QuietInv, AllRootsBuilt, Plain(inv), OnlyOwnFile, PatternsFromSources
  PROVE  UpToDateFor(project, disk, inv.roots)
<1> DEFINE names == dircache[Src]
           n == Len(inv.roots)
<1>1. /\ Active /\ Unfailed /\ WellFormed(project) /\ settled \subseteq Atom
      /\ root \in Nat \ {0} /\ n \in Nat /\ inv.roots \in Seq(Atom)
  BY DEF AllRootsBuilt, Active, Unfailed, Running, IInv, TypeOK, Invocation
<1>2. root - 1 = n
  <2>1. CASE root = 1
    BY <1>1, <2>1 DEF AllRootsBuilt
  <2>2. CASE root # 1
    BY <1>1, <2>2 DEF AllRootsBuilt, QuietInv, RootInv
  <2> QED BY <2>1, <2>2
<1>3. Reached(project, names, inv.roots, n) \subseteq settled
  BY <1>1, <1>2, ReachedSettled DEF QuietInv
<1>4. \A a \in settled :
        /\ rule[a] = ChosenRule(project, names, a)
        /\ BOUND_NAME[a] \in Dir
        /\ \A d \in Dir : Placed(project, names, inv.roots, a, d) => d = BOUND_NAME[a]
  <2> TAKE a \in settled
  <2>1. a \in Atom /\ rule[a] = ChosenRule(project, names, a)
    BY <1>1, SettledChosen DEF IInv, SettledInv, QuietInv
  <2>2. BOUND_NAME[a] # Nil /\ Placed(project, names, inv.roots, a, BOUND_NAME[a])
    BY <1>1, <2>1 DEF QuietInv, PlacedInv
  <2>3. BOUND_NAME[a] \in Dir
    BY <2>1, <2>2 DEF IInv, TypeOK
  <2> QED BY <1>1, <2>1, <2>2, <2>3, OnePlace
<1>5. ASSUME NEW t \in Reached(project, names, inv.roots, n), NEW d \in Dir,
             ChosenRule(project, names, t).action, project.outputs[t] = {t},
             Placed(project, names, inv.roots, t, d)
      PROVE  /\ disk[d][t] # Oldest
             /\ \A q \in Listed(ChosenRule(project, names, t)), e \in Dir :
                  Placed(project, names, inv.roots, q, e) => disk[e][q] <= disk[d][t]
  <2>1. t \in settled /\ rule[t] = ChosenRule(project, names, t) /\ d = BOUND_NAME[t]
    BY <1>3, <1>4, <1>5
  <2>2. rule[t].action
    BY <1>5, <2>1
  <2>3. File(t) # Oldest /\ Fresh(t)
    BY <1>1, <1>5, <2>1, <2>2 DEF QuietInv, MadeInv, DiskInv
  <2>4. ASSUME NEW q \in Listed(ChosenRule(project, names, t)), NEW e \in Dir,
               Placed(project, names, inv.roots, q, e)
        PROVE  disk[e][q] <= disk[d][t]
    <3>1. q \in Prerequisites(t)
      BY <2>1, <2>4 DEF Listed, Prerequisites
    <3>2. q \in settled
      BY <2>1, <3>1 DEF IInv, SettledInv
    <3>3. e = BOUND_NAME[q]
      BY <1>4, <2>4, <3>2
    <3>4. File(q) <= File(t)
      BY <1>5, <2>2, <2>3, <3>1 DEF Fresh
    <3> QED BY <2>1, <3>3, <3>4 DEF File
  <2> QED BY <2>1, <2>3, <2>4 DEF File
<1>6. /\ \A a \in Atom : ChosenRule(project, names, a) = ChosenRule(project, disk[Src], a)
      /\ \A k : Reached(project, names, inv.roots, k) = Reached(project, disk[Src], inv.roots, k)
      /\ \A d : \A a \in Atom : Placed(project, names, inv.roots, a, d)
                                <=> Placed(project, disk[Src], inv.roots, a, d)
  <2>1. \A x \in Atom : NeverMade(x) => (names[x] = Oldest <=> disk[Src][x] = Oldest)
    BY <1>1 DEF QuietInv, SourcesInv
  <2> HIDE DEF names
  <2> QED BY <1>1, <2>1, SameChoices
<1>7. Reached(project, names, inv.roots, n) \subseteq Atom
  BY DEF Reached
<1>8. \A t \in Atom : Listed(ChosenRule(project, names, t)) \subseteq Atom
  BY <1>1, ChosenType
<1> HIDE DEF names, n
<1>9. n = Len(inv.roots)
  BY DEF n
<1> QED BY <1>5, <1>6, <1>7, <1>8, <1>9 DEF UpToDateFor

(* Every step keeps SyncedInv.                                              *)
LEMMA SyncedPreserved == IInv /\ DiskInv /\ QuietInv /\ [Next]_vars => SyncedInv'
<1> SUFFICES ASSUME IInv, DiskInv, QuietInv, [Next]_vars, synced' # Nil,
                    OnlyOwnFile', PatternsFromSources'
             PROVE  UpToDateFor(project', disk', synced')
  BY DEF SyncedInv
<1> USE DEF vars, memory, calls, world, history
<1>1. /\ project' = project /\ OnlyOwnFile /\ PatternsFromSources
  <2>1. project' = project
    BY Invoked, SameInvocation
  <2> QED BY <2>1 DEF OnlyOwnFile, PatternsFromSources, NeverMade
<1>2. CASE AllRootsBuilt /\ Plain(inv)
  BY <1>1, <1>2, SyncedWhenBuilt DEF AllRootsBuilt
<1>3. CASE UNCHANGED <<disk, synced>>
  BY <1>1, <1>3 DEF QuietInv, SyncedInv
<1> QED BY <1>2, <1>3 DEF Next, Step, Enter, Decide, Invoke, NextRoot, AllRootsBuilt,
   RootReturns, InventRule, NoRuleFound, SourceExists, SourceMissing, Circular,
   BeginBuild, ActivateBuild, NextPrerequisite, PrerequisiteReturns,
   BuildContextAsPrerequisite, NothingToRun, StartAction, ActionSucceeds, ActionFails,
   Kill, Edit, Stop

(* Every step keeps QuietInv.                                               *)
LEMMA QuietPreserved == IInv /\ DiskInv /\ QuietInv /\ [Next]_vars => QuietInv'
BY ChoicePreserved, RootPreserved, ReachedPreserved, PlacedPreserved, SourcesPreserved,
   MadePreserved, UnmadePreserved, ReportedPreserved, SyncedPreserved DEF QuietInv

(* It holds when the first invocation starts.                               *)
LEMMA InitQuiet == Init => QuietInv
<1> SUFFICES ASSUME Init PROVE QuietInv
  OBVIOUS
<1>1. /\ WellFormed(project) /\ rule = project.rule /\ BUILDING = {} /\ settled = {}
      /\ stack = <<>> /\ pc = "ROOT" /\ root = 1 /\ context = Src /\ synced = Nil
      /\ dircache[Src] = disk[Src]
      /\ TIMESTAMP = [a \in Atom |-> Nil] /\ ran = [a \in Atom |-> 0]
      /\ \A a \in Atom : IsContext(project, a) => BOUND_NAME[a] = project.outdir[a]
      /\ \A a \in Atom : ~IsContext(project, a) => BOUND_NAME[a] = Nil
  BY ProjectsAssumption, ConstantsAssumption DEF Init, DeclaredDirs, IsContext
<1>2. ChoiceInv
  BY <1>1, ChosenOwn DEF ChoiceInv
<1>3. PlacedInv
  BY <1>1 DEF PlacedInv, Placed, ContextOf, AfterContext
<1>4. RootInv /\ ReachedInv /\ ReportedInv /\ MadeInv
  BY <1>1 DEF RootInv, ReachedInv, ReportedInv, MadeInv
<1>5. SourcesInv /\ UnmadeInv /\ SyncedInv
  BY <1>1 DEF SourcesInv, UnmadeInv, SyncedInv
<1> QED BY <1>2, <1>3, <1>4, <1>5 DEF QuietInv

(* No action starts while the disk is as a plain invocation with the same   *)
(* roots left it: every time that is compared is a file's.                 *)
LEMMA NothingStarts ==
  ASSUME IInv, DiskInv, QuietInv, Plain(inv), MakesItsTarget, OnlyOwnFile,
         PatternsFromSources, pc = "ACTION", synced = inv.roots
  PROVE  FALSE
<1>1. /\ Active /\ Unfailed /\ WellFormed(project) /\ synced # Nil /\ ~inv.always_make
      /\ root \in Nat /\ Len(inv.roots) \in Nat /\ root <= Len(inv.roots)
  BY ConstantsAssumption
     DEF Active, Unfailed, Running, Plain, IInv, TypeOK, ControlInv, Invocation
<1> DEFINE names == dircache[Src]
           t == Top.atom
<1>2. /\ Top = stack[Len(stack)] /\ Len(stack) \in 1 .. Len(stack)
      /\ AllBuilt(Top) /\ NeedsBuilding(Top) /\ rule[t].action
  BY TopFrame DEF IInv, ControlInv, TypeOK
<1>3. /\ t \in Atom /\ Top.time \in Time /\ Top.newest \in Time /\ Top.next \in Nat
      /\ TIMESTAMP[t] = Top.time /\ t \in BUILDING /\ rule[t].op = ":"
      /\ NewestOfSeen(Top) /\ SeenSettled(Top)
  BY <1>1, <1>2, FrameTypes DEF IInv, PathInv, StampsInv, TimesInv, SettledInv
<1>4. \A a \in Atom : TIMESTAMP[a] # Newest
  BY <1>1 DEF QuietInv, UnmadeInv, Running
<1>5. \A a \in settled \cup {t} :
        /\ a \in Atom /\ rule[a] = ChosenRule(project, names, a) /\ BOUND_NAME[a] \in Dir
        /\ Placed(project, names, inv.roots, a, BOUND_NAME[a])
        /\ TIMESTAMP[a] # Nil => TIMESTAMP[a] = disk[BOUND_NAME[a]][a]
  <2> TAKE a \in settled \cup {t}
  <2>1. a \in Atom /\ rule[a] = ChosenRule(project, names, a)
    BY <1>3, SettledChosen DEF IInv, SettledInv, QuietInv, TypeOK
  <2>2. BOUND_NAME[a] # Nil /\ Placed(project, names, inv.roots, a, BOUND_NAME[a])
    BY <1>1, <1>3, <2>1 DEF QuietInv, PlacedInv
  <2>3. TIMESTAMP[a] # Nil => TIMESTAMP[a] = disk[BOUND_NAME[a]][a]
    BY <1>1, <1>4, <2>1 DEF DiskInv, Remembered, File
  <2> QED BY <2>1, <2>2, <2>3 DEF IInv, TypeOK
<1>6. t \in Reached(project, names, inv.roots, Len(inv.roots))
  <2>1. t \in Reached(project, names, inv.roots, root)
    BY <1>2 DEF QuietInv, ReachedInv, Running
  <2> QED BY <1>1, <2>1, ReachedGrows
<1>7. UpToDateFor(project, disk, inv.roots)
  BY <1>1 DEF QuietInv, SyncedInv
<1>8. /\ \A a \in Atom : ChosenRule(project, names, a) = ChosenRule(project, disk[Src], a)
      /\ \A k : Reached(project, names, inv.roots, k) = Reached(project, disk[Src], inv.roots, k)
      /\ \A d : \A a \in Atom : Placed(project, names, inv.roots, a, d)
                                <=> Placed(project, disk[Src], inv.roots, a, d)
  <2>1. \A x \in Atom : NeverMade(x) => (names[x] = Oldest <=> disk[Src][x] = Oldest)
    BY <1>1 DEF QuietInv, SourcesInv
  <2> HIDE DEF names
  <2> QED BY <1>1, <2>1, SameChoices
<1>9. project.outputs[t] = {t}
  BY <1>2, <1>3 DEF MakesItsTarget
<1> HIDE DEF names, t
<1>10. /\ disk[BOUND_NAME[t]][t] # Oldest
       /\ \A q \in Listed(rule[t]), e \in Dir :
            Placed(project, names, inv.roots, q, e) /\ q \in Atom
            => disk[e][q] <= disk[BOUND_NAME[t]][t]
  <2>1. rule[t] = ChosenRule(project, disk[Src], t) /\ BOUND_NAME[t] \in Dir
        /\ Placed(project, disk[Src], inv.roots, t, BOUND_NAME[t])
    BY <1>3, <1>5, <1>8 DEF t
  <2>2. ChosenRule(project, disk[Src], t).action
    BY <1>2, <2>1 DEF t
  <2> QED BY <1>6, <1>7, <1>8, <1>9, <2>1, <2>2 DEF UpToDateFor
<1>11. Top.time # Oldest /\ Top.time = disk[BOUND_NAME[t]][t]
  BY <1>3, <1>5, <1>10, ConstantsAssumption DEF t, Time
<1>12. Top.newest > Top.time
  BY <1>1, <1>2, <1>11 DEF NeedsBuilding
<1>13. PICK j \in DOMAIN rule[t].prereqs :
           j \in 1 .. (Top.next - 1) /\ TIMESTAMP[rule[t].prereqs[j]] = Top.newest
  <2>1. Top.newest # Oldest
    BY <1>3, <1>12, ConstantsAssumption DEF Time, Oldest
  <2> QED BY <1>3, <2>1 DEF NewestOfSeen, t
<1> DEFINE q == rule[t].prereqs[j]
<1>14. q \in settled /\ q \in Listed(rule[t]) /\ TIMESTAMP[q] # Nil
  BY <1>3, <1>13, ConstantsAssumption DEF SeenSettled, Listed, t, Time
<1>15. Top.newest <= Top.time
  BY <1>5, <1>10, <1>11, <1>13, <1>14
<1> QED BY <1>3, <1>12, <1>15, ConstantsAssumption DEF Time

(* After a plain invocation succeeded, the same one again runs no action;   *)
(* and when nothing ran, roots with an action are reported up to date.      *)
THEOREM QuietAfterSuccess == Spec => []QuietRebuild
<1>1. IInv /\ DiskInv /\ QuietInv => QuietRebuild
  <2>1. ASSUME IInv, QuietInv, pc = "ok", \A a \in Atom : ran[a] = 0,
               NEW i \in DOMAIN inv.roots, rule[inv.roots[i]].action
        PROVE  inv.roots[i] \in reported
    <3>1. inv.roots \in Seq(Atom) /\ Active /\ i \in 1 .. (root - 1)
      BY <2>1 DEF IInv, TypeOK, Invocation, Active, QuietInv, RootInv
    <3> QED BY <2>1, <3>1 DEF QuietInv, ReportedInv
  <2> QED BY <2>1, NothingStarts DEF QuietRebuild
<1> QED BY <1>1, Invariance, InitDisk, InitQuiet, DiskPreserved, QuietPreserved, PTL DEF Spec

=============================================================================
