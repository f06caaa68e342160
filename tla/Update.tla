------------------------------- MODULE Update -------------------------------
(***************************************************************************)
(* The update traversal of blud: what build_targets() does once the        *)
(* bludfile has run and every explicit rule is known.                      *)
(*                                                                         *)
(* The Lua code is a recursion: atom.BUILD() calls the BUILD of the rule's *)
(* operator, that calls BUILD of every prerequisite in order, and then     *)
(* decides from timestamps whether the action must run.  Here the          *)
(* recursion is a state machine with an explicit stack, so that each step  *)
(* between two calls, an action that fails, or a process killed in the     *)
(* middle of an action is a state of its own.                              *)
(*                                                                         *)
(* A behaviour is a sequence of invocations of the program on one project. *)
(* Memory (rules, bound names, timestamps, the directory cache) starts     *)
(* anew in each invocation; only the disk survives, with whatever a failed *)
(* or killed action left on it, and the user may edit sources in between.  *)
(***************************************************************************)
EXTENDS Naturals, Sequences

CONSTANTS
  Atom,         \* the names of the update graph
  Dir,          \* the directories BIND can put a name in
  Src,          \* the current directory, where an empty SWD leaves names
  Newest,       \* blud.timestamp.newest; every file is older than this
  Nil,          \* Lua's nil
  Projects,     \* the bludfiles, initial disks and command lines explored
  MaxInvocations, MaxEdits   \* bounds of a session

Oldest == 0     \* blud.timestamp.oldest, also the time of a missing file

FileTime == 0 .. (Newest - 1)
Time == 0 .. Newest

Rule == [op : {"none", ":", ":BUILD:"}, prereqs : Seq(Atom), action : BOOLEAN]
NoRule == [op |-> "none", prereqs |-> <<>>, action |-> FALSE]

(* The options of a command line and the concrete roots infer_targets()    *)
(* makes of its target names (module Targets).                             *)
Invocation == [ roots       : Seq(Atom),
                always_make : BOOLEAN,
                just_print  : BOOLEAN,
                assume_new  : SUBSET Atom ]

(* rule: the explicit rules.  implicit: the pattern rules whose target     *)
(* matches, in the order they were declared.  outdir: the output directory *)
(* of a build context.  outputs: the files an action writes when it works, *)
(* all in the directory of its target: {} for an action that creates       *)
(* nothing, more than the target when it has side products.                *)
Project == [ rule     : [Atom -> Rule],
             implicit : [Atom -> Seq(Rule)],
             outdir   : [Atom -> Dir],
             outputs  : [Atom -> SUBSET Atom],
             disk     : [Dir -> [Atom -> FileTime]],
             clock    : FileTime \ {0},
             commands : SUBSET Invocation ]

ASSUME ConstantsAssumption ==
  /\ Src \in Dir
  /\ Newest \in Nat \ {0}
  /\ Nil \notin Nat /\ Nil \notin Dir /\ Nil \notin [Atom -> FileTime]
  /\ Nil \notin Seq(Atom)
  /\ MaxInvocations \in Nat \ {0} /\ MaxEdits \in Nat

(* Only a dependency rule has prerequisites or an action; infer_targets    *)
(* returns one root at least; to read a directory with a file from the     *)
(* future is an error.                                                     *)
WellFormed(p) ==
  /\ p \in Project
  /\ \A a \in Atom :
       /\ p.rule[a].op # ":" => p.rule[a].prereqs = <<>> /\ ~p.rule[a].action
       /\ \A i \in DOMAIN p.implicit[a] : p.implicit[a][i].op = ":"
  /\ \A i \in p.commands : i.roots # <<>>
  /\ \A d \in Dir, a \in Atom : p.disk[d][a] <= p.clock

ASSUME ProjectsAssumption == \A p \in Projects : WellFormed(p)

VARIABLES
  project,     \* the project: fixed
  inv,         \* the invocation that runs, or ran last
  rule,        \* atom.RULE
  BOUND_NAME,  \* the directory of atom.BOUND_NAME, Nil when unbound
  TIMESTAMP,   \* atom.TIMESTAMP
  BUILDING,    \* the atoms whose BUILDING flag is true
  dircache,    \* directory_cache: the snapshot of each directory read so far
  context,     \* the directory of OWD in the active build context
  stack,       \* the active calls of an operator's BUILD, outermost first
  pc, arg, ret, needs,  \* where the innermost call is, its argument, results
  root,        \* the index in blud.roots
  disk, clock, \* the file system, and the time of its last change
  ran,         \* history: how often each action ran in this invocation
  settled,     \* history: the atoms whose BUILD has returned
  reported,    \* history: the roots reported to be up to date
  synced,      \* history: the roots last made by a plain invocation that
               \* succeeded, if no action and no edit came since
  epoch, edits   \* the number of invocations and of edits so far

memory  == <<rule, BOUND_NAME, TIMESTAMP, BUILDING, dircache, context>>
calls   == <<stack, pc, arg, ret, needs, root>>
world   == <<disk, clock>>
history == <<ran, settled, reported, synced, epoch, edits>>
vars    == <<project, inv, memory, calls, world, history>>

Halted == {"ok", "exit", "error", "killed"}
Running == {"ROOT", "BUILD", "LEAF", "PREREQ", "ACTION", "RETURN"}

Frame == [atom : Atom, next : Nat, time : Time, newest : Time]
Top == stack[Len(stack)]
Pop == SubSeq(stack, 1, Len(stack) - 1)
Prerequisites(a) == {rule[a].prereqs[i] : i \in DOMAIN rule[a].prereqs}
LaterOf(t, u) == IF u > t THEN u ELSE t

-----------------------------------------------------------------------------
(***************************************************************************)
(* Starting the program.                                                   *)
(***************************************************************************)
(* A new process.  The current directory was already read when the         *)
(* bludfile was located; a build context is bound where it is declared,    *)
(* every other atom when it is first reached.                              *)
DeclaredDirs(p) ==
  [a \in Atom |-> IF p.rule[a].op = ":BUILD:" THEN p.outdir[a] ELSE Nil]

Init ==
  /\ project \in Projects
  /\ inv \in project.commands
  /\ rule = project.rule
  /\ BOUND_NAME = DeclaredDirs(project)
  /\ TIMESTAMP = [a \in Atom |-> Nil]
  /\ BUILDING = {}
  /\ dircache = [d \in Dir |-> IF d = Src THEN project.disk[d] ELSE Nil]
  /\ context = Src
  /\ stack = <<>> /\ pc = "ROOT" /\ root = 1
  /\ arg = inv.roots[1] /\ ret = Nil /\ needs = FALSE
  /\ disk = project.disk /\ clock = project.clock
  /\ ran = [a \in Atom |-> 0]
  /\ settled = {} /\ reported = {} /\ synced = Nil
  /\ epoch = 1 /\ edits = 0

Invoke ==
  /\ pc \in Halted /\ epoch < MaxInvocations
  /\ inv' \in project.commands
  /\ rule' = project.rule
  /\ BOUND_NAME' = DeclaredDirs(project)
  /\ TIMESTAMP' = [a \in Atom |-> Nil]
  /\ BUILDING' = {}
  /\ dircache' = [d \in Dir |-> IF d = Src THEN disk[d] ELSE Nil]
  /\ context' = Src
  /\ stack' = <<>> /\ pc' = "ROOT" /\ root' = 1
  /\ arg' = inv'.roots[1] /\ ret' = Nil /\ needs' = FALSE
  /\ ran' = [a \in Atom |-> 0] /\ settled' = {} /\ reported' = {}
  /\ epoch' = epoch + 1
  /\ UNCHANGED <<project, world, synced, edits>>

(* build_targets: call BUILD on the roots, one after the other.            *)
NextRoot ==
  /\ pc = "ROOT" /\ root <= Len(inv.roots)
  /\ pc' = "BUILD" /\ arg' = inv.roots[root]
  /\ UNCHANGED <<project, inv, memory, stack, ret, needs, root, world, history>>

(* -B, -W and -n make an invocation other than plain.                      *)
Plain(i) == ~i.always_make /\ ~i.just_print /\ i.assume_new = {}

AllRootsBuilt ==
  /\ pc = "ROOT" /\ root > Len(inv.roots)
  /\ pc' = "ok"
  /\ synced' = IF Plain(inv) THEN inv.roots ELSE synced
  /\ UNCHANGED <<project, inv, memory, stack, arg, ret, needs, root, world,
                 ran, settled, reported, epoch, edits>>

(* "NAME is up to date" when BUILD's second result is false; the BUILD of  *)
(* a build context has no second result.                                   *)
RootReturns ==
  /\ pc = "RETURN" /\ stack = <<>>
  /\ reported' = IF ret # Nil /\ ~needs THEN reported \cup {inv.roots[root]}
                 ELSE reported
  /\ pc' = "ROOT" /\ root' = root + 1
  /\ UNCHANGED <<project, inv, memory, stack, arg, ret, needs, world,
                 ran, settled, synced, epoch, edits>>

-----------------------------------------------------------------------------
(***************************************************************************)
(* Entering BUILD.  atom.BUILD first looks for a pattern rule when the     *)
(* atom has no rule of its own: the first one whose prerequisites all      *)
(* exist, by their names as written and so in the current directory.       *)
(***************************************************************************)
Exists(x) == dircache[Src][x] # Oldest
Applies(r) == \A i \in DOMAIN r.prereqs : Exists(r.prereqs[i])

InventRule ==
  /\ pc = "BUILD" /\ rule[arg].op = "none"
  /\ \E i \in DOMAIN project.implicit[arg] :
       /\ Applies(project.implicit[arg][i])
       /\ \A j \in 1 .. (i - 1) : ~Applies(project.implicit[arg][j])
       /\ rule' = [rule EXCEPT ![arg] = project.implicit[arg][i]]
  /\ UNCHANGED <<project, inv, BOUND_NAME, TIMESTAMP, BUILDING, dircache,
                 context, calls, world, history>>

NoRuleFound ==
  /\ pc = "BUILD" /\ rule[arg].op = "none"
  /\ \A i \in DOMAIN project.implicit[arg] : ~Applies(project.implicit[arg][i])
  /\ pc' = "LEAF"
  /\ UNCHANGED <<project, inv, memory, stack, arg, ret, needs, root, world, history>>

(* BIND: generated targets bind under OWD, sources under SWD, which is     *)
(* empty for them; a name once bound stays bound.                          *)
BoundDir(a) ==
  IF BOUND_NAME[a] # Nil THEN BOUND_NAME[a]
  ELSE IF rule[a].action THEN context ELSE Src

(* get_timestamp: -W wins, then the remembered timestamp, then the         *)
(* directory as it was when it was first read.                             *)
Snapshot(d) == IF dircache[d] = Nil THEN disk[d] ELSE dircache[d]
AsksDircache(a) == a \notin inv.assume_new /\ TIMESTAMP[a] = Nil
LookupUncached(a, d) ==           \* mutant: forgets the remembered timestamp
  IF a \in inv.assume_new THEN Newest ELSE Snapshot(d)[a]
Lookup(a, d) ==
  IF a \in inv.assume_new THEN Newest
  ELSE IF TIMESTAMP[a] # Nil THEN TIMESTAMP[a]
  ELSE Snapshot(d)[a]

BindAndStamp(a) ==
  LET d == BoundDir(a) IN
  /\ BOUND_NAME' = [BOUND_NAME EXCEPT ![a] = d]
  /\ TIMESTAMP' = [TIMESTAMP EXCEPT ![a] = Lookup(a, d)]
  /\ dircache' = IF AsksDircache(a) THEN [dircache EXCEPT ![d] = Snapshot(d)]
                 ELSE dircache

(* An atom without any rule is a source: it must exist.                    *)
SourceExists ==
  /\ pc = "LEAF" /\ Lookup(arg, BoundDir(arg)) # Oldest
  /\ BindAndStamp(arg)
  /\ pc' = "RETURN" /\ ret' = Lookup(arg, BoundDir(arg)) /\ needs' = FALSE
  /\ settled' = settled \cup {arg}
  /\ UNCHANGED <<project, inv, rule, BUILDING, context, stack, arg, root, world,
                 ran, reported, synced, epoch, edits>>

SourceMissing ==
  /\ pc = "LEAF" /\ Lookup(arg, BoundDir(arg)) = Oldest
  /\ BindAndStamp(arg)
  /\ pc' = "exit"                  \* BLUD_EXIT(1000, NAME)
  /\ UNCHANGED <<project, inv, rule, BUILDING, context, stack, arg, ret, needs,
                 root, world, history>>

Circular ==
  /\ pc = "BUILD" /\ rule[arg].op = ":" /\ arg \in BUILDING
  /\ pc' = "error"                 \* circular dependency on NAME
  /\ UNCHANGED <<project, inv, memory, stack, arg, ret, needs, root, world, history>>

(* The timestamp is read before any prerequisite is built, and kept in a   *)
(* local variable of this call.                                            *)
BeginBuild ==
  /\ pc = "BUILD" /\ rule[arg].op = ":" /\ arg \notin BUILDING
  /\ BUILDING' = BUILDING \cup {arg}
  /\ BindAndStamp(arg)
  /\ stack' = Append(stack, [atom |-> arg, next |-> 1,
                             time |-> Lookup(arg, BoundDir(arg)), newest |-> Oldest])
  /\ pc' = "PREREQ"
  /\ UNCHANGED <<project, inv, rule, context, arg, ret, needs, root, world, history>>

(* The BUILD of a build context selects its output directory, which it     *)
(* creates unless -n; it returns the number 0 and nothing else.            *)
ActivateBuild ==
  /\ pc = "BUILD" /\ rule[arg].op = ":BUILD:"
  /\ context' = BOUND_NAME[arg]
  /\ \/ pc' = "RETURN" /\ ret' = Nil /\ settled' = settled \cup {arg}
     \/ /\ ~inv.just_print
        /\ pc' = "error"           \* could not create build directory
        /\ UNCHANGED <<ret, settled>>
  /\ UNCHANGED <<project, inv, rule, BOUND_NAME, TIMESTAMP, BUILDING, dircache,
                 stack, arg, needs, root, world, ran, reported, synced, epoch, edits>>
-----------------------------------------------------------------------------
(***************************************************************************)
(* BUILD_PREREQUISITES: build each in order, keep the newest time.         *)
(***************************************************************************)
NextPrerequisite ==
  /\ pc = "PREREQ" /\ Top.next <= Len(rule[Top.atom].prereqs)
  /\ pc' = "BUILD" /\ arg' = rule[Top.atom].prereqs[Top.next]
  /\ UNCHANGED <<project, inv, memory, stack, ret, needs, root, world, history>>

AdvanceLast(f, t) == [f EXCEPT !.next = @ + 1, !.newest = t]   \* mutant: no max
AdvanceNot(f, t) == [f EXCEPT !.newest = LaterOf(@, t)]        \* mutant: no next
Advance(f, t) == [f EXCEPT !.next = @ + 1, !.newest = LaterOf(@, t)]

PrerequisiteReturns ==
  /\ pc = "RETURN" /\ stack # <<>> /\ ret # Nil
  /\ stack' = Append(Pop, Advance(Top, ret))
  /\ pc' = "PREREQ"
  /\ UNCHANGED <<project, inv, memory, arg, ret, needs, root, world, history>>

(* A build context as prerequisite: its 0 is not comparable to a timestamp *)
BuildContextAsPrerequisite ==
  /\ pc = "RETURN" /\ stack # <<>> /\ ret = Nil
  /\ pc' = "error"
  /\ UNCHANGED <<project, inv, memory, stack, arg, ret, needs, root, world, history>>
-----------------------------------------------------------------------------
(***************************************************************************)
(* The decision, and the end of a BUILD.                                   *)
(***************************************************************************)
NeedsBuildingUnlike(f) ==          \* mutant: different instead of newer
  inv.always_make \/ f.time = Oldest \/ f.newest # f.time
NeedsBuildingMissing(f) ==         \* mutant: newer prerequisites do not count
  inv.always_make \/ f.time = Oldest
NeedsBuilding(f) ==
  inv.always_make \/ f.time = Oldest \/ f.newest > f.time

AllBuiltButLast(f) == f.next >= Len(rule[f.atom].prereqs)   \* mutant: off by one
AllBuilt(f) == f.next > Len(rule[f.atom].prereqs)

CompleteStillBuilding(t, n) ==     \* mutant: BUILDING stays set
  LET a == Top.atom IN
  /\ TIMESTAMP' = [TIMESTAMP EXCEPT ![a] = t]
  /\ UNCHANGED BUILDING
  /\ stack' = Pop
  /\ settled' = settled \cup {a}
  /\ pc' = "RETURN" /\ ret' = t /\ needs' = n
Complete(t, n) ==
  LET a == Top.atom IN
  /\ TIMESTAMP' = [TIMESTAMP EXCEPT ![a] = t]
  /\ BUILDING' = BUILDING \ {a}
  /\ stack' = Pop
  /\ settled' = settled \cup {a}
  /\ pc' = "RETURN" /\ ret' = t /\ needs' = n

(* Nothing to do, or a rule without an action: not an error, even for a    *)
(* target that does not exist.                                             *)
NothingToRun ==
  /\ pc = "PREREQ" /\ AllBuilt(Top)
  /\ ~(NeedsBuilding(Top) /\ rule[Top.atom].action)
  /\ Complete(Top.time, NeedsBuilding(Top))
  /\ UNCHANGED <<project, inv, rule, BOUND_NAME, dircache, context, arg, root,
                 world, ran, reported, synced, epoch, edits>>

StartAction ==
  /\ pc = "PREREQ" /\ AllBuilt(Top)
  /\ NeedsBuilding(Top) /\ rule[Top.atom].action
  /\ pc' = "ACTION"
  /\ UNCHANGED <<project, inv, memory, stack, arg, ret, needs, root, world, history>>

(* What an action leaves on the disk, in the directory of its target.  Two *)
(* writes in a row may get the same time.                                  *)
Write(d, files) ==
  /\ clock' \in {t \in {clock, clock + 1} : t < Newest}
  /\ disk' = [disk EXCEPT ![d] =
                [x \in Atom |-> IF x \in files THEN clock' ELSE @[x]]]

(* DO_ACTION returned 0: the timestamp becomes the newest one whether or   *)
(* not a file was written; with -n nothing ran at all.                     *)
ActionSucceeds ==
  /\ pc = "ACTION"
  /\ ran' = [ran EXCEPT ![Top.atom] = @ + 1]
  /\ IF inv.just_print THEN UNCHANGED <<world, synced>>
     ELSE Write(BOUND_NAME[Top.atom], project.outputs[Top.atom]) /\ synced' = Nil
  /\ Complete(Newest, TRUE)
  /\ UNCHANGED <<project, inv, rule, BOUND_NAME, dircache, context, arg, root,
                 reported, epoch, edits>>

(* A nonzero exit code leaves through BLUD_EXIT, a Lua error through the   *)
(* error handler; either may have written some of the outputs.             *)
ActionFails ==
  /\ pc = "ACTION" /\ ~inv.just_print
  /\ \E files \in SUBSET project.outputs[Top.atom] :
       Write(BOUND_NAME[Top.atom], files)
  /\ pc' \in {"exit", "error"} /\ synced' = Nil
  /\ UNCHANGED <<project, inv, memory, stack, arg, ret, needs, root,
                 ran, settled, reported, epoch, edits>>
-----------------------------------------------------------------------------
(***************************************************************************)
(* The environment: the process is killed, the user edits a file between   *)
(* two invocations.                                                        *)
(***************************************************************************)
Kill ==
  /\ pc \in Running
  /\ IF pc = "ACTION" /\ ~inv.just_print
     THEN /\ \E files \in SUBSET project.outputs[Top.atom] :
               Write(BOUND_NAME[Top.atom], files)
          /\ synced' = Nil
     ELSE UNCHANGED <<world, synced>>
  /\ pc' = "killed"
  /\ UNCHANGED <<project, inv, memory, stack, arg, ret, needs, root,
                 ran, settled, reported, epoch, edits>>

Edit ==
  /\ pc \in Halted /\ epoch < MaxInvocations
  /\ edits < MaxEdits /\ edits' = edits + 1
  /\ \E x \in Atom : disk[Src][x] # Oldest /\ Write(Src, {x})
  /\ synced' = Nil
  /\ UNCHANGED <<project, inv, memory, calls, ran, settled, reported, epoch>>

Enter == InventRule \/ NoRuleFound \/ SourceExists \/ SourceMissing
         \/ Circular \/ BeginBuild \/ ActivateBuild
Decide == NothingToRun \/ StartAction \/ ActionSucceeds \/ ActionFails

Step == NextRoot \/ AllRootsBuilt \/ RootReturns \/ Enter
        \/ NextPrerequisite \/ PrerequisiteReturns \/ BuildContextAsPrerequisite
        \/ Decide

Stop == pc \in Halted /\ epoch = MaxInvocations /\ UNCHANGED vars

Next == Invoke \/ Step \/ Kill \/ Edit \/ Stop

(* One thread that keeps going: an action is assumed to return.            *)
Spec == Init /\ [][Next]_vars /\ WF_vars(Step)

-----------------------------------------------------------------------------
(***************************************************************************)
(* Properties.                                                             *)
(***************************************************************************)

(* Types of the variables. *)
TypeOK ==
  /\ WellFormed(project) /\ inv \in Invocation
  /\ rule \in [Atom -> Rule]
  /\ BOUND_NAME \in [Atom -> Dir \cup {Nil}]
  /\ TIMESTAMP \in [Atom -> Time \cup {Nil}]
  /\ BUILDING \subseteq Atom
  /\ dircache \in [Dir -> [Atom -> FileTime] \cup {Nil}]
  /\ context \in Dir
  /\ stack \in Seq(Frame)
  /\ pc \in Halted \cup Running
  /\ arg \in Atom /\ ret \in Time \cup {Nil} /\ needs \in BOOLEAN
  /\ root \in Nat \ {0}
  /\ disk \in [Dir -> [Atom -> FileTime]] /\ clock \in FileTime \ {0}
  /\ ran \in [Atom -> Nat]
  /\ settled \subseteq Atom /\ reported \subseteq Atom
  /\ synced \in Seq(Atom) \cup {Nil}
  /\ epoch \in 1 .. MaxInvocations /\ edits \in 0 .. MaxEdits

(* The circular-dependency error is raised only for a real cycle: the      *)
(* BUILDING flag of a rule's target is found set only when a chain of      *)
(* prerequisites leads from that target back to it.  (A flag that survives *)
(* its call would turn a shared prerequisite into a false cycle.)          *)
CircularOnCycle ==
  pc = "BUILD" /\ arg \in BUILDING =>
    \E i \in 1 .. Len(stack) :
      /\ stack[i].atom = arg
      /\ \A j \in i .. (Len(stack) - 1) :
           stack[j + 1].atom \in Prerequisites(stack[j].atom)
      /\ arg \in Prerequisites(Top.atom)

(* Without -B an action runs at most once in an invocation, however many   *)
(* targets share it and however often they ask for it.                     *)
AtMostOnce == ~inv.always_make => \A a \in Atom : ran[a] <= 1

(* Without -B no action runs after the action of a target that lists it as *)
(* a prerequisite has already run: the target would be out of date again.  *)
OrderRespected ==
  [][\A p, t \in Atom :
       /\ ~inv.always_make
       /\ pc = "ACTION" /\ ran'[p] > ran[p] /\ p \in Prerequisites(t)
       => ran[t] = 0]_vars

File(a) == disk[BOUND_NAME[a]][a]
OnlyOwnFile == \A a \in Atom : project.outputs[a] \subseteq {a}

(* When a plain invocation has succeeded, a file its actions make or keep  *)
(* is not older than any of its direct prerequisites: although timestamps  *)
(* were read before the prerequisites were built and never read again.     *)
FreshOnSuccess ==
  pc = "ok" /\ Plain(inv) /\ synced = inv.roots /\ OnlyOwnFile =>
    \A t \in settled :
      rule[t].action /\ project.outputs[t] = {t} =>
        \A p \in Prerequisites(t) : File(p) <= File(t)

(* After a plain invocation succeeded, the same invocation again runs no   *)
(* action, as long as actions create their targets (and nothing else) and  *)
(* pattern rules start from files no action makes, by an explicit rule or  *)
(* by a pattern; and whenever nothing ran, targets with actions are        *)
(* reported up to date.                                                    *)
MakesItsTarget == \A a \in Atom : rule[a].action => project.outputs[a] = {a}
NeverMade(x) ==
  /\ ~project.rule[x].action
  /\ \A i \in DOMAIN project.implicit[x] : ~project.implicit[x][i].action
PatternsFromSources ==
  \A a \in Atom : \A i \in DOMAIN project.implicit[a] :
    \A j \in DOMAIN project.implicit[a][i].prereqs :
      NeverMade(project.implicit[a][i].prereqs[j])
QuietRebuild ==
  Plain(inv) /\ MakesItsTarget /\ OnlyOwnFile /\ PatternsFromSources =>
    /\ pc = "ACTION" => synced # inv.roots
    /\ pc = "ok" /\ (\A a \in Atom : ran[a] = 0) =>
         \A i \in DOMAIN inv.roots : rule[inv.roots[i]].action => inv.roots[i] \in reported

(* Every invocation ends, cyclic graphs included.                          *)
Terminates == (pc \in Running) ~> (pc \in Halted)

(* Without -B, Update implements BuildOrder; with it too, BuildOrder says  *)
(* what is lost: an atom settles once, after its prerequisites.            *)
Order == INSTANCE BuildOrder WITH
  deps <- [a \in Atom |-> Prerequisites(a)], done <- settled,
  runs <- ran, always <- inv.always_make
ImplementsBuildOrder == Order!Spec

=============================================================================
