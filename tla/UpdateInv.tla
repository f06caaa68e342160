------------------------------ MODULE UpdateInv ------------------------------
(***************************************************************************)
(* The inductive invariant behind the theorems about Update, by parts.     *)
(***************************************************************************)
EXTENDS Update

(* No pattern rule applies to a: what NoRuleFound has found out.           *)
Patternless(a) ==
  \A i \in DOMAIN project.implicit[a] : ~Applies(project.implicit[a][i])

(* The current directory has been read before anything looks for a pattern *)
(* rule; build contexts are bound from their declaration on.               *)
RulesInv ==
  /\ dircache[Src] # Nil
  /\ \A a \in Atom : rule[a].op = ":BUILD:" => BOUND_NAME[a] # Nil
  /\ \A a \in Atom : rule[a].op # ":" => rule[a].prereqs = <<>> /\ ~rule[a].action

(* The prerequisite that frame i of the stack is at.                       *)
Current(i) == rule[stack[i].atom].prereqs[stack[i].next]
AtPrerequisite(i) == stack[i].next \in 1 .. Len(rule[stack[i].atom].prereqs)

(* The stack is a chain of prerequisites of distinct atoms, and they are   *)
(* exactly the atoms that are flagged.                                     *)
PathInv ==
  /\ \A i \in 1 .. Len(stack) :
       rule[stack[i].atom].op = ":" /\ stack[i].next \in Nat \ {0}
  /\ \A i, j \in 1 .. Len(stack) : stack[i].atom = stack[j].atom => i = j
  /\ \A a \in Atom : a \in BUILDING <=> \E i \in 1 .. Len(stack) : stack[i].atom = a
  /\ \A i \in 1 .. (Len(stack) - 1) :
       AtPrerequisite(i) /\ stack[i + 1].atom = Current(i)

(* Where the innermost call is.                                            *)
ControlInv ==
  /\ pc = "ROOT" => stack = <<>>
  /\ pc \in Running \ {"ROOT"} => root <= Len(inv.roots)
  /\ pc \in {"PREREQ", "ACTION"} => stack # <<>>
  /\ pc \in {"BUILD", "LEAF"} /\ stack # <<>> =>
       AtPrerequisite(Len(stack)) /\ arg = Current(Len(stack))
  /\ pc = "RETURN" /\ stack # <<>> => AtPrerequisite(Len(stack))
  /\ pc = "LEAF" => rule[arg].op = "none" /\ Patternless(arg)
  /\ pc = "ACTION" =>
       AllBuilt(Top) /\ NeedsBuilding(Top) /\ rule[Top.atom].action

(* What has settled: an atom only after its prerequisites, and an atom     *)
(* without a rule only when it will never get one.                         *)
SeenSettled(f) ==
  \A j \in 1 .. (f.next - 1) :
    j \in DOMAIN rule[f.atom].prereqs => rule[f.atom].prereqs[j] \in settled
SettledInv ==
  /\ \A i \in 1 .. Len(stack) : SeenSettled(stack[i])
  /\ pc = "RETURN" /\ stack # <<>> => Current(Len(stack)) \in settled
  /\ \A a \in settled : Prerequisites(a) \subseteq settled
  /\ \A a \in settled : rule[a].op = "none" => Patternless(a)
  /\ \A a \in Atom : ran[a] > 0 => a \in settled

(* Timestamps: a call's local copy is the remembered one; a name of -W     *)
(* has none or the newest.                                                 *)
StampsInv ==
  /\ \A a \in inv.assume_new : TIMESTAMP[a] \in {Nil, Newest}
  /\ \A i \in 1 .. Len(stack) : TIMESTAMP[stack[i].atom] = stack[i].time
  /\ pc = "RETURN" /\ stack # <<>> /\ ret # Nil => TIMESTAMP[Current(Len(stack))] = ret

(* Without -B, the newest time of a call is that of the prerequisites it   *)
(* has seen, and an atom with an action settles up to date.                *)
NewestOfSeen(f) ==
  /\ \A j \in 1 .. (f.next - 1) :
       LET p == rule[f.atom].prereqs[j] IN
       j \in DOMAIN rule[f.atom].prereqs =>
         TIMESTAMP[p] # Nil /\ TIMESTAMP[p] <= f.newest
  /\ f.newest # Oldest =>
       \E j \in 1 .. (f.next - 1) :
         /\ j \in DOMAIN rule[f.atom].prereqs
         /\ TIMESTAMP[rule[f.atom].prereqs[j]] = f.newest
UpToDate(a) ==
  /\ TIMESTAMP[a] # Nil /\ TIMESTAMP[a] # Oldest
  /\ \A p \in Prerequisites(a) : TIMESTAMP[p] # Nil /\ TIMESTAMP[p] <= TIMESTAMP[a]
TimesInv ==
  ~inv.always_make =>
    /\ \A i \in 1 .. Len(stack) : NewestOfSeen(stack[i])
    /\ \A a \in settled : rule[a].action => UpToDate(a)

OnceInv == ~inv.always_make => \A a \in Atom : ran[a] <= 1

IInv == TypeOK /\ RulesInv /\ PathInv /\ ControlInv /\ SettledInv /\ StampsInv
        /\ TimesInv /\ OnceInv

(* What the disk holds while a plain invocation has not failed: a          *)
(* remembered time is the file's, unless the action has run; a directory   *)
(* that was read still shows every name that has no timestamp yet as it    *)
(* is.  So a settled target can be compared with its prerequisites.        *)
Unfailed ==
  /\ Plain(inv) /\ OnlyOwnFile
  /\ pc \in Running \/ (pc = "ok" /\ synced = inv.roots)
NothingLater == \A d \in Dir, a \in Atom : disk[d][a] <= clock
Remembered(a) ==
  TIMESTAMP[a] # Nil =>
    /\ BOUND_NAME[a] # Nil
    /\ IF TIMESTAMP[a] = Newest THEN a \in settled ELSE File(a) = TIMESTAMP[a]
AsRead(a) ==
  TIMESTAMP[a] = Nil =>
    \A d \in Dir : dircache[d] # Nil => dircache[d][a] = disk[d][a]
Fresh(t) ==
  rule[t].action /\ project.outputs[t] = {t} =>
    \A p \in Prerequisites(t) : File(p) <= File(t)
DiskInv ==
  /\ NothingLater
  /\ Unfailed => /\ \A a \in Atom : Remembered(a) /\ AsRead(a)
                 /\ \A t \in settled : Fresh(t)
-----------------------------------------------------------------------------
(***************************************************************************)
(* Why the second build is quiet.  The rule of an atom, the atoms that the *)
(* first k roots lead to and the directory an atom is bound in do not      *)
(* depend on the course of an invocation: they follow from the project,    *)
(* the roots and the names that the current directory showed at the start. *)
(***************************************************************************)
Shows(names, r) == \A i \in DOMAIN r.prereqs : names[r.prereqs[i]] # Oldest
FirstShown(p, names, a, i) ==
  /\ i \in DOMAIN p.implicit[a]
  /\ Shows(names, p.implicit[a][i])
  /\ \A j \in 1 .. (i - 1) : ~Shows(names, p.implicit[a][j])
ChosenRule(p, names, a) ==
  IF p.rule[a].op = "none" /\ \E i \in DOMAIN p.implicit[a] : FirstShown(p, names, a, i)
  THEN p.implicit[a][CHOOSE i \in DOMAIN p.implicit[a] : FirstShown(p, names, a, i)]
  ELSE p.rule[a]

Listed(r) == {r.prereqs[i] : i \in DOMAIN r.prereqs}
Closed(p, names, S) == \A a \in S : Listed(ChosenRule(p, names, a)) \subseteq S
Reached(p, names, roots, k) ==
  {a \in Atom : \A S \in SUBSET Atom :
     Closed(p, names, S) /\ (\A i \in 1 .. k : roots[i] \in S) => a \in S}

IsContext(p, a) == p.rule[a].op = ":BUILD:"
ContextOf(p, roots, k, d) ==         \* d is the context when root k begins
  \/ d = Src /\ \A j \in 1 .. (k - 1) : ~IsContext(p, roots[j])
  \/ \E j \in 1 .. (k - 1) :
       /\ IsContext(p, roots[j]) /\ d = p.outdir[roots[j]]
       /\ \A l \in (j + 1) .. (k - 1) : ~IsContext(p, roots[l])
FirstFrom(p, names, roots, a, k) ==
  /\ k \in 1 .. Len(roots)
  /\ a \in Reached(p, names, roots, k) /\ a \notin Reached(p, names, roots, k - 1)
Placed(p, names, roots, a, d) ==
  IF IsContext(p, a) THEN d = p.outdir[a]
  ELSE IF ChosenRule(p, names, a).action
  THEN \E k \in 1 .. Len(roots) : FirstFrom(p, names, roots, a, k) /\ ContextOf(p, roots, k, d)
  ELSE d = Src

ChoiceInv ==
  /\ \A a \in Atom : IF rule[a].op = "none" THEN project.rule[a] = rule[a]
                      ELSE rule[a] = ChosenRule(project, dircache[Src], a)
  /\ \A a \in Atom : IsContext(project, a) => BOUND_NAME[a] = project.outdir[a]

Active == pc \in Running \/ pc = "ok"
RootInv == Active =>
  /\ \A i \in 1 .. (root - 1) : i <= Len(inv.roots) /\ inv.roots[i] \in settled
  /\ stack # <<>> => stack[1].atom = inv.roots[root]
  /\ pc \in {"BUILD", "LEAF"} /\ stack = <<>> => arg = inv.roots[root]
  /\ pc = "RETURN" /\ stack = <<>> => inv.roots[root] \in settled
  /\ pc = "ok" => root = Len(inv.roots) + 1

ReachedInv == pc \in Running =>
  \A i \in 1 .. Len(stack) : stack[i].atom \in Reached(project, dircache[Src], inv.roots, root)

AfterContext == pc = "RETURN" /\ ret = Nil
PlacedInv == Active =>
  /\ \A a \in Atom : BOUND_NAME[a] # Nil =>
       Placed(project, dircache[Src], inv.roots, a, BOUND_NAME[a])
  /\ \A a \in settled \cup BUILDING : BOUND_NAME[a] # Nil
  /\ ~AfterContext => ContextOf(project, inv.roots, root, context)
  /\ pc = "RETURN" /\ stack = <<>> =>
       /\ ret = Nil <=> IsContext(project, inv.roots[root])
       /\ ret = Nil => context = project.outdir[inv.roots[root]]

(* What pattern rules look at is there, or not, as it was at the start.    *)
SourcesInv == Active /\ OnlyOwnFile /\ PatternsFromSources =>
  \A x \in Atom : NeverMade(x) => (dircache[Src][x] = Oldest <=> disk[Src][x] = Oldest)

MadeInv == Unfailed =>
  \A t \in settled : rule[t].action /\ project.outputs[t] = {t} => File(t) # Oldest
UnmadeInv == pc \in Running /\ Plain(inv) /\ synced # Nil =>
  \A a \in Atom : ran[a] = 0 /\ TIMESTAMP[a] # Newest

ReportedInv == Active =>
  /\ pc = "RETURN" /\ stack = <<>> =>
       LET r == inv.roots[root] IN rule[r].action /\ ran[r] = 0 => ret # Nil /\ ~needs
  /\ \A i \in 1 .. (root - 1) :
       LET r == inv.roots[i] IN rule[r].action /\ ran[r] = 0 => r \in reported

(* The disk is as a plain invocation with these roots leaves it: no target *)
(* with an action is missing or older than one of its prerequisites.       *)
UpToDateFor(p, files, roots) ==
  \A t \in Reached(p, files[Src], roots, Len(roots)), d \in Dir :
    /\ ChosenRule(p, files[Src], t).action /\ p.outputs[t] = {t}
    /\ Placed(p, files[Src], roots, t, d)
    => /\ files[d][t] # Oldest
       /\ \A q \in Listed(ChosenRule(p, files[Src], t)), e \in Dir :
            Placed(p, files[Src], roots, q, e) => files[e][q] <= files[d][t]
SyncedInv == synced # Nil /\ OnlyOwnFile /\ PatternsFromSources =>
  UpToDateFor(project, disk, synced)

QuietInv == ChoiceInv /\ RootInv /\ ReachedInv /\ PlacedInv /\ SourcesInv
            /\ MadeInv /\ UnmadeInv /\ ReportedInv /\ SyncedInv
=============================================================================
