----------------------------- MODULE BuildOrder -----------------------------
(***************************************************************************)
(* What an update promises, with nothing of how the traversal works: an    *)
(* atom settles after everything it depends on, its action runs as it      *)
(* settles or not at all, and then it stays settled.  Only -B runs actions *)
(* of settled atoms again.                                                 *)
(***************************************************************************)
EXTENDS Naturals

CONSTANT Atom

VARIABLES deps,   \* what each atom depends on
          done,   \* the settled atoms
          runs,   \* how often each action ran
          always  \* -B

vars == <<deps, done, runs, always>>

Fresh == done = {} /\ runs = [a \in Atom |-> 0]

Init ==
  /\ deps \in [Atom -> SUBSET Atom] /\ always \in BOOLEAN
  /\ Fresh

(* The rule of an atom may be found late, but not after it settled.        *)
Discover(a) ==
  /\ a \notin done
  /\ \E ps \in SUBSET Atom : deps' = [deps EXCEPT ![a] = ps]
  /\ UNCHANGED <<done, runs, always>>

Settle(a) ==
  /\ a \notin done /\ deps[a] \subseteq done
  /\ done' = done \cup {a}
  /\ runs' \in {runs, [runs EXCEPT ![a] = @ + 1]}
  /\ UNCHANGED <<deps, always>>

Repeat(a) ==
  /\ always /\ a \in done
  /\ runs' = [runs EXCEPT ![a] = @ + 1]
  /\ UNCHANGED <<deps, done, always>>

(* Another invocation of the program.                                      *)
Restart ==
  /\ deps' \in [Atom -> SUBSET Atom] /\ always' \in BOOLEAN
  /\ Fresh'

Next == Restart \/ \E a \in Atom : Discover(a) \/ Settle(a) \/ Repeat(a)

Spec == Init /\ [][Next]_vars
=============================================================================
