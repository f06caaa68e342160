------------------------------ MODULE Targets ------------------------------
(***************************************************************************)
(* From the names on the command line to blud.roots, the atoms that        *)
(* build_targets() builds one after the other.                             *)
(***************************************************************************)
EXTENDS Naturals, Sequences, SequencesExt

(* A build context with no ordinary target after it gets the default       *)
(* target, when there is one; infer_targets(default_target, targets).      *)
InferTargets(targets, builds, default_target, nil) ==
  LET n == Len(targets)
      Alone(i) == targets[i] \in builds /\ (i = n \/ targets[i + 1] \in builds)
  IN  FlattenSeq([i \in 1 .. n |->
        IF Alone(i) /\ default_target # nil THEN <<targets[i], default_target>>
        ELSE <<targets[i]>>])

(* The first root is a build context whenever one is declared.             *)
ConcreteTargets(targets, builds, default_target, default_build, nil) ==
  LET concrete == InferTargets(targets, builds, default_target, nil)
  IN  IF concrete[1] \notin builds /\ default_build # nil
      THEN <<default_build>> \o concrete ELSE concrete
=============================================================================
