------------------------------ MODULE MCUpdate ------------------------------
(* Every rule graph over three atoms, with every order of prerequisites,   *)
(* cycles and missing files included, in one invocation per command line.  *)
EXTENDS UpdateInv, Targets

colon(ps, act) == [op |-> ":", prereqs |-> ps, action |-> act]

PrereqLists(a) == LET O == Atom \ {a} IN
  {<<>>} \cup {<<x>> : x \in O} \cup {q \in {<<x, y>> : x, y \in O} : q[1] # q[2]}

(* t is the root; u may be a rule without an action, s may be a source.    *)
Graphs == {[a \in Atom |-> CASE a = "t" -> rt [] a = "u" -> ru [] OTHER -> rs] :
  rt \in {colon(ps, act) : ps \in PrereqLists("t"), act \in BOOLEAN},
  ru \in {NoRule} \cup {colon(ps, act) : ps \in PrereqLists("u"), act \in BOOLEAN},
  rs \in {NoRule} \cup {colon(ps, TRUE) : ps \in PrereqLists("s")}}

Build(names) ==
  [roots |-> names, always_make |-> FALSE, just_print |-> FALSE, assume_new |-> {}]

GraphProjects ==
  {[rule |-> r, implicit |-> [a \in Atom |-> <<>>], outdir |-> [a \in Atom |-> Src],
    outputs |-> [a \in Atom |-> {a}], disk |-> [d \in Dir |-> f], clock |-> 2, commands |-> {Build(<<"t">>)}] :
      r \in Graphs, f \in [Atom -> 0 .. 2]}

(* Without kills and edits, which the sessions below have.                 *)
GraphSpec == Init /\ [][Invoke \/ Step \/ Stop]_vars /\ WF_vars(Step)
-----------------------------------------------------------------------------
(* Sessions of several invocations on projects that use the rest of the    *)
(* language: two build contexts, a pattern rule, a shared target that      *)
(* creates no file, an action with a side product, a context that is used  *)
(* as a prerequisite.                                                      *)
build == [op |-> ":BUILD:", prereqs |-> <<>>, action |-> FALSE]

DirOf(a) == IF a \in {"debug", "release"} THEN a ELSE Src

Bludfile(r, pattern, out, files) ==
  [rule |-> [a \in Atom |-> IF a \in DOMAIN r THEN r[a] ELSE NoRule],
   implicit |-> [a \in Atom |-> IF a \in DOMAIN pattern THEN <<pattern[a]>> ELSE <<>>],
   outdir |-> [a \in Atom |-> DirOf(a)],
   outputs |-> [a \in Atom |-> IF a \in DOMAIN out THEN out[a] ELSE {a}],
   disk |-> [d \in Dir |-> [a \in Atom |-> IF d = Src /\ a \in files THEN 1 ELSE 0]],
   clock |-> 1, commands |-> {}]

none == <<>>

Contexts2 == Bludfile(
  [debug |-> build, release |-> build, prog |-> colon(<<"obj">>, TRUE)],
  [obj |-> colon(<<"c">>, TRUE)], none, {"c"})
Diamond == Bludfile(
  [prog |-> colon(<<"obj", "hdr">>, FALSE), obj |-> colon(<<"c">>, TRUE),
   hdr |-> colon(<<"c">>, TRUE), c |-> colon(<<>>, TRUE)],
  none, [c |-> {}], {"hdr"})
SideProduct == Bludfile(
  [prog |-> colon(<<"obj", "hdr">>, TRUE), obj |-> colon(<<"c">>, TRUE)],
  none, [obj |-> {"obj", "hdr"}], {"c"})
Cyclic == Bludfile(
  [prog |-> colon(<<"obj">>, TRUE), obj |-> colon(<<"c", "hdr">>, TRUE),
   hdr |-> colon(<<"prog">>, TRUE)], none, none, {"c"})
ContextAsPrerequisite == Bludfile(
  [debug |-> build, prog |-> colon(<<"debug">>, TRUE)], none, none, {})

Command(names, b, n, w) ==
  [roots |-> names, always_make |-> b, just_print |-> n, assume_new |-> w]

(* The roots for the names of a command line; prog is the default target.  *)
Roots(p, names) ==
  ConcreteTargets(names, {a \in Atom : p.rule[a].op = ":BUILD:"}, "prog",
                  IF p.rule["debug"].op = ":BUILD:" THEN "debug" ELSE Nil, Nil)

(* The names may come with -B, -n or -W c.                                 *)
Commands(p, lines) ==
  {Command(Roots(p, names), o[1], o[2], o[3]) : names \in lines,
     o \in {<<FALSE, FALSE, {}>>, <<TRUE, FALSE, {}>>, <<FALSE, TRUE, {}>>,
            <<FALSE, FALSE, {"c"}>>}}
With(p, lines) == [p EXCEPT !.commands = Commands(p, lines)]

SessionProjects ==
  { With(Contexts2, {<<"prog">>, <<"release">>}),
    With(Diamond, {<<"prog">>, <<"hdr", "prog">>}),
    With(SideProduct, {<<"prog">>}),
    With(Cyclic, {<<"prog">>, <<"hdr", "prog">>}),
    With(ContextAsPrerequisite, {<<"prog">>}) }
=============================================================================
