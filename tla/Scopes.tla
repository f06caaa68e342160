------------------------------ MODULE Scopes ------------------------------
(***************************************************************************)
(* Variables of the bludfile, of targets and of build contexts.  A target  *)
(* looks names up in its own table, then in that of the active build, which *)
(* Scope.build aliases, then in those of the bludfile, the environment and *)
(* the built-in rules.  Assignments keep unexpanded parts, so that what a  *)
(* variable means depends on who asks and on which build is active then.   *)
(*                                                                         *)
(* Left out: positional arguments; what is between two words.              *)
(***************************************************************************)
EXTENDS Naturals, Sequences, FiniteSets, SequencesExt

CONSTANTS
  Target, Build,        \* names of targets, those of build contexts among them
  Name, Word,           \* of variables; literal text
  Outer,                \* [Name -> parts or Nil]: the environment and the built-in rules
  Right,                \* sides of assignments
  MaxAssignments,
  Nil, Die

bludfile == "bludfile"
Scope == Target \cup {bludfile}

(* A name that was saved has a number that no name in a bludfile can have. *)
SavedName == Name \X (1 .. MaxAssignments)
AllName == Name \cup SavedName

(* $(NAME) is looked up at every expansion, ${NAME} when it is assigned.   *)
Literal == [text : Word]
Delayed == [delay : AllName]
Immediate == [immediate : Name]
Parts == Seq(Literal \cup Delayed)

(* What a bludfile can say: it cannot spell the name of a saved value.     *)
Spelled == Literal \cup [delay : Name]

ASSUME ScopesConstants ==
  /\ Build \subseteq Target /\ bludfile \notin Target
  /\ IsFiniteSet(Name) /\ Name \cap SavedName = {}
  /\ Outer \in [Name -> Seq(Spelled) \cup {Nil}]
  /\ Right \subseteq Seq(Spelled \cup Immediate)
  /\ MaxAssignments \in Nat /\ Nil \notin Parts \cup Build

VARIABLES
  variables,            \* [Scope -> [AllName -> Parts or Nil]]
  build_atom,           \* the active build, whose table is Scope.build.variables
  saved_value_count,
  assignments,          \* how many so far
  dead,                 \* error("die")
  assigned,             \* history: [Scope -> the words of assignments to it]
  switched              \* history: another build was activated after the first

vars == <<variables, build_atom, saved_value_count, assignments, dead, assigned, switched>>

-----------------------------------------------------------------------------
(***************************************************************************)
(* Lookup and expansion.                                                   *)
(***************************************************************************)
Chain(s) ==
  IF s = bludfile THEN <<s>>
  ELSE IF build_atom = Nil THEN <<s, bludfile>> ELSE <<s, build_atom, bludfile>>

(* get_macro: nil when nobody has it.                                      *)
Holding(s, n) == {i \in DOMAIN Chain(s) : variables[Chain(s)[i]][n] # Nil}
Macro(s, n) ==
  IF Holding(s, n) # {}
  THEN variables[Chain(s)[CHOOSE i \in Holding(s, n) : \A j \in Holding(s, n) : i <= j]][n]
  ELSE IF n \in Name THEN Outer[n] ELSE Nil

Concat(pieces) ==
  IF \E i \in DOMAIN pieces : pieces[i] = Die THEN Die ELSE FlattenSeq(pieces)

(* expand_tokens, with the value that each name has.                       *)
Tokens(parts, value) ==
  Concat([i \in DOMAIN parts |->
    IF "text" \in DOMAIN parts[i] THEN <<parts[i].text>> ELSE value[parts[i].delay]])

(* expand_call of every name, below the names that are being expanded.     *)
Call(macro) ==
  LET call[stack \in SUBSET AllName] ==
        [n \in AllName |->
          IF n \in stack THEN Die
          ELSE IF macro[n] = Nil THEN <<>>
          ELSE Tokens(macro[n], call[stack \cup {n}])]
  IN  call

Macros(s) == [n \in AllName |-> Macro(s, n)]
Expand(s, parts) == Tokens(parts, Call(Macros(s))[{}])

Text(s, n) == Expand(s, <<[delay |-> n]>>)

-----------------------------------------------------------------------------
Init ==
  /\ variables = [s \in Scope |-> [n \in AllName |-> Nil]]
  /\ build_atom = Nil /\ saved_value_count = 0
  /\ assignments = 0 /\ dead = FALSE
  /\ assigned = [s \in Scope |-> {}] /\ switched = FALSE

Entries(parts) == {parts[i] : i \in DOMAIN parts}

(* The compiler has ${NAME} expanded in Scope.bludfile, wherever it stands *)
(* in an assignment.                                                       *)
Evaluated(right) ==
  Concat([i \in DOMAIN right |->
    IF "immediate" \notin DOMAIN right[i] THEN <<right[i]>>
    ELSE LET words == Text(bludfile, right[i].immediate)
         IN  IF words = Die THEN Die ELSE [j \in DOMAIN words |-> [text |-> words[j]]]])

(* rewrite_self_references *)
Redirected(parts, n, saved) ==
  [i \in DOMAIN parts |-> IF parts[i] = [delay |-> n] THEN [delay |-> saved] ELSE parts[i]]

NumberAgain == 1                               \* mutant: there is one saved name
Number == saved_value_count + 1

TableOfHolder(s, n) ==                         \* mutant: appends to the table it found
  IF Holding(s, n) = {} THEN s
  ELSE Chain(s)[CHOOSE i \in Holding(s, n) : \A j \in Holding(s, n) : i <= j]
Table(s, n) == s

SavedInBuild(s) ==                             \* mutant: saves in Scope.build
  IF build_atom = Nil THEN s ELSE build_atom
SavedIn(s) == s

(* macro_assign_parts and the assign of a macro made of parts.             *)
Assign(s, n, op, right) ==
  LET parts == Evaluated(right)
      macro == Macro(s, n)
      old == IF macro = Nil THEN <<>> ELSE macro
      saved == <<n, Number>>
  IN
  /\ ~dead /\ parts # Die /\ assignments < MaxAssignments
  /\ \/ /\ op = "?=" /\ macro # Nil
        /\ UNCHANGED <<variables, saved_value_count>>
     \/ /\ op = "+="
        /\ variables' = [variables EXCEPT ![Table(s, n)][n] = old \o parts]
        /\ UNCHANGED saved_value_count
     \/ /\ op = "=" \/ (op = "?=" /\ macro = Nil)
        /\ saved_value_count' = Number
        /\ variables' =
             IF [delay |-> n] \in Entries(parts)
             THEN [variables EXCEPT ![SavedIn(s)][saved] = old,
                                    ![s][n] = Redirected(parts, n, saved)]
             ELSE [variables EXCEPT ![s][n] = parts]
  /\ assignments' = assignments + 1
  /\ assigned' = [assigned EXCEPT ![s] = @ \cup {p.text : p \in Entries(parts) \cap Literal}]
  /\ UNCHANGED <<build_atom, dead, switched>>

(* An immediate expansion that meets itself. *)
AssignDies(right) ==
  /\ ~dead /\ Evaluated(right) = Die
  /\ dead' = TRUE
  /\ UNCHANGED <<variables, build_atom, saved_value_count, assignments, assigned, switched>>

(* activate_build: a declaration of builds, or a root of the update.       *)
ActivateBuild(b) ==
  /\ ~dead /\ build_atom # b
  /\ build_atom' = b
  /\ switched' = (switched \/ build_atom # Nil)
  /\ UNCHANGED <<variables, saved_value_count, assignments, dead, assigned>>

Operators == {"=", "+=", "?="}

Next ==
  \/ \E s \in Scope, n \in Name, op \in Operators, right \in Right : Assign(s, n, op, right)
  \/ \E right \in Right : AssignDies(right)
  \/ \E b \in Build : ActivateBuild(b)

Spec == Init /\ [][Next]_vars

-----------------------------------------------------------------------------
(***************************************************************************)
(* Properties.                                                             *)
(***************************************************************************)

(* Types of the variables. *)
TypeOK ==
  /\ variables \in [Scope -> [AllName -> Parts \cup {Nil}]]
  /\ build_atom \in Build \cup {Nil}
  /\ saved_value_count \in 0 .. assignments /\ assignments \in 0 .. MaxAssignments
  /\ dead \in BOOLEAN /\ switched \in BOOLEAN
  /\ assigned \in [Scope -> SUBSET Word]

(* "A recursive assignment refers to the value that existed before the     *)
(* assignment, not to the replacement being defined" (macro.lua:9), for    *)
(* any number of them, in any scopes, and whatever else it refers to.      *)
Texts(s) == [n \in AllName |-> Text(s, n)]
SelfReference ==
  [][\A s \in Scope, n \in Name, right \in Right :
       Assign(s, n, "=", right) =>
         LET parts == Evaluated(right)
             Meant == [m \in AllName |-> IF m = n THEN Text(s, n) ELSE Texts(s)'[m]]
         IN  Texts(s)'[n] = Tokens(parts, Meant)]_vars

(* While no second build is activated, every saved value that a variable   *)
(* refers to is found by whoever sees the variable, also by one that got   *)
(* the reference by appending to an inherited value.                       *)
SavedFound ==
  ~switched =>
    \A s \in Scope, n \in AllName : Macro(s, n) # Nil =>
      \A p \in Entries(Macro(s, n)) :
        "delay" \in DOMAIN p /\ p.delay \in SavedName => Macro(s, p.delay) # Nil

OuterParts == UNION {Entries(Outer[n]) : n \in {m \in Name : Outer[m] # Nil}}
OuterWords == {p.text : p \in OuterParts \cap Literal}
WordsReach(t, n) ==
  Text(t, n) # Die =>
    Entries(Text(t, n)) \subseteq
      OuterWords \cup assigned[bludfile] \cup assigned[t]
        \cup (IF build_atom = Nil THEN {} ELSE assigned[build_atom])

(* While no second build is activated, the words of a target's variables   *)
(* were assigned to it, to the active build or further out.                *)
OwnWordsOfOneBuild == ~switched => \A t \in Target, n \in Name : WordsReach(t, n)

=============================================================================
