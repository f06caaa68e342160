----------------------------- MODULE RuleDecl -----------------------------
(***************************************************************************)
(* Rule declarations: what the evaluation of a bludfile leaves behind for  *)
(* the update.  Declarations with any of four operators come one after the *)
(* other; what the words of one expand to depends on the build context     *)
(* that is active by then.                                                 *)
(*                                                                         *)
(* A list of prerequisites is a table that several rules may hold, so it   *)
(* has an identity of its own.                                             *)
(***************************************************************************)
EXTENDS Naturals, Sequences, FiniteSets, Targets

CONSTANTS
  Name,                 \* of atoms
  Action, DefaultTestAction,
  Nil,
  Declarations,         \* that a bludfile is made of
  Requests,             \* the names on a command line
  MaxDeclarations       \* bounds a bludfile

Context == Name \cup {Nil}        \* the active build, if any

(* Targets and prerequisites as the words expand, and glob, in a context.  *)
Declaration ==
  [ operator      : {":", "::", ":BUILD:", ":TEST:"},
    targets       : [Context -> Seq(Name)],
    prerequisites : [Context -> Seq(Name)],
    action        : Action \cup {Nil} ]

ASSUME DeclarationConstants ==
  /\ Declarations \subseteq Declaration
  /\ Requests \subseteq Seq(Name)
  /\ Nil \notin Name \cup Action \cup {DefaultTestAction}
  /\ MaxDeclarations \in Nat

Operators == {":", "::", ":BUILD:", ":TEST:", ":BLUDTEST:"}

(* prereq_words: which of the lists.  test_target: of a test.              *)
Rule == [ operator : Operators, prereq_words : Nat \ {0},
          action : Action \cup {DefaultTestAction, Nil}, test_target : Name \cup {Nil} ]

ASSUME NilIsNoRule == Nil \notin Rule

VARIABLES
  request,
  rule,                 \* [Name -> Rule or Nil]
  lists,
  BOUND_NAME,           \* [Name -> the suite or build that bound it, or Nil]
  default_target, default_build, build_atom,
  pc, decl, next, test, \* the declaration at hand, its target, that one's test
  declared,             \* history: [Name -> the prerequisites declared for it]
  alone                 \* history: the targets whose list was made for them alone

defaults == <<default_target, default_build, build_atom>>
vars == <<request, rule, lists, BOUND_NAME, defaults, pc, decl, next, test, declared, alone>>

Ended == {"done", "error", "endless"}

(* The operands of the declaration at hand, its list of prerequisites made *)
(* before any target is looked at.                                         *)
target == decl.targets[next]
words == lists[decl.list]
Entries(s) == {s[i] : i \in DOMAIN s}
Prerequisites(t) == Entries(lists[rule[t].prereq_words])

-----------------------------------------------------------------------------
Init ==
  /\ request \in Requests
  /\ rule = [t \in Name |-> Nil] /\ lists = <<>>
  /\ BOUND_NAME = [t \in Name |-> Nil]
  /\ default_target = Nil /\ default_build = Nil /\ build_atom = Nil
  /\ pc = "read" /\ next = 1 /\ test = 1
  /\ decl = [operator |-> ":", targets |-> <<>>, list |-> 1, action |-> Nil]
  /\ declared = [t \in Name |-> {}] /\ alone = {}

TableBefore(ls) == Len(ls) - 1                 \* mutant: off by one
TableOfEqual(ls) ==                            \* mutant: equal lists are one table
  CHOOSE i \in DOMAIN ls : ls[i] = ls[Len(ls)]
NewTable(ls) == Len(ls)

(* Every declaration makes a list; suites and tests have one more each.    *)
Evaluated ==
  Len(lists) - Cardinality({t \in Name : rule[t] # Nil /\ rule[t].operator \in {":TEST:", ":BLUDTEST:"}})

(* eval_rule expands in Scope.build and EVAL_RULE makes a list of words.   *)
EvalRule ==
  /\ pc = "read" /\ Evaluated < MaxDeclarations
  /\ \E d \in Declarations :
       /\ lists' = Append(lists, d.prerequisites[build_atom])
       /\ decl' = [operator |-> d.operator, targets |-> d.targets[build_atom],
                   list |-> NewTable(lists'), action |-> d.action]
       /\ pc' = IF d.operator = ":BUILD:" /\ d.prerequisites[build_atom] # <<>>
                THEN "error" ELSE "target"
  /\ next' = 1 /\ test' = 1
  /\ UNCHANGED <<request, rule, BOUND_NAME, defaults, declared, alone>>

(* The first target of an operator that allows it.                         *)
SetDefaultTarget ==
  default_target' = IF default_target = Nil /\ decl.operator \in {":", "::"}
                    THEN target ELSE default_target

DeclaredFor(t) ==
  declared' = [declared EXCEPT ![t] = @ \cup Entries(words)]

-----------------------------------------------------------------------------
(***************************************************************************)
(* ADD_RULE of one target.  ":BUILD:" does something first, the others are *)
(* the general one.                                                        *)
(***************************************************************************)
Adding == pc = "target" /\ next <= Len(decl.targets)

AddBuild ==
  IF decl.operator = ":BUILD:"
  THEN /\ default_build' = IF default_build = Nil THEN target ELSE default_build
       /\ BOUND_NAME' = [BOUND_NAME EXCEPT ![target] = target]
  ELSE UNCHANGED <<default_build, BOUND_NAME>>

OpenAlways(t) == TRUE                          \* mutant: an action may be replaced
Open(t) == rule[t].action = Nil
OwnOperator == rule[target] # Nil /\ rule[target].operator = decl.operator

NewRule ==
  /\ Adding /\ decl.operator # ":TEST:" /\ rule[target] = Nil
  /\ ~(decl.operator = ":BUILD:" /\ decl.action # Nil)
  /\ SetDefaultTarget /\ AddBuild /\ DeclaredFor(target)
  /\ rule' = [rule EXCEPT ![target] =
                [operator |-> decl.operator, prereq_words |-> decl.list,
                 action |-> decl.action, test_target |-> Nil]]
  /\ alone' = IF Entries(decl.targets) = {target} THEN alone \cup {target} ELSE alone
  /\ next' = next + 1
  /\ UNCHANGED <<request, lists, build_atom, pc, decl, test>>

AppendedInstead(old, more) == more            \* mutant: the list is replaced
Appended(old, more) == old \o more

(* array_append(rule.prereq_words, prereq_words)                           *)
AddToRule ==
  /\ Adding /\ OwnOperator /\ decl.operator # ":TEST:"
  /\ ~(decl.operator = ":BUILD:" /\ decl.action # Nil)
  /\ Open(target)
  /\ rule[target].prereq_words # decl.list \/ words = <<>>
  /\ SetDefaultTarget /\ AddBuild /\ DeclaredFor(target)
  /\ lists' = [lists EXCEPT ![rule[target].prereq_words] = Appended(@, words)]
  /\ rule' = [rule EXCEPT ![target].action = decl.action]
  /\ next' = next + 1
  /\ UNCHANGED <<request, build_atom, pc, decl, test, alone>>

(* A list that is appended to itself never ends.                           *)
AppendToItself ==
  /\ Adding /\ OwnOperator /\ decl.operator # ":TEST:" /\ Open(target)
  /\ rule[target].prereq_words = decl.list /\ words # <<>>
  /\ SetDefaultTarget /\ AddBuild
  /\ pc' = "endless"
  /\ UNCHANGED <<request, rule, lists, build_atom, decl, next, test, declared, alone>>

(* More than one operator, more than one action, or a build with one.      *)
(* An error ends the process: what it had noted before is not read again,  *)
(* and is left out here and in RefuseTest.                                 *)
RefuseRule ==
  /\ Adding /\ decl.operator # ":TEST:"
  /\ \/ rule[target] # Nil /\ (~OwnOperator \/ ~Open(target))
     \/ decl.operator = ":BUILD:" /\ decl.action # Nil
  /\ SetDefaultTarget
  /\ pc' = "error"
  /\ UNCHANGED <<request, rule, lists, BOUND_NAME, default_build, build_atom,
                 decl, next, test, declared, alone>>

-----------------------------------------------------------------------------
(***************************************************************************)
(* ADD_RULE of :TEST:, a suite and then its tests.                         *)
(***************************************************************************)
AddSuite ==
  /\ Adding /\ decl.operator = ":TEST:"
  /\ rule[target] = Nil \/ OwnOperator
  /\ IF rule[target] = Nil
     THEN /\ lists' = Append(lists, <<>>)
          /\ rule' = [rule EXCEPT ![target] =
                        [operator |-> ":TEST:", prereq_words |-> NewTable(lists'),
                         action |-> Nil, test_target |-> Nil]]
          /\ alone' = alone \cup {target}
     ELSE UNCHANGED <<lists, rule, alone>>
  /\ pc' = IF words = <<>> THEN "error" ELSE "test"     \* matched no tests
  /\ test' = 1
  /\ UNCHANGED <<request, BOUND_NAME, defaults, decl, next, declared>>

RefuseSuite ==
  /\ Adding /\ decl.operator = ":TEST:"
  /\ rule[target] # Nil /\ ~OwnOperator
  /\ pc' = "error"
  /\ UNCHANGED <<request, rule, lists, BOUND_NAME, defaults, decl, next, test, declared, alone>>

Fits(t) ==
  /\ BOUND_NAME[t] \in {Nil, target}
  /\ rule[t] # Nil => rule[t].operator = ":BLUDTEST:" /\ rule[t].test_target = target

WithTestAgain(s, t) == Append(s, t)           \* mutant: however often it matches
WithTest(s, t) == IF t \in Entries(s) THEN s ELSE Append(s, t)

AddTest ==
  /\ pc = "test" /\ test <= Len(words)
  /\ LET t == words[test]
         suite == rule[target].prereq_words
         action == IF decl.action = Nil THEN DefaultTestAction ELSE decl.action
         grown == [lists EXCEPT ![suite] = WithTest(@, t)]
     IN  /\ Fits(t)
         /\ BOUND_NAME' = [BOUND_NAME EXCEPT ![t] = target]
         /\ IF rule[t] = Nil
            THEN /\ lists' = Append(grown, <<>>)
                 /\ rule' = [rule EXCEPT ![t] =
                               [operator |-> ":BLUDTEST:", prereq_words |-> NewTable(lists'),
                                action |-> action, test_target |-> target]]
            ELSE lists' = grown /\ rule' = [rule EXCEPT ![t].action = action]
         /\ declared' = [declared EXCEPT ![target] = @ \cup {t}]
  /\ test' = test + 1
  /\ UNCHANGED <<request, defaults, pc, decl, next, alone>>

RefuseTest ==
  /\ pc = "test" /\ test <= Len(words) /\ ~Fits(words[test])
  /\ pc' = "error"
  /\ UNCHANGED <<request, rule, lists, BOUND_NAME, defaults, decl, next, test, declared, alone>>

SuiteAdded ==
  /\ pc = "test" /\ test > Len(words)
  /\ pc' = "target" /\ next' = next + 1
  /\ UNCHANGED <<request, rule, lists, BOUND_NAME, defaults, decl, test, declared, alone>>

-----------------------------------------------------------------------------
Builds == {t \in Name : rule[t] # Nil /\ rule[t].operator = ":BUILD:"}

(* The first build that the command line names and that is declared by     *)
(* now, or the first that was declared.                                    *)
SelectDefault == default_build                \* mutant: whatever was asked for
SelectDeclaredBuild ==
  LET asked == {i \in DOMAIN request : request[i] \in Builds}
  IN  IF asked = {} THEN default_build
      ELSE request[CHOOSE i \in asked : \A j \in asked : i <= j]

RuleAdded ==
  /\ pc = "target" /\ next > Len(decl.targets)
  /\ IF decl.operator = ":BUILD:"
     THEN /\ build_atom' = SelectDeclaredBuild
          /\ pc' = IF SelectDeclaredBuild = Nil THEN "error" ELSE "read"
     ELSE pc' = "read" /\ UNCHANGED build_atom
  /\ UNCHANGED <<request, rule, lists, BOUND_NAME, default_target, default_build,
                 decl, next, test, declared, alone>>

EndOfBludfile ==
  /\ pc = "read" /\ pc' = "done"
  /\ UNCHANGED <<request, rule, lists, BOUND_NAME, defaults, decl, next, test, declared, alone>>

Stop == pc \in Ended /\ UNCHANGED vars

Next == EvalRule \/ NewRule \/ AddToRule \/ AppendToItself \/ RefuseRule
        \/ AddSuite \/ RefuseSuite \/ AddTest \/ RefuseTest \/ SuiteAdded
        \/ RuleAdded \/ EndOfBludfile \/ Stop

Spec == Init /\ [][Next]_vars

-----------------------------------------------------------------------------
(***************************************************************************)
(* Properties.                                                             *)
(***************************************************************************)

(* Types of the variables. *)
TypeOK ==
  /\ request \in Requests
  /\ rule \in [Name -> Rule \cup {Nil}] /\ lists \in Seq(Seq(Name))
  /\ \A t \in Name : rule[t] # Nil => rule[t].prereq_words \in DOMAIN lists
  /\ BOUND_NAME \in [Name -> Name \cup {Nil}]
  /\ default_target \in Context /\ default_build \in Context /\ build_atom \in Context
  /\ pc \in {"read", "target", "test"} \cup Ended
  /\ decl \in [operator : Operators, targets : Seq(Name), list : Nat \ {0},
               action : Action \cup {Nil}]
  /\ pc \in {"target", "test"} => decl.list \in DOMAIN lists
  /\ pc = "test" => next <= Len(decl.targets) /\ rule[target] # Nil
  /\ next \in Nat \ {0} /\ test \in Nat \ {0}
  /\ declared \in [Name -> SUBSET Name] /\ alone \in SUBSET Name

(* Declarations accumulate: no prerequisite that was declared for a target *)
(* is ever lost, and a rule whose list was made by a declaration of its    *)
(* target alone has no others, whichever lists other targets share: no     *)
(* later declaration adds to it unless it names the target (operator.lua   *)
(* ADD_RULE, util.lua array_append).                                       *)
ListsAccount ==
  \A t \in Name : rule[t] # Nil /\ rule[t].operator # ":BLUDTEST:" =>
    /\ declared[t] \subseteq Prerequisites(t)
    /\ t \in alone => Prerequisites(t) \subseteq declared[t]

(* A rule stays with its operator, its list and its suite, and an action   *)
(* is replaced only by a later declaration of the suite.                   *)
RulesStay ==
  [][\A t \in Name : rule[t] # Nil =>
       /\ rule'[t] # Nil
       /\ \A f \in {"operator", "prereq_words", "test_target"} : rule'[t][f] = rule[t][f]
       /\ rule[t].action # Nil /\ rule[t].operator # ":BLUDTEST:" =>
            rule'[t].action = rule[t].action]_vars

Suites == {t \in Name : rule[t] # Nil /\ rule[t].operator = ":TEST:"}
Tests(s) == {t \in Name : rule[t] # Nil /\ rule[t].test_target = s}
Owns(s) ==
  LET list == lists[rule[s].prereq_words] IN
  /\ Entries(list) = Tests(s)
  /\ \A i, j \in DOMAIN list : list[i] = list[j] => i = j
  /\ \A t \in Tests(s) : BOUND_NAME[t] = s /\ rule[t].action # Nil

(* A suite and its tests agree: each test is in the list of its suite      *)
(* once and is bound there, and the list holds nothing else, however the   *)
(* patterns of one or of several declarations overlap.                     *)
SuiteOwnsTests == \A s \in Suites : Owns(s)

(* Evaluation hangs only in a declaration that names a target twice.       *)
EndlessOnRepeat ==
  pc = "endless" => \E i \in 1 .. next - 1 : decl.targets[i] = target

(* Rules expand in the context that their targets are built in, when the   *)
(* command line names a context at most as its first word: the evaluation  *)
(* and infer_targets choose contexts independently of each other.          *)
ExpandedWhereBuilt ==
  LET asked == IF request = <<>> THEN <<default_target>> ELSE request
      roots == ConcreteTargets(asked, Builds, default_target, default_build, Nil)
  IN  pc = "done" /\ default_target # Nil /\ default_build # Nil
      /\ (\A i \in DOMAIN asked : asked[i] \in Builds => i = 1) =>
        \A i \in DOMAIN roots : roots[i] \in Builds => roots[i] = build_atom
=============================================================================
