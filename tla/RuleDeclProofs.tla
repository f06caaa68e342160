-------------------------- MODULE RuleDeclProofs --------------------------
(***************************************************************************)
(* Lists of prerequisites, suites and their tests, for every bludfile and  *)
(* command line.                                                           *)
(***************************************************************************)
EXTENDS RuleDecl, WellFoundedInduction, NaturalsInduction, TLAPS

(* Exactly what the prerequisites of a rule are: those declared for the    *)
(* targets that its list is shared with.                                   *)
Sharing(t) == {u \in Name : rule[u] # Nil /\ rule[u].prereq_words = rule[t].prereq_words}
Accounted(t) == Prerequisites(t) = UNION {declared[u] : u \in Sharing(t)}
SharedAccount ==
  \A t \in Name : rule[t] # Nil /\ rule[t].operator # ":BLUDTEST:" => Accounted(t)

(* A list that was made for one target alone is never shared, since only   *)
(* the targets of the declaration that made it get it.                     *)
Unshared ==
  \A t \in alone :
    /\ rule[t] # Nil /\ Sharing(t) = {t}
    /\ pc \in {"target", "test"} /\ rule[t].prereq_words = decl.list =>
         Entries(decl.targets) = {t}

(* Who holds the list of the declaration at hand is one of its targets     *)
(* that were handled already; suites and tests hold lists of their own.    *)
Holders ==
  /\ pc \in {"target", "test"} =>
       \A t \in Name : rule[t] # Nil /\ rule[t].prereq_words = decl.list =>
         /\ rule[t].operator = decl.operator /\ decl.operator # ":TEST:"
         /\ \E i \in 1 .. next - 1 : decl.targets[i] = t
  /\ \A t \in Name : rule[t] # Nil /\ rule[t].operator \in {":TEST:", ":BLUDTEST:"} =>
       Sharing(t) = {t}
  /\ \A t \in Name : rule[t] = Nil => declared[t] = {}

(* Only tests have a suite, and it is one.                                 *)
Ownership ==
  /\ decl.operator # ":BLUDTEST:"
  /\ pc = "test" => decl.operator = ":TEST:" /\ OwnOperator
  /\ \A t \in Name : rule[t] # Nil =>
       /\ rule[t].operator = ":BLUDTEST:" <=> rule[t].test_target # Nil
       /\ rule[t].test_target # Nil => rule[t].test_target \in Suites

DeclInv ==
  TypeOK /\ Holders /\ Ownership /\ SharedAccount /\ Unshared /\ SuiteOwnsTests
  /\ EndlessOnRepeat

(* A bludfile starts without rules.                                        *)
LEMMA DeclInit == Init => DeclInv
<1> SUFFICES ASSUME Init PROVE DeclInv
  OBVIOUS
<1>1. TypeOK
  BY DeclarationConstants DEF Init, TypeOK, Context, Operators, Rule, Ended
<1>2. \A t \in Name : rule[t] = Nil
  BY DEF Init
<1>3. Holders /\ Ownership
  BY <1>2 DEF Init, Holders, Ownership
<1>4. SharedAccount /\ Unshared /\ SuiteOwnsTests /\ EndlessOnRepeat
  BY <1>2 DEF Init, SharedAccount, Unshared, SuiteOwnsTests, Suites, EndlessOnRepeat
<1> QED BY <1>1, <1>3, <1>4 DEF DeclInv

(* A new list is in nobody's hands yet.                                    *)
LEMMA FreshTable ==
  ASSUME NEW ls \in Seq(Seq(Name)), NEW s \in Seq(Name)
  PROVE  /\ Append(ls, s) \in Seq(Seq(Name))
         /\ Len(Append(ls, s)) \in DOMAIN Append(ls, s)
         /\ Len(Append(ls, s)) \notin DOMAIN ls
         /\ Append(ls, s)[Len(Append(ls, s))] = s
         /\ \A i \in DOMAIN ls : i \in DOMAIN Append(ls, s) /\ Append(ls, s)[i] = ls[i]
  OBVIOUS

(* What concatenation and Append put in, and nothing else, is in.          *)
LEMMA EntriesOf ==
  ASSUME NEW s \in Seq(Name), NEW r \in Seq(Name), NEW n \in Name
  PROVE  /\ s \o r \in Seq(Name) /\ Entries(s \o r) = Entries(s) \cup Entries(r)
         /\ Append(s, n) \in Seq(Name) /\ Entries(Append(s, n)) = Entries(s) \cup {n}
         /\ Entries(s) \in SUBSET Name
<1>1. s \o r \in Seq(Name) /\ Append(s, n) \in Seq(Name)
  OBVIOUS
<1>2. Entries(s \o r) = Entries(s) \cup Entries(r)
  <2>1. \A i \in DOMAIN s : i \in DOMAIN (s \o r) /\ (s \o r)[i] = s[i]
    OBVIOUS
  <2>2. \A i \in DOMAIN r : Len(s) + i \in DOMAIN (s \o r) /\ (s \o r)[Len(s) + i] = r[i]
    OBVIOUS
  <2>3. \A i \in DOMAIN (s \o r) :
          \/ i \in DOMAIN s /\ (s \o r)[i] = s[i]
          \/ i - Len(s) \in DOMAIN r /\ (s \o r)[i] = r[i - Len(s)]
    OBVIOUS
  <2>4. ASSUME NEW x \in Entries(s) \cup Entries(r) PROVE x \in Entries(s \o r)
    <3>1. CASE x \in Entries(s)
      BY <2>1, <3>1 DEF Entries
    <3>2. CASE x \in Entries(r)
      <4>1. PICK i \in DOMAIN r : r[i] = x
        BY <3>2 DEF Entries
      <4> QED BY <2>2, <4>1 DEF Entries
    <3> QED BY <2>4, <3>1, <3>2
  <2>5. ASSUME NEW x \in Entries(s \o r) PROVE x \in Entries(s) \cup Entries(r)
    <3>1. PICK i \in DOMAIN (s \o r) : (s \o r)[i] = x
      BY <2>5 DEF Entries
    <3> QED BY <2>3, <3>1 DEF Entries
  <2> QED BY <2>4, <2>5
<1>3. Entries(Append(s, n)) = Entries(s) \cup {n}
  <2>1. /\ \A i \in DOMAIN s : i \in DOMAIN Append(s, n) /\ Append(s, n)[i] = s[i]
        /\ Len(s) + 1 \in DOMAIN Append(s, n) /\ Append(s, n)[Len(s) + 1] = n
        /\ \A i \in DOMAIN Append(s, n) : i \in DOMAIN s \/ i = Len(s) + 1
    OBVIOUS
  <2> QED BY <2>1 DEF Entries
<1>4. Entries(s) \in SUBSET Name
  BY DEF Entries
<1> QED BY <1>1, <1>2, <1>3, <1>4

(* Among the words of a command line that name something there is a first. *)
LEMMA FirstAsked ==
  ASSUME NEW s \in Seq(Name), NEW S,
         {i \in DOMAIN s : s[i] \in S} # {}
  PROVE  \E i \in {i \in DOMAIN s : s[i] \in S} :
           \A j \in {k \in DOMAIN s : s[k] \in S} : i <= j
<1> DEFINE asked == {i \in DOMAIN s : s[i] \in S}
<1>1. asked \in SUBSET Nat /\ asked # {}
  OBVIOUS
<1> HIDE DEF asked
<1> DEFINE R == OpToRel(<, Nat)
<1>2. \A i, j \in Nat : <<i, j>> \in R <=> i < j
  BY DEF OpToRel
<1>3. IsWellFoundedOn(R, Nat)
  BY NatLessThanWellFounded
<1> HIDE DEF R
<1>4. \E i \in asked : \A j \in asked : <<j, i>> \notin R
  BY <1>1, <1>3, WFMin, Zenon
<1>5. PICK i \in asked : \A j \in asked : <<j, i>> \notin R
  BY <1>4
<1>6. i \in Nat /\ \A j \in asked : j \in Nat /\ ~(j < i)
  BY <1>1, <1>2, <1>5
<1>7. \A j \in asked : i <= j
  BY <1>6
<1> QED BY <1>5, <1>7 DEF asked

(* What ADD_RULE notes of a target besides its rule.                       *)
LEMMA DefaultsTyped ==
  ASSUME TypeOK, target \in Name, SetDefaultTarget,
         AddBuild \/ UNCHANGED <<default_build, BOUND_NAME>>
  PROVE  /\ default_target' \in Context /\ default_build' \in Context
         /\ BOUND_NAME' \in [Name -> Name \cup {Nil}]
<1> DEFINE t == target
<1>1. t \in Name
  OBVIOUS
<1>2. default_target' \in {default_target, t}
  BY DEF SetDefaultTarget
<1>3. /\ default_build' \in {default_build, t}
      /\ BOUND_NAME' = BOUND_NAME \/ BOUND_NAME' = [BOUND_NAME EXCEPT ![t] = t]
  BY DEF AddBuild
<1> HIDE DEF t
<1>4. default_target \in Context /\ default_build \in Context
      /\ BOUND_NAME \in [Name -> Name \cup {Nil}]
  BY DEF TypeOK
<1>5. default_target' \in Context /\ default_build' \in Context
  BY <1>1, <1>2, <1>3, <1>4, Zenon DEF Context
<1>6. BOUND_NAME' \in [Name -> Name \cup {Nil}]
  BY <1>1, <1>3, <1>4
<1> QED BY <1>5, <1>6

(* Every step keeps the types.                                             *)
LEMMA DeclTypes == TypeOK /\ [Next]_vars => TypeOK'
<1> SUFFICES ASSUME TypeOK, [Next]_vars PROVE TypeOK'
  OBVIOUS
<1> USE NilIsNoRule DEF TypeOK
<1>1. CASE EvalRule
  <2>1. PICK d \in Declarations :
          /\ lists' = Append(lists, d.prerequisites[build_atom])
          /\ decl' = [operator |-> d.operator, targets |-> d.targets[build_atom],
                      list |-> Len(lists'), action |-> d.action]
          /\ pc' \in {"error", "target"}
    BY <1>1 DEF EvalRule, NewTable
  <2>2. d \in Declaration
    BY DeclarationConstants
  <2>3. d.prerequisites[build_atom] \in Seq(Name) /\ d.targets[build_atom] \in Seq(Name)
    BY <2>2 DEF Declaration
  <2>4. /\ lists' \in Seq(Seq(Name)) /\ Len(lists') \in DOMAIN lists' /\ Len(lists') \in Nat \ {0}
        /\ \A i \in DOMAIN lists : i \in DOMAIN lists'
    BY <2>1, <2>3, FreshTable
  <2>5. decl' \in [operator : Operators, targets : Seq(Name), list : Nat \ {0},
                  action : Action \cup {Nil}]
    BY <2>1, <2>2, <2>3, <2>4 DEF Declaration, Operators
  <2>6. decl'.list = Len(lists')
    BY <2>1
  <2> QED BY <1>1, <2>1, <2>4, <2>5, <2>6 DEF EvalRule, defaults, Ended
<1>2. CASE NewRule \/ AddToRule
  <2>1. target \in Name /\ words \in Seq(Name) /\ decl.list \in DOMAIN lists
    BY <1>2 DEF NewRule, AddToRule, Adding, target, words
  <2>2. /\ default_target' \in Context /\ default_build' \in Context
        /\ BOUND_NAME' \in [Name -> Name \cup {Nil}]
    <3>1. SetDefaultTarget /\ AddBuild
      BY <1>2 DEF NewRule, AddToRule
    <3> QED BY <2>1, <3>1, DefaultsTyped
  <2>3. declared' \in [Name -> SUBSET Name]
    <3>1. Entries(words) \in SUBSET Name
      BY <2>1, EntriesOf
    <3>2. declared' = [declared EXCEPT ![target] = @ \cup Entries(words)]
      BY <1>2 DEF NewRule, AddToRule, DeclaredFor
    <3> DEFINE t == target
               more == Entries(words)
    <3>3. t \in Name /\ more \in SUBSET Name /\ declared' = [declared EXCEPT ![t] = @ \cup more]
      BY <2>1, <3>1, <3>2
    <3> HIDE DEF t, more
    <3> QED BY <3>3
  <2>4. lists' \in Seq(Seq(Name)) /\ DOMAIN lists' = DOMAIN lists
    <3>1. CASE NewRule
      BY <3>1 DEF NewRule
    <3>2. CASE AddToRule
      <4>1. rule[target] \in Rule /\ rule[target].prereq_words \in DOMAIN lists
        BY <2>1, <3>2 DEF AddToRule, OwnOperator
      <4>2. lists[rule[target].prereq_words] \in Seq(Name)
        BY <4>1
      <4>3. lists[rule[target].prereq_words] \o words \in Seq(Name)
        BY <2>1, <4>2
      <4> DEFINE l == rule[target].prereq_words
                 long == lists[l] \o words
      <4>4. l \in DOMAIN lists /\ long \in Seq(Name) /\ lists' = [lists EXCEPT ![l] = long]
        BY <3>2, <4>1, <4>3 DEF AddToRule, Appended
      <4> HIDE DEF l, long
      <4> QED BY <4>4
    <3> QED BY <1>2, <3>1, <3>2
  <2>5. /\ rule' \in [Name -> Rule \cup {Nil}]
        /\ \A t \in Name : rule'[t] # Nil => rule'[t].prereq_words \in DOMAIN lists
    <3>1. CASE NewRule
      <4> DEFINE new == [operator |-> decl.operator, prereq_words |-> decl.list,
                         action |-> decl.action, test_target |-> Nil]
      <4>1. new \in Rule /\ new.prereq_words \in DOMAIN lists
        BY <2>1 DEF Rule
      <4>2. rule' = [rule EXCEPT ![target] = new]
        BY <3>1 DEF NewRule
      <4> HIDE DEF new
      <4> QED BY <2>1, <4>1, <4>2
    <3>2. CASE AddToRule
      <4>1. rule[target] \in Rule
        BY <2>1, <3>2 DEF AddToRule, OwnOperator
      <4>2. rule' = [rule EXCEPT ![target].action = decl.action]
        BY <3>2 DEF AddToRule
      <4>3. /\ rule'[target] = [rule[target] EXCEPT !.action = decl.action]
            /\ \A t \in Name \ {target} : rule'[t] = rule[t]
            /\ rule' \in [Name -> {rule'[t] : t \in Name}]
        BY <2>1, <4>2
      <4>4. rule'[target] \in Rule /\ rule'[target].prereq_words = rule[target].prereq_words
        BY <4>1, <4>3 DEF Rule
      <4>5. rule' \in [Name -> Rule \cup {Nil}]
        BY <4>3, <4>4
      <4> QED BY <4>1, <4>3, <4>4, <4>5
    <3> QED BY <1>2, <3>1, <3>2
  <2>6. next' \in Nat \ {0} /\ pc' = pc /\ pc = "target"
    BY <1>2 DEF NewRule, AddToRule, Adding
  <2>7. UNCHANGED <<request, build_atom, decl, test>>
    BY <1>2 DEF NewRule, AddToRule
  <2>8. alone' \in SUBSET Name
    <3>1. alone' \in {alone, alone \cup {target}} /\ alone \in SUBSET Name
      BY <1>2 DEF NewRule, AddToRule
    <3> QED BY <2>1, <3>1
  <2> QED BY <2>1, <2>2, <2>3, <2>4, <2>5, <2>6, <2>7, <2>8
<1>3. CASE AppendToItself \/ RefuseRule
  <2>1. target \in Name
    BY <1>3 DEF AppendToItself, RefuseRule, Adding, target
  <2>2. /\ default_target' \in Context /\ default_build' \in Context
        /\ BOUND_NAME' \in [Name -> Name \cup {Nil}]
    <3>1. SetDefaultTarget /\ (AddBuild \/ UNCHANGED <<default_build, BOUND_NAME>>)
      BY <1>3 DEF AppendToItself, RefuseRule
    <3> QED BY <2>1, <3>1, DefaultsTyped
  <2> QED BY <1>3, <2>2 DEF AppendToItself, RefuseRule, Ended
<1>4. CASE AddSuite
  <2>1. target \in Name /\ target' = target /\ next <= Len(decl.targets)
    BY <1>4 DEF AddSuite, Adding, target
  <2>2. /\ lists' \in Seq(Seq(Name)) /\ \A i \in DOMAIN lists : i \in DOMAIN lists'
        /\ rule' \in [Name -> Rule \cup {Nil}] /\ rule'[target] # Nil
        /\ \A t \in Name : rule'[t] # Nil => rule'[t].prereq_words \in DOMAIN lists'
    <3>1. CASE rule[target] # Nil
      BY <1>4, <2>1, <3>1 DEF AddSuite
    <3>2. CASE rule[target] = Nil
      <4> DEFINE new == [operator |-> ":TEST:", prereq_words |-> Len(lists'),
                         action |-> Nil, test_target |-> Nil]
      <4>1. lists' = Append(lists, <<>>) /\ rule' = [rule EXCEPT ![target] = new]
        BY <1>4, <3>2 DEF AddSuite, NewTable
      <4>2. /\ lists' \in Seq(Seq(Name)) /\ Len(lists') \in DOMAIN lists'
            /\ Len(lists') \in Nat \ {0} /\ \A i \in DOMAIN lists : i \in DOMAIN lists'
        BY <4>1, FreshTable
      <4>3. new \in Rule /\ new.prereq_words = Len(lists')
        BY <4>2 DEF Rule, Operators
      <4> HIDE DEF new
      <4> QED BY <2>1, <4>1, <4>2, <4>3
    <3> QED BY <3>1, <3>2
  <2>3. pc' \in {"error", "test"} /\ test' = 1
        /\ UNCHANGED <<request, BOUND_NAME, default_target, default_build, build_atom,
                       decl, next, declared>>
    BY <1>4 DEF AddSuite, defaults
  <2>4. pc \in {"target", "test"}
    BY <1>4 DEF AddSuite, Adding
  <2>5. alone' \in SUBSET Name
    <3>1. alone' \in {alone, alone \cup {target}} /\ alone \in SUBSET Name
      BY <1>4 DEF AddSuite
    <3> QED BY <2>1, <3>1
  <2> HIDE DEF target
  <2> QED BY <2>1, <2>2, <2>3, <2>4, <2>5, SMTT(30) DEF Ended
<1>5. CASE AddTest
  <2> DEFINE t == words[test]
             s == rule[target].prereq_words
             grown == [lists EXCEPT ![s] = WithTest(@, t)]
  <2>1. /\ target \in Name /\ target' = target /\ t \in Name /\ rule[target] \in Rule
        /\ s \in DOMAIN lists /\ pc = "test" /\ decl.list \in DOMAIN lists
    BY <1>5 DEF AddTest, target, words
  <2>2. grown \in Seq(Seq(Name)) /\ DOMAIN grown = DOMAIN lists
    <3>1. WithTest(lists[s], t) \in Seq(Name)
      BY <2>1 DEF WithTest
    <3> QED BY <2>1, <3>1
  <2>3. /\ lists' \in Seq(Seq(Name)) /\ \A i \in DOMAIN lists : i \in DOMAIN lists'
        /\ rule' \in [Name -> Rule \cup {Nil}]
        /\ \A u \in Name : rule'[u] # Nil => rule'[u].prereq_words \in DOMAIN lists'
        /\ \A u \in Name : rule[u] # Nil => rule'[u] # Nil
    <3> DEFINE action == IF decl.action = Nil THEN DefaultTestAction ELSE decl.action
    <3>1. action \in Action \cup {DefaultTestAction, Nil}
      OBVIOUS
    <3>2. CASE rule[t] = Nil
      <4> DEFINE new == [operator |-> ":BLUDTEST:", prereq_words |-> Len(lists'),
                         action |-> action, test_target |-> target]
      <4>1. lists' = Append(grown, <<>>) /\ rule' = [rule EXCEPT ![t] = new]
        BY <1>5, <3>2 DEF AddTest, NewTable
      <4>2. /\ lists' \in Seq(Seq(Name)) /\ Len(lists') \in DOMAIN lists'
            /\ Len(lists') \in Nat \ {0} /\ \A i \in DOMAIN lists : i \in DOMAIN lists'
        <5> HIDE DEF grown
        <5> QED BY <2>2, <4>1, FreshTable
      <4>3. new \in Rule /\ new.prereq_words = Len(lists')
        BY <2>1, <3>1, <4>2 DEF Rule, Operators
      <4> HIDE DEF new, t
      <4> QED BY <2>1, <4>1, <4>2, <4>3
    <3>3. CASE rule[t] # Nil
      <4>1. lists' = grown /\ rule' = [rule EXCEPT ![t].action = action]
        BY <1>5, <3>3 DEF AddTest
      <4>2. rule[t] \in Rule
        BY <2>1, <3>3
      <4>3. /\ rule'[t] = [rule[t] EXCEPT !.action = action]
            /\ \A u \in Name \ {t} : rule'[u] = rule[u]
            /\ rule' \in [Name -> {rule'[u] : u \in Name}]
        <5> HIDE DEF t, action
        <5> QED BY <2>1, <4>1
      <4>4. rule'[t] \in Rule /\ rule'[t].prereq_words = rule[t].prereq_words
        <5> HIDE DEF t, action
        <5> QED BY <3>1, <4>2, <4>3 DEF Rule
      <4>5. rule' \in [Name -> Rule \cup {Nil}]
        BY <4>3, <4>4
      <4> HIDE DEF t, grown, action
      <4>6. \A u \in Name : rule[u] # Nil =>
              rule'[u] # Nil /\ rule'[u].prereq_words = rule[u].prereq_words
        BY <2>1, <4>2, <4>3, <4>4
      <4>7. \A u \in Name : rule'[u] # Nil => rule[u] # Nil
        BY <3>3, <4>3
      <4> QED BY <2>2, <4>1, <4>5, <4>6, <4>7
    <3> QED BY <3>2, <3>3
  <2>4. BOUND_NAME' \in [Name -> Name \cup {Nil}] /\ declared' \in [Name -> SUBSET Name]
    <3>1. BOUND_NAME \in [Name -> Name \cup {Nil}] /\ declared \in [Name -> SUBSET Name]
      OBVIOUS
    <3> HIDE DEF TypeOK
    <3>2. /\ t \in Name /\ target \in Name
          /\ BOUND_NAME' = [BOUND_NAME EXCEPT ![t] = target]
          /\ declared' = [declared EXCEPT ![target] = @ \cup {t}]
      BY <1>5, <2>1 DEF AddTest
    <3> HIDE DEF s, grown, t
    <3> QED BY <3>1, <3>2
  <2>5. UNCHANGED <<request, default_target, default_build, build_atom, pc, decl, next, alone>>
        /\ test' \in Nat \ {0}
    <3>1. test \in Nat \ {0}
      OBVIOUS
    <3> HIDE DEF TypeOK
    <3> QED BY <1>5, <3>1 DEF AddTest, defaults
  <2> HIDE DEF t, s, grown
  <2> QED BY <2>1, <2>3, <2>4, <2>5, SMTT(30)
<1>6. CASE RefuseSuite \/ RefuseTest \/ SuiteAdded \/ EndOfBludfile
  <2>1. /\ pc' \in {"target", "error", "done"} /\ next' \in {next, next + 1}
        /\ pc' = "target" => pc = "test"
        /\ UNCHANGED <<request, rule, lists, BOUND_NAME, default_target, default_build,
                       build_atom, decl, test, declared, alone>>
    <3> HIDE DEF TypeOK
    <3> QED BY <1>6 DEF RefuseSuite, RefuseTest, SuiteAdded, EndOfBludfile, defaults
  <2> QED BY <2>1, SMTT(20) DEF Ended
<1>7. CASE RuleAdded
  <2>1. SelectDeclaredBuild \in Context
    <3>1. request \in Seq(Name)
      BY DeclarationConstants
    <3>2. \A i \in DOMAIN request : i \in Nat /\ request[i] \in Name
      BY <3>1
    <3>3. Builds \subseteq Name
      BY DEF Builds
    <3>4. CASE {i \in DOMAIN request : request[i] \in Builds} = {}
      BY <3>4 DEF SelectDeclaredBuild
    <3>5. CASE {i \in DOMAIN request : request[i] \in Builds} # {}
      <4> DEFINE asked == {i \in DOMAIN request : request[i] \in Builds}
      <4>1. \E i \in asked : \A j \in asked : i <= j
        BY <3>1, <3>5, FirstAsked
      <4>2. (CHOOSE i \in asked : \A j \in asked : i <= j) \in asked
        BY <4>1
      <4> QED BY <3>2, <3>5, <4>2 DEF SelectDeclaredBuild, Context
    <3> QED BY <3>4, <3>5
  <2> QED BY <1>7, <2>1 DEF RuleAdded, Ended
<1>8. CASE Stop \/ UNCHANGED vars
  BY <1>8 DEF Stop, vars, defaults, target
<1> QED BY <1>1, <1>2, <1>3, <1>4, <1>5, <1>6, <1>7, <1>8 DEF Next

(* A rule that a step leaves with its operator, its list and its suite.    *)
Kept(t) ==
  /\ rule'[t] # Nil
  /\ rule'[t].operator = rule[t].operator
  /\ rule'[t].prereq_words = rule[t].prereq_words
  /\ rule'[t].test_target = rule[t].test_target

(* A step makes a rule, or gives one another action.                       *)
Made(t, r) == rule[t] = Nil /\ rule' = [rule EXCEPT ![t] = r] /\ r \in Rule
Refit(t, a) == rule[t] # Nil /\ rule' = [rule EXCEPT ![t].action = a]

LEMMA RulesMade ==
  ASSUME TypeOK, NEW n \in Name, NEW r, Made(n, r)
  PROVE  /\ rule'[n] = r /\ r # Nil
         /\ \A u \in Name \ {n} : rule'[u] = rule[u]
         /\ \A u \in Name : rule[u] # Nil => Kept(u) /\ rule'[u] = rule[u]
BY NilIsNoRule DEF TypeOK, Made, Kept

LEMMA RulesRefit ==
  ASSUME TypeOK, NEW n \in Name, NEW a \in Action \cup {DefaultTestAction, Nil}, Refit(n, a)
  PROVE  /\ rule'[n].action = a /\ rule'[n] # Nil
         /\ \A u \in Name \ {n} : rule'[u] = rule[u]
         /\ \A u \in Name : rule[u] # Nil <=> rule'[u] # Nil
         /\ \A u \in Name : rule[u] # Nil => Kept(u)
<1>1. rule[n] \in Rule
  BY DEF TypeOK, Refit
<1>2. rule'[n] = [rule[n] EXCEPT !.action = a] /\ \A u \in Name \ {n} : rule'[u] = rule[u]
  BY DEF TypeOK, Refit
<1>3. /\ rule'[n] \in Rule /\ rule'[n].action = a
      /\ rule'[n].operator = rule[n].operator
      /\ rule'[n].prereq_words = rule[n].prereq_words
      /\ rule'[n].test_target = rule[n].test_target
  BY <1>1, <1>2 DEF Rule
<1>4. rule'[n] # Nil
  BY <1>3, NilIsNoRule
<1> QED BY <1>2, <1>3, <1>4 DEF Kept, Refit

(* What each action does to the rules.                                     *)
LEMMA NewRuleMakes ==
  ASSUME TypeOK, NewRule
  PROVE  /\ target \in Name
         /\ \E r : /\ Made(target, r)
                   /\ r = [operator |-> decl.operator, prereq_words |-> decl.list,
                           action |-> decl.action, test_target |-> Nil]
<1>1. target \in Name
  BY DEF TypeOK, NewRule, Adding, target
<1> DEFINE r == [operator |-> decl.operator, prereq_words |-> decl.list,
                 action |-> decl.action, test_target |-> Nil]
<1>2. r \in Rule
  BY DEF TypeOK, Rule
<1>3. rule[target] = Nil /\ rule' = [rule EXCEPT ![target] = r]
  BY DEF NewRule
<1> QED BY <1>1, <1>2, <1>3 DEF Made

LEMMA AddToRuleRefits ==
  ASSUME TypeOK, AddToRule
  PROVE  /\ target \in Name /\ decl.action \in Action \cup {DefaultTestAction, Nil}
         /\ Refit(target, decl.action) /\ Open(target)
BY DEF TypeOK, AddToRule, Adding, target, OwnOperator, Refit

LEMMA AddSuiteMakes ==
  ASSUME TypeOK, AddSuite, rule[target] = Nil
  PROVE  /\ target \in Name
         /\ lists' = Append(lists, <<>>)
         /\ \E r : /\ Made(target, r)
                   /\ r = [operator |-> ":TEST:", prereq_words |-> Len(lists'),
                           action |-> Nil, test_target |-> Nil]
<1>1. target \in Name
  BY DEF TypeOK, AddSuite, Adding, target
<1> DEFINE r == [operator |-> ":TEST:", prereq_words |-> Len(lists'),
                 action |-> Nil, test_target |-> Nil]
<1>2. lists' = Append(lists, <<>>) /\ rule' = [rule EXCEPT ![target] = r]
  BY DEF AddSuite, NewTable
<1>3. Len(lists') \in Nat \ {0}
  BY <1>2 DEF TypeOK
<1>4. r \in Rule
  BY <1>3 DEF Rule, Operators
<1> QED BY <1>1, <1>2, <1>4 DEF Made

LEMMA AddTestMakes ==
  ASSUME TypeOK, AddTest
  PROVE  LET t == words[test]
             a == IF decl.action = Nil THEN DefaultTestAction ELSE decl.action
         IN  /\ target \in Name /\ t \in Name /\ rule[target] \in Rule /\ Fits(t)
             /\ rule[target].prereq_words \in DOMAIN lists
             /\ a \in (Action \cup {DefaultTestAction}) \ {Nil}
             /\ rule[t] = Nil =>
                  /\ Len(lists') = Len(lists) + 1
                  /\ \E r : /\ Made(t, r)
                            /\ r = [operator |-> ":BLUDTEST:", prereq_words |-> Len(lists'),
                                    action |-> a, test_target |-> target]
             /\ rule[t] # Nil => Refit(t, a)
<1> DEFINE t == words[test]
           a == IF decl.action = Nil THEN DefaultTestAction ELSE decl.action
           grown == [lists EXCEPT ![rule[target].prereq_words] = WithTest(@, t)]
<1>1. /\ target \in Name /\ t \in Name /\ rule[target] \in Rule /\ Fits(t)
      /\ rule[target].prereq_words \in DOMAIN lists
  BY DEF TypeOK, AddTest, target, words
<1>2. a \in (Action \cup {DefaultTestAction}) \ {Nil}
  BY DeclarationConstants DEF TypeOK
<1>3. ASSUME rule[t] = Nil
      PROVE  /\ Len(lists') = Len(lists) + 1
             /\ \E r : /\ Made(t, r)
                       /\ r = [operator |-> ":BLUDTEST:", prereq_words |-> Len(lists'),
                               action |-> a, test_target |-> target]
  <2> DEFINE r == [operator |-> ":BLUDTEST:", prereq_words |-> Len(lists'),
                   action |-> a, test_target |-> target]
  <2>1. lists' = Append(grown, <<>>) /\ rule' = [rule EXCEPT ![t] = r]
    BY <1>3 DEF AddTest, NewTable
  <2>2. Len(grown) = Len(lists) /\ grown \in Seq(Seq(Name))
    <3>1. WithTest(lists[rule[target].prereq_words], t) \in Seq(Name)
      BY <1>1 DEF WithTest, TypeOK
    <3> QED BY <1>1, <3>1 DEF TypeOK
  <2>3. Len(lists') = Len(lists) + 1 /\ Len(lists') \in Nat \ {0}
    <3> HIDE DEF grown
    <3> QED BY <2>1, <2>2 DEF TypeOK
  <2>4. r \in Rule
    BY <1>1, <1>2, <2>3 DEF Rule, Operators
  <2> QED BY <1>3, <2>1, <2>3, <2>4 DEF Made
<1>4. rule[t] # Nil => Refit(t, a)
  BY DEF AddTest, Refit
<1> QED BY <1>1, <1>2, <1>3, <1>4

(* What is declared of a target stays, but for the action of a test.       *)
LEMMA RulesStayStep ==
  ASSUME TypeOK, [Next]_vars, NEW t \in Name, rule[t] # Nil
  PROVE  /\ Kept(t)
         /\ rule[t].action # Nil /\ rule[t].operator # ":BLUDTEST:" =>
              rule'[t].action = rule[t].action
<1>1. CASE NewRule
  BY <1>1, NewRuleMakes, RulesMade
<1>2. CASE AddToRule
  BY <1>2, AddToRuleRefits, RulesRefit DEF Open, Kept
<1>3. CASE AddSuite
  <2>1. CASE rule[target] = Nil
    BY <1>3, <2>1, AddSuiteMakes, RulesMade
  <2>2. CASE rule[target] # Nil
    BY <1>3, <2>2 DEF AddSuite, Kept
  <2> QED BY <2>1, <2>2
<1>4. CASE AddTest
  <2> DEFINE n == words[test]
             a == IF decl.action = Nil THEN DefaultTestAction ELSE decl.action
  <2>1. CASE rule[n] = Nil
    BY <1>4, <2>1, AddTestMakes, RulesMade
  <2>2. CASE rule[n] # Nil
    <3>1. n \in Name /\ a \in Action \cup {DefaultTestAction, Nil} /\ Refit(n, a) /\ Fits(n)
      BY <1>4, <2>2, AddTestMakes
    <3>2. rule[n].operator = ":BLUDTEST:"
      BY <2>2, <3>1 DEF Fits
    <3> HIDE DEF n, a
    <3> QED BY <3>1, <3>2, RulesRefit
  <2> QED BY <2>1, <2>2
<1>5. CASE EvalRule \/ AppendToItself \/ RefuseRule \/ RefuseSuite \/ RefuseTest
           \/ SuiteAdded \/ RuleAdded \/ EndOfBludfile \/ Stop \/ UNCHANGED vars
  <2>1. rule' = rule
    BY <1>5 DEF EvalRule, AppendToItself, RefuseRule, RefuseSuite, RefuseTest, SuiteAdded,
                RuleAdded, EndOfBludfile, Stop, vars
  <2> QED BY <2>1 DEF Kept
<1> QED BY <1>1, <1>2, <1>3, <1>4, <1>5 DEF Next

(* Who shares a list, after each of them.                                  *)
LEMMA SharingRefit ==
  ASSUME NEW t \in Name, rule[t] # Nil,
         \A u \in Name : rule[u] # Nil <=> rule'[u] # Nil,
         \A u \in Name : rule[u] # Nil => Kept(u)
  PROVE  Sharing(t)' = Sharing(t)
BY DEF Sharing, Kept

LEMMA SharingMade ==
  ASSUME TypeOK, NEW n \in Name, NEW r, Made(n, r), NEW t \in Name, rule[t] # Nil
  PROVE  Sharing(t)' = Sharing(t) \cup (IF r.prereq_words = rule[t].prereq_words THEN {n} ELSE {})
<1>1. /\ rule'[n] = r /\ r # Nil /\ rule[n] = Nil
      /\ \A u \in Name \ {n} : rule'[u] = rule[u]
      /\ \A u \in Name : rule[u] # Nil => rule'[u] = rule[u]
  BY RulesMade DEF Made
<1> QED BY <1>1 DEF Sharing

LEMMA SharingFresh ==
  ASSUME TypeOK, NEW n \in Name, NEW r, Made(n, r), r.prereq_words \notin DOMAIN lists
  PROVE  /\ Sharing(n)' = {n}
         /\ \A t \in Name : rule[t] # Nil => Sharing(t)' = Sharing(t)
<1>1. /\ rule'[n] = r /\ r # Nil /\ rule[n] = Nil
      /\ \A u \in Name \ {n} : rule'[u] = rule[u]
  BY RulesMade DEF Made
<1>2. \A t \in Name : rule[t] # Nil => rule[t].prereq_words # r.prereq_words
  BY DEF TypeOK
<1>3. Sharing(n)' = {n}
  BY <1>1, <1>2 DEF Sharing
<1>4. ASSUME NEW t \in Name, rule[t] # Nil PROVE Sharing(t)' = Sharing(t)
  <2>1. Sharing(t)' = Sharing(t) \cup (IF r.prereq_words = rule[t].prereq_words THEN {n} ELSE {})
    BY <1>4, SharingMade, Zenon
  <2> QED BY <1>2, <1>4, <2>1, Zenon
<1> QED BY <1>3, <1>4

(* The last list is nobody's yet.                                          *)
LEMMA HoldersStep ==
  ASSUME TypeOK, Holders, Ownership, [Next]_vars
  PROVE  Holders'
<1> USE DEF Holders
<1>1. CASE NewRule
  <2>1. target \in Name
    BY <1>1, NewRuleMakes
  <2>2. PICK r : /\ Made(target, r)
                 /\ r = [operator |-> decl.operator, prereq_words |-> decl.list,
                         action |-> decl.action, test_target |-> Nil]
    BY <1>1, NewRuleMakes
  <2>3. /\ rule'[target] = r /\ rule[target] = Nil
        /\ \A u \in Name \ {target} : rule'[u] = rule[u]
    BY <2>1, <2>2, RulesMade DEF Made
  <2>4. /\ pc = "target" /\ decl' = decl /\ pc' = pc /\ next' = next + 1 /\ next \in Nat \ {0}
        /\ decl.operator \notin {":TEST:", ":BLUDTEST:"}
        /\ declared' = [declared EXCEPT ![target] = @ \cup Entries(words)]
        /\ target = decl.targets[next]
    BY <1>1 DEF NewRule, Adding, Ownership, TypeOK, DeclaredFor, target
  <2> DEFINE n == target
  <2> HIDE DEF n
  <2>5. \A t \in Name : rule'[t] # Nil /\ rule'[t].prereq_words = decl.list =>
          /\ rule'[t].operator = decl.operator
          /\ \E i \in 1 .. next' - 1 : decl.targets[i] = t
    BY <2>1, <2>2, <2>3, <2>4
  <2>6. ASSUME NEW t \in Name, rule'[t] # Nil, rule'[t].operator \in {":TEST:", ":BLUDTEST:"}
        PROVE  Sharing(t)' = {t}
    <3>1. t # target /\ rule[t] = rule'[t]
      BY <2>2, <2>3, <2>4, <2>6
    <3>2. rule[t].prereq_words # decl.list /\ Sharing(t) = {t}
      BY <2>4, <2>6, <3>1
    <3> QED BY <2>1, <2>2, <2>6, <3>1, <3>2, SharingMade
  <2>7. \A t \in Name : rule'[t] = Nil => declared'[t] = {}
    BY <2>1, <2>2, <2>3, <2>4, RulesMade DEF TypeOK
  <2> QED BY <2>4, <2>5, <2>6, <2>7
<1>2. CASE AddToRule
  <2>1. target \in Name /\ Refit(target, decl.action) /\ decl.action \in Action \cup {DefaultTestAction, Nil}
    BY <1>2, AddToRuleRefits
  <2>2. /\ \A u \in Name : rule[u] # Nil <=> rule'[u] # Nil
        /\ \A u \in Name : rule[u] # Nil => Kept(u)
    BY <2>1, RulesRefit
  <2>3. /\ pc' = pc /\ decl' = decl /\ next' = next + 1 /\ next \in Nat \ {0}
        /\ declared' = [declared EXCEPT ![target] = @ \cup Entries(words)]
        /\ rule[target] # Nil
    BY <1>2 DEF AddToRule, DeclaredFor, TypeOK, OwnOperator
  <2>4. \A t \in Name : rule[t] # Nil => Sharing(t)' = Sharing(t)
    BY <2>2, SharingRefit
  <2>5. \A t \in Name : rule'[t] = Nil => declared'[t] = {}
    BY <2>1, <2>2, <2>3 DEF TypeOK
  <2>6. \A i \in 1 .. next - 1 : i \in 1 .. next' - 1
    BY <2>3
  <2> QED BY <2>2, <2>3, <2>4, <2>5, <2>6 DEF Kept
<1>3. CASE AddSuite
  <2>1. /\ pc = "target" /\ decl' = decl /\ next' = next /\ declared' = declared
        /\ decl.operator = ":TEST:"
    BY <1>3 DEF AddSuite, Adding
  <2>2. CASE rule[target] # Nil
    <3>1. rule' = rule
      BY <1>3, <2>2 DEF AddSuite
    <3>2. \A t \in Name : Sharing(t)' = Sharing(t)
      BY <3>1 DEF Sharing
    <3> QED BY <2>1, <3>1, <3>2
  <2>3. CASE rule[target] = Nil
    <3>1. target \in Name /\ lists' = Append(lists, <<>>)
      BY <1>3, <2>3, AddSuiteMakes
    <3>2. PICK r : /\ Made(target, r)
                   /\ r = [operator |-> ":TEST:", prereq_words |-> Len(lists'),
                           action |-> Nil, test_target |-> Nil]
      BY <1>3, <2>3, AddSuiteMakes
    <3>3. r.prereq_words \notin DOMAIN lists /\ r.prereq_words # decl.list
      BY <2>1, <3>1, <3>2 DEF TypeOK
    <3>4. PICK n \in Name : n = target
      BY <3>1
    <3>5. /\ Sharing(n)' = {n}
          /\ \A t \in Name : rule[t] # Nil => Sharing(t)' = Sharing(t)
      BY <3>2, <3>3, <3>4, SharingFresh
    <3>6. /\ rule'[n] = r /\ r # Nil /\ rule[n] = Nil
          /\ \A u \in Name \ {n} : rule'[u] = rule[u]
      BY <2>3, <3>2, <3>4, RulesMade
    <3>7. \A t \in Name : rule'[t] # Nil => rule'[t].prereq_words # decl.list
      BY <2>1, <3>3, <3>6
    <3>8. \A t \in Name : rule'[t] # Nil /\ rule'[t].operator \in {":TEST:", ":BLUDTEST:"} =>
            Sharing(t)' = {t}
      BY <3>5, <3>6
    <3> QED BY <2>1, <3>6, <3>7, <3>8
  <2> QED BY <2>2, <2>3
<1>4. CASE AddTest
  <2> DEFINE a == IF decl.action = Nil THEN DefaultTestAction ELSE decl.action
  <2>0. PICK n \in Name : n = words[test]
    BY <1>4, AddTestMakes
  <2>1. /\ target \in Name /\ rule[target] # Nil
        /\ pc = "test" /\ pc' = pc /\ decl' = decl /\ next' = next
        /\ decl.operator = ":TEST:" /\ decl.list \in DOMAIN lists
        /\ declared' = [declared EXCEPT ![target] = @ \cup {n}]
    BY <1>4, <2>0, AddTestMakes, NilIsNoRule DEF AddTest, Ownership, TypeOK
  <2>2. CASE rule[n] = Nil
    <3>1. Len(lists') = Len(lists) + 1
      BY <1>4, <2>0, <2>2, AddTestMakes
    <3>2. PICK r : /\ Made(n, r)
                   /\ r = [operator |-> ":BLUDTEST:", prereq_words |-> Len(lists'),
                           action |-> a, test_target |-> target]
      BY <1>4, <2>0, <2>2, AddTestMakes
    <3> HIDE DEF a
    <3>3. r.prereq_words \notin DOMAIN lists /\ r.prereq_words # decl.list
      BY <2>1, <3>1, <3>2 DEF TypeOK
    <3>4. /\ Sharing(n)' = {n}
          /\ \A t \in Name : rule[t] # Nil => Sharing(t)' = Sharing(t)
      BY <2>1, <3>2, <3>3, SharingFresh
    <3>5. rule'[n] = r /\ r # Nil /\ \A u \in Name \ {n} : rule'[u] = rule[u]
      BY <2>1, <3>2, RulesMade
    <3>6. \A t \in Name : rule'[t] # Nil => rule'[t].prereq_words # decl.list
      BY <2>1, <3>3, <3>5
    <3>7. \A t \in Name : rule'[t] # Nil /\ rule'[t].operator \in {":TEST:", ":BLUDTEST:"} =>
            Sharing(t)' = {t}
      BY <2>2, <3>4, <3>5
    <3>8. \A t \in Name : rule'[t] = Nil => declared'[t] = {}
      BY <2>1, <2>2, <3>5 DEF TypeOK
    <3> QED BY <2>1, <3>6, <3>7, <3>8
  <2>3. CASE rule[n] # Nil
    <3>1. Refit(n, a) /\ a \in Action \cup {DefaultTestAction, Nil}
      BY <1>4, <2>0, <2>3, AddTestMakes
    <3> HIDE DEF a
    <3>2. /\ \A u \in Name : rule[u] # Nil <=> rule'[u] # Nil
          /\ \A u \in Name : rule[u] # Nil => Kept(u)
      BY <2>1, <3>1, RulesRefit
    <3>3. \A t \in Name : rule[t] # Nil => Sharing(t)' = Sharing(t)
      BY <3>2, SharingRefit
    <3>4. \A t \in Name : rule'[t] = Nil => declared'[t] = {}
      BY <2>1, <3>2 DEF TypeOK
    <3> QED BY <2>1, <3>2, <3>3, <3>4 DEF Kept
  <2> QED BY <2>2, <2>3
<1>5. CASE EvalRule
  <2>1. /\ rule' = rule /\ declared' = declared /\ decl'.list = Len(lists')
        /\ Len(lists') = Len(lists) + 1
    BY <1>5 DEF EvalRule, NewTable, TypeOK
  <2>2. \A t \in Name : rule[t] # Nil => rule[t].prereq_words # decl'.list
    BY <2>1 DEF TypeOK
  <2>3. \A t \in Name : Sharing(t)' = Sharing(t)
    BY <2>1 DEF Sharing
  <2> QED BY <2>1, <2>2, <2>3
<1>6. CASE SuiteAdded
  <2>1. /\ rule' = rule /\ declared' = declared /\ decl' = decl
        /\ pc = "test" /\ decl.operator = ":TEST:"
    BY <1>6 DEF SuiteAdded, Ownership
  <2>2. \A t \in Name : Sharing(t)' = Sharing(t)
    BY <2>1 DEF Sharing
  <2> QED BY <2>1, <2>2
<1>7. CASE AppendToItself \/ RefuseRule \/ RefuseSuite \/ RefuseTest
           \/ RuleAdded \/ EndOfBludfile \/ Stop \/ UNCHANGED vars
  <2>1. /\ rule' = rule /\ declared' = declared /\ decl' = decl /\ next' = next
        /\ pc' \in {"target", "test"} => pc' = pc
    BY <1>7 DEF AppendToItself, RefuseRule, RefuseSuite, RefuseTest, RuleAdded,
                EndOfBludfile, Stop, vars
  <2>2. \A t \in Name : Sharing(t)' = Sharing(t)
    BY <2>1 DEF Sharing
  <2> QED BY <2>1, <2>2
<1> QED BY <1>1, <1>2, <1>3, <1>4, <1>5, <1>6, <1>7 DEF Next

(* A target that gets the list of a declaration of its own is the first to *)
(* hold it, and nobody gets it later.                                      *)
LEMMA AloneStep ==
  ASSUME TypeOK, Holders, Ownership, Unshared, [Next]_vars
  PROVE  Unshared'
<1> USE DEF Unshared
<1>0. alone \in SUBSET Name
  BY DEF TypeOK
<1>1. CASE NewRule
  <2>1. target \in Name
    BY <1>1, NewRuleMakes
  <2>2. PICK r : /\ Made(target, r)
                 /\ r = [operator |-> decl.operator, prereq_words |-> decl.list,
                         action |-> decl.action, test_target |-> Nil]
    BY <1>1, NewRuleMakes
  <2>3. /\ rule'[target] = r /\ r # Nil /\ rule[target] = Nil
        /\ \A u \in Name \ {target} : rule'[u] = rule[u]
    BY <2>1, <2>2, RulesMade DEF Made
  <2>4. /\ pc = "target" /\ decl' = decl /\ pc' = pc
        /\ target = decl.targets[next] /\ next \in DOMAIN decl.targets
        /\ \A i \in 1 .. next - 1 : i \in DOMAIN decl.targets
        /\ alone' = IF Entries(decl.targets) = {target} THEN alone \cup {target} ELSE alone
    BY <1>1 DEF NewRule, Adding, TypeOK, target
  <2>5. PICK n \in Name : n = target
    BY <2>1
  <2>6. ASSUME NEW u \in Name, rule[u] # Nil, rule[u].prereq_words = decl.list
        PROVE  u \in Entries(decl.targets) /\ u # n
    <3>1. PICK i \in 1 .. next - 1 : decl.targets[i] = u
      BY <2>4, <2>6 DEF Holders
    <3> QED BY <2>3, <2>4, <2>5, <2>6, <3>1 DEF Entries
  <2>7. n \in Entries(decl.targets)
    BY <2>4, <2>5 DEF Entries
  <2>8. ASSUME NEW t \in alone
        PROVE  /\ rule'[t] # Nil /\ Sharing(t)' = {t}
               /\ rule'[t].prereq_words = decl.list => Entries(decl.targets) = {t}
    <3>1. t \in Name /\ rule[t] # Nil /\ t # n /\ rule'[t] = rule[t] /\ Sharing(t) = {t}
      BY <1>0, <2>3, <2>5, <2>8
    <3>2. r.prereq_words # rule[t].prereq_words
      <4>1. r.prereq_words = decl.list
        BY <2>2
      <4>2. ASSUME rule[t].prereq_words = decl.list PROVE FALSE
        <5>1. Entries(decl.targets) = {t}
          BY <2>4, <2>8, <4>2
        <5> QED BY <2>7, <3>1, <5>1
      <4> QED BY <4>1, <4>2
    <3>3. Sharing(t)' = Sharing(t)
      BY <2>2, <2>5, <3>1, <3>2, SharingMade, SMTT(20)
    <3> QED BY <2>4, <2>8, <3>1, <3>3
  <2>9. ASSUME Entries(decl.targets) = {n}
        PROVE  rule'[n] # Nil /\ Sharing(n)' = {n}
    <3>1. \A u \in Name \ {n} : rule'[u] # Nil => rule'[u].prereq_words # decl.list
      BY <2>3, <2>5, <2>6, <2>9
    <3>2. rule'[n] # Nil /\ rule'[n].prereq_words = decl.list
      BY <2>2, <2>3, <2>5
    <3> QED BY <3>1, <3>2 DEF Sharing
  <2> QED BY <2>4, <2>5, <2>8, <2>9
<1>2. CASE AddToRule
  <2>1. target \in Name /\ Refit(target, decl.action) /\ decl.action \in Action \cup {DefaultTestAction, Nil}
    BY <1>2, AddToRuleRefits
  <2>2. /\ \A u \in Name : rule[u] # Nil <=> rule'[u] # Nil
        /\ \A u \in Name : rule[u] # Nil => Kept(u)
    BY <2>1, RulesRefit
  <2>3. UNCHANGED <<pc, decl, alone>>
    BY <1>2 DEF AddToRule
  <2>4. \A t \in Name : rule[t] # Nil => Sharing(t)' = Sharing(t)
    BY <2>2, SharingRefit
  <2> QED BY <1>0, <2>2, <2>3, <2>4 DEF Kept
<1>3. CASE AddSuite
  <2>1. /\ pc = "target" /\ decl' = decl /\ decl.operator = ":TEST:"
    BY <1>3 DEF AddSuite, Adding
  <2>2. CASE rule[target] # Nil
    <3>1. rule' = rule /\ alone' = alone
      BY <1>3, <2>2 DEF AddSuite
    <3>2. \A t \in Name : Sharing(t)' = Sharing(t)
      BY <3>1 DEF Sharing
    <3> QED BY <1>0, <2>1, <3>1, <3>2
  <2>3. CASE rule[target] = Nil
    <3>1. target \in Name /\ lists' = Append(lists, <<>>) /\ alone' = alone \cup {target}
      BY <1>3, <2>3, AddSuiteMakes DEF AddSuite
    <3>2. PICK r : /\ Made(target, r)
                   /\ r = [operator |-> ":TEST:", prereq_words |-> Len(lists'),
                           action |-> Nil, test_target |-> Nil]
      BY <1>3, <2>3, AddSuiteMakes
    <3>3. r.prereq_words \notin DOMAIN lists /\ r.prereq_words # decl.list
      BY <2>1, <3>1, <3>2 DEF TypeOK
    <3>4. PICK n \in Name : n = target
      BY <3>1
    <3>5. /\ Sharing(n)' = {n}
          /\ \A t \in Name : rule[t] # Nil => Sharing(t)' = Sharing(t)
      BY <3>2, <3>3, <3>4, SharingFresh
    <3>6. /\ rule'[n] = r /\ r # Nil /\ rule[n] = Nil
          /\ \A u \in Name \ {n} : rule'[u] = rule[u]
      BY <2>3, <3>2, <3>4, RulesMade
    <3> QED BY <1>0, <2>1, <3>1, <3>3, <3>4, <3>5, <3>6
  <2> QED BY <2>2, <2>3
<1>4. CASE AddTest
  <2> DEFINE a == IF decl.action = Nil THEN DefaultTestAction ELSE decl.action
  <2>0. PICK n \in Name : n = words[test]
    BY <1>4, AddTestMakes
  <2>1. UNCHANGED <<pc, decl, alone>> /\ decl.list \in DOMAIN lists
    BY <1>4 DEF AddTest, TypeOK
  <2>2. CASE rule[n] = Nil
    <3>1. Len(lists') = Len(lists) + 1
      BY <1>4, <2>0, <2>2, AddTestMakes
    <3>2. PICK r : /\ Made(n, r)
                   /\ r = [operator |-> ":BLUDTEST:", prereq_words |-> Len(lists'),
                           action |-> a, test_target |-> target]
      BY <1>4, <2>0, <2>2, AddTestMakes
    <3> HIDE DEF a
    <3>3. r.prereq_words \notin DOMAIN lists
      BY <3>1, <3>2 DEF TypeOK
    <3>4. \A t \in Name : rule[t] # Nil => Sharing(t)' = Sharing(t)
      BY <3>2, <3>3, SharingFresh
    <3>5. \A u \in Name \ {n} : rule'[u] = rule[u]
      BY <3>2, RulesMade
    <3> QED BY <1>0, <2>1, <2>2, <3>4, <3>5
  <2>3. CASE rule[n] # Nil
    <3>1. Refit(n, a) /\ a \in Action \cup {DefaultTestAction, Nil}
      BY <1>4, <2>0, <2>3, AddTestMakes
    <3> HIDE DEF a
    <3>2. /\ \A u \in Name : rule[u] # Nil <=> rule'[u] # Nil
          /\ \A u \in Name : rule[u] # Nil => Kept(u)
      BY <3>1, RulesRefit
    <3>3. \A t \in Name : rule[t] # Nil => Sharing(t)' = Sharing(t)
      BY <3>2, SharingRefit
    <3> QED BY <1>0, <2>1, <3>2, <3>3 DEF Kept
  <2> QED BY <2>2, <2>3
<1>5. CASE EvalRule
  <2>1. /\ rule' = rule /\ alone' = alone /\ decl'.list = Len(lists')
        /\ Len(lists') = Len(lists) + 1
    BY <1>5 DEF EvalRule, NewTable, TypeOK
  <2>2. \A t \in Name : rule[t] # Nil => rule[t].prereq_words # decl'.list
    BY <2>1 DEF TypeOK
  <2>3. \A t \in Name : Sharing(t)' = Sharing(t)
    BY <2>1 DEF Sharing
  <2> QED BY <1>0, <2>1, <2>2, <2>3
<1>6. CASE SuiteAdded \/ AppendToItself \/ RefuseRule \/ RefuseSuite \/ RefuseTest
           \/ RuleAdded \/ EndOfBludfile \/ Stop \/ UNCHANGED vars
  <2>1. /\ rule' = rule /\ alone' = alone /\ decl' = decl
        /\ pc' \in {"target", "test"} => pc \in {"target", "test"}
    BY <1>6 DEF SuiteAdded, AppendToItself, RefuseRule, RefuseSuite, RefuseTest, RuleAdded,
                EndOfBludfile, Stop, vars
  <2>2. \A t \in Name : Sharing(t)' = Sharing(t)
    BY <2>1 DEF Sharing
  <2> QED BY <1>0, <2>1, <2>2
<1> QED BY <1>1, <1>2, <1>3, <1>4, <1>5, <1>6 DEF Next

(* Suites stay suites, and only AddTest makes tests.                       *)
LEMMA OwnershipStep ==
  ASSUME TypeOK, Ownership, [Next]_vars
  PROVE  Ownership'
<1> USE DEF Ownership
<1>1. \A t \in Name : rule[t] # Nil => Kept(t)
  BY RulesStayStep
<1>2. \A s \in Suites : s \in Suites'
  BY <1>1 DEF Suites, Kept
<1>3. \A t \in Name : rule[t] # Nil =>
        /\ rule'[t].operator = ":BLUDTEST:" <=> rule'[t].test_target # Nil
        /\ rule'[t].test_target # Nil => rule'[t].test_target \in Suites'
  BY <1>1, <1>2 DEF Kept
<1>4. CASE NewRule
  <2>1. PICK n \in Name : n = target
    BY <1>4, NewRuleMakes
  <2>2. PICK r : /\ Made(n, r)
                 /\ r = [operator |-> decl.operator, prereq_words |-> decl.list,
                         action |-> decl.action, test_target |-> Nil]
    BY <1>4, <2>1, NewRuleMakes
  <2>3. rule'[n] = r /\ \A u \in Name \ {n} : rule'[u] = rule[u]
    BY <2>2, RulesMade
  <2>4. decl' = decl /\ pc' = "target"
    BY <1>4 DEF NewRule, Adding
  <2> QED BY <1>3, <2>2, <2>3, <2>4
<1>5. CASE AddToRule
  <2>1. /\ target \in Name /\ decl.action \in Action \cup {DefaultTestAction, Nil}
        /\ Refit(target, decl.action)
    BY <1>5, AddToRuleRefits
  <2>2. \A u \in Name : rule[u] # Nil <=> rule'[u] # Nil
    BY <2>1, RulesRefit
  <2>3. decl' = decl /\ pc' = "target"
    BY <1>5 DEF AddToRule, Adding
  <2> QED BY <1>3, <2>2, <2>3
<1>6. CASE AddSuite
  <2>1. /\ decl' = decl /\ target' = target /\ decl.operator = ":TEST:"
    BY <1>6 DEF AddSuite, target
  <2>2. CASE rule[target] # Nil
    <3>1. rule' = rule /\ OwnOperator
      BY <1>6, <2>2 DEF AddSuite
    <3> QED BY <1>3, <2>1, <3>1 DEF OwnOperator
  <2>3. CASE rule[target] = Nil
    <3>1. PICK n \in Name : n = target
      BY <1>6, <2>3, AddSuiteMakes
    <3>2. PICK r : /\ Made(n, r)
                   /\ r = [operator |-> ":TEST:", prereq_words |-> Len(lists'),
                           action |-> Nil, test_target |-> Nil]
      BY <1>6, <2>3, <3>1, AddSuiteMakes
    <3>3. rule'[n] = r /\ r # Nil /\ \A u \in Name \ {n} : rule'[u] = rule[u]
      BY <3>2, RulesMade
    <3>4. OwnOperator'
      BY <2>1, <3>1, <3>2, <3>3 DEF OwnOperator
    <3> QED BY <1>3, <2>1, <3>2, <3>3, <3>4
  <2> QED BY <2>2, <2>3
<1>7. CASE AddTest
  <2> DEFINE a == IF decl.action = Nil THEN DefaultTestAction ELSE decl.action
  <2>1. /\ decl' = decl /\ target' = target /\ decl.operator = ":TEST:" /\ OwnOperator
        /\ target \in Name /\ target \in Suites
    BY <1>7, AddTestMakes DEF AddTest, target, OwnOperator, Suites
  <2>2. OwnOperator'
    BY <1>1, <2>1 DEF OwnOperator, Kept
  <2>3. PICK n \in Name : n = words[test]
    BY <1>7, AddTestMakes
  <2>4. CASE rule[n] = Nil
    <3>1. PICK r : /\ Made(n, r)
                   /\ r = [operator |-> ":BLUDTEST:", prereq_words |-> Len(lists'),
                           action |-> a, test_target |-> target]
      BY <1>7, <2>3, <2>4, AddTestMakes
    <3>2. rule'[n] = r /\ \A u \in Name \ {n} : rule'[u] = rule[u]
      BY <3>1, RulesMade
    <3>3. target # Nil
      BY <2>1, DeclarationConstants
    <3> HIDE DEF a
    <3> QED BY <1>2, <1>3, <2>1, <2>2, <3>1, <3>2, <3>3
  <2>5. CASE rule[n] # Nil
    <3>1. Refit(n, a) /\ a \in Action \cup {DefaultTestAction, Nil}
      BY <1>7, <2>3, <2>5, AddTestMakes
    <3> HIDE DEF a
    <3>2. \A u \in Name : rule[u] # Nil <=> rule'[u] # Nil
      BY <3>1, RulesRefit
    <3> QED BY <1>3, <2>1, <2>2, <3>2
  <2> QED BY <2>4, <2>5
<1>8. CASE EvalRule
  <2>1. rule' = rule /\ decl'.operator # ":BLUDTEST:" /\ pc' # "test"
    <3>1. PICK d \in Declarations : decl'.operator = d.operator
      BY <1>8 DEF EvalRule
    <3>2. d.operator # ":BLUDTEST:"
      BY DeclarationConstants DEF Declaration
    <3>3. rule' = rule /\ pc' # "test"
      BY <1>8 DEF EvalRule
    <3> QED BY <3>1, <3>2, <3>3
  <2> QED BY <1>3, <2>1
<1>9. CASE AppendToItself \/ RefuseRule \/ RefuseSuite \/ RefuseTest \/ SuiteAdded
           \/ RuleAdded \/ EndOfBludfile \/ Stop \/ UNCHANGED vars
  <2>1. rule' = rule /\ decl' = decl /\ (pc' = "test" => pc = "test" /\ next' = next)
    BY <1>9 DEF AppendToItself, RefuseRule, RefuseSuite, RefuseTest, SuiteAdded, RuleAdded,
                EndOfBludfile, Stop, vars
  <2>2. pc' = "test" => OwnOperator'
    BY <2>1 DEF OwnOperator, target
  <2> QED BY <1>3, <2>1, <2>2
<1> QED BY <1>4, <1>5, <1>6, <1>7, <1>8, <1>9 DEF Next

(* Where the lists do not change, and how a test changes them.             *)
LEMMA QuietLists ==
  ASSUME TypeOK,
         EvalRule \/ AppendToItself \/ RefuseRule \/ RefuseSuite \/ RefuseTest \/ SuiteAdded
           \/ RuleAdded \/ EndOfBludfile \/ Stop \/ UNCHANGED vars
  PROVE  \A i \in DOMAIN lists : lists'[i] = lists[i]
<1>1. CASE EvalRule
  <2>1. PICK d \in Declarations : lists' = Append(lists, d.prerequisites[build_atom])
    BY <1>1 DEF EvalRule
  <2>2. d.prerequisites[build_atom] \in Seq(Name)
    BY DeclarationConstants DEF Declaration, TypeOK
  <2> QED BY <2>1, <2>2, FreshTable DEF TypeOK
<1>2. CASE ~EvalRule
  BY <1>2 DEF AppendToItself, RefuseRule, RefuseSuite, RefuseTest, SuiteAdded,
              RuleAdded, EndOfBludfile, Stop, vars
<1> QED BY <1>1, <1>2

AddedTest(l, n) ==
  /\ Entries(lists'[l]) = Entries(lists[l]) \cup {n}
  /\ \A i \in DOMAIN lists : i # l => lists'[i] = lists[i]

LEMMA AddTestLists ==
  ASSUME TypeOK, AddTest
  PROVE  LET l == rule[target].prereq_words
             n == words[test]
         IN  lists'[l] = WithTest(lists[l], n) /\ AddedTest(l, n)
<1> DEFINE l == rule[target].prereq_words
           n == words[test]
           grown == [lists EXCEPT ![l] = WithTest(@, n)]
<1>1. l \in DOMAIN lists /\ n \in Name
  BY AddTestMakes
<1>2. lists' = grown \/ lists' = Append(grown, <<>>)
  BY DEF AddTest
<1> HIDE DEF l, n
<1>3. WithTest(lists[l], n) \in Seq(Name)
      /\ Entries(WithTest(lists[l], n)) = Entries(lists[l]) \cup {n}
  <2>1. lists[l] \in Seq(Name)
    BY <1>1 DEF TypeOK
  <2> QED BY <1>1, <2>1, EntriesOf DEF WithTest
<1>4. grown \in Seq(Seq(Name)) /\ DOMAIN grown = DOMAIN lists
      /\ grown[l] = WithTest(lists[l], n) /\ \A i \in DOMAIN lists : i # l => grown[i] = lists[i]
  BY <1>1, <1>3 DEF TypeOK
<1>5. \A i \in DOMAIN grown : lists'[i] = grown[i]
  <2> HIDE DEF grown
  <2>1. <<>> \in Seq(Name)
    OBVIOUS
  <2>2. \A i \in DOMAIN grown : Append(grown, <<>>)[i] = grown[i]
    BY <1>4, <2>1, FreshTable
  <2> QED BY <1>2, <2>2
<1>6. lists'[l] = WithTest(lists[l], n) /\ AddedTest(l, n)
  BY <1>1, <1>3, <1>4, <1>5 DEF AddedTest
<1> QED BY <1>6 DEF l, n

(* A suite that a step does not look at.                                   *)
LEMMA OwnsKept ==
  ASSUME NEW s \in Name, Owns(s), Tests(s)' = Tests(s),
         rule'[s].prereq_words = rule[s].prereq_words,
         lists'[rule[s].prereq_words] = lists[rule[s].prereq_words],
         \A t \in Tests(s) : BOUND_NAME'[t] = BOUND_NAME[t] /\ rule'[t].action = rule[t].action
  PROVE  Owns(s)'
BY DEF Owns, Entries

(* What WithTest leaves in the list of a suite.                            *)
LEMMA WithTestOnce ==
  ASSUME NEW s \in Seq(Name), NEW t \in Name,
         \A i, j \in DOMAIN s : s[i] = s[j] => i = j
  PROVE  /\ WithTest(s, t) \in Seq(Name)
         /\ Entries(WithTest(s, t)) = Entries(s) \cup {t}
         /\ \A i, j \in DOMAIN WithTest(s, t) : WithTest(s, t)[i] = WithTest(s, t)[j] => i = j
<1>1. CASE t \in Entries(s)
  BY <1>1 DEF WithTest
<1>2. CASE t \notin Entries(s)
  <2>1. WithTest(s, t) = Append(s, t)
    BY <1>2 DEF WithTest
  <2>2. \A i \in DOMAIN s : s[i] # t
    BY <1>2 DEF Entries
  <2>3. /\ \A i \in DOMAIN s : Append(s, t)[i] = s[i]
        /\ Append(s, t)[Len(s) + 1] = t
        /\ DOMAIN Append(s, t) = DOMAIN s \cup {Len(s) + 1}
    OBVIOUS
  <2>4. \A i, j \in DOMAIN Append(s, t) : Append(s, t)[i] = Append(s, t)[j] => i = j
    BY <2>2, <2>3
  <2> QED BY <2>1, <2>4, EntriesOf
<1> QED BY <1>1, <1>2

LEMMA SuitesStep ==
  ASSUME TypeOK, Holders, Ownership, SuiteOwnsTests, [Next]_vars
  PROVE  SuiteOwnsTests'
<1> SUFFICES ASSUME NEW s \in Suites' PROVE Owns(s)'
  BY DEF SuiteOwnsTests
<1>1. s \in Name /\ rule'[s] # Nil /\ rule'[s].operator = ":TEST:"
  BY DEF Suites
<1>2. \A t \in Name : rule[t] # Nil => Kept(t)
  BY RulesStayStep
<1>3. s \in Suites <=> rule[s] # Nil
  BY <1>1, <1>2 DEF Kept, Suites
<1>4. s \in Suites => /\ Owns(s) /\ rule[s].prereq_words \in DOMAIN lists
                      /\ rule'[s].prereq_words = rule[s].prereq_words
                      /\ lists[rule[s].prereq_words] \in Seq(Name)
  BY <1>1, <1>2, <1>3 DEF SuiteOwnsTests, TypeOK, Kept
<1>5. \A t \in Tests(s) : rule[t] # Nil /\ rule[t].operator = ":BLUDTEST:" /\ s \in Suites
  BY <1>1, DeclarationConstants DEF Ownership, Tests
<1>6. CASE NewRule
  <2>1. PICK n \in Name : n = target
    BY <1>6, NewRuleMakes
  <2>2. PICK r : /\ Made(n, r)
                 /\ r = [operator |-> decl.operator, prereq_words |-> decl.list,
                         action |-> decl.action, test_target |-> Nil]
    BY <1>6, <2>1, NewRuleMakes
  <2>3. /\ rule'[n] = r /\ rule[n] = Nil /\ \A u \in Name \ {n} : rule'[u] = rule[u]
    BY <2>2, RulesMade DEF Made
  <2>4. /\ lists' = lists /\ decl.operator # ":TEST:"
        /\ \A u \in Name \ {n} : BOUND_NAME'[u] = BOUND_NAME[u]
    BY <1>6, <2>1 DEF NewRule, AddBuild, TypeOK
  <2>5. s \in Suites /\ s # n
    BY <1>1, <1>3, <2>2, <2>3, <2>4
  <2>6. Tests(s)' = Tests(s)
    BY <1>1, <2>2, <2>3, DeclarationConstants DEF Tests
  <2>7. \A t \in Tests(s) : BOUND_NAME'[t] = BOUND_NAME[t] /\ rule'[t].action = rule[t].action
    BY <2>3, <2>4 DEF Tests
  <2> QED BY <1>1, <1>4, <2>4, <2>5, <2>6, <2>7, OwnsKept
<1>7. CASE AddToRule
  <2>1. PICK n \in Name : n = target
    BY <1>7, AddToRuleRefits
  <2>2. /\ rule[n] # Nil /\ rule[n].operator = decl.operator
        /\ decl.operator \notin {":TEST:", ":BLUDTEST:"}
        /\ lists' = [lists EXCEPT ![rule[n].prereq_words] = Appended(@, words)]
        /\ \A u \in Name \ {n} : BOUND_NAME'[u] = BOUND_NAME[u]
    BY <1>7, <2>1 DEF AddToRule, OwnOperator, AddBuild, TypeOK, Ownership
  <2>3. /\ \A u \in Name \ {n} : rule'[u] = rule[u]
        /\ \A u \in Name : rule[u] # Nil <=> rule'[u] # Nil
    BY <1>7, <2>1, AddToRuleRefits, RulesRefit
  <2>4. s \in Suites /\ s # n
    BY <1>1, <1>2, <1>3, <2>2, <2>3 DEF Kept
  <2>5. rule[s].prereq_words # rule[n].prereq_words
    BY <1>1, <2>2, <2>4 DEF Holders, Sharing, Suites
  <2>6. lists'[rule[s].prereq_words] = lists[rule[s].prereq_words]
    BY <1>4, <2>2, <2>4, <2>5 DEF TypeOK
  <2>7. Tests(s)' = Tests(s)
    BY <1>2, <2>3 DEF Tests, Kept
  <2>8. \A t \in Tests(s) : BOUND_NAME'[t] = BOUND_NAME[t] /\ rule'[t].action = rule[t].action
    BY <1>5, <2>2, <2>3 DEF Tests
  <2> QED BY <1>1, <1>4, <2>4, <2>6, <2>7, <2>8, OwnsKept
<1>8. CASE AddSuite
  <2>1. BOUND_NAME' = BOUND_NAME
    BY <1>8 DEF AddSuite
  <2>2. CASE rule[target] # Nil
    <3>1. rule' = rule /\ lists' = lists
      BY <1>8, <2>2 DEF AddSuite
    <3>2. Tests(s)' = Tests(s) /\ s \in Suites
      BY <1>1, <1>3, <3>1 DEF Tests
    <3> QED BY <1>1, <1>4, <2>1, <3>1, <3>2, OwnsKept
  <2>3. CASE rule[target] = Nil
    <3>1. PICK n \in Name : n = target
      BY <1>8, <2>3, AddSuiteMakes
    <3>2. lists' = Append(lists, <<>>)
      BY <1>8, <2>3, AddSuiteMakes
    <3>3. PICK r : /\ Made(n, r)
                   /\ r = [operator |-> ":TEST:", prereq_words |-> Len(lists'),
                           action |-> Nil, test_target |-> Nil]
      BY <1>8, <2>3, <3>1, AddSuiteMakes
    <3>4. /\ rule'[n] = r /\ r # Nil /\ rule[n] = Nil
          /\ \A u \in Name \ {n} : rule'[u] = rule[u]
      BY <3>3, RulesMade DEF Made
    <3>5. Tests(s)' = Tests(s)
      BY <1>1, <3>3, <3>4, DeclarationConstants DEF Tests
    <3>6. CASE s # n
      <4>1. s \in Suites
        BY <1>1, <1>3, <3>4, <3>6
      <4>2. lists'[rule[s].prereq_words] = lists[rule[s].prereq_words]
        BY <1>4, <3>2, <4>1 DEF TypeOK
      <4>3. \A t \in Tests(s) : rule'[t] = rule[t]
        BY <3>4 DEF Tests
      <4> QED BY <1>1, <1>4, <2>1, <3>5, <4>1, <4>2, <4>3, OwnsKept
    <3>7. CASE s = n
      <4>1. lists'[rule'[s].prereq_words] = <<>>
        BY <3>2, <3>3, <3>4, <3>7 DEF TypeOK
      <4>2. Tests(s)' = {}
        BY <1>3, <1>5, <3>4, <3>5, <3>7
      <4> QED BY <4>1, <4>2 DEF Owns, Entries
    <3> QED BY <3>6, <3>7
  <2> QED BY <2>2, <2>3
<1>9. CASE AddTest
  <2> DEFINE a == IF decl.action = Nil THEN DefaultTestAction ELSE decl.action
             l == rule[target].prereq_words
  <2>1. PICK n \in Name : n = words[test]
    BY <1>9, AddTestMakes
  <2>2. PICK m \in Name : m = target
    BY <1>9, AddTestMakes
  <2>3. /\ rule[m] # Nil /\ rule[m].operator = ":TEST:" /\ l = rule[m].prereq_words
        /\ l \in DOMAIN lists /\ Fits(n) /\ a # Nil /\ m \in Suites
        /\ BOUND_NAME' = [BOUND_NAME EXCEPT ![n] = m]
    BY <1>9, <2>1, <2>2, AddTestMakes, NilIsNoRule DEF AddTest, Ownership, OwnOperator, Suites
  <2>4. /\ rule'[n] # Nil /\ rule'[n].action = a /\ rule'[n].test_target = m
        /\ rule'[n].operator = ":BLUDTEST:"
        /\ \A u \in Name \ {n} : rule'[u] = rule[u]
    <3>1. CASE rule[n] = Nil
      <4>1. PICK r : /\ Made(n, r)
                     /\ r = [operator |-> ":BLUDTEST:", prereq_words |-> Len(lists'),
                             action |-> a, test_target |-> m]
        BY <1>9, <2>1, <2>2, <3>1, AddTestMakes
      <4> HIDE DEF a
      <4> QED BY <4>1, RulesMade
    <3>2. CASE rule[n] # Nil
      <4>1. Refit(n, a) /\ a \in Action \cup {DefaultTestAction, Nil}
        BY <1>9, <2>1, <3>2, AddTestMakes
      <4>2. rule[n].operator = ":BLUDTEST:" /\ rule[n].test_target = m
        BY <2>2, <2>3, <3>2 DEF Fits
      <4> HIDE DEF a
      <4> QED BY <3>2, <4>1, <4>2, RulesRefit DEF Kept
    <3> QED BY <3>1, <3>2
  <2>5. AddedTest(l, n) /\ lists'[l] = WithTest(lists[l], n)
    BY <1>9, <2>1, AddTestLists
  <2>6. s \in Suites /\ s # n
    BY <1>1, <1>3, <2>4
  <2> HIDE DEF a, l
  <2>7. CASE s # m
    <3>1. rule[s].prereq_words # l
      BY <1>1, <2>3, <2>6, <2>7 DEF Holders, Sharing, Suites
    <3>2. n \notin Tests(s)
      BY <2>2, <2>3, <2>7 DEF Fits, Tests
    <3>3. Tests(s)' = Tests(s)
      BY <2>4, <2>7, <3>2 DEF Tests
    <3>4. \A t \in Tests(s) : BOUND_NAME'[t] = BOUND_NAME[t] /\ rule'[t].action = rule[t].action
      BY <2>3, <2>4, <3>2 DEF Tests, TypeOK
    <3> QED BY <1>1, <1>4, <2>5, <2>6, <3>1, <3>3, <3>4, OwnsKept DEF AddedTest
  <2>8. CASE s = m
    <3>1. rule'[s].prereq_words = l /\ lists'[l] = WithTest(lists[l], n) /\ lists[l] \in Seq(Name)
      BY <1>4, <2>3, <2>5, <2>6, <2>8
    <3>2. Tests(s)' = Tests(s) \cup {n}
      BY <2>4, <2>8 DEF Tests
    <3>3. /\ Entries(lists[l]) = Tests(s)
          /\ \A i, j \in DOMAIN lists[l] : lists[l][i] = lists[l][j] => i = j
          /\ \A t \in Tests(s) : BOUND_NAME[t] = s /\ rule[t].action # Nil
      BY <1>4, <2>3, <2>6, <2>8 DEF Owns
    <3>4. /\ Entries(WithTest(lists[l], n)) = Tests(s) \cup {n}
          /\ \A i, j \in DOMAIN WithTest(lists[l], n) :
               WithTest(lists[l], n)[i] = WithTest(lists[l], n)[j] => i = j
      BY <3>1, <3>3, WithTestOnce
    <3>5. \A t \in Tests(s) \cup {n} : BOUND_NAME'[t] = s /\ rule'[t].action # Nil
      BY <2>3, <2>4, <2>8, <3>3 DEF Tests, TypeOK
    <3> DEFINE now == lists'[l]
    <3>6. Entries(now) = Tests(s)' /\ \A i, j \in DOMAIN now : now[i] = now[j] => i = j
      BY <3>1, <3>2, <3>4
    <3> QED BY <3>1, <3>2, <3>5, <3>6 DEF Owns, Entries
  <2> QED BY <2>7, <2>8
<1>10. CASE EvalRule \/ AppendToItself \/ RefuseRule \/ RefuseSuite \/ RefuseTest \/ SuiteAdded
            \/ RuleAdded \/ EndOfBludfile \/ Stop \/ UNCHANGED vars
  <2>1. rule' = rule
    BY <1>10 DEF EvalRule, AppendToItself, RefuseRule, RefuseSuite, RefuseTest, SuiteAdded,
                 RuleAdded, EndOfBludfile, Stop, vars
  <2>2. Tests(s)' = Tests(s) /\ s \in Suites
    BY <1>1, <1>3, <2>1 DEF Tests
  <2>3. \A i \in DOMAIN lists : lists'[i] = lists[i]
    BY <1>10, QuietLists
  <2>4. \A t \in Tests(s) : BOUND_NAME'[t] = BOUND_NAME[t]
    <3>1. CASE AppendToItself
      <4>1. /\ rule[target] # Nil /\ rule[target].operator # ":BLUDTEST:"
            /\ BOUND_NAME' = BOUND_NAME \/ BOUND_NAME' = [BOUND_NAME EXCEPT ![target] = target]
        BY <3>1 DEF AppendToItself, OwnOperator, AddBuild, Ownership
      <4>2. target \notin Tests(s)
        BY <1>5, <4>1
      <4> QED BY <4>1, <4>2 DEF TypeOK, Tests
    <3>2. CASE ~AppendToItself
      BY <1>10, <3>2 DEF EvalRule, RefuseRule, RefuseSuite, RefuseTest, SuiteAdded,
                 RuleAdded, EndOfBludfile, Stop, vars
    <3> QED BY <3>1, <3>2
  <2> QED BY <1>1, <1>4, <2>1, <2>2, <2>3, <2>4, OwnsKept
<1> QED BY <1>6, <1>7, <1>8, <1>9, <1>10 DEF Next

(* What a step adds to a list it adds to what is declared.                 *)
LEMMA AccountKept ==
  ASSUME NEW t \in Name, Accounted(t), Sharing(t)' = Sharing(t),
         rule'[t].prereq_words = rule[t].prereq_words,
         lists'[rule[t].prereq_words] = lists[rule[t].prereq_words],
         \A u \in Sharing(t) : declared'[u] = declared[u]
  PROVE  Accounted(t)'
BY DEF Accounted, Prerequisites, Entries

LEMMA AccountStep ==
  ASSUME TypeOK, Holders, Ownership, SharedAccount, [Next]_vars
  PROVE  SharedAccount'
<1> SUFFICES ASSUME NEW t \in Name, rule'[t] # Nil, rule'[t].operator # ":BLUDTEST:"
             PROVE  Accounted(t)'
  BY DEF SharedAccount
<1>1. rule[t] # Nil => Kept(t)
  BY RulesStayStep
<1>2. rule[t] # Nil => /\ Accounted(t) /\ rule[t].prereq_words \in DOMAIN lists
                       /\ rule'[t].prereq_words = rule[t].prereq_words
  BY <1>1 DEF SharedAccount, TypeOK, Kept
<1>3. CASE NewRule
  <2>1. PICK n \in Name : n = target
    BY <1>3, NewRuleMakes
  <2>2. PICK r : /\ Made(n, r)
                 /\ r = [operator |-> decl.operator, prereq_words |-> decl.list,
                         action |-> decl.action, test_target |-> Nil]
    BY <1>3, <2>1, NewRuleMakes
  <2>3. /\ rule'[n] = r /\ rule[n] = Nil /\ \A u \in Name \ {n} : rule'[u] = rule[u]
    BY <2>2, RulesMade DEF Made
  <2>4. /\ lists' = lists /\ declared[n] = {} /\ words = lists[r.prereq_words]
        /\ declared' = [declared EXCEPT ![n] = @ \cup Entries(words)]
    BY <1>3, <2>1, <2>2, <2>3 DEF NewRule, DeclaredFor, Holders, words
  <2>5. declared'[n] = Entries(words) /\ \A u \in Name \ {n} : declared'[u] = declared[u]
    BY <2>4 DEF TypeOK
  <2>6. CASE rule'[t].prereq_words # r.prereq_words
    <3>1. rule[t] # Nil /\ t # n
      BY <2>3, <2>6
    <3>2. Sharing(t)' = Sharing(t)
      <4>1. Sharing(t)' = Sharing(t) \cup
                            (IF r.prereq_words = rule[t].prereq_words THEN {n} ELSE {})
        BY <2>2, <3>1, SharingMade, SMTT(20)
      <4> QED BY <1>2, <2>6, <3>1, <4>1
    <3>3. \A u \in Sharing(t) : declared'[u] = declared[u]
      BY <2>3, <2>5 DEF Sharing
    <3> QED BY <1>2, <2>4, <3>1, <3>2, <3>3, AccountKept
  <2>7. CASE rule'[t].prereq_words = r.prereq_words
    <3> DEFINE S == {u \in Name : rule[u] # Nil /\ rule[u].prereq_words = r.prereq_words}
    <3>1. Sharing(t)' = S \cup {n}
      BY <2>2, <2>3, <2>7, RulesMade DEF Sharing
    <3>2. UNION {declared[u] : u \in S} \subseteq Entries(words)
      <4> SUFFICES ASSUME NEW u \in S PROVE declared[u] \subseteq Entries(words)
        OBVIOUS
      <4>1. rule[u].operator # ":BLUDTEST:"
        BY <1>3, <2>2 DEF Holders, Ownership, NewRule, Adding
      <4>2. Prerequisites(u) = UNION {declared[v] : v \in Sharing(u)} /\ u \in Sharing(u)
        BY <4>1 DEF SharedAccount, Accounted, Sharing
      <4> QED BY <2>4, <4>2 DEF Prerequisites
    <3>3. UNION {declared'[u] : u \in S \cup {n}} = Entries(words)
      BY <2>3, <2>5, <3>2
    <3>4. Prerequisites(t)' = Entries(words)
      BY <2>4, <2>7 DEF Prerequisites, Entries
    <3> QED BY <3>1, <3>3, <3>4 DEF Accounted
  <2> QED BY <2>6, <2>7
<1>4. CASE AddToRule
  <2>1. PICK n \in Name : n = target
    BY <1>4, AddToRuleRefits
  <2> DEFINE l == rule[n].prereq_words
  <2>2. /\ rule[n] # Nil /\ words \in Seq(Name) /\ l \in DOMAIN lists
        /\ lists' = [lists EXCEPT ![l] = @ \o words]
        /\ declared' = [declared EXCEPT ![n] = @ \cup Entries(words)]
    BY <1>4, <2>1 DEF AddToRule, OwnOperator, DeclaredFor, Appended, TypeOK, words, Adding
  <2>3. /\ \A u \in Name : rule[u] # Nil <=> rule'[u] # Nil
        /\ \A u \in Name : rule[u] # Nil => Kept(u)
    BY <1>4, <2>1, AddToRuleRefits, RulesRefit
  <2>4. rule[t] # Nil /\ Sharing(t)' = Sharing(t)
    BY <2>3, SharingRefit
  <2>5. /\ declared'[n] = declared[n] \cup Entries(words)
        /\ \A u \in Name \ {n} : declared'[u] = declared[u]
    BY <2>2 DEF TypeOK
  <2>6. CASE rule[t].prereq_words # l
    <3>1. lists'[rule[t].prereq_words] = lists[rule[t].prereq_words]
      BY <1>2, <2>2, <2>4, <2>6 DEF TypeOK
    <3>2. \A u \in Sharing(t) : declared'[u] = declared[u]
      BY <2>5, <2>6 DEF Sharing
    <3> QED BY <1>2, <2>4, <3>1, <3>2, AccountKept
  <2>7. CASE rule[t].prereq_words = l
    <3>1. n \in Sharing(t)
      BY <2>2, <2>7 DEF Sharing
    <3>2. Prerequisites(t)' = Prerequisites(t) \cup Entries(words)
      <4> DEFINE old == lists[l]
                 now == lists'[l]
      <4>1. now = old \o words /\ old \in Seq(Name)
        <5>1. lists \in Seq(Seq(Name)) /\ l \in DOMAIN lists
          BY <2>2 DEF TypeOK
        <5>2. lists' = [lists EXCEPT ![l] = @ \o words]
          BY <2>2
        <5> HIDE DEF l
        <5> QED BY <5>1, <5>2
      <4>2. Entries(now) = Entries(old) \cup Entries(words)
        BY <2>2, <4>1, EntriesOf
      <4>3. Prerequisites(t) = Entries(old) /\ Prerequisites(t)' = Entries(now)
        BY <1>2, <2>4, <2>7 DEF Prerequisites, Entries
      <4> QED BY <4>2, <4>3
    <3>3. Prerequisites(t) = UNION {declared[u] : u \in Sharing(t)}
      BY <1>2, <2>4 DEF Accounted
    <3> DEFINE S == Sharing(t)
               more == Entries(words)
    <3>4. UNION {declared'[u] : u \in S} = (UNION {declared[u] : u \in S}) \cup more
      <4>1. n \in S /\ S \subseteq Name
        BY <3>1 DEF Sharing
      <4> HIDE DEF S, more
      <4>2. declared'[n] = declared[n] \cup more
            /\ \A u \in S \ {n} : declared'[u] = declared[u]
        BY <2>5, <4>1 DEF more
      <4>3. \A x : (\E u \in S : x \in declared'[u]) <=> (\E u \in S : x \in declared[u]) \/ x \in more
        BY <4>1, <4>2
      <4> QED BY <4>3
    <3> QED BY <2>4, <3>2, <3>3, <3>4 DEF Accounted
  <2> QED BY <2>6, <2>7
<1>5. CASE AddSuite
  <2>1. declared' = declared
    BY <1>5 DEF AddSuite
  <2>2. CASE rule[target] # Nil
    <3>1. rule' = rule /\ lists' = lists
      BY <1>5, <2>2 DEF AddSuite
    <3> QED BY <1>2, <2>1, <3>1 DEF Accounted, Prerequisites, Entries, Sharing
  <2>3. CASE rule[target] = Nil
    <3>1. PICK n \in Name : n = target
      BY <1>5, <2>3, AddSuiteMakes
    <3>2. lists' = Append(lists, <<>>)
      BY <1>5, <2>3, AddSuiteMakes
    <3>3. PICK r : /\ Made(n, r)
                   /\ r = [operator |-> ":TEST:", prereq_words |-> Len(lists'),
                           action |-> Nil, test_target |-> Nil]
      BY <1>5, <2>3, <3>1, AddSuiteMakes
    <3>4. r.prereq_words \notin DOMAIN lists /\ lists'[r.prereq_words] = <<>>
          /\ \A i \in DOMAIN lists : lists'[i] = lists[i]
      BY <3>2, <3>3 DEF TypeOK
    <3>5. /\ Sharing(n)' = {n}
          /\ \A u \in Name : rule[u] # Nil => Sharing(u)' = Sharing(u)
      BY <3>3, <3>4, SharingFresh
    <3>6. /\ rule'[n] = r /\ rule[n] = Nil /\ \A u \in Name \ {n} : rule'[u] = rule[u]
      BY <3>3, RulesMade DEF Made
    <3>7. CASE t = n
      <4>1. declared'[n] = {}
        BY <2>1, <3>6 DEF Holders
      <4>2. Prerequisites(t)' = {}
        BY <3>4, <3>6, <3>7 DEF Prerequisites, Entries
      <4> QED BY <3>5, <3>7, <4>1, <4>2 DEF Accounted
    <3>8. CASE t # n
      BY <1>2, <2>1, <3>4, <3>5, <3>6, <3>8, AccountKept
    <3> QED BY <3>7, <3>8
  <2> QED BY <2>2, <2>3
<1>6. CASE AddTest
  <2> DEFINE l == rule[target].prereq_words
  <2>1. PICK n \in Name : n = words[test]
    BY <1>6, AddTestMakes
  <2>2. PICK m \in Name : m = target
    BY <1>6, AddTestMakes
  <2>3. /\ rule[m] # Nil /\ rule[m].operator = ":TEST:" /\ l = rule[m].prereq_words
        /\ l \in DOMAIN lists
        /\ declared' = [declared EXCEPT ![m] = @ \cup {n}]
    BY <1>6, <2>1, <2>2, AddTestMakes, NilIsNoRule DEF AddTest, Ownership, OwnOperator
  <2>4. AddedTest(l, n)
    BY <1>6, <2>1, AddTestLists
  <2>5. /\ rule[t] # Nil /\ Sharing(t)' = Sharing(t)
    <3>1. CASE rule[n] = Nil
      <4>1. Len(lists') = Len(lists) + 1
        BY <1>6, <2>1, <3>1, AddTestMakes
      <4>2. PICK r : Made(n, r) /\ r.prereq_words = Len(lists') /\ r.operator = ":BLUDTEST:"
        BY <1>6, <2>1, <3>1, AddTestMakes
      <4>3. r.prereq_words \notin DOMAIN lists
        BY <4>1, <4>2 DEF TypeOK
      <4>4. rule'[n] = r /\ \A u \in Name \ {n} : rule'[u] = rule[u]
        BY <4>2, RulesMade
      <4>5. t # n
        BY <4>2, <4>4
      <4> QED BY <4>2, <4>3, <4>4, <4>5, SharingFresh
    <3>2. CASE rule[n] # Nil
      <4> DEFINE a == IF decl.action = Nil THEN DefaultTestAction ELSE decl.action
      <4>1. Refit(n, a) /\ a \in Action \cup {DefaultTestAction, Nil}
        BY <1>6, <2>1, <3>2, AddTestMakes
      <4> HIDE DEF a
      <4>2. /\ \A u \in Name : rule[u] # Nil <=> rule'[u] # Nil
            /\ \A u \in Name : rule[u] # Nil => Kept(u)
        BY <4>1, RulesRefit
      <4> QED BY <4>2, SharingRefit
    <3> QED BY <3>1, <3>2
  <2> HIDE DEF l
  <2>6. CASE t # m
    <3>1. Sharing(m) = {m}
      BY <2>3 DEF Holders
    <3>2. rule[t].prereq_words # l /\ m \notin Sharing(t)
      BY <2>3, <2>5, <2>6, <3>1 DEF Sharing
    <3>3. lists'[rule[t].prereq_words] = lists[rule[t].prereq_words]
      BY <1>2, <2>4, <2>5, <3>2 DEF AddedTest
    <3>4. \A u \in Sharing(t) : declared'[u] = declared[u]
      BY <2>3, <3>2 DEF TypeOK, Sharing
    <3> QED BY <1>2, <2>5, <3>3, <3>4, AccountKept
  <2>7. CASE t = m
    <3>1. Sharing(t) = {t} /\ rule'[t].prereq_words = l
      BY <1>2, <2>3, <2>7 DEF Holders
    <3>2. Entries(lists[l]) = declared[t]
      BY <1>2, <2>3, <2>7, <3>1 DEF Accounted, Prerequisites
    <3>3. declared'[t] = declared[t] \cup {n}
      BY <2>3, <2>7 DEF TypeOK
    <3> DEFINE now == lists'[l]
    <3>4. Entries(now) = Entries(lists[l]) \cup {n}
      BY <2>4 DEF AddedTest
    <3>5. Prerequisites(t)' = Entries(now)
      BY <3>1 DEF Prerequisites, Entries
    <3> QED BY <2>5, <3>1, <3>2, <3>3, <3>4, <3>5 DEF Accounted
  <2> QED BY <2>6, <2>7
<1>7. CASE EvalRule \/ AppendToItself \/ RefuseRule \/ RefuseSuite \/ RefuseTest \/ SuiteAdded
           \/ RuleAdded \/ EndOfBludfile \/ Stop \/ UNCHANGED vars
  <2>1. rule' = rule /\ declared' = declared
    BY <1>7 DEF EvalRule, AppendToItself, RefuseRule, RefuseSuite, RefuseTest, SuiteAdded,
                RuleAdded, EndOfBludfile, Stop, vars
  <2>2. \A i \in DOMAIN lists : lists'[i] = lists[i]
    BY <1>7, QuietLists
  <2>3. Sharing(t)' = Sharing(t)
    BY <2>1 DEF Sharing
  <2> QED BY <1>2, <2>1, <2>2, <2>3, AccountKept
<1> QED BY <1>3, <1>4, <1>5, <1>6, <1>7 DEF Next

(* Endless is who finds the list of the declaration in a target's hands.   *)
LEMMA EndlessStep ==
  ASSUME TypeOK, Holders, EndlessOnRepeat, [Next]_vars
  PROVE  EndlessOnRepeat'
<1>1. CASE AppendToItself
  <2>1. /\ pc = "target" /\ target \in Name /\ rule[target] # Nil
        /\ rule[target].prereq_words = decl.list
        /\ decl' = decl /\ next' = next /\ target' = target
    BY <1>1 DEF AppendToItself, Adding, OwnOperator, target, TypeOK
  <2>2. \E i \in 1 .. next - 1 : decl.targets[i] = target
    BY <2>1 DEF Holders
  <2> QED BY <2>1, <2>2 DEF EndlessOnRepeat
<1>2. CASE Stop \/ UNCHANGED vars
  BY <1>2 DEF Stop, vars, EndlessOnRepeat, target
<1>3. CASE Next /\ ~AppendToItself /\ ~Stop
  <2>1. pc' # "endless"
    BY <1>3 DEF Next, EvalRule, NewRule, AddToRule, RefuseRule, AddSuite, RefuseSuite, AddTest,
                RefuseTest, SuiteAdded, RuleAdded, EndOfBludfile, Adding
  <2> QED BY <2>1 DEF EndlessOnRepeat
<1> QED BY <1>1, <1>2, <1>3

(* The invariant is inductive.                                             *)
LEMMA DeclStep == DeclInv /\ [Next]_vars => DeclInv'
BY DeclTypes, HoldersStep, OwnershipStep, AccountStep, AloneStep, SuitesStep, EndlessStep DEF DeclInv

THEOREM DeclInvariant == Spec => []DeclInv
<1>1. Init => DeclInv
  BY DeclInit
<1>2. DeclInv /\ [Next]_vars => DeclInv'
  BY DeclStep
<1> QED BY <1>1, <1>2, PTL DEF Spec

(* Nothing that was declared for a target is lost, and a rule whose list   *)
(* was made for its target alone has nothing else (operator.lua ADD_RULE,  *)
(* util.lua array_append).                                                 *)
THEOREM DeclarationsAccumulate == Spec => []ListsAccount
<1>1. ASSUME DeclInv, NEW t \in Name, rule[t] # Nil, rule[t].operator # ":BLUDTEST:"
      PROVE  /\ declared[t] \subseteq Prerequisites(t)
             /\ t \in alone => Prerequisites(t) \subseteq declared[t]
  <2>1. Accounted(t) /\ t \in Sharing(t) /\ (t \in alone => Sharing(t) = {t})
    BY <1>1 DEF DeclInv, SharedAccount, Unshared, Sharing
  <2> QED BY <2>1 DEF Accounted
<1>2. DeclInv => ListsAccount
  BY <1>1 DEF ListsAccount
<1> QED BY <1>2, DeclInvariant, PTL

(* However patterns overlap, a test is of one suite, once, bound to it and *)
(* with an action to run (operator.lua :TEST: ADD_RULE).                   *)
THEOREM TestsHaveOneSuite == Spec => []SuiteOwnsTests
<1>1. DeclInv => SuiteOwnsTests
  BY DEF DeclInv
<1> QED BY <1>1, DeclInvariant, PTL

(* The evaluation of a declaration that names no target twice does not     *)
(* append a list to itself (runtime.lua array_append).                     *)
THEOREM EndlessNeedsRepeat == Spec => []EndlessOnRepeat
<1>1. DeclInv => EndlessOnRepeat
  BY DEF DeclInv
<1> QED BY <1>1, DeclInvariant, PTL

(* Later declarations leave the operator, the list and the suite of a rule *)
(* as they are, and its action unless it is a test's (operator.lua         *)
(* ADD_RULE).                                                              *)
THEOREM RulesAreNotReplaced == Spec => RulesStay
<1> DEFINE Stays ==
  \A t \in Name : rule[t] # Nil =>
    /\ rule'[t] # Nil
    /\ \A f \in {"operator", "prereq_words", "test_target"} : rule'[t][f] = rule[t][f]
    /\ rule[t].action # Nil /\ rule[t].operator # ":BLUDTEST:" =>
         rule'[t].action = rule[t].action
<1>1. TypeOK /\ [Next]_vars => Stays
  BY RulesStayStep DEF Kept
<1>2. DeclInv => TypeOK
  BY DEF DeclInv
<1> QED BY <1>1, <1>2, DeclInvariant, PTL DEF Spec, RulesStay

-----------------------------------------------------------------------------
(***************************************************************************)
(* The context that rules expand in, and the roots that are built.         *)
(***************************************************************************)
LEMMA Induction == ASSUME NEW T \in SUBSET Nat, 0 \in T, \A n \in T : n + 1 \in T PROVE T = Nat
<1> DEFINE R == {p \in Nat \X Nat : p[1] < p[2]}
<1> DEFINE U == Nat \ T
<1> SUFFICES ASSUME U # {} PROVE FALSE
  OBVIOUS
<1>0. IsWellFoundedOn(R, Nat)
  <2>1. OpToRel(<, Nat) = R
    BY DEF OpToRel
  <2> QED BY <2>1, NatLessThanWellFounded
<1>1. PICK x \in U : \A y \in U : ~(<<y, x>> \in R)
  <2> HIDE DEF R
  <2> U \subseteq Nat
    OBVIOUS
  <2> HIDE DEF U
  <2> QED BY <1>0, WFMin
<1>2. x # 0 /\ x \in Nat
  OBVIOUS
<1>3. x - 1 \in Nat
  BY <1>2
<1>4. <<x - 1, x>> \in R
  BY <1>2, <1>3
<1>5. x - 1 \in T
  BY <1>1, <1>3, <1>4
<1>6. x \in T
  BY <1>5, <1>2, <1>3
<1> QED BY <1>6

(* Nonempty pieces of which the first begins with h, put together, begin   *)
(* with h and hold nothing that is in no piece.                            *)
LEMMA Flattened ==
  ASSUME NEW S, NEW seqs \in Seq(Seq(S)), Len(seqs) # 0, NEW h,
         seqs[1] # <<>>, seqs[1][1] = h
  PROVE  /\ FlattenSeq(seqs) \in Seq(S)
         /\ FlattenSeq(seqs) # <<>> /\ FlattenSeq(seqs)[1] = h
<1> DEFINE N == Len(seqs)
<1> DEFINE Body(f) == [i \in 1 .. N |-> IF i = 1 THEN seqs[i] ELSE f[i-1] \o seqs[i]]
<1> DEFINE Good(k, f) == /\ f \in [1 .. k -> Seq(S)]
                         /\ \A i \in 1 .. k : f[i] = IF i = 1 THEN seqs[i] ELSE f[i-1] \o seqs[i]
<1> DEFINE T == {k \in Nat : k <= N => \E f : Good(k, f)}
<1>0. N \in Nat /\ N > 0 /\ \A i \in 1 .. N : seqs[i] \in Seq(S)
  OBVIOUS
<1>1. 0 \in T
  <2>1. Good(0, [i \in {} |-> <<>>])
    OBVIOUS
  <2> QED BY <2>1
<1>2. \A k \in T : k + 1 \in T
  <2> SUFFICES ASSUME NEW k \in T PROVE k + 1 \in T
    <3> HIDE DEF T
    <3> QED OBVIOUS
  <2>1. ASSUME k + 1 <= N PROVE \E g : Good(k + 1, g)
    <3>0. PICK f : Good(k, f)
      <4> HIDE DEF Good
      <4> QED BY <1>0, <2>1
    <3> DEFINE last == IF k = 0 THEN seqs[1] ELSE f[k] \o seqs[k + 1]
    <3> DEFINE g == [i \in 1 .. k + 1 |-> IF i = k + 1 THEN last ELSE f[i]]
    <3>1. last \in Seq(S)
      BY <1>0, <2>1, <3>0
    <3>2. g \in [1 .. k + 1 -> Seq(S)]
      BY <3>0, <3>1
    <3>3. ASSUME NEW i \in 1 .. k + 1
          PROVE g[i] = IF i = 1 THEN seqs[i] ELSE g[i-1] \o seqs[i]
      <4>1. CASE i = k + 1
        <5>1. i # 1 => i - 1 \in 1 .. k + 1 /\ i - 1 # k + 1
          BY <4>1
        <5>2. i # 1 => g[i-1] = f[k]
          BY <5>1, <4>1
        <5> QED BY <4>1, <5>2
      <4>2. CASE i # k + 1
        <5>1. i \in 1 .. k
          BY <4>2
        <5>2. i # 1 => i - 1 \in 1 .. k + 1 /\ i - 1 # k + 1
          BY <5>1
        <5>3. i # 1 => g[i-1] = f[i-1]
          BY <5>2
        <5>4. g[i] = f[i]
          BY <4>2
        <5> QED BY <5>1, <5>3, <5>4, <3>0
      <4> QED BY <4>1, <4>2
    <3>4. Good(k + 1, g)
      BY <3>2, <3>3
    <3> QED BY <3>4
  <2> HIDE DEF Good
  <2> QED BY <2>1
<1>3. T = Nat
  BY <1>1, <1>2, Induction
<1>4. PICK f : Good(N, f)
  <2> HIDE DEF Good
  <2> QED BY <1>3, <1>0
<1>5. f = Body(f)
  BY <1>4
<1> DEFINE flatten == CHOOSE g : g = Body(g)
<1>6. flatten = Body(flatten)
  BY <1>5
<1>7. FlattenSeq(seqs) = flatten[N]
  BY <1>0 DEF FlattenSeq
<1> DEFINE W == {s \in Seq(S) : Len(s) > 0 /\ s[1] = h}
<1> DEFINE V == {k \in Nat : k < N => flatten[k + 1] \in W}
<1> HIDE DEF flatten
<1>8. 0 \in V
  <2>1. flatten[1] = seqs[1] /\ seqs[1] \in Seq(S)
    BY <1>0, <1>6
  <2>2. flatten[1] \in W
    BY <2>1
  <2> QED BY <2>2
<1>9. \A k \in V : k + 1 \in V
  <2> SUFFICES ASSUME NEW k \in V PROVE k + 1 \in V
    <3> HIDE DEF V
    <3> QED OBVIOUS
  <2>0. k \in Nat /\ (k + 1) + 1 = k + 2
    OBVIOUS
  <2>1. ASSUME k + 1 < N PROVE flatten[k + 2] \in W
    <3>1. k + 2 \in 1 .. N /\ k + 2 # 1 /\ (k + 2) - 1 = k + 1
      BY <1>0, <2>0, <2>1
    <3>2. flatten[k + 2] = flatten[k + 1] \o seqs[k + 2]
      BY <1>6, <2>0, <3>1
    <3>3. flatten[k + 1] \in W /\ seqs[k + 2] \in Seq(S)
      BY <1>0, <2>0, <2>1, <3>1
    <3>4. ASSUME NEW s \in W, NEW r \in Seq(S) PROVE s \o r \in W
      <4>1. s \in Seq(S) /\ Len(s) > 0 /\ s[1] = h
        OBVIOUS
      <4>2. s \o r \in Seq(S) /\ Len(s \o r) > 0 /\ (s \o r)[1] = s[1]
        BY <4>1
      <4> QED BY <4>1, <4>2
    <3> HIDE DEF W
    <3> QED BY <3>2, <3>3, <3>4
  <2> HIDE DEF W
  <2> QED BY <2>0, <2>1
<1>10. V = Nat
  BY <1>8, <1>9, Induction
<1>11. N - 1 \in Nat /\ N - 1 < N /\ (N - 1) + 1 = N
  BY <1>0
<1>12. flatten[(N - 1) + 1] \in W
  <2>1. \A k \in V : k < N => flatten[k + 1] \in W
    OBVIOUS
  <2> HIDE DEF V, W, N
  <2> QED BY <1>10, <1>11, <2>1
<1> QED BY <1>7, <1>11, <1>12

(* What is left of the names: they begin as they did, and hold no other    *)
(* name than the default target besides.                                   *)
LEMMA Inferred ==
  ASSUME NEW asked \in Seq(Name), asked # <<>>, NEW builds,
         NEW default \in Name, NEW nil
  PROVE  LET roots == InferTargets(asked, builds, default, nil)
         IN  /\ roots \in Seq(Entries(asked) \cup {default})
             /\ roots # <<>> /\ roots[1] = asked[1]
<1> DEFINE n == Len(asked)
           S == Entries(asked) \cup {default}
           Alone(i) == asked[i] \in builds /\ (i = n \/ asked[i + 1] \in builds)
           Piece(i) == IF Alone(i) /\ default # nil THEN <<asked[i], default>> ELSE <<asked[i]>>
           seqs == [i \in 1 .. n |-> Piece(i)]
<1>1. n \in Nat /\ n > 0
  OBVIOUS
<1>2. \A i \in 1 .. n : asked[i] \in S
  BY DEF Entries
<1>3. \A i \in 1 .. n : Piece(i) \in Seq(S) /\ Piece(i) # <<>> /\ Piece(i)[1] = asked[i]
  <2> HIDE DEF S, Alone
  <2> SUFFICES ASSUME NEW i \in 1 .. n
               PROVE  Piece(i) \in Seq(S) /\ Piece(i) # <<>> /\ Piece(i)[1] = asked[i]
    OBVIOUS
  <2>1. asked[i] \in S
    BY <1>2
  <2>2. default \in S
    BY DEF S
  <2> DEFINE a == asked[i]
  <2>3. a \in S
    BY <2>1
  <2> HIDE DEF a
  <2>4. <<a>> \in Seq(S) /\ <<a>> # <<>> /\ <<a>>[1] = a
    BY <2>3
  <2>5. <<a, default>> \in Seq(S) /\ <<a, default>> # <<>> /\ <<a, default>>[1] = a
    BY <2>2, <2>3
  <2> QED BY <2>4, <2>5 DEF a
<1>4. InferTargets(asked, builds, default, nil) = FlattenSeq(seqs)
  BY DEF InferTargets
<1> HIDE DEF Piece, S
<1>5. seqs \in Seq(Seq(S)) /\ Len(seqs) = n /\ seqs[1] = Piece(1)
  BY <1>1, <1>3
<1>6. seqs[1] # <<>> /\ seqs[1][1] = asked[1] /\ Len(seqs) # 0
  BY <1>1, <1>3, <1>5
<1> HIDE DEF seqs
<1>7. FlattenSeq(seqs) \in Seq(S) /\ FlattenSeq(seqs) # <<>> /\ FlattenSeq(seqs)[1] = asked[1]
  BY <1>5, <1>6, Flattened
<1> QED BY <1>4, <1>7 DEF S

(* Outside of a :BUILD: declaration the active context is the one that the *)
(* command line and the declarations so far select, and the default target *)
(* is none.                                                                *)
Settled ==
  \/ pc \in {"read", "done"}
  \/ pc \in {"target", "test"} /\ decl.operator # ":BUILD:"
SelectInv ==
  /\ Settled => build_atom = SelectDeclaredBuild
  /\ pc # "error" /\ default_target # Nil => rule[default_target] # Nil /\ default_target \notin Builds

(* Rules that stay what they are leave the contexts as they are.           *)
LEMMA BuildsKept ==
  ASSUME TypeOK, [Next]_vars, NEW n \in Name,
         rule'[n] # Nil => rule'[n].operator # ":BUILD:",
         \A u \in Name \ {n} : rule'[u] = rule[u]
  PROVE  rule[n] = Nil \/ n \notin Builds => Builds' = Builds
<1>1. rule[n] = Nil \/ n \notin Builds => n \notin Builds
  BY DEF Builds
<1>2. n \notin Builds'
  BY DEF Builds
<1>3. \A u \in Name \ {n} : u \in Builds' <=> u \in Builds
  BY DEF Builds
<1>4. Builds' \subseteq Name /\ Builds \subseteq Name
  BY DEF Builds
<1> QED BY <1>1, <1>2, <1>3, <1>4

(* Only a :BUILD: declaration makes contexts.                              *)
LEMMA BuildsOfOthers ==
  ASSUME TypeOK, [Next]_vars, NewRule => decl.operator # ":BUILD:"
  PROVE  Builds' = Builds
<1>1. CASE NewRule
  <2>1. PICK r : Made(target, r) /\ r.operator = decl.operator
    BY <1>1, NewRuleMakes
  <2>2. target \in Name
    BY <1>1, NewRuleMakes
  <2> DEFINE n == target
  <2>3. n \in Name /\ Made(n, r) /\ r.operator # ":BUILD:"
    BY <1>1, <2>1, <2>2
  <2> HIDE DEF n
  <2>4. rule'[n] = r /\ rule[n] = Nil /\ \A u \in Name \ {n} : rule'[u] = rule[u]
    BY <2>3, RulesMade DEF Made
  <2> QED BY <2>3, <2>4, BuildsKept
<1>2. CASE AddToRule
  <2> DEFINE n == target
             a == decl.action
  <2>1. n \in Name /\ a \in Action \cup {DefaultTestAction, Nil} /\ Refit(n, a)
    BY <1>2, AddToRuleRefits
  <2> HIDE DEF n, a
  <2>2. /\ \A u \in Name : rule[u] # Nil <=> rule'[u] # Nil
        /\ \A u \in Name : rule[u] # Nil => Kept(u)
    BY <2>1, RulesRefit
  <2> QED BY <2>2 DEF Builds, Kept
<1>3. CASE AddSuite
  <2>1. CASE rule[target] = Nil
    <3>1. PICK r : Made(target, r) /\ r.operator = ":TEST:"
      BY <1>3, <2>1, AddSuiteMakes
    <3>2. target \in Name
      BY <1>3, <2>1, AddSuiteMakes
    <3> DEFINE n == target
    <3>3. n \in Name /\ Made(n, r) /\ r.operator # ":BUILD:"
      BY <3>1, <3>2
    <3> HIDE DEF n
    <3>4. rule'[n] = r /\ rule[n] = Nil /\ \A u \in Name \ {n} : rule'[u] = rule[u]
      BY <3>3, RulesMade DEF Made
    <3> QED BY <3>3, <3>4, BuildsKept
  <2>2. CASE rule[target] # Nil
    BY <1>3, <2>2 DEF AddSuite, Builds
  <2> QED BY <2>1, <2>2
<1>4. CASE AddTest
  <2> DEFINE n == words[test]
             a == IF decl.action = Nil THEN DefaultTestAction ELSE decl.action
  <2>1. CASE rule[n] = Nil
    <3>1. n \in Name /\ \E r : Made(n, r) /\ r.operator = ":BLUDTEST:"
      BY <1>4, <2>1, AddTestMakes
    <3> HIDE DEF n
    <3>2. PICK r : Made(n, r) /\ r.operator = ":BLUDTEST:"
      BY <3>1
    <3>3. rule'[n] = r /\ rule[n] = Nil /\ \A u \in Name \ {n} : rule'[u] = rule[u]
      BY <3>1, <3>2, RulesMade DEF Made
    <3> QED BY <3>1, <3>2, <3>3, BuildsKept
  <2>2. CASE rule[n] # Nil
    <3>1. n \in Name /\ a \in Action \cup {DefaultTestAction, Nil} /\ Refit(n, a)
      BY <1>4, <2>2, AddTestMakes
    <3> HIDE DEF n, a
    <3>2. /\ \A u \in Name : rule[u] # Nil <=> rule'[u] # Nil
          /\ \A u \in Name : rule[u] # Nil => Kept(u)
      BY <3>1, RulesRefit
    <3> QED BY <3>2 DEF Builds, Kept
  <2> QED BY <2>1, <2>2
<1>5. CASE EvalRule \/ AppendToItself \/ RefuseRule \/ RefuseSuite \/ RefuseTest
           \/ SuiteAdded \/ RuleAdded \/ EndOfBludfile \/ Stop \/ UNCHANGED vars
  <2>1. rule' = rule
    BY <1>5 DEF EvalRule, AppendToItself, RefuseRule, RefuseSuite, RefuseTest, SuiteAdded,
                RuleAdded, EndOfBludfile, Stop, vars
  <2> QED BY <2>1 DEF Builds
<1> QED BY <1>1, <1>2, <1>3, <1>4, <1>5 DEF Next

(* The same contexts, the same selection.                                  *)
LEMMA SameSelection ==
  ASSUME Builds' = Builds, request' = request, default_build' = default_build
  PROVE  SelectDeclaredBuild' = SelectDeclaredBuild
BY DEF SelectDeclaredBuild

LEMMA SelectStep ==
  ASSUME TypeOK, Ownership, SelectInv, [Next]_vars
  PROVE  SelectInv'
<1>1. Settled' => build_atom' = SelectDeclaredBuild'
  <2>1. CASE EvalRule \/ EndOfBludfile \/ AddTest \/ SuiteAdded \/ AddSuite \/ Stop \/ UNCHANGED vars
    <3>1. /\ request' = request /\ default_build' = default_build /\ build_atom' = build_atom
      BY <2>1 DEF EvalRule, EndOfBludfile, AddTest, SuiteAdded, AddSuite, Stop, vars, defaults
    <3>2. Settled' => Settled
      <4>1. CASE EvalRule \/ EndOfBludfile
        BY <4>1 DEF EvalRule, EndOfBludfile, Settled
      <4>2. CASE AddTest \/ SuiteAdded \/ AddSuite
        BY <4>2 DEF AddTest, SuiteAdded, AddSuite, Adding, Settled, Ownership, defaults
      <4>3. CASE Stop \/ UNCHANGED vars
        BY <4>3 DEF Stop, vars, Settled
      <4> QED BY <2>1, <4>1, <4>2, <4>3
    <3>3. Builds' = Builds
      <4>1. CASE UNCHANGED vars
        BY <4>1 DEF vars, Builds
      <4>2. CASE ~UNCHANGED vars
        <5>1. ~NewRule
          BY <2>1, <4>2 DEF NewRule, Adding, EvalRule, EndOfBludfile, AddTest, SuiteAdded, AddSuite,
                            Stop, Ended
        <5> QED BY <5>1, BuildsOfOthers
      <4> QED BY <4>1, <4>2
    <3> QED BY <3>1, <3>2, <3>3, SameSelection DEF SelectInv
  <2>2. CASE NewRule \/ AddToRule
    <3>1. SUFFICES ASSUME decl.operator # ":BUILD:" PROVE build_atom' = SelectDeclaredBuild'
      BY <2>2 DEF NewRule, AddToRule, Adding, Settled
    <3>2. request' = request /\ default_build' = default_build /\ build_atom' = build_atom /\ Settled
      BY <2>2, <3>1 DEF NewRule, AddToRule, Adding, AddBuild, Settled
    <3>3. Builds' = Builds
      BY <3>1, BuildsOfOthers
    <3> QED BY <3>2, <3>3, SameSelection DEF SelectInv
  <2>3. CASE AppendToItself \/ RefuseRule \/ RefuseSuite \/ RefuseTest
    BY <2>3 DEF AppendToItself, RefuseRule, RefuseSuite, RefuseTest, Settled
  <2>4. CASE RuleAdded
    <3>1. request' = request /\ default_build' = default_build /\ rule' = rule /\ decl' = decl
          /\ pc = "target"
      BY <2>4 DEF RuleAdded
    <3>2. SelectDeclaredBuild' = SelectDeclaredBuild
      BY <3>1, SameSelection DEF Builds
    <3>3. CASE decl.operator = ":BUILD:"
      BY <2>4, <3>2, <3>3 DEF RuleAdded
    <3>4. CASE decl.operator # ":BUILD:"
      <4>1. build_atom' = build_atom /\ Settled
        BY <2>4, <3>1, <3>4 DEF RuleAdded, Settled
      <4> QED BY <3>2, <4>1 DEF SelectInv
    <3> QED BY <3>3, <3>4
  <2> QED BY <2>1, <2>2, <2>3, <2>4 DEF Next
<1>2. pc' # "error" /\ default_target' # Nil =>
        rule'[default_target'] # Nil /\ default_target' \notin Builds'
  <2> SUFFICES ASSUME pc' # "error", default_target' # Nil
               PROVE  rule'[default_target'] # Nil /\ default_target' \notin Builds'
    OBVIOUS
  <2>1. \A t \in Name : rule[t] # Nil => rule'[t] # Nil /\ rule'[t].operator = rule[t].operator
    BY RulesStayStep DEF Kept
  <2>2. pc # "error"
    BY DEF Next, EvalRule, NewRule, AddToRule, AppendToItself, RefuseRule, AddSuite, RefuseSuite,
           AddTest, RefuseTest, SuiteAdded, RuleAdded, EndOfBludfile, Stop, vars, Adding
  <2>3. CASE default_target' = default_target
    <3>1. rule[default_target] # Nil /\ default_target \notin Builds /\ default_target \in Name
      BY <2>2, <2>3 DEF SelectInv, TypeOK, Context
    <3> QED BY <2>1, <2>3, <3>1 DEF Builds
  <2>4. CASE default_target' # default_target
    <3>1. NewRule \/ AddToRule \/ AppendToItself
      BY <2>4 DEF Next, EvalRule, RefuseRule, AddSuite, RefuseSuite,
           AddTest, RefuseTest, SuiteAdded, RuleAdded, EndOfBludfile, Stop, vars, defaults
    <3>2. default_target' = target /\ decl.operator \in {":", "::"}
      BY <2>4, <3>1 DEF NewRule, AddToRule, AppendToItself, SetDefaultTarget
    <3>3. CASE NewRule
      <4>1. target \in Name /\ \E r : Made(target, r) /\ r.operator = decl.operator
        BY <3>3, NewRuleMakes
      <4> DEFINE n == target
      <4>2. PICK r : Made(n, r) /\ r.operator = decl.operator
        BY <4>1
      <4>3. n \in Name
        BY <4>1
      <4> HIDE DEF n
      <4>4. rule'[n] = r /\ r # Nil
        BY <4>2, <4>3, RulesMade
      <4>5. n \notin Builds'
        BY <3>2, <4>2, <4>4 DEF Builds
      <4> QED BY <3>2, <4>4, <4>5 DEF n
    <3>4. CASE AddToRule \/ AppendToItself
      <4>1. target \in Name /\ rule[target] # Nil /\ rule[target].operator = decl.operator
        BY <3>4 DEF AddToRule, AppendToItself, Adding, OwnOperator, target, TypeOK
      <4>2. rule'[target] # Nil /\ rule'[target].operator = decl.operator
        BY <2>1, <4>1
      <4> QED BY <3>2, <4>2 DEF Builds
    <3> QED BY <3>1, <3>3, <3>4
  <2> QED BY <2>3, <2>4
<1> QED BY <1>1, <1>2 DEF SelectInv

(* What is selected is what the roots are built in.                        *)
LEMMA SelectedIsBuilt == TypeOK /\ SelectInv => ExpandedWhereBuilt
<1> DEFINE asked == IF request = <<>> THEN <<default_target>> ELSE request
           concrete == InferTargets(asked, Builds, default_target, Nil)
           roots == ConcreteTargets(asked, Builds, default_target, default_build, Nil)
<1> SUFFICES ASSUME TypeOK, SelectInv, pc = "done", default_target # Nil, default_build # Nil,
                    \A i \in DOMAIN asked : asked[i] \in Builds => i = 1,
                    NEW i \in DOMAIN roots, roots[i] \in Builds
             PROVE  roots[i] = build_atom
  BY DEF ExpandedWhereBuilt
<1>1. /\ default_target \in Name /\ default_build \in Name
      /\ default_target \notin Builds /\ build_atom = SelectDeclaredBuild
      /\ request \in Seq(Name)
  BY DeclarationConstants DEF TypeOK, Context, SelectInv, Settled
<1>2. asked \in Seq(Name) /\ asked # <<>>
  BY <1>1
<1>3. /\ concrete \in Seq(Entries(asked) \cup {default_target})
      /\ concrete # <<>> /\ concrete[1] = asked[1]
  <2> HIDE DEF asked
  <2> QED BY <1>1, <1>2, Inferred
<1>4. 1 \in DOMAIN asked
  <2> HIDE DEF asked
  <2> QED BY <1>2
<1>5. \A x \in Entries(asked) \cup {default_target} : x \in Builds => x = asked[1] /\ asked[1] \in Builds
  BY <1>1 DEF Entries
<1>6. CASE asked[1] \in Builds
  <2>1. roots = concrete
    BY <1>3, <1>6 DEF ConcreteTargets
  <2>2. roots[i] = asked[1]
    <3> HIDE DEF concrete, asked, roots
    <3>1. roots[i] \in Entries(asked) \cup {default_target}
      BY <1>3, <2>1
    <3> QED BY <1>5, <3>1
  <2>3. request # <<>> /\ asked = request
    BY <1>1, <1>6
  <2>4. {j \in DOMAIN request : request[j] \in Builds} = {1}
    BY <1>4, <1>6, <2>3
  <2>5. SelectDeclaredBuild = request[1]
    BY <2>4 DEF SelectDeclaredBuild
  <2> QED BY <1>1, <2>2, <2>3, <2>5
<1>7. CASE asked[1] \notin Builds
  <2>1. roots = <<default_build>> \o concrete
    BY <1>3, <1>7 DEF ConcreteTargets
  <2>2. \A j \in DOMAIN asked : asked[j] \notin Builds
    BY <1>7
  <2>3. {j \in DOMAIN request : request[j] \in Builds} = {}
    <3>1. CASE request = <<>>
      BY <3>1
    <3>2. CASE request # <<>>
      BY <2>2, <3>2
    <3> QED BY <3>1, <3>2
  <2>4. SelectDeclaredBuild = default_build
    BY <2>3 DEF SelectDeclaredBuild
  <2>5. roots[i] = default_build \/ roots[i] \in Entries(asked) \cup {default_target}
    <3> DEFINE S == Entries(asked) \cup {default_target}
    <3>1. concrete \in Seq(S)
      BY <1>3
    <3> HIDE DEF concrete, asked, roots, S
    <3>2. i # 1 => i - 1 \in DOMAIN concrete /\ roots[i] = concrete[i - 1]
      <4>1. /\ i \in 1 .. Len(concrete) + 1
            /\ \A j \in 2 .. Len(concrete) + 1 : roots[j] = concrete[j - 1]
        BY <2>1, <3>1
      <4> QED BY <4>1, <3>1
    <3>3. i = 1 => roots[i] = default_build
      BY <2>1, <3>1
    <3> QED BY <3>1, <3>2, <3>3 DEF S
  <2> QED BY <1>1, <1>5, <1>7, <2>4, <2>5
<1> QED BY <1>6, <1>7

(* Rules expand in the context that their targets are built in, although   *)
(* the evaluation (runtime.lua select_declared_build) and the roots        *)
(* (runtime.lua infer_targets) choose it independently, unless the command *)
(* line names a context behind something else.                             *)
THEOREM ExpandsWhereItBuilds == Spec => []ExpandedWhereBuilt
<1>1. Init => SelectInv
  BY DEF Init, SelectInv, Settled, SelectDeclaredBuild, Builds
<1>2. TypeOK /\ Ownership /\ SelectInv /\ [Next]_vars => SelectInv'
  BY SelectStep
<1>3. DeclInv => TypeOK /\ Ownership
  BY DEF DeclInv
<1>4. Spec => []SelectInv
  BY <1>1, <1>2, <1>3, DeclInvariant, PTL DEF Spec
<1> QED BY <1>3, <1>4, SelectedIsBuilt, DeclInvariant, PTL

=============================================================================
