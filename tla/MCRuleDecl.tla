---------------------------- MODULE MCRuleDecl ----------------------------
(* Declarations over two build names, two targets and two sources.         *)
EXTENDS RuleDecl

Always(s) == [c \in Context |-> s]
Decl(operator, targets, prerequisites, action) ==
  [operator |-> operator, targets |-> targets, prerequisites |-> prerequisites, action |-> action]

Rules(operator) ==
  {Decl(operator, Always(t), Always(p), a) :
     t \in {<<"x">>, <<"y">>, <<"x", "y">>, <<"x", "x">>},
     p \in {<<>>, <<"m">>, <<"n">>}, a \in {Nil, "act"}}
(* A target and a prerequisite whose names depend on the context.          *)
Dependent ==
  Decl(":", [c \in Context |-> IF c = "release" THEN <<"y">> ELSE <<"x">>],
       [c \in Context |-> IF c = "release" THEN <<"n">> ELSE <<"m">>], Nil)
BuildDeclarations ==
  {Decl(":BUILD:", Always(t), Always(<<>>), Nil) :
     t \in {<<"debug">>, <<"release">>, <<"release", "debug">>, <<"x">>}}
SomeTests ==
  {Decl(":TEST:", Always(t), Always(p), Nil) :
     t \in {<<"x">>, <<"y">>}, p \in {<<>>, <<"m", "m">>, <<"n", "m">>}}

AllDeclarations ==
  Rules(":") \cup {Dependent} \cup BuildDeclarations \cup SomeTests
  \cup {Decl("::", Always(<<"x">>), Always(<<"m">>), Nil),
        Decl(":", Always(<<"m">>), Always(<<"n">>), Nil),
        Decl(":BUILD:", Always(<<"debug">>), Always(<<"m">>), Nil),
        Decl(":BUILD:", Always(<<"debug">>), Always(<<>>), "act"),
        Decl(":TEST:", Always(<<"x">>), Always(<<"m">>), "act")}
AllRequests == {<<>>, <<"x">>, <<"release">>, <<"debug", "x">>, <<"y", "release">>}
=============================================================================
