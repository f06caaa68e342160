----------------------------- MODULE MCTestRun -----------------------------
(* A suite of two tests, of which one may be a directory, and the orders   *)
(* in which a command line can name them.                                  *)
EXTENDS TestRun

Cmd(ts, b, n) == [tests |-> ts, always_make |-> b, just_print |-> n]

Orders == {<<"t1", "t2">>, <<"t2", "t1">>, <<"t1", "t1">>}
Commands == {Cmd(ts, FALSE, n) : ts \in Orders, n \in BOOLEAN} \cup {Cmd(<<"t1", "t2">>, TRUE, FALSE)}

SuiteOf(kind, names, type, away, commands) ==
  [kind |-> kind, names |-> names,
   source |-> [s \in Site |-> [n \in Name |-> IF s[2] = Home THEN "old" ELSE "new"]],
   work |-> [s \in Site |-> IF s = <<"t1", Home>> THEN type ELSE Missing],
   leads_to |-> away, commands |-> commands]

AllFiles == [s \in Site |-> "file"]
FileNames == [s \in Site |-> <<"a">>]
FileSuites ==
  {SuiteOf(AllFiles, FileNames, type, {}, Commands) : type \in {Missing, Regular}}
DirectorySuite ==
  SuiteOf([s \in Site |-> IF s[1] = "t2" THEN "directory" ELSE "file"],
          [s \in Site |-> IF s[1] = "t2" THEN <<"#", Dot, "a">> ELSE <<"a">>], Missing, {},
          Commands)

(* Order-only prerequisites whose actions may cd.                          *)
WanderingSuite ==
  SuiteOf(AllFiles, FileNames, Missing, {Away}, {Cmd(<<"t1", "t2">>, FALSE, n) : n \in BOOLEAN})
AllSuites == FileSuites \cup {DirectorySuite, WanderingSuite}

OnlyFiles == {SuiteOf(AllFiles, FileNames, Missing, {}, Commands)}
=============================================================================
