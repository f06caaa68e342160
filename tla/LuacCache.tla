----------------------------- MODULE LuacCache -----------------------------
(***************************************************************************)
(* The compiled bludfile that blud keeps beside it, bludfile.luac: whether *)
(* an invocation reuses it, and how it is written.  The decision compares  *)
(* three modification times; what it stands for is that the bytecode was   *)
(* compiled from this text by this program.                                *)
(*                                                                         *)
(* The user edits files and installs programs at any time, times of two    *)
(* changes in a row may be equal, and a process can end at any step.       *)
(***************************************************************************)
EXTENDS Naturals

CONSTANTS MaxTime, MaxInvocations, MaxEdits

ASSUME CacheBounds ==
  MaxTime \in Nat \ (0 .. 1) /\ MaxInvocations \in Nat \ {0} /\ MaxEdits \in Nat

(* What bytecode depends on.  Only the time of the first two is looked at. *)
Part == {"program", "bludfile", "included"}
Dated == {"program", "bludfile"}

Versions == [Part -> Nat]

VARIABLES
  version, time,  \* of each part; a version counts the changes of its content
  clock,
  luac,           \* bludfile.luac; time 0 when there is none
  pc,
  seen,           \* the times that the decision is made from
  text,           \* the versions this process has read, its own one included
  compiled,       \* whether compiled_function is set
  code,           \* the versions of the function that is called
  began,          \* history: the versions when this process started
  epoch, edits

disk == <<version, time, clock>>
process == <<seen, text, compiled, code>>
luacVars == <<disk, luac, pc, process, began, epoch, edits>>

Luac == [time : 0 .. MaxTime, whole : BOOLEAN, parts : Versions, raced : BOOLEAN]

Halted == {"run", "failed", "broken", "killed"}
Running == {"look", "read", "include", "open", "write", "load"}

Tick == clock' \in {t \in {clock, clock + 1} : t <= MaxTime}
Never == [p \in Part |-> 0]

-----------------------------------------------------------------------------
LuacInit ==
  /\ version = Never
  /\ time \in [Part -> 1 .. 2] /\ clock = 2
  /\ luac = [time |-> 0, whole |-> FALSE, parts |-> Never, raced |-> FALSE]
  /\ pc = "look" /\ seen = [program |-> 0, bludfile |-> 0, luac |-> 0]
  /\ text = Never /\ compiled = FALSE /\ code = Never
  /\ began = version /\ epoch = 1 /\ edits = 0

Invoke ==
  /\ pc \in Halted /\ epoch < MaxInvocations
  /\ pc' = "look" /\ seen' = [program |-> 0, bludfile |-> 0, luac |-> 0]
  /\ text' = version /\ compiled' = FALSE /\ code' = Never
  /\ began' = version /\ epoch' = epoch + 1
  /\ UNCHANGED <<disk, luac, edits>>

CurrentLoosely(s) ==        \* mutant: as new as the text is new enough
  s.program < s.bludfile /\ s.program < s.luac /\ s.bludfile <= s.luac
Current(s) ==
  s.program < s.bludfile /\ s.program < s.luac /\ s.bludfile < s.luac

Look ==
  /\ pc = "look"
  /\ seen' = [program |-> time["program"], bludfile |-> time["bludfile"],
              luac |-> luac.time]
  /\ pc' = IF luac.time # 0 /\ Current(seen') THEN "load" ELSE "read"
  /\ UNCHANGED <<disk, luac, text, compiled, code, began, epoch, edits>>

(* The program read itself when it started; an error of syntax ends it.    *)
ReadBludfile ==
  /\ pc = "read"
  /\ text' = [text EXCEPT !["bludfile"] = version["bludfile"]]
  /\ pc' \in {"include", "failed"}
  /\ UNCHANGED <<disk, luac, seen, compiled, code, began, epoch, edits>>

ReadIncluded ==
  /\ pc = "include"
  /\ text' = [text EXCEPT !["included"] = version["included"]]
  /\ \/ pc' = "open" /\ compiled' = TRUE /\ code' = text'
     \/ pc' = "failed" /\ UNCHANGED <<compiled, code>>
  /\ UNCHANGED <<disk, luac, seen, began, epoch, edits>>

(* Opening the cache for writing empties it; the failure to do so is only  *)
(* reported.                                                               *)
OpenCache ==
  /\ pc = "open"
  /\ \/ /\ Tick
        /\ luac' = [luac EXCEPT !.time = clock', !.whole = FALSE]
        /\ pc' = "write" /\ UNCHANGED <<version, time>>
     \/ pc' = "load" /\ UNCHANGED <<disk, luac>>
  /\ UNCHANGED <<process, began, epoch, edits>>

(* Neither write nor close is asked whether it worked.                     *)
WriteCache ==
  /\ pc = "write"
  /\ Tick
  /\ \E whole \in BOOLEAN :
       luac' = [time |-> clock', whole |-> whole, parts |-> text,
                raced |-> \E p \in Part : text[p] # version[p]]
  /\ pc' = "load"
  /\ UNCHANGED <<version, time, process, began, epoch, edits>>

(* compiled_function or load_bytecode(luac_path)                           *)
Loaded == IF compiled THEN code ELSE luac.parts

Load ==
  /\ pc = "load" /\ (compiled \/ luac.whole)
  /\ code' = Loaded
  /\ pc' = "run"
  /\ UNCHANGED <<disk, luac, seen, text, compiled, began, epoch, edits>>

LoadFails ==
  /\ pc = "load" /\ ~compiled /\ ~luac.whole
  /\ pc' = "broken"       \* failed to load; then bludfile_code is not defined
  /\ UNCHANGED <<disk, luac, process, began, epoch, edits>>

-----------------------------------------------------------------------------
Kill ==
  /\ pc \in Running /\ pc' = "killed"
  /\ UNCHANGED <<disk, luac, process, began, epoch, edits>>

Edit ==
  /\ edits < MaxEdits /\ edits' = edits + 1
  /\ Tick
  /\ \E p \in Part :
       /\ version' = [version EXCEPT ![p] = @ + 1]
       /\ time' = [time EXCEPT ![p] = clock']
  /\ UNCHANGED <<luac, pc, process, began, epoch>>

Stop == pc \in Halted /\ epoch = MaxInvocations /\ UNCHANGED luacVars

LuacNext ==
  Invoke \/ Look \/ ReadBludfile \/ ReadIncluded \/ OpenCache \/ WriteCache
  \/ Load \/ LoadFails \/ Kill \/ Edit \/ Stop

LuacSpec == LuacInit /\ [][LuacNext]_luacVars

-----------------------------------------------------------------------------
(* Types of the variables. *)
LuacTypeOK ==
  /\ version \in Versions /\ time \in [Part -> 1 .. MaxTime]
  /\ clock \in 1 .. MaxTime /\ luac \in Luac
  /\ pc \in Halted \cup Running
  /\ seen \in [program : 0 .. MaxTime, bludfile : 0 .. MaxTime, luac : 0 .. MaxTime]
  /\ text \in Versions /\ compiled \in BOOLEAN /\ code \in Versions
  /\ began \in Versions
  /\ epoch \in 1 .. MaxInvocations /\ edits \in 0 .. MaxEdits

(* The code that runs is that of the bludfile as it was when the process   *)
(* started, or newer, compiled by the program that runs; bytecode from     *)
(* disk only if no file changed while it was compiled, which times cannot  *)
(* show.  A process that compiled runs current included files too, whether *)
(* or not it could write the cache (test/test0021:1).                      *)
RunsCurrent ==
  pc = "run" /\ (compiled \/ ~luac.raced) =>
    \A p \in IF compiled THEN Part ELSE Dated : code[p] >= began[p]

=============================================================================
