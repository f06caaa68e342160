----------------------------- MODULE WorkingDir -----------------------------
(***************************************************************************)
(* The working directory: aliasdir.lua, which keeps a logical directory in *)
(* step with that of the process, cd of shell.lua and the directory of a   *)
(* test's action, over os_getcwd and os_setcwd of both back ends.  What    *)
(* blud looks up itself it makes absolute by the text of the path; what a  *)
(* command is given stays relative to the process.  Meanwhile commands and *)
(* other processes remove and replace directories and links.               *)
(* Drives, shares, letter case and "." are left out.                       *)
(***************************************************************************)
EXTENDS Integers, FileTree

CONSTANTS Starts,     \* [backend, tree, cwd, bytes]: where blud is started
          Words,      \* [absolute, names]: paths that are written
          Home,       \* HOME, an absolute word, in a set; or no such variable
          Replacements,  \* [at, node]: what others put somewhere
          MaxChanges     \* changes of the tree

Up == ".."
Word == [absolute : BOOLEAN, names : Seq(Name \cup {Up})]

ASSUME WorkingDirAssumption ==
  /\ Up \notin Name
  /\ \A w \in Words \cup Home : w \in Word
  /\ \A s \in Starts :
       /\ s.backend \in {"linux", "windows"} /\ s.bytes \in Nat \ {0}
       /\ s.cwd \in Path /\ Stat(s.tree, s.cwd) = Found(s.cwd)
       /\ DOMAIN s.tree \subseteq Path
       /\ \A p \in DOMAIN s.tree : s.tree[p] \in Node

VARIABLES backend, fs,
          process,             \* the directory of the process
          pc,                  \* getcwd, action, test, stopped, ended
          size,                \* the buffer of os_getcwd
          bytes,               \* the length of what goes into it
          logical_cwd, logical_cwd_stack,
          previous_directory,  \* of cd -, in a set, or the empty set
          changes,
          changed              \* history: since the last change of directory

vars == <<backend, fs, process, pc, size, bytes, logical_cwd,
          logical_cwd_stack, previous_directory, changes, changed>>
own == <<backend, fs, size, bytes, changes>>

Linux == backend = "linux"

Init ==
  /\ \E s \in Starts : /\ backend = s.backend /\ fs = s.tree
                       /\ process = s.cwd /\ bytes = s.bytes
  /\ pc = "getcwd" /\ size = 256
  /\ logical_cwd = <<>> /\ logical_cwd_stack = <<>>
  /\ previous_directory = {}
  /\ changes = 0 /\ changed = FALSE

-----------------------------------------------------------------------------
(* os_getcwd, once, when aliasdir.lua is loaded.  Windows tells how much   *)
(* it needs, with the NUL; Linux does not.                                 *)
Fits == bytes + 1 <= size
Here == process \in DOMAIN fs /\ fs[process].kind = "dir"

GrowBuffer ==
  /\ pc = "getcwd" /\ ~Fits
  /\ size' = IF Linux THEN size * 2 ELSE bytes + 1
  /\ UNCHANGED <<backend, fs, process, pc, bytes, logical_cwd,
                 logical_cwd_stack, previous_directory, changes, changed>>

Getcwd ==
  /\ pc = "getcwd" /\ Fits
  /\ Linux => Here
  /\ logical_cwd' = process
  /\ pc' = "action"
  /\ UNCHANGED <<own, process, logical_cwd_stack, previous_directory, changed>>

GetcwdFails ==
  /\ pc = "getcwd"
  /\ pc' = "ended"
  /\ UNCHANGED <<own, process, logical_cwd, logical_cwd_stack,
                 previous_directory, changed>>

-----------------------------------------------------------------------------
(* append_normalized_components: paths are made absolute by their text.    *)
Append1(path, name) ==
  IF name # Up THEN Append(path, name)
  ELSE IF path = <<>> THEN path ELSE Front(path)
AppendNormalized(path, names) == FoldLeft(Append1, path, names)

Base(word) == IF word.absolute THEN <<>> ELSE logical_cwd
to_absolute(word) == AppendNormalized(Base(word), word.names)

Common(p, q) ==
  Max({k \in 0 .. Min({Len(p), Len(q)}) : SubSeq(p, 1, k) = SubSeq(q, 1, k)})
Relative(ups, rest) == [absolute |-> FALSE, names |-> [k \in 1 .. ups |-> Up] \o rest]
to_relative_short(target) ==                \* mutant: one ".." is left out
  LET common == Common(target, logical_cwd)
  IN  Relative(Max({0, Len(logical_cwd) - common - 1}),
               SubSeq(target, common + 1, Len(target)))
to_relative(target) ==
  LET common == Common(target, logical_cwd)
  IN  Relative(Len(logical_cwd) - common, SubSeq(target, common + 1, Len(target)))

(* os_setcwd, and the logical directory only after it.                     *)
Enterable(path) == Is(fs, Stat(fs, path), "dir")
Entered(path) == IF Linux THEN Stat(fs, path).at ELSE path
RefusedUnnoticed(path) ==                   \* mutant: noted although it failed
  logical_cwd' = path /\ UNCHANGED <<process, changed>>
Refused(path) == UNCHANGED <<process, logical_cwd, changed>>
set_cwd(path) ==
  /\ Enterable(path)
  /\ process' = Entered(path)
  /\ logical_cwd' = path
  /\ changed' = FALSE

InAction == pc \in {"action", "test"}

(* cd DIRECTORY, cd without an operand, cd -. *)
Operands ==
  {to_absolute(w) : w \in Words \cup Home} \cup previous_directory
Cd(path) ==
  /\ InAction
  /\ set_cwd(path)
  /\ previous_directory' = {logical_cwd}
  /\ UNCHANGED <<own, pc, logical_cwd_stack>>

(* Missing, or a directory that may not be entered: exit status 1, which   *)
(* stops the action and with it the build.                                 *)
CdFails(path) ==
  /\ InAction
  /\ Refused(path)
  /\ pc' = IF pc = "test" THEN "stopped" ELSE "ended"
  /\ UNCHANGED <<own, logical_cwd_stack, previous_directory>>

-----------------------------------------------------------------------------
(* execute_test_action: push_cwd, the action, pop_cwd. *)
EnterTest(path) ==
  /\ pc = "action"
  /\ set_cwd(path)
  /\ logical_cwd_stack' = Append(logical_cwd_stack, logical_cwd)
  /\ pc' = "test"
  /\ UNCHANGED <<own, previous_directory>>

EnterTestFails(path) ==
  /\ pc = "action"
  /\ Refused(path)
  /\ pc' = "ended"
  /\ UNCHANGED <<own, logical_cwd_stack, previous_directory>>

LeaveTest ==
  /\ pc \in {"test", "stopped"}
  /\ set_cwd(Last(logical_cwd_stack))
  /\ logical_cwd_stack' = Front(logical_cwd_stack)
  /\ pc' = IF pc = "test" THEN "action" ELSE "ended"
  /\ UNCHANGED <<own, previous_directory>>

LeaveTestFails ==
  /\ pc \in {"test", "stopped"}
  /\ Refused(Last(logical_cwd_stack))
  /\ pc' = "ended"
  /\ UNCHANGED <<own, logical_cwd_stack, previous_directory>>

-----------------------------------------------------------------------------
(* Something that holds nothing is removed or replaced.  Windows does not  *)
(* let go of the directory of a process.                                   *)
Change(p, tree) ==
  /\ pc # "ended" /\ changes < MaxChanges
  /\ p \in DOMAIN fs \ {<<>>} /\ Entries(fs, p) = {}
  /\ ~Linux => Stat(fs, process).at # p /\ ~IsPrefix(p, process)
  /\ fs' = tree
  /\ changes' = changes + 1
  /\ changed' = TRUE
  /\ UNCHANGED <<backend, process, pc, size, bytes, logical_cwd,
                 logical_cwd_stack, previous_directory>>

Unlink(p) == Change(p, Without(fs, p))
Replace(p, node) == Change(p, [fs EXCEPT ![p] = node])

Next ==
  \/ GrowBuffer \/ Getcwd \/ GetcwdFails
  \/ \E path \in Operands : Cd(path) \/ CdFails(path)
  \/ \E w \in Words : EnterTest(to_absolute(w)) \/ EnterTestFails(to_absolute(w))
  \/ LeaveTest \/ LeaveTestFails
  \/ \E p \in DOMAIN fs : Unlink(p)
  \/ \E r \in Replacements : r.at \in DOMAIN fs /\ Replace(r.at, r.node)

Spec == Init /\ [][Next]_vars

-----------------------------------------------------------------------------
TypeOK ==
  /\ backend \in {"linux", "windows"}
  /\ process \in Path /\ logical_cwd \in Path
  /\ logical_cwd_stack \in Seq(Path)
  /\ previous_directory \subseteq Path
  /\ pc \in {"getcwd", "action", "test", "stopped", "ended"}
  /\ size \in Nat /\ bytes \in Nat
  /\ changes \in 0 .. MaxChanges /\ changed \in BOOLEAN

(***************************************************************************)
(* The logical directory leads to the one of the process, whatever links   *)
(* it was entered through, whichever changes of directory failed and       *)
(* however a test's action ended, unless the tree was changed since the    *)
(* last change of directory that succeeded (aliasdir.lua:171-198).  On     *)
(* Windows, where a process keeps the text of the path, they are equal.    *)
(***************************************************************************)
Running == pc \in {"action", "test", "stopped"}
Leads(path, place) ==
  Stat(fs, path).error = "none" /\ Stat(fs, path).at = place
SameDirectory ==
  Running => IF Linux THEN changed \/ Leads(logical_cwd, process)
             ELSE logical_cwd = process

(***************************************************************************)
(* A path means the same file when blud looks it up, by text from the      *)
(* logical directory, and when a command does, and so does the relative    *)
(* form that blud makes of it (OWD, the targets of a rule).  On Linux this *)
(* takes that what ".." cancels is a directory and no link, the limitation *)
(* that aliasdir.lua:5 states (aliasdir.lua:48-59, 143-169).               *)
(***************************************************************************)
Step(found, name) ==
  IF found.error # "none" \/ ~Is(fs, found, "dir")
  THEN IF found.error # "none" THEN found ELSE Error("ENOTDIR")
  ELSE IF name # Up THEN Stat(fs, Append(found.at, name))
  ELSE Found(IF found.at = <<>> THEN <<>> ELSE Front(found.at))
Reach(word) ==
  IF Linux THEN FoldLeft(Step, Found(IF word.absolute THEN <<>> ELSE process),
                         word.names)
  ELSE Stat(fs, AppendNormalized(IF word.absolute THEN <<>> ELSE process,
                                 word.names))
Cancelled(word) ==
  {AppendNormalized(Base(word), SubSeq(word.names, 1, k - 1)) :
     k \in {j \in DOMAIN word.names : word.names[j] = Up}}
Same(word, path) ==
  \/ Linux /\ \E p \in Cancelled(word) : ~Is(fs, Lstat(fs, p), "dir")
  \/ Stat(fs, path).error \in {"ELOOP", "ENAMETOOLONG"}
  \/ Reach(word) = Stat(fs, path)
SameFile ==
  Running /\ ~changed =>
    \A w \in Words : /\ Same(w, to_absolute(w))
                     /\ Same(to_relative(to_absolute(w)), to_absolute(w))
=============================================================================
