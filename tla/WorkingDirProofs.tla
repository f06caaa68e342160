-------------------------- MODULE WorkingDirProofs --------------------------
(***************************************************************************)
(* For every tree, every set of words and any number of changes of the     *)
(* tree, the logical directory leads to the one of the process.            *)
(***************************************************************************)
EXTENDS WorkingDir, TLAPS

(* Before os_getcwd returns, the directory of the process is the place     *)
(* that its own path leads to, as the kernel gives it.                     *)
Started ==
  pc = "getcwd" /\ Linux /\ ~changed => Leads(process, process)

DirInv == Started /\ SameDirectory

LEMMA InitInv == Init => DirInv
<1> SUFFICES ASSUME Init PROVE DirInv
  OBVIOUS
<1>1. PICK s \in Starts : fs = s.tree /\ process = s.cwd
  BY DEF Init
<1>2. Stat(fs, process) = Found(process)
  BY <1>1, WorkingDirAssumption
<1>3. Leads(process, process)
  BY <1>2 DEF Leads, Found
<1> QED
  BY <1>3 DEF Init, DirInv, Started, SameDirectory, Running

(* A change of directory that succeeds puts both in step again. *)
LEMMA InStep ==
  ASSUME NEW path, set_cwd(path), UNCHANGED <<backend, fs>>
  PROVE  IF Linux THEN Leads(logical_cwd, process)' ELSE (logical_cwd = process)'
<1>1. CASE Linux
  <2>1. Stat(fs, path).error = "none"
    BY DEF set_cwd, Enterable, Is
  <2>2. process' = Stat(fs, path).at /\ logical_cwd' = path /\ fs' = fs
    BY <1>1 DEF set_cwd, Entered
  <2>3. Leads(logical_cwd, process)' =
          (Stat(fs', logical_cwd').error = "none"
           /\ Stat(fs', logical_cwd').at = process')
    BY DEF Leads
  <2> QED
    BY <1>1, <2>1, <2>2, <2>3
<1>2. CASE ~Linux
  BY <1>2 DEF set_cwd, Entered
<1> QED
  BY <1>1, <1>2

LEMMA AfterSetting ==
  ASSUME NEW path, set_cwd(path), own' = own, pc' # "getcwd"
  PROVE  DirInv'
<1>1. UNCHANGED <<backend, fs>>
  BY DEF own
<1>2. Linux' = Linux
  BY <1>1 DEF Linux
<1>3. IF Linux THEN Leads(logical_cwd, process)' ELSE (logical_cwd = process)'
  BY <1>1, InStep
<1> QED
  BY <1>2, <1>3 DEF DirInv, Started, SameDirectory

(* Nothing moves: a change that was refused, a step of another kind. *)
LEMMA AfterRefusal ==
  ASSUME DirInv, own' = own, Running, NEW path, Refused(path), pc' # "getcwd"
  PROVE  DirInv'
<1>1. UNCHANGED <<backend, fs, process, logical_cwd, changed>>
  BY DEF own, Refused
<1>2. Linux' = Linux /\ Leads(logical_cwd, process)' = Leads(logical_cwd, process)
  BY <1>1 DEF Linux, Leads
<1> QED
  BY <1>1, <1>2 DEF DirInv, Started, SameDirectory

LEMMA NextInv == DirInv /\ [Next]_vars => DirInv'
<1> SUFFICES ASSUME DirInv, [Next]_vars PROVE DirInv'
  OBVIOUS
<1>1. CASE GrowBuffer
  <2>1. UNCHANGED <<backend, fs, process, pc, logical_cwd, changed>>
    BY <1>1 DEF GrowBuffer
  <2>2. Linux' = Linux /\ Leads(process, process)' = Leads(process, process)
        /\ Leads(logical_cwd, process)' = Leads(logical_cwd, process)
    BY <2>1 DEF Linux, Leads
  <2> QED
    BY <2>1, <2>2 DEF DirInv, Started, SameDirectory, Running
<1>2. CASE Getcwd
  <2>1. /\ pc = "getcwd" /\ pc' = "action" /\ logical_cwd' = process
        /\ UNCHANGED <<backend, fs, process, changed>>
    BY <1>2 DEF Getcwd, own
  <2>2. Linux' = Linux /\ Leads(logical_cwd, process)' = Leads(process, process)
    BY <2>1 DEF Linux, Leads
  <2> QED
    BY <2>1, <2>2 DEF DirInv, Started, SameDirectory
<1>3. CASE GetcwdFails
  BY <1>3 DEF GetcwdFails, DirInv, Started, SameDirectory, Running
<1>4. ASSUME NEW path \in Operands, Cd(path) PROVE DirInv'
  BY <1>4, AfterSetting DEF Cd, InAction
<1>5. ASSUME NEW path \in Operands, CdFails(path) PROVE DirInv'
  BY <1>5, AfterRefusal DEF CdFails, InAction, Running
<1>6. ASSUME NEW w \in Words, EnterTest(to_absolute(w)) PROVE DirInv'
  BY <1>6, AfterSetting DEF EnterTest
<1>7. ASSUME NEW w \in Words, EnterTestFails(to_absolute(w)) PROVE DirInv'
  BY <1>7, AfterRefusal DEF EnterTestFails, Running
<1>8. CASE LeaveTest
  <2>1. pc' # "getcwd"
    BY <1>8 DEF LeaveTest
  <2> QED
    BY <1>8, <2>1, AfterSetting DEF LeaveTest
<1>9. CASE LeaveTestFails
  BY <1>9, AfterRefusal DEF LeaveTestFails, Running
<1>10. ASSUME NEW p, NEW tree, Change(p, tree) PROVE DirInv'
  <2>1. changed' /\ UNCHANGED <<backend, process, pc, logical_cwd>>
    BY <1>10 DEF Change
  <2> QED
    BY <2>1 DEF DirInv, Started, SameDirectory, Running, Linux
<1>11. CASE UNCHANGED vars
  <2>1. UNCHANGED <<backend, fs, process, pc, logical_cwd, changed>>
    BY <1>11 DEF vars
  <2>2. Linux' = Linux /\ Leads(process, process)' = Leads(process, process)
        /\ Leads(logical_cwd, process)' = Leads(logical_cwd, process)
    BY <2>1 DEF Linux, Leads
  <2> QED
    BY <2>1, <2>2 DEF DirInv, Started, SameDirectory, Running
<1> QED
  BY <1>1, <1>2, <1>3, <1>4, <1>5, <1>6, <1>7, <1>8, <1>9, <1>10, <1>11
     DEF Next, Unlink, Replace

(***************************************************************************)
(* SameDirectory, for every tree and every history of cd, tests, failures  *)
(* and changes of the tree (aliasdir.lua:171-198, operator.lua:746-757).   *)
(***************************************************************************)
THEOREM DirectoriesAgree == Spec => []SameDirectory
<1>1. DirInv => SameDirectory
  BY DEF DirInv
<1> QED
  BY InitInv, NextInv, <1>1, PTL DEF Spec
=============================================================================
