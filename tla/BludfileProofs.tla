--------------------------- MODULE BludfileProofs ---------------------------
(***************************************************************************)
(* What is evaluated is the bludfile, and its variables mean what they     *)
(* say.  The times that blud compares are enough (LuacCache): unless files *)
(* changed while it was compiled, bytecode that is reused is current.  For *)
(* every set of names, targets, builds and sides of assignments (Scopes):  *)
(* what a variable refers to is found, its words were put where it looks,  *)
(* and an assignment that refers to itself means the value before.         *)
(***************************************************************************)
EXTENDS LuacCache, Scopes, FiniteSetTheorems, WellFoundedInduction, NaturalsInduction, TLAPS

-----------------------------------------------------------------------------
(***************************************************************************)
(* The bytecode that runs.                                                 *)
(***************************************************************************)
(* Nothing is newer than the clock, and nobody knows a later version than  *)
(* the one on disk.                                                        *)
NotAhead ==
  /\ luac.time <= clock
  /\ \A p \in Part : time[p] <= clock /\ began[p] <= version[p]

(* Bytecode that differs from a part is no newer than that part.           *)
TimesTell ==
  luac.whole /\ ~luac.raced =>
    \A p \in Dated : luac.parts[p] # version[p] => luac.time <= time[p]

(* What has been read is no older than the start; so is what will be       *)
(* loaded.                                                                 *)
ReadRecently ==
  /\ text["program"] >= began["program"]
  /\ pc \in {"include", "open", "write"} => text["bludfile"] >= began["bludfile"]
  /\ compiled => code = text /\ \A p \in Part : text[p] >= began[p]
  /\ pc \in {"look", "read", "include"} => ~compiled
  /\ pc \in {"open", "write"} => compiled
  /\ pc = "load" /\ ~compiled /\ luac.whole /\ ~luac.raced =>
       \A p \in Dated : luac.parts[p] >= began[p]

CacheInv == LuacTypeOK /\ NotAhead /\ TimesTell /\ ReadRecently /\ RunsCurrent

(* The first process finds no cache.                                       *)
LEMMA CacheInit == LuacInit => CacheInv
<1> SUFFICES ASSUME LuacInit PROVE CacheInv
  OBVIOUS
<1>1. Never \in Versions /\ luac \in Luac /\ clock \in 1 .. MaxTime
  BY CacheBounds DEF LuacInit, Never, Versions, Luac
<1>2. time \in [Part -> 1 .. MaxTime]
  BY CacheBounds DEF LuacInit
<1>3. LuacTypeOK
  <2>1. seen \in [program : 0 .. MaxTime, bludfile : 0 .. MaxTime, luac : 0 .. MaxTime]
    BY CacheBounds DEF LuacInit
  <2>2. epoch \in 1 .. MaxInvocations /\ edits \in 0 .. MaxEdits
    BY CacheBounds DEF LuacInit
  <2>3. /\ version \in Versions /\ text \in Versions /\ code \in Versions
        /\ began \in Versions /\ pc = "look" /\ compiled = FALSE
    BY <1>1 DEF LuacInit
  <2> QED BY <1>1, <1>2, <2>1, <2>2, <2>3 DEF LuacTypeOK, Running
<1>4. NotAhead
  BY <1>2 DEF LuacInit, NotAhead, Never
<1>5. TimesTell /\ ReadRecently /\ RunsCurrent
  BY DEF LuacInit, TimesTell, ReadRecently, RunsCurrent, Never, Part
<1> QED BY <1>3, <1>4, <1>5 DEF CacheInv

(* Every step keeps the types.                                             *)
LEMMA CacheTypes == LuacTypeOK /\ [LuacNext]_luacVars => LuacTypeOK'
<1> SUFFICES ASSUME LuacTypeOK, [LuacNext]_luacVars PROVE LuacTypeOK'
  OBVIOUS
<1> USE CacheBounds DEF LuacTypeOK, Halted, Running
<1>1. CASE Invoke
  <2>1. Never \in Versions
    BY DEF Never, Versions
  <2>2. seen' \in [program : 0 .. MaxTime, bludfile : 0 .. MaxTime, luac : 0 .. MaxTime]
    BY <1>1 DEF Invoke
  <2>3. epoch' \in 1 .. MaxInvocations /\ edits' = edits
    BY <1>1 DEF Invoke
  <2>4. /\ text' = version /\ code' = Never /\ began' = version /\ compiled' = FALSE
        /\ pc' = "look"
    BY <1>1 DEF Invoke
  <2>5. UNCHANGED <<version, time, clock, luac>>
    BY <1>1 DEF Invoke, disk
  <2> QED BY <2>1, <2>2, <2>3, <2>4, <2>5
<1>2. CASE Look
  <2>1. seen' \in [program : 0 .. MaxTime, bludfile : 0 .. MaxTime, luac : 0 .. MaxTime]
    <3>1. /\ time["program"] \in 0 .. MaxTime /\ time["bludfile"] \in 0 .. MaxTime
          /\ luac.time \in 0 .. MaxTime
      BY DEF Part, Luac
    <3> QED BY <1>2, <3>1 DEF Look
  <2>2. pc' \in {"load", "read"}
    BY <1>2 DEF Look
  <2>3. UNCHANGED <<version, time, clock, luac, text, compiled, code, began, epoch, edits>>
    BY <1>2 DEF Look, disk
  <2> QED BY <2>1, <2>2, <2>3
<1>3. CASE ReadBludfile \/ ReadIncluded
  BY <1>3 DEF ReadBludfile, ReadIncluded, disk, Versions, Part
<1>4. CASE OpenCache \/ WriteCache
  <2>1. clock' \in 1 .. MaxTime
    BY <1>4 DEF OpenCache, WriteCache, Tick, disk
  <2>2. luac' \in Luac
    <3>1. luac.parts \in Versions /\ luac.raced \in BOOLEAN
      BY DEF Luac
    <3>2. CASE OpenCache /\ pc' = "write"
      <4>1. luac' = [luac EXCEPT !.time = clock', !.whole = FALSE]
        BY <3>2 DEF OpenCache
      <4>2. luac' = [time |-> clock', whole |-> FALSE, parts |-> luac.parts,
                     raced |-> luac.raced]
        BY <4>1 DEF Luac
      <4>3. clock' \in 0 .. MaxTime
        BY <2>1
      <4> HIDE DEF LuacTypeOK
      <4> QED BY <3>1, <4>2, <4>3 DEF Luac
    <3>3. CASE OpenCache /\ pc' # "write"
      BY <3>3 DEF OpenCache
    <3>4. CASE WriteCache
      <4>1. PICK whole \in BOOLEAN :
              luac' = [time |-> clock', whole |-> whole, parts |-> text,
                       raced |-> \E p \in Part : text[p] # version[p]]
        BY <3>4 DEF WriteCache
      <4>2. (\E p \in Part : text[p] # version[p]) \in BOOLEAN
        OBVIOUS
      <4> QED BY <2>1, <4>1, <4>2 DEF Luac
    <3> QED BY <1>4, <3>2, <3>3, <3>4
  <2> QED BY <1>4, <2>1, <2>2 DEF OpenCache, WriteCache, disk, process
<1>5. CASE Load \/ LoadFails \/ Kill
  BY <1>5 DEF Load, LoadFails, Kill, Loaded, disk, process, Luac
<1>6. CASE Edit
  BY <1>6 DEF Edit, Tick, process, Versions
<1>7. CASE Stop \/ UNCHANGED luacVars
  BY <1>7 DEF Stop, luacVars, disk, process
<1> QED BY <1>1, <1>2, <1>3, <1>4, <1>5, <1>6, <1>7 DEF LuacNext

(* Every step keeps the invariant.                                         *)
LEMMA CacheStep == CacheInv /\ [LuacNext]_luacVars => CacheInv'
<1> SUFFICES ASSUME CacheInv, [LuacNext]_luacVars PROVE CacheInv'
  OBVIOUS
<1>0. LuacTypeOK /\ LuacTypeOK'
  BY CacheTypes DEF CacheInv
<1> USE DEF CacheInv, NotAhead, TimesTell, ReadRecently, RunsCurrent
<1>1. CASE Invoke
  <2>1. began' = version /\ text' = version /\ ~compiled' /\ pc' = "look"
    BY <1>1 DEF Invoke
  <2>2. \A p \in Part : version[p] >= version[p]
    BY <1>0 DEF LuacTypeOK, Versions
  <2>3. UNCHANGED <<version, time, clock, luac>>
    BY <1>1 DEF Invoke, disk
  <2> QED BY <1>0, <2>1, <2>2, <2>3 DEF Part
<1>2. CASE Look
  <2>1. UNCHANGED <<disk, luac, text, compiled, code, began>>
    BY <1>2 DEF Look
  <2>2. pc' = "load" /\ luac.whole /\ ~luac.raced =>
          \A p \in Dated : luac.parts[p] >= began[p]
    <3> SUFFICES ASSUME pc' = "load", luac.whole, ~luac.raced, NEW p \in Dated
                 PROVE  luac.parts[p] >= began[p]
      OBVIOUS
    <3>1. time[p] < luac.time
      BY <1>0, <1>2 DEF Look, Current, LuacTypeOK, Dated, Part, Luac
    <3>2. p \in Part
      BY DEF Dated, Part
    <3>3. luac.parts[p] = version[p]
      BY <1>0, <3>1, <3>2 DEF LuacTypeOK, Luac
    <3> QED BY <1>0, <3>2, <3>3 DEF LuacTypeOK, Versions, Luac
  <2>3. pc' \in {"load", "read"} /\ pc = "look"
    BY <1>2 DEF Look
  <2> QED BY <1>0, <2>1, <2>2, <2>3 DEF disk
<1>3. CASE ReadBludfile
  BY <1>0, <1>3 DEF ReadBludfile, disk, LuacTypeOK, Versions, Part
<1>4. CASE ReadIncluded
  BY <1>0, <1>4 DEF ReadIncluded, disk, LuacTypeOK, Versions, Part
<1>5. CASE OpenCache
  <2>1. UNCHANGED <<version, time, text, compiled, code, began>> /\ pc = "open"
        /\ pc' \in {"write", "load"} /\ compiled
    BY <1>5 DEF OpenCache, disk, process
  <2>2. clock' >= clock /\ luac'.time <= clock'
    <3>1. CASE Tick /\ luac' = [luac EXCEPT !.time = clock', !.whole = FALSE]
      <4>1. clock' >= clock /\ clock' \in Nat
        BY <1>0, <3>1 DEF Tick, LuacTypeOK
      <4>2. luac'.time = clock'
        BY <1>0, <3>1 DEF LuacTypeOK, Luac
      <4> QED BY <4>1, <4>2
    <3>2. CASE clock' = clock /\ luac' = luac
      BY <1>0, <3>2 DEF LuacTypeOK
    <3> QED BY <1>5, <3>1, <3>2 DEF OpenCache, disk
  <2>3. \A p \in Part : time[p] <= clock'
    BY <1>0, <2>2 DEF LuacTypeOK
  <2>4. ~luac'.whole \/ luac' = luac
    BY <1>0, <1>5 DEF OpenCache, LuacTypeOK, Luac
  <2> QED BY <1>0, <2>1, <2>2, <2>3, <2>4
<1>6. CASE WriteCache
  BY <1>0, <1>6 DEF WriteCache, Tick, disk, process, LuacTypeOK, Luac, Part, Dated
<1>7. CASE Load
  BY <1>0, <1>7 DEF Load, Loaded, disk, LuacTypeOK
<1>8. CASE LoadFails \/ Kill
  BY <1>0, <1>8 DEF LoadFails, Kill, disk, process, LuacTypeOK
<1>9. CASE Edit
  BY <1>0, <1>9 DEF Edit, Tick, process, LuacTypeOK, Versions, Luac, Part, Dated
<1>10. CASE Stop \/ UNCHANGED luacVars
  BY <1>0, <1>10 DEF Stop, luacVars, disk, process
<1> QED BY <1>1, <1>2, <1>3, <1>4, <1>5, <1>6, <1>7, <1>8, <1>9, <1>10 DEF LuacNext

(* Whatever the cache went through, an invocation runs the bludfile as it  *)
(* was when it started or newer, compiled by the program that runs, unless *)
(* files changed during the compilation.                                   *)
THEOREM CacheCurrent == LuacSpec => []RunsCurrent
<1>1. CacheInv => RunsCurrent
  BY DEF CacheInv
<1> QED BY CacheInit, CacheStep, <1>1, PTL DEF LuacSpec

-----------------------------------------------------------------------------
(***************************************************************************)
(* Induction on numbers, for the two recursive functions of the module.    *)
(***************************************************************************)
LEMMA Induction == ASSUME NEW T \in SUBSET Nat, 0 \in T, \A n \in T : n + 1 \in T PROVE T = Nat
<1> DEFINE R == {p \in Nat \X Nat : p[1] < p[2]}
<1> DEFINE U == Nat \ T
<1> SUFFICES ASSUME U # {} PROVE FALSE OBVIOUS
<1>0. IsWellFoundedOn(R, Nat)
  <2>1. OpToRel(<, Nat) = R BY DEF OpToRel
  <2> QED BY <2>1, NatLessThanWellFounded
<1>1. PICK x \in U : \A y \in U : ~(<<y, x>> \in R)
  <2> HIDE DEF R
  <2> U \subseteq Nat OBVIOUS
  <2> HIDE DEF U
  <2> QED BY <1>0, WFMin
<1>2. x # 0 /\ x \in Nat OBVIOUS
<1>3. x - 1 \in Nat BY <1>2
<1>4. <<x - 1, x>> \in R BY <1>2, <1>3
<1>5. x - 1 \in T BY <1>1, <1>3, <1>4
<1>6. x \in T BY <1>5, <1>2, <1>3
<1> QED BY <1>6

(* What the pieces are made of, their concatenation is made of. *)
LEMMA FlattenType ==
  ASSUME NEW S, NEW seqs \in Seq(Seq(S)) PROVE FlattenSeq(seqs) \in Seq(S)
<1> DEFINE N == Len(seqs)
<1> DEFINE Body(f) == [i \in 1 .. N |-> IF i = 1 THEN seqs[i] ELSE f[i-1] \o seqs[i]]
<1>0. CASE N = 0  BY <1>0 DEF FlattenSeq
<1>1. CASE N # 0
  <2> DEFINE Good(k, f) == /\ f \in [1 .. k -> Seq(S)]
                           /\ \A i \in 1 .. k : f[i] = IF i = 1 THEN seqs[i] ELSE f[i-1] \o seqs[i]
  <2> DEFINE T == {k \in Nat : k <= N => \E f : Good(k, f)}
  <2>0. N \in Nat /\ \A i \in 1 .. N : seqs[i] \in Seq(S) OBVIOUS
  <2>1. 0 \in T
    <3>1. Good(0, [i \in {} |-> <<>>]) OBVIOUS
    <3> QED BY <3>1
  <2>2. \A k \in T : k + 1 \in T
    <3> SUFFICES ASSUME NEW k \in T PROVE k + 1 \in T
      <4> HIDE DEF T
      <4> QED OBVIOUS
    <3>1. ASSUME k + 1 <= N PROVE \E g : Good(k + 1, g)
      <4>0. PICK f : Good(k, f)
        <5> HIDE DEF Good
        <5> QED BY <2>0, <3>1
      <4> DEFINE last == IF k = 0 THEN seqs[1] ELSE f[k] \o seqs[k + 1]
      <4> DEFINE g == [i \in 1 .. k + 1 |-> IF i = k + 1 THEN last ELSE f[i]]
      <4>1. last \in Seq(S) BY <2>0, <3>1, <4>0
      <4>2. g \in [1 .. k + 1 -> Seq(S)] BY <4>0, <4>1
      <4>3. ASSUME NEW i \in 1 .. k + 1
            PROVE g[i] = IF i = 1 THEN seqs[i] ELSE g[i-1] \o seqs[i]
        <5>1. CASE i = k + 1
          <6>1. i # 1 => i - 1 \in 1 .. k + 1 /\ i - 1 # k + 1 BY <5>1
          <6>2. i # 1 => g[i-1] = f[k] BY <6>1, <5>1
          <6> QED BY <5>1, <6>2
        <5>2. CASE i # k + 1
          <6>1. i \in 1 .. k BY <5>2
          <6>2. i # 1 => i - 1 \in 1 .. k + 1 /\ i - 1 # k + 1 BY <6>1
          <6>3. i # 1 => g[i-1] = f[i-1] BY <6>2
          <6>4. g[i] = f[i] BY <5>2
          <6> QED BY <6>1, <6>3, <6>4, <4>0
        <5> QED BY <5>1, <5>2
      <4>4. Good(k + 1, g) BY <4>2, <4>3
      <4> QED BY <4>4
    <3> HIDE DEF Good
    <3> QED BY <3>1
  <2>3. T = Nat BY <2>1, <2>2, Induction
  <2>4. PICK f : Good(N, f)
    <3> HIDE DEF Good
    <3> QED BY <2>3, <2>0
  <2>5. f = Body(f) BY <2>4
  <2> DEFINE flatten == CHOOSE h : h = Body(h)
  <2>6. flatten = Body(flatten) BY <2>5
  <2>7. FlattenSeq(seqs) = flatten[N] BY <1>1 DEF FlattenSeq
  <2> DEFINE V == {k \in Nat : k < N => flatten[k + 1] \in Seq(S)}
  <2> HIDE DEF flatten
  <2>8. 0 \in V BY <2>6, <2>0, <1>1
  <2>9. \A k \in V : k + 1 \in V
    <3> SUFFICES ASSUME NEW k \in V PROVE k + 1 \in V
      <4> HIDE DEF V
      <4> QED OBVIOUS
    <3>0. k \in Nat /\ (k + 1) + 1 = k + 2 OBVIOUS
    <3>1. ASSUME k + 1 < N PROVE flatten[k + 2] \in Seq(S)
      <4>1. k + 2 \in 1 .. N /\ k + 2 # 1 /\ (k + 2) - 1 = k + 1 BY <2>0, <3>0, <3>1
      <4>2. flatten[k + 2] = flatten[k + 1] \o seqs[k + 2] BY <2>6, <3>0, <4>1
      <4>3. flatten[k + 1] \in Seq(S) /\ seqs[k + 2] \in Seq(S) BY <2>0, <3>0, <3>1, <4>1
      <4>4. flatten[k + 1] \o seqs[k + 2] \in Seq(S) BY <4>3
      <4> QED BY <4>2, <4>4
    <3> QED BY <3>0, <3>1
  <2>10. V = Nat BY <2>8, <2>9, Induction
  <2>11. N - 1 \in V /\ N - 1 < N BY <2>10, <1>1, <2>0
  <2> QED BY <2>7, <2>11, <2>0
<1> QED BY <1>0, <1>1

LEMMA FlattenOne ==
  ASSUME NEW x PROVE FlattenSeq(<<x>>) = x
<1> DEFINE Body(f) == [i \in 1 .. 1 |-> IF i = 1 THEN <<x>>[i] ELSE f[i-1] \o <<x>>[i]]
<1>1. Len(<<x>>) = 1 /\ <<x>>[1] = x
  OBVIOUS
<1>2. [i \in 1 .. 1 |-> x] = Body([i \in 1 .. 1 |-> x])
  OBVIOUS
<1> DEFINE flatten == CHOOSE h : h = Body(h)
<1>3. flatten = Body(flatten)
  BY <1>2
<1>4. FlattenSeq(<<x>>) = flatten[1]
  BY <1>1 DEF FlattenSeq
<1> QED
  BY <1>1, <1>3, <1>4

-----------------------------------------------------------------------------
(***************************************************************************)
(* Expansion, of any definitions of the names.                             *)
(***************************************************************************)
TextsOf(W) == [text : W]

LEMMA Parted ==
  /\ \A W, p : p \in TextsOf(W) => "text" \in DOMAIN p /\ p.text \in W
  /\ \A p \in Delayed : "text" \notin DOMAIN p /\ "delay" \in DOMAIN p /\ p.delay \in AllName
  /\ \A W, p : p \in TextsOf(W) => "delay" \notin DOMAIN p /\ "immediate" \notin DOMAIN p
  /\ \A p \in Delayed : "immediate" \notin DOMAIN p
BY DEF TextsOf, Delayed

LEMMA ConcatType ==
  ASSUME NEW S, NEW N \in Nat, NEW pieces \in [1 .. N -> Seq(S) \cup {Die}]
  PROVE  Concat(pieces) \in Seq(S) \cup {Die}
<1>1. CASE \E i \in DOMAIN pieces : pieces[i] = Die
  BY <1>1 DEF Concat
<1>2. CASE ~\E i \in DOMAIN pieces : pieces[i] = Die
  <2>1. \A i \in 1 .. N : pieces[i] \in Seq(S)
    BY <1>2
  <2>2. pieces \in [1 .. N -> Seq(S)]
    BY <2>1
  <2>3. pieces \in Seq(Seq(S))
    BY <2>2
  <2>4. FlattenSeq(pieces) \in Seq(S)
    BY <2>3, FlattenType
  <2> QED
    BY <1>2, <2>4 DEF Concat
<1> QED
  BY <1>1, <1>2

LEMMA TokensType ==
  ASSUME NEW W, NEW parts \in Seq(TextsOf(W) \cup Delayed),
         NEW value \in [AllName -> Seq(W) \cup {Die}]
  PROVE  Tokens(parts, value) \in Seq(W) \cup {Die}
<1> DEFINE pieces == [i \in DOMAIN parts |->
      IF "text" \in DOMAIN parts[i] THEN <<parts[i].text>> ELSE value[parts[i].delay]]
<1>1. Tokens(parts, value) = Concat(pieces)
  BY DEF Tokens
<1>2. DOMAIN parts = 1 .. Len(parts) /\ Len(parts) \in Nat
  OBVIOUS
<1>3. \A i \in DOMAIN parts : parts[i] \in TextsOf(W) \cup Delayed
  OBVIOUS
<1>4. \A i \in DOMAIN parts : pieces[i] \in Seq(W) \cup {Die}
  BY <1>3, Parted
<1>5. pieces \in [1 .. Len(parts) -> Seq(W) \cup {Die}]
  BY <1>2, <1>4
<1> HIDE DEF pieces
<1>6. Concat(pieces) \in Seq(W) \cup {Die}
  BY <1>2, <1>5, ConcatType
<1> QED
  BY <1>1, <1>6

LEMMA OneToken ==
  ASSUME NEW n, NEW value PROVE Tokens(<<[delay |-> n]>>, value) = value[n]
<1> DEFINE parts == <<[delay |-> n]>>
<1> DEFINE pieces == [i \in DOMAIN parts |->
      IF "text" \in DOMAIN parts[i] THEN <<parts[i].text>> ELSE value[parts[i].delay]]
<1>1. Tokens(parts, value) = Concat(pieces)
  BY DEF Tokens
<1>2. DOMAIN parts = {1} /\ "text" \notin DOMAIN parts[1] /\ parts[1].delay = n
  OBVIOUS
<1>3. pieces = <<value[n]>>
  BY <1>2
<1> HIDE DEF pieces
<1>4. FlattenSeq(<<value[n]>>) = value[n]
  BY FlattenOne
<1> QED
  BY <1>1, <1>3, <1>4 DEF Concat

(* Only the values of the names that stand in the parts matter. *)
LEMMA TokensSame ==
  ASSUME NEW parts, NEW value, NEW other,
         \A i \in DOMAIN parts : "text" \in DOMAIN parts[i] \/ value[parts[i].delay] = other[parts[i].delay]
  PROVE  Tokens(parts, value) = Tokens(parts, other)
BY DEF Tokens

LEMMA TokensDie ==
  ASSUME NEW parts, NEW value, NEW i \in DOMAIN parts,
         "text" \notin DOMAIN parts[i], value[parts[i].delay] = Die
  PROVE  Tokens(parts, value) = Die
BY DEF Tokens, Concat

LEMMA AllNameFinite == IsFiniteSet(AllName)
<1>1. IsFiniteSet(1 .. MaxAssignments)
  BY ScopesConstants, FS_Interval
<1>2. IsFiniteSet(SavedName)
  BY <1>1, ScopesConstants, FS_Product DEF SavedName
<1> QED
  BY <1>2, ScopesConstants, FS_Union DEF AllName

Left(stack) == Cardinality(AllName \ stack)

LEMMA LeftDecreases ==
  \A stack \in SUBSET AllName :
    /\ Left(stack) \in Nat
    /\ \A n \in AllName \ stack : Left(stack \cup {n}) = Left(stack) - 1
<1> TAKE stack \in SUBSET AllName
<1>1. IsFiniteSet(AllName \ stack)
  BY AllNameFinite, FS_Subset
<1>2. Left(stack) \in Nat
  BY <1>1, FS_CardinalityType DEF Left
<1>3. \A n \in AllName \ stack : AllName \ (stack \cup {n}) = (AllName \ stack) \ {n}
  OBVIOUS
<1>4. \A n \in AllName \ stack : Cardinality((AllName \ stack) \ {n}) = Left(stack) - 1
  BY <1>1, FS_RemoveElement DEF Left
<1> QED
  BY <1>2, <1>3, <1>4 DEF Left

(* What holds of a stack when it holds of all that are one name longer     *)
(* holds of every stack: names do not repeat on it.                        *)
LEMMA StackInduction ==
  ASSUME NEW P \in SUBSET SUBSET AllName,
         \A stack \in SUBSET AllName :
           (\A n \in AllName \ stack : stack \cup {n} \in P) => stack \in P
  PROVE  P = SUBSET AllName
<1> DEFINE T == {k \in Nat : \A stack \in SUBSET AllName : Left(stack) < k => stack \in P}
<1>1. \A stack \in SUBSET AllName :
        /\ Left(stack) \in Nat
        /\ \A n \in AllName \ stack : Left(stack \cup {n}) = Left(stack) - 1
  BY LeftDecreases
<1>2. 0 \in T
  BY <1>1
<1>3. ASSUME NEW k \in T PROVE k + 1 \in T
  <2>1. ASSUME NEW stack \in SUBSET AllName, Left(stack) < k + 1 PROVE stack \in P
    <3>1. \A n \in AllName \ stack : Left(stack \cup {n}) < k
      BY <1>1, <2>1
    <3>2. \A n \in AllName \ stack : stack \cup {n} \in P
      BY <3>1
    <3> QED
      BY <3>2
  <2> QED
    BY <2>1
<1>4. T = Nat
  <2>1. T \in SUBSET Nat
    OBVIOUS
  <2> HIDE DEF T
  <2> QED
    BY <1>2, <1>3, <2>1, Induction
<1>5. ASSUME NEW stack \in SUBSET AllName PROVE stack \in P
  <2>1. Left(stack) + 1 \in T
    BY <1>1, <1>4
  <2> QED
    BY <1>1, <2>1
<1> QED
  BY <1>5

(* The values below a stack, from those below the stacks one name longer.  *)
Below(macro, call, stack) ==
  [n \in AllName |->
    IF n \in stack THEN Die
    ELSE IF macro[n] = Nil THEN <<>>
    ELSE Tokens(macro[n], call[stack \cup {n}])]
Step(macro, call) == [stack \in SUBSET AllName |-> Below(macro, call, stack)]

LEMMA BelowSame ==
  ASSUME NEW macro, NEW call, NEW other, NEW stack,
         \A n \in AllName \ stack : call[stack \cup {n}] = other[stack \cup {n}]
  PROVE  Below(macro, call, stack) = Below(macro, other, stack)
BY DEF Below

(* Expansion reaches an end: there is a function as Call defines it.       *)
LEMMA CallIs ==
  ASSUME NEW macro PROVE Call(macro) = Step(macro, Call(macro))
<1> DEFINE Good(k, c) ==
      \A stack \in SUBSET AllName : Left(stack) < k => c[stack] = Below(macro, c, stack)
<1> DEFINE T == {k \in Nat : \E c : Good(k, c)}
<1>1. 0 \in T
  <2>1. Good(0, <<>>)
    BY LeftDecreases
  <2> QED
    BY <2>1
<1>2. ASSUME NEW k \in T PROVE k + 1 \in T
  <2>1. PICK c : Good(k, c)
    <3> HIDE DEF Good
    <3> QED OBVIOUS
  <2> DEFINE d == Step(macro, c)
  <2>2. ASSUME NEW stack \in SUBSET AllName, Left(stack) < k + 1
        PROVE d[stack] = Below(macro, d, stack)
    <3>1. ASSUME NEW n \in AllName \ stack PROVE c[stack \cup {n}] = d[stack \cup {n}]
      <4>1. stack \cup {n} \in SUBSET AllName
        OBVIOUS
      <4>2. Left(stack \cup {n}) < k
        BY <2>2, LeftDecreases
      <4>3. c[stack \cup {n}] = Below(macro, c, stack \cup {n})
        BY <2>1, <4>1, <4>2
      <4> QED
        BY <4>1, <4>3 DEF Step
    <3>2. Below(macro, c, stack) = Below(macro, d, stack)
      BY <3>1, BelowSame
    <3> QED
      BY <3>2 DEF Step
  <2>3. Good(k + 1, d)
    BY <2>2
  <2> HIDE DEF Good, d
  <2> QED
    BY <2>3
<1>3. T = Nat
  <2>1. T \in SUBSET Nat
    OBVIOUS
  <2> HIDE DEF T
  <2> QED
    BY <1>1, <1>2, <2>1, Induction
<1>4. Left({}) + 1 \in T
  <2>1. Left({}) + 1 \in Nat
    BY LeftDecreases
  <2> HIDE DEF T
  <2> QED
    BY <1>3, <2>1
<1>5. PICK c : Good(Left({}) + 1, c)
  <2> HIDE DEF Good
  <2> QED
    BY <1>4
<1>6. \A stack \in SUBSET AllName : c[stack] = Below(macro, c, stack)
  <2> TAKE stack \in SUBSET AllName
  <2>1. Left(stack) <= Left({})
    BY AllNameFinite, FS_Subset DEF Left
  <2>2. Left(stack) < Left({}) + 1
    BY <2>1, LeftDecreases
  <2> QED
    BY <1>5, <2>2
<1> DEFINE d == Step(macro, c)
<1>7. d = Step(macro, d)
  <2>1. \A stack \in SUBSET AllName : c[stack] = d[stack]
    BY <1>6 DEF Step
  <2>2. ASSUME NEW stack \in SUBSET AllName PROVE Below(macro, c, stack) = Below(macro, d, stack)
    <3>1. \A n \in AllName \ stack : stack \cup {n} \in SUBSET AllName
      OBVIOUS
    <3>2. \A n \in AllName \ stack : c[stack \cup {n}] = d[stack \cup {n}]
      BY <2>1, <3>1
    <3> HIDE DEF d
    <3> QED
      BY <3>2, BelowSame
  <2> QED
    BY <2>2 DEF Step
<1> DEFINE call == CHOOSE e : e = Step(macro, e)
<1>8. call = Step(macro, call)
  <2> HIDE DEF d
  <2> QED
    BY <1>7
<1>9. Call(macro) = call
  BY DEF Call, Step, Below
<1> HIDE DEF call
<1> QED
  BY <1>8, <1>9

LEMMA CallAt ==
  ASSUME NEW macro, NEW stack \in SUBSET AllName, NEW n \in AllName
  PROVE  Call(macro)[stack][n] =
           IF n \in stack THEN Die
           ELSE IF macro[n] = Nil THEN <<>>
           ELSE Tokens(macro[n], Call(macro)[stack \cup {n}])
<1>1. Call(macro)[stack] = Below(macro, Call(macro), stack)
  BY CallIs DEF Step
<1> QED
  BY <1>1 DEF Below

LEMMA CallOpens ==
  ASSUME NEW macro, NEW stack \in SUBSET AllName, NEW n \in AllName, n \notin stack, macro[n] # Nil
  PROVE  Call(macro)[stack][n] = Tokens(macro[n], Call(macro)[stack \cup {n}])
BY CallAt

LEMMA CallType ==
  ASSUME NEW W, NEW macro \in [AllName -> Seq(TextsOf(W) \cup Delayed) \cup {Nil}],
         NEW stack \in SUBSET AllName
  PROVE  Call(macro)[stack] \in [AllName -> Seq(W) \cup {Die}]
<1> DEFINE P == {st \in SUBSET AllName : Call(macro)[st] \in [AllName -> Seq(W) \cup {Die}]}
<1>1. ASSUME NEW st \in SUBSET AllName, \A n \in AllName \ st : st \cup {n} \in P
      PROVE  st \in P
  <2>1. ASSUME NEW n \in AllName PROVE Call(macro)[st][n] \in Seq(W) \cup {Die}
    <3>1. CASE n \in st
      BY <3>1, CallAt
    <3>2. CASE n \notin st /\ macro[n] = Nil
      <4>1. <<>> \in Seq(W)
        OBVIOUS
      <4>2. Call(macro)[st][n] = <<>>
        BY <3>2, CallAt
      <4> QED
        BY <4>1, <4>2
    <3>3. CASE n \notin st /\ macro[n] # Nil
      <4>1. macro[n] \in Seq(TextsOf(W) \cup Delayed)
        BY <3>3
      <4>2. Call(macro)[st \cup {n}] \in [AllName -> Seq(W) \cup {Die}]
        BY <1>1, <3>3
      <4>3. Tokens(macro[n], Call(macro)[st \cup {n}]) \in Seq(W) \cup {Die}
        BY <4>1, <4>2, TokensType
      <4>4. Call(macro)[st][n] = Tokens(macro[n], Call(macro)[st \cup {n}])
        BY <3>3, CallAt
      <4> QED
        BY <4>3, <4>4
    <3> QED
      BY <3>1, <3>2, <3>3
  <2>2. Call(macro)[st] = Below(macro, Call(macro), st)
    BY CallIs DEF Step
  <2>3. Call(macro)[st] = [n \in AllName |-> Call(macro)[st][n]]
    BY <2>2 DEF Below
  <2>4. Call(macro)[st] \in [AllName -> Seq(W) \cup {Die}]
    BY <2>1, <2>3
  <2> QED
    BY <2>4
<1>2. P \in SUBSET SUBSET AllName
  OBVIOUS
<1>3. P = SUBSET AllName
  <2> HIDE DEF P
  <2> QED
    BY <1>1, <1>2, StackInduction
<1> QED
  BY <1>3

-----------------------------------------------------------------------------
(***************************************************************************)
(* What an assignment that refers to itself means.                         *)
(***************************************************************************)
Refers(parts, m) ==
  \E i \in DOMAIN parts : "text" \notin DOMAIN parts[i] /\ parts[i].delay = m
Definitions == [AllName -> Parts \cup {Nil}]

LEMMA RefersToNames ==
  ASSUME NEW parts \in Parts, NEW i \in DOMAIN parts, "text" \notin DOMAIN parts[i]
  PROVE  parts[i].delay \in AllName /\ Refers(parts, parts[i].delay)
<1>1. parts[i] \in Literal \cup Delayed
  BY DEF Parts
<1>2. parts[i] \in Delayed
  BY <1>1, Parted DEF TextsOf, Literal
<1> QED
  BY <1>2, Parted DEF Refers

(* Below n, what n means does not matter, and the saved name stands only   *)
(* in what n means.                                                        *)
LEMMA BelowTheName ==
  ASSUME NEW before \in Definitions, NEW after, NEW n \in AllName, NEW saved \in AllName,
         \A x \in AllName \ {n, saved} : after[x] = before[x],
         \A x \in AllName : before[x] # Nil => ~Refers(before[x], saved)
  PROVE  \A stack \in SUBSET AllName : n \in stack =>
           \A x \in AllName \ {saved} :
             Call(after)[stack \cup {saved}][x] = Call(before)[stack][x]
<1> DEFINE Same(stack) ==
      n \in stack => \A x \in AllName \ {saved} :
        Call(after)[stack \cup {saved}][x] = Call(before)[stack][x]
<1> DEFINE P == {stack \in SUBSET AllName : Same(stack)}
<1>1. ASSUME NEW stack \in SUBSET AllName, \A x \in AllName \ stack : stack \cup {x} \in P
      PROVE  stack \in P
  <2>1. ASSUME n \in stack, NEW x \in AllName \ {saved}
        PROVE  Call(after)[stack \cup {saved}][x] = Call(before)[stack][x]
    <3>0. stack \cup {saved} \in SUBSET AllName
      OBVIOUS
    <3>1. CASE x \in stack
      BY <3>0, <3>1, CallAt
    <3>2. CASE x \notin stack
      <4>1. after[x] = before[x]
        BY <2>1, <3>2
      <4>2. CASE before[x] = Nil
        <5>1. Call(before)[stack][x] = <<>>
          BY <3>2, <4>2, CallAt
        <5>2. after[x] = Nil /\ x \notin stack \cup {saved}
          BY <3>2, <4>1, <4>2
        <5>3. Call(after)[stack \cup {saved}][x] = <<>>
          BY <3>0, <5>2, CallAt
        <5> QED
          BY <5>1, <5>3
      <4>3. CASE before[x] # Nil
        <5>1. before[x] \in Parts
          BY <4>3 DEF Definitions
        <5> DEFINE one == Call(after)[(stack \cup {saved}) \cup {x}]
        <5> DEFINE two == Call(before)[stack \cup {x}]
        <5>2. (stack \cup {saved}) \cup {x} = (stack \cup {x}) \cup {saved}
          OBVIOUS
        <5>3. Same(stack \cup {x})
          BY <1>1, <3>2
        <5>4. \A y \in AllName \ {saved} : one[y] = two[y]
          BY <2>1, <5>2, <5>3
        <5>5. ASSUME NEW i \in DOMAIN before[x], "text" \notin DOMAIN before[x][i]
              PROVE  one[before[x][i].delay] = two[before[x][i].delay]
          <6>1. before[x][i].delay \in AllName /\ Refers(before[x], before[x][i].delay)
            BY <5>1, <5>5, RefersToNames
          <6>2. before[x][i].delay # saved
            BY <4>3, <6>1
          <6> HIDE DEF one, two
          <6> QED
            BY <5>4, <6>1, <6>2
        <5>6. Tokens(before[x], one) = Tokens(before[x], two)
          <6> HIDE DEF one, two
          <6> QED
            BY <5>5, TokensSame
        <5>7. Call(after)[stack \cup {saved}][x] = Tokens(after[x], one)
          <6> DEFINE big == stack \cup {saved}
          <6>1. big \in SUBSET AllName /\ x \in AllName /\ x \notin big /\ after[x] # Nil
            BY <3>0, <3>2, <4>1, <4>3
          <6> HIDE DEF big
          <6>2. Call(after)[big][x] = Tokens(after[x], Call(after)[big \cup {x}])
            BY <6>1, CallAt
          <6> QED BY <6>2 DEF big
        <5>8. Call(before)[stack][x] = Tokens(before[x], two)
          BY <3>2, <4>3, CallAt
        <5> QED
          BY <4>1, <5>6, <5>7, <5>8
      <4> QED
        BY <4>2, <4>3
    <3> QED
      BY <3>1, <3>2
  <2> QED
    BY <2>1
<1>2. P \in SUBSET SUBSET AllName
  OBVIOUS
<1>3. P = SUBSET AllName
  <2> HIDE DEF P
  <2> QED
    BY <1>1, <1>2, StackInduction
<1>4. ASSUME NEW stack \in SUBSET AllName PROVE Same(stack)
  <2>1. stack \in P
    BY <1>3
  <2> HIDE DEF Same
  <2> QED
    BY <2>1
<1> QED
  BY <1>4

(* A name that n refers to means below n what it means above: if it comes  *)
(* to n it goes round, from either side.                                   *)
LEMMA BelowOrAbove ==
  ASSUME NEW macro \in Definitions, NEW n \in AllName, NEW m \in AllName,
         m # n, macro[n] # Nil, Refers(macro[n], m)
  PROVE  Call(macro)[{n}][m] = Call(macro)[{}][m]
<1> DEFINE Same(stack) ==
      n \notin stack => \A x \in AllName : x = m \/ m \in stack =>
        Call(macro)[stack \cup {n}][x] = Call(macro)[stack][x]
<1> DEFINE P == {stack \in SUBSET AllName : Same(stack)}
<1>1. ASSUME NEW stack \in SUBSET AllName, \A x \in AllName \ stack : stack \cup {x} \in P
      PROVE  stack \in P
  <2>1. ASSUME n \notin stack, NEW x \in AllName, x = m \/ m \in stack
        PROVE  Call(macro)[stack \cup {n}][x] = Call(macro)[stack][x]
    <3>0. stack \cup {n} \in SUBSET AllName
      OBVIOUS
    <3>1. CASE x \in stack
      BY <3>0, <3>1, CallAt
    <3>2. CASE x \notin stack /\ macro[x] = Nil /\ x # n
      <4>1. x \notin stack \cup {n}
        BY <3>2
      <4>2. Call(macro)[stack \cup {n}][x] = <<>>
        BY <3>0, <3>2, <4>1, CallAt
      <4>3. Call(macro)[stack][x] = <<>>
        BY <3>2, CallAt
      <4> QED
        BY <4>2, <4>3
    <3>3. CASE x = n
      <4>1. m \in stack
        BY <2>1, <3>3
      <4>2. Call(macro)[stack \cup {n}][m] = Die
        <5> DEFINE big == stack \cup {n}
        <5>1. big \in SUBSET AllName /\ m \in big
          BY <3>0, <4>1
        <5> HIDE DEF big
        <5>2. Call(macro)[big][m] = Die
          BY <5>1, CallAt
        <5> QED BY <5>2 DEF big
      <4>3. PICK i \in DOMAIN macro[n] : "text" \notin DOMAIN macro[n][i] /\ macro[n][i].delay = m
        BY DEF Refers
      <4>4. Tokens(macro[n], Call(macro)[stack \cup {n}]) = Die
        BY <4>2, <4>3, TokensDie
      <4>5. Call(macro)[stack][n] = Die
        BY <2>1, <4>4, CallAt
      <4>6. Call(macro)[stack \cup {n}][n] = Die
        BY <3>0, CallAt
      <4> QED
        BY <3>3, <4>5, <4>6
    <3>4. CASE x \notin stack /\ macro[x] # Nil /\ x # n
      <4>1. macro[x] \in Parts
        BY <3>4 DEF Definitions
      <4> DEFINE one == Call(macro)[(stack \cup {n}) \cup {x}]
      <4> DEFINE two == Call(macro)[stack \cup {x}]
      <4>2. (stack \cup {n}) \cup {x} = (stack \cup {x}) \cup {n}
        OBVIOUS
      <4>3. Same(stack \cup {x})
        BY <1>1, <3>4
      <4>4. \A y \in AllName : one[y] = two[y]
        BY <2>1, <3>4, <4>2, <4>3
      <4>5. ASSUME NEW i \in DOMAIN macro[x], "text" \notin DOMAIN macro[x][i]
            PROVE  one[macro[x][i].delay] = two[macro[x][i].delay]
        <5>1. macro[x][i].delay \in AllName
          BY <4>1, <4>5, RefersToNames
        <5> HIDE DEF one, two
        <5> QED
          BY <4>4, <5>1
      <4>6. Tokens(macro[x], one) = Tokens(macro[x], two)
        <5> HIDE DEF one, two
        <5> QED
          BY <4>5, TokensSame
      <4>7. Call(macro)[stack \cup {n}][x] = Tokens(macro[x], one)
        <5>1. x \notin stack \cup {n}
          BY <3>4
        <5> QED
          BY <3>0, <3>4, <5>1, CallOpens
      <4>8. Call(macro)[stack][x] = Tokens(macro[x], two)
        BY <3>4, CallAt
      <4> QED
        BY <4>6, <4>7, <4>8
    <3> QED
      BY <3>1, <3>2, <3>3, <3>4
  <2> QED
    BY <2>1
<1>2. P \in SUBSET SUBSET AllName
  OBVIOUS
<1>3. P = SUBSET AllName
  <2> HIDE DEF P
  <2> QED
    BY <1>1, <1>2, StackInduction
<1>4. {} \in P
  BY <1>3
<1>5. {} \cup {n} = {n}
  OBVIOUS
<1> QED
  BY <1>4, <1>5

(* The saved name has below n the value that n had before.                 *)
LEMMA SavedIsBefore ==
  ASSUME NEW before \in Definitions, NEW after, NEW n \in AllName, NEW saved \in AllName,
         saved # n, Nil \notin Parts,
         \A x \in AllName : before[x] # Nil => ~Refers(before[x], saved),
         \A x \in AllName \ {n, saved} : after[x] = before[x],
         after[saved] = IF before[n] = Nil THEN <<>> ELSE before[n]
  PROVE  Call(after)[{n}][saved] = Call(before)[{}][n]
<1>1. /\ {} \in SUBSET AllName /\ {n} \in SUBSET AllName
      /\ {} \cup {n} = {n} /\ n \notin {} /\ saved \notin {n}
  OBVIOUS
<1>2. after[saved] # Nil
  <2>1. <<>> \in Parts
    BY DEF Parts
  <2> QED
    BY <2>1
<1>3. Call(after)[{n}][saved] = Tokens(after[saved], Call(after)[{n} \cup {saved}])
  <2>1. {n} \in SUBSET AllName /\ saved \notin {n}
    OBVIOUS
  <2> DEFINE stack == {n}
  <2>2. stack \in SUBSET AllName /\ saved \notin stack
    BY <2>1
  <2> HIDE DEF stack
  <2>3. Call(after)[stack][saved] = Tokens(after[saved], Call(after)[stack \cup {saved}])
    BY <1>2, <2>2, CallOpens
  <2> QED
    BY <2>3 DEF stack
<1>4. CASE before[n] = Nil
  <2>1. \A value : Tokens(<<>>, value) = <<>>
    BY DEF Tokens, Concat, FlattenSeq
  <2>2. Call(before)[{}][n] = <<>>
    BY <1>1, <1>4, CallAt
  <2> QED
    BY <1>3, <1>4, <2>1, <2>2
<1>5. CASE before[n] # Nil
  <2>1. Call(before)[{}][n] = Tokens(before[n], Call(before)[{} \cup {n}])
    BY <1>1, <1>5, CallOpens
  <2> DEFINE one == Call(after)[{n} \cup {saved}]
  <2> DEFINE two == Call(before)[{n}]
  <2>2. \A stack \in SUBSET AllName : n \in stack =>
          \A x \in AllName \ {saved} :
            Call(after)[stack \cup {saved}][x] = Call(before)[stack][x]
    BY BelowTheName
  <2>3. \A x \in AllName \ {saved} : one[x] = two[x]
    BY <1>1, <2>2
  <2> HIDE DEF one, two
  <2>4. ASSUME NEW i \in DOMAIN before[n], "text" \notin DOMAIN before[n][i]
        PROVE  one[before[n][i].delay] = two[before[n][i].delay]
    <3>1. before[n] \in Parts
      BY <1>5 DEF Definitions
    <3>2. before[n][i].delay \in AllName /\ Refers(before[n], before[n][i].delay)
      BY <2>4, <3>1, RefersToNames
    <3>3. before[n][i].delay # saved
      BY <1>5, <3>2
    <3> QED
      BY <2>3, <3>2, <3>3
  <2>5. Tokens(before[n], one) = Tokens(before[n], two)
    BY <2>4, TokensSame
  <2> QED
    BY <1>1, <1>3, <1>5, <2>1, <2>5 DEF one, two
<1> QED
  BY <1>4, <1>5

LEMMA MeansTheValueBefore ==
  ASSUME NEW before \in Definitions, NEW after \in Definitions, NEW parts \in Parts,
         NEW n \in AllName, NEW saved \in AllName, saved # n, Nil \notin Parts,
         ~Refers(parts, saved),
         \A x \in AllName : before[x] # Nil => ~Refers(before[x], saved),
         \A x \in AllName \ {n, saved} : after[x] = before[x],
         IF [delay |-> n] \in Entries(parts)
         THEN /\ after[saved] = IF before[n] = Nil THEN <<>> ELSE before[n]
              /\ after[n] = Redirected(parts, n, saved)
         ELSE after[n] = parts
  PROVE  Call(after)[{}][n] =
           Tokens(parts, [m \in AllName |-> IF m = n THEN Call(before)[{}][n] ELSE Call(after)[{}][m]])
<1> DEFINE Meant == [m \in AllName |-> IF m = n THEN Call(before)[{}][n] ELSE Call(after)[{}][m]]
<1>1. /\ {} \in SUBSET AllName /\ {n} \in SUBSET AllName
      /\ {} \cup {n} = {n} /\ n \notin {}
  OBVIOUS
<1>2. \A i \in DOMAIN parts : parts[i] \in Literal \cup Delayed
  BY DEF Parts
<1>3. \A i \in DOMAIN parts : "text" \notin DOMAIN parts[i] =>
        parts[i] = [delay |-> parts[i].delay] /\ parts[i].delay \in AllName
  BY <1>2 DEF Literal, Delayed
<1>4. CASE [delay |-> n] \notin Entries(parts)
  <2>1. after[n] = parts /\ parts # Nil
    BY <1>4
  <2>2. Call(after)[{}][n] = Tokens(parts, Call(after)[{n}])
    BY <1>1, <2>1, CallAt
  <2>3. ASSUME NEW i \in DOMAIN parts, "text" \notin DOMAIN parts[i]
        PROVE  Call(after)[{n}][parts[i].delay] = Meant[parts[i].delay]
    <3>1. parts[i].delay \in AllName /\ Refers(parts, parts[i].delay)
      BY <2>3, RefersToNames
    <3>2. parts[i].delay # n
      BY <1>3, <1>4, <2>3 DEF Entries
    <3>3. Call(after)[{n}][parts[i].delay] = Call(after)[{}][parts[i].delay]
      BY <2>1, <3>1, <3>2, BelowOrAbove
    <3> QED
      BY <3>1, <3>2, <3>3
  <2>4. Tokens(parts, Call(after)[{n}]) = Tokens(parts, Meant)
    <3> DEFINE below == Call(after)[{n}]
    <3>1. \A i \in DOMAIN parts :
            "text" \in DOMAIN parts[i] \/ below[parts[i].delay] = Meant[parts[i].delay]
      BY <2>3
    <3> HIDE DEF Meant, below
    <3>2. Tokens(parts, below) = Tokens(parts, Meant)
      BY <3>1, TokensSame
    <3> QED BY <3>2 DEF below
  <2> QED
    BY <2>2, <2>4
<1>5. CASE [delay |-> n] \in Entries(parts)
  <2> DEFINE old == IF before[n] = Nil THEN <<>> ELSE before[n]
  <2> DEFINE new == Redirected(parts, n, saved)
  <2>1. after[saved] = old /\ after[n] = new
    BY <1>5
  <2>2. <<>> \in Parts /\ old \in Parts
    BY DEF Parts, Definitions
  <2>3. after[n] \in Parts \cup {Nil} /\ DOMAIN new = DOMAIN parts
    BY DEF Definitions, Redirected
  <2>4. new # Nil
    <3>1. new \in Parts
      <4>1. ASSUME NEW i \in DOMAIN parts PROVE new[i] \in Literal \cup Delayed
        BY <1>2 DEF Redirected, Delayed
      <4>2. new \in Seq(Literal \cup Delayed)
        <5>1. parts \in Seq(Literal \cup Delayed)
          BY DEF Parts
        <5>2. DOMAIN parts = 1 .. Len(parts) /\ Len(parts) \in Nat
          BY <5>1
        <5>3. new \in [1 .. Len(parts) -> Literal \cup Delayed]
          BY <4>1, <5>2 DEF Redirected
        <5> HIDE DEF new
        <5> QED
          BY <5>2, <5>3
      <4> QED
        BY <4>2 DEF Parts
    <3> QED
      BY <3>1
  <2> HIDE DEF new
  <2>5. Call(after)[{}][n] = Tokens(new, Call(after)[{n}])
    <3>1. after[n] # Nil
      BY <2>1, <2>4
    <3>2. Call(after)[{}][n] = Tokens(after[n], Call(after)[{} \cup {n}])
      <4> DEFINE stack == {}
      <4>1. stack \in SUBSET AllName /\ n \notin stack
        OBVIOUS
      <4> HIDE DEF stack, Meant, old
      <4>2. Call(after)[stack][n] = Tokens(after[n], Call(after)[stack \cup {n}])
        BY <3>1, <4>1, CallOpens
      <4> QED
        BY <4>2 DEF stack
    <3> QED
      BY <1>1, <2>1, <3>2
  <2>6. Call(after)[{n}][saved] = Call(before)[{}][n]
    <3> HIDE DEF Meant
    <3> QED
      BY <2>1, SavedIsBefore
  <2>7. ASSUME NEW i \in DOMAIN parts
        PROVE  \/ /\ "text" \in DOMAIN parts[i] /\ new[i] = parts[i]
               \/ /\ "text" \notin DOMAIN parts[i] /\ "text" \notin DOMAIN new[i]
                  /\ Call(after)[{n}][new[i].delay] = Meant[parts[i].delay]
    <3>1. CASE parts[i] = [delay |-> n]
      <4>1. new[i] = [delay |-> saved]
        BY <3>1 DEF new, Redirected
      <4>2. Meant[n] = Call(before)[{}][n]
        OBVIOUS
      <4> HIDE DEF Meant
      <4> QED
        BY <2>6, <3>1, <4>1, <4>2
    <3>2. CASE parts[i] # [delay |-> n]
      <4>1. new[i] = parts[i]
        BY <3>2 DEF new, Redirected
      <4>2. CASE "text" \in DOMAIN parts[i]
        BY <4>1, <4>2
      <4>3. CASE "text" \notin DOMAIN parts[i]
        <5>1. parts[i].delay \in AllName /\ parts[i].delay # n
          BY <1>3, <3>2, <4>3
        <5>2. Refers(new, parts[i].delay)
          BY <2>3, <4>1, <4>3 DEF Refers
        <5>3. Call(after)[{n}][parts[i].delay] = Call(after)[{}][parts[i].delay]
          BY <2>1, <2>4, <5>1, <5>2, BelowOrAbove
        <5>4. Meant[parts[i].delay] = Call(after)[{}][parts[i].delay]
          BY <5>1
        <5> QED
          BY <4>1, <4>3, <5>3, <5>4
      <4> QED
        BY <4>2, <4>3
    <3> QED
      BY <3>1, <3>2
  <2>8. Tokens(new, Call(after)[{n}]) = Tokens(parts, Meant)
    <3> DEFINE below == Call(after)[{n}]
    <3> HIDE DEF Meant, below
    <3>1. [i \in DOMAIN new |-> IF "text" \in DOMAIN new[i] THEN <<new[i].text>> ELSE below[new[i].delay]]
            = [i \in DOMAIN parts |-> IF "text" \in DOMAIN parts[i] THEN <<parts[i].text>> ELSE Meant[parts[i].delay]]
      BY <2>3, <2>7 DEF below
    <3> QED
      BY <3>1 DEF Tokens, below
  <2> QED
    BY <2>5, <2>8
<1> QED
  BY <1>4, <1>5

-----------------------------------------------------------------------------
(***************************************************************************)
(* Lookup, as a function of the tables and the active build.               *)
(***************************************************************************)
ChainOf(b, s) ==
  IF s = bludfile THEN <<s>> ELSE IF b = Nil THEN <<s, bludfile>> ELSE <<s, b, bludfile>>
Lookup(table, chain, n) ==
  LET held == {i \in DOMAIN chain : table[chain[i]][n] # Nil}
  IN  IF held # {} THEN table[chain[CHOOSE i \in held : \A j \in held : i <= j]][n]
      ELSE IF n \in Name THEN Outer[n] ELSE Nil

Beyond(n) == IF n \in Name THEN Outer[n] ELSE Nil
MacroOf(table, b, s, n) ==
  IF table[s][n] # Nil THEN table[s][n]
  ELSE IF s # bludfile /\ b # Nil /\ table[b][n] # Nil THEN table[b][n]
  ELSE IF table[bludfile][n] # Nil THEN table[bludfile][n]
  ELSE Beyond(n)
MacrosOf(table, b, s) == [n \in AllName |-> MacroOf(table, b, s, n)]

Outward(s, b) == {s, bludfile} \cup (IF s = bludfile \/ b = Nil THEN {} ELSE {b})

LEMMA LookupIs ==
  ASSUME NEW table, NEW b, NEW s, NEW n, NEW chain, chain = ChainOf(b, s)
  PROVE  Lookup(table, chain, n) = MacroOf(table, b, s, n)
<1> DEFINE held == {i \in DOMAIN chain : table[chain[i]][n] # Nil}
<1> DEFINE least == CHOOSE i \in held : \A j \in held : i <= j
<1>1. ASSUME NEW k \in held, \A j \in held : k <= j
      PROVE  Lookup(table, chain, n) = table[chain[k]][n]
  <2>1. DOMAIN chain \subseteq Nat
    BY DEF ChainOf
  <2>2. least \in held /\ \A j \in held : least <= j
    BY <1>1
  <2>3. least = k
    BY <1>1, <2>1, <2>2
  <2> QED
    BY <1>1, <2>3 DEF Lookup
<1>2. held = {} => Lookup(table, chain, n) = Beyond(n)
  BY DEF Lookup, Beyond
<1> HIDE DEF least
<1>3. CASE s = bludfile
  <2>1. DOMAIN chain = {1} /\ chain[1] = s
    BY <1>3 DEF ChainOf
  <2>2. (1 \in held <=> table[s][n] # Nil) /\ held \subseteq {1}
    BY <2>1
  <2> HIDE DEF held
  <2>3. CASE 1 \in held
    <3>1. Lookup(table, chain, n) = table[chain[1]][n]
      BY <1>1, <2>2, <2>3
    <3> QED
      BY <2>1, <2>2, <2>3, <3>1 DEF MacroOf
  <2>4. CASE 1 \notin held
    BY <1>2, <1>3, <2>2, <2>4 DEF MacroOf
  <2> QED
    BY <2>3, <2>4
<1>4. CASE s # bludfile /\ b = Nil
  <2>1. DOMAIN chain = {1, 2} /\ chain[1] = s /\ chain[2] = bludfile
    BY <1>4 DEF ChainOf
  <2>2. /\ 1 \in held <=> table[s][n] # Nil
        /\ 2 \in held <=> table[bludfile][n] # Nil
        /\ held \subseteq {1, 2}
    BY <2>1
  <2> HIDE DEF held
  <2>3. CASE 1 \in held
    <3>1. Lookup(table, chain, n) = table[chain[1]][n]
      BY <1>1, <2>2, <2>3
    <3> QED
      BY <2>1, <2>2, <2>3, <3>1 DEF MacroOf
  <2>4. CASE 1 \notin held /\ 2 \in held
    <3>1. Lookup(table, chain, n) = table[chain[2]][n]
      BY <1>1, <2>2, <2>4
    <3> QED
      BY <1>4, <2>1, <2>2, <2>4, <3>1 DEF MacroOf
  <2>5. CASE 1 \notin held /\ 2 \notin held
    BY <1>2, <1>4, <2>2, <2>5 DEF MacroOf
  <2> QED
    BY <2>3, <2>4, <2>5
<1>5. CASE s # bludfile /\ b # Nil
  <2>1. DOMAIN chain = {1, 2, 3} /\ chain[1] = s /\ chain[2] = b /\ chain[3] = bludfile
    BY <1>5 DEF ChainOf
  <2>2. /\ 1 \in held <=> table[s][n] # Nil
        /\ 2 \in held <=> table[b][n] # Nil
        /\ 3 \in held <=> table[bludfile][n] # Nil
        /\ held \subseteq {1, 2, 3}
    BY <2>1
  <2> HIDE DEF held
  <2>3. CASE 1 \in held
    <3>1. Lookup(table, chain, n) = table[chain[1]][n]
      BY <1>1, <2>2, <2>3
    <3> QED
      BY <2>1, <2>2, <2>3, <3>1 DEF MacroOf
  <2>4. CASE 1 \notin held /\ 2 \in held
    <3>1. Lookup(table, chain, n) = table[chain[2]][n]
      BY <1>1, <2>2, <2>4
    <3> QED
      BY <1>5, <2>1, <2>2, <2>4, <3>1 DEF MacroOf
  <2>5. CASE 1 \notin held /\ 2 \notin held /\ 3 \in held
    <3>1. Lookup(table, chain, n) = table[chain[3]][n]
      BY <1>1, <2>2, <2>5
    <3> QED
      BY <1>5, <2>1, <2>2, <2>5, <3>1 DEF MacroOf
  <2>6. CASE 1 \notin held /\ 2 \notin held /\ 3 \notin held
    BY <1>2, <1>5, <2>2, <2>6 DEF MacroOf
  <2> QED
    BY <2>3, <2>4, <2>5, <2>6
<1> QED
  BY <1>3, <1>4, <1>5

(* The module's operators, before and after a step.                        *)
LEMMA MacroIs ==
  ASSUME NEW s, NEW n
  PROVE  /\ Macro(s, n) = MacroOf(variables, build_atom, s, n)
         /\ Macro(s, n)' = MacroOf(variables', build_atom', s, n)
<1>1. Macro(s, n) = Lookup(variables, ChainOf(build_atom, s), n)
  BY DEF Macro, Holding, Chain, ChainOf, Lookup
<1>2. Macro(s, n)' = Lookup(variables', ChainOf(build_atom', s), n)
  BY DEF Macro, Holding, Chain, ChainOf, Lookup
<1> QED
  BY <1>1, <1>2, LookupIs

LEMMA TextIs ==
  ASSUME NEW s, NEW n
  PROVE  /\ Text(s, n) = Call(MacrosOf(variables, build_atom, s))[{}][n]
         /\ Text(s, n)' = Call(MacrosOf(variables', build_atom', s))[{}][n]
<1>1. Macros(s) = MacrosOf(variables, build_atom, s)
  BY MacroIs DEF Macros, MacrosOf
<1>2. Macros(s)' = MacrosOf(variables', build_atom', s)
  BY MacroIs DEF Macros, MacrosOf
<1>3. Text(s, n) = Tokens(<<[delay |-> n]>>, Call(Macros(s))[{}])
  BY DEF Text, Expand
<1>4. Text(s, n)' = Tokens(<<[delay |-> n]>>, Call(Macros(s)')[{}])
  BY DEF Text, Expand
<1> QED
  BY <1>1, <1>2, <1>3, <1>4, OneToken

-----------------------------------------------------------------------------
(***************************************************************************)
(* The inductive invariant.                                                *)
(***************************************************************************)
Tables == [Scope -> Definitions]

(* No saved name has a number that is still to come. *)
Numbered(table, count) ==
  \A s \in Scope : \A n \in AllName : \A m \in SavedName :
    /\ table[s][m] # Nil => m[2] <= count
    /\ table[s][n] # Nil /\ Refers(table[s][n], m) => m[2] <= count

(* What a table refers to is in it or further out, and so are the words    *)
(* of it: also for what it got from further out by +=.                     *)
FoundFrom(table, b) ==
  \A s \in Scope : \A n \in AllName : \A m \in SavedName :
    table[s][n] # Nil /\ Refers(table[s][n], m) => \E u \in Outward(s, b) : table[u][m] # Nil

Known(s, b, words) == OuterWords \cup UNION {words[u] : u \in Outward(s, b)}
WordsFrom(table, b, words) ==
  \A s \in Scope : \A n \in AllName :
    table[s][n] \in Seq(TextsOf(Known(s, b, words)) \cup Delayed) \cup {Nil}

ScopesInv ==
  /\ TypeOK
  /\ Numbered(variables, saved_value_count)
  /\ ~switched => /\ FoundFrom(variables, build_atom)
                  /\ WordsFrom(variables, build_atom, assigned)

-----------------------------------------------------------------------------
(***************************************************************************)
(* What a lookup gives, when the tables are as the invariant says.         *)
(***************************************************************************)
LEMMA SpelledRefers ==
  ASSUME NEW parts \in Seq(Spelled), NEW m, Refers(parts, m) PROVE m \in Name
<1>1. PICK i \in DOMAIN parts : "text" \notin DOMAIN parts[i] /\ parts[i].delay = m
  BY DEF Refers
<1>2. parts[i] \in Spelled
  OBVIOUS
<1>3. parts[i] \notin Literal
  BY <1>1, Parted DEF TextsOf, Literal
<1>4. parts[i] \in [delay : Name]
  BY <1>2, <1>3 DEF Spelled
<1> QED
  BY <1>1, <1>4

LEMMA SpelledType == Seq(Spelled) \subseteq Parts
<1>1. Spelled \subseteq Literal \cup Delayed
  BY DEF Spelled, Delayed, AllName
<1> QED
  BY <1>1 DEF Parts

LEMMA OutwardIs ==
  ASSUME NEW s \in Scope, NEW b \in Build \cup {Nil}
  PROVE  /\ s \in Outward(s, b) /\ Outward(s, b) \subseteq Scope
         /\ \A u \in Outward(s, b) : Outward(u, b) \subseteq Outward(s, b)
BY ScopesConstants DEF Outward, Scope

LEMMA MacroIn ==
  ASSUME NEW table, NEW b, NEW s, NEW n
  PROVE  \/ \E u \in Outward(s, b) : table[u][n] # Nil /\ MacroOf(table, b, s, n) = table[u][n]
         \/ /\ \A u \in Outward(s, b) : table[u][n] = Nil
            /\ MacroOf(table, b, s, n) = Beyond(n)
BY DEF MacroOf, Outward

LEMMA BeyondIs ==
  ASSUME NEW n PROVE Beyond(n) \in Seq(Spelled) \cup {Nil}
BY ScopesConstants DEF Beyond

LEMMA MacroType ==
  ASSUME NEW table \in Tables, NEW b \in Build \cup {Nil}, NEW s \in Scope
  PROVE  MacrosOf(table, b, s) \in Definitions
<1>1. ASSUME NEW n \in AllName PROVE MacroOf(table, b, s, n) \in Parts \cup {Nil}
  <2>1. \A u \in Outward(s, b) : table[u][n] \in Parts \cup {Nil}
    BY OutwardIs DEF Tables, Definitions
  <2> QED
    BY <2>1, MacroIn, BeyondIs, SpelledType
<1> QED
  BY <1>1 DEF MacrosOf, Definitions

LEMMA MacroNumbered ==
  ASSUME NEW table, NEW count, Numbered(table, count), NEW b \in Build \cup {Nil}, NEW s \in Scope,
         NEW n \in AllName, NEW m \in SavedName,
         MacroOf(table, b, s, n) # Nil, Refers(MacroOf(table, b, s, n), m)
  PROVE  m[2] <= count
<1>1. CASE \E u \in Outward(s, b) : table[u][n] # Nil /\ MacroOf(table, b, s, n) = table[u][n]
  BY <1>1, OutwardIs DEF Numbered
<1>2. CASE MacroOf(table, b, s, n) = Beyond(n)
  <2>1. MacroOf(table, b, s, n) \in Seq(Spelled)
    BY <1>2, BeyondIs
  <2>2. m \in Name
    BY <2>1, SpelledRefers
  <2> QED
    BY <2>2, ScopesConstants
<1> QED
  BY <1>1, <1>2, MacroIn

LEMMA MacroFound ==
  ASSUME NEW table, NEW b \in Build \cup {Nil}, FoundFrom(table, b), NEW s \in Scope,
         NEW n \in AllName, NEW m \in SavedName,
         MacroOf(table, b, s, n) # Nil, Refers(MacroOf(table, b, s, n), m)
  PROVE  \E u \in Outward(s, b) : table[u][m] # Nil
<1>1. CASE \E u \in Outward(s, b) : table[u][n] # Nil /\ MacroOf(table, b, s, n) = table[u][n]
  <2>1. PICK u \in Outward(s, b) : table[u][n] # Nil /\ MacroOf(table, b, s, n) = table[u][n]
    BY <1>1
  <2>2. u \in Scope /\ Outward(u, b) \subseteq Outward(s, b)
    BY OutwardIs
  <2>3. \E v \in Outward(u, b) : table[v][m] # Nil
    BY <2>1, <2>2 DEF FoundFrom
  <2> QED
    BY <2>2, <2>3
<1>2. CASE MacroOf(table, b, s, n) = Beyond(n)
  <2>1. MacroOf(table, b, s, n) \in Seq(Spelled)
    BY <1>2, BeyondIs
  <2>2. m \in Name
    BY <2>1, SpelledRefers
  <2> QED
    BY <2>2, ScopesConstants
<1> QED
  BY <1>1, <1>2, MacroIn

LEMMA SeqGrows ==
  ASSUME NEW V, NEW W, V \subseteq W
  PROVE  Seq(TextsOf(V) \cup Delayed) \subseteq Seq(TextsOf(W) \cup Delayed)
<1>1. TextsOf(V) \cup Delayed \subseteq TextsOf(W) \cup Delayed
  BY DEF TextsOf
<1> QED
  BY <1>1

LEMMA KnownFurther ==
  ASSUME NEW b \in Build \cup {Nil}, NEW s \in Scope, NEW u \in Outward(s, b), NEW words
  PROVE  Known(u, b, words) \subseteq Known(s, b, words)
BY OutwardIs DEF Known

LEMMA MacroWords ==
  ASSUME NEW table, NEW b \in Build \cup {Nil}, NEW words, WordsFrom(table, b, words),
         NEW s \in Scope, NEW n \in AllName
  PROVE  MacroOf(table, b, s, n) \in Seq(TextsOf(Known(s, b, words)) \cup Delayed) \cup {Nil}
<1>1. CASE \E u \in Outward(s, b) : table[u][n] # Nil /\ MacroOf(table, b, s, n) = table[u][n]
  <2>1. PICK u \in Outward(s, b) : table[u][n] # Nil /\ MacroOf(table, b, s, n) = table[u][n]
    BY <1>1
  <2>2. u \in Scope
    BY OutwardIs
  <2>3. table[u][n] \in Seq(TextsOf(Known(u, b, words)) \cup Delayed)
    BY <2>1, <2>2 DEF WordsFrom
  <2>4. Seq(TextsOf(Known(u, b, words)) \cup Delayed) \subseteq Seq(TextsOf(Known(s, b, words)) \cup Delayed)
    BY KnownFurther, SeqGrows
  <2> QED
    BY <2>1, <2>3, <2>4
<1>2. CASE MacroOf(table, b, s, n) = Beyond(n) /\ Beyond(n) # Nil
  <2> DEFINE parts == Outer[n]
  <2>1. n \in Name /\ Beyond(n) = parts /\ parts # Nil
    BY <1>2 DEF Beyond
  <2>2. parts \in Seq(Spelled)
    BY <2>1, ScopesConstants
  <2>3. ASSUME NEW i \in DOMAIN parts
        PROVE  parts[i] \in TextsOf(OuterWords) \cup Delayed
    <3>1. parts[i] \in Literal \cup [delay : Name]
      BY <2>2 DEF Spelled
    <3>2. CASE parts[i] \in Literal
      <4>1. parts[i] \in OuterParts
        BY <2>1 DEF Entries, OuterParts
      <4>2. parts[i].text \in OuterWords
        BY <3>2, <4>1 DEF OuterWords
      <4>3. parts[i] = [text |-> parts[i].text]
        BY <3>2 DEF Literal
      <4> QED
        BY <4>2, <4>3 DEF TextsOf
    <3>3. CASE parts[i] \in [delay : Name]
      BY <3>3 DEF Delayed, AllName
    <3> QED
      BY <3>1, <3>2, <3>3
  <2> HIDE DEF parts
  <2>4. parts \in Seq(TextsOf(OuterWords) \cup Delayed)
    <3>1. DOMAIN parts = 1 .. Len(parts) /\ Len(parts) \in Nat /\ parts = [i \in DOMAIN parts |-> parts[i]]
      BY <2>2
    <3>2. parts \in [1 .. Len(parts) -> TextsOf(OuterWords) \cup Delayed]
      BY <2>3, <3>1
    <3> QED
      BY <3>1, <3>2
  <2>5. OuterWords \subseteq Known(s, b, words)
    BY DEF Known
  <2> QED
    BY <1>2, <2>1, <2>4, <2>5, SeqGrows
<1>3. CASE MacroOf(table, b, s, n) = Beyond(n) /\ Beyond(n) = Nil
  BY <1>3
<1> QED
  BY <1>1, <1>2, <1>3, MacroIn

-----------------------------------------------------------------------------
(***************************************************************************)
(* One entry is written.                                                   *)
(***************************************************************************)
Put(table, s, n, v) == [table EXCEPT ![s][n] = v]

LEMMA PutAt ==
  ASSUME NEW table \in Tables, NEW s \in Scope, NEW n \in AllName, NEW v \in Parts
  PROVE  /\ Put(table, s, n, v) \in Tables
         /\ \A u \in Scope : \A x \in AllName :
              Put(table, s, n, v)[u][x] = IF u = s /\ x = n THEN v ELSE table[u][x]
<1>1. \A u \in Scope : table[u] \in [AllName -> Parts \cup {Nil}]
  BY DEF Tables, Definitions
<1>2. \A u \in Scope : Put(table, s, n, v)[u] = IF u = s THEN [table[s] EXCEPT ![n] = v] ELSE table[u]
  BY DEF Put, Tables
<1>3. [table[s] EXCEPT ![n] = v] \in [AllName -> Parts \cup {Nil}]
  BY <1>1
<1>4. Put(table, s, n, v) \in [Scope -> [AllName -> Parts \cup {Nil}]]
  BY <1>1, <1>3 DEF Put, Tables, Definitions
<1>5. \A x \in AllName : [table[s] EXCEPT ![n] = v][x] = IF x = n THEN v ELSE table[s][x]
  BY <1>1
<1> QED
  BY <1>2, <1>4, <1>5 DEF Tables, Definitions

LEMMA PutNumbered ==
  ASSUME NEW table \in Tables, NEW s \in Scope, NEW n \in AllName, NEW v \in Parts,
         NEW count \in Nat, NEW more \in Nat, Numbered(table, count), count <= more,
         n \in SavedName => n[2] <= more,
         \A m \in SavedName : Refers(v, m) => m[2] <= more
  PROVE  Numbered(Put(table, s, n, v), more)
<1> SUFFICES ASSUME NEW u \in Scope, NEW x \in AllName, NEW m \in SavedName
             PROVE  /\ Put(table, s, n, v)[u][m] # Nil => m[2] <= more
                    /\ Put(table, s, n, v)[u][x] # Nil /\ Refers(Put(table, s, n, v)[u][x], m) => m[2] <= more
  BY DEF Numbered
<1>1. m \in AllName /\ m[2] \in Nat
  BY DEF AllName, SavedName
<1>2. /\ table[u][m] # Nil => m[2] <= count
      /\ table[u][x] # Nil /\ Refers(table[u][x], m) => m[2] <= count
  BY DEF Numbered
<1>3. Put(table, s, n, v)[u][m] # Nil => m[2] <= more
  BY <1>1, <1>2, PutAt
<1>4. Put(table, s, n, v)[u][x] # Nil /\ Refers(Put(table, s, n, v)[u][x], m) => m[2] <= more
  BY <1>1, <1>2, PutAt
<1> QED
  BY <1>3, <1>4

LEMMA PutFound ==
  ASSUME NEW table \in Tables, NEW s \in Scope, NEW n \in AllName, NEW v \in Parts,
         NEW b \in Build \cup {Nil}, FoundFrom(table, b), Nil \notin Parts,
         \A m \in SavedName : Refers(v, m) => \E u \in Outward(s, b) : table[u][m] # Nil
  PROVE  FoundFrom(Put(table, s, n, v), b)
<1> SUFFICES ASSUME NEW u \in Scope, NEW x \in AllName, NEW m \in SavedName,
                    Put(table, s, n, v)[u][x] # Nil, Refers(Put(table, s, n, v)[u][x], m)
             PROVE  \E w \in Outward(u, b) : Put(table, s, n, v)[w][m] # Nil
  BY DEF FoundFrom
<1>1. \E w \in Outward(u, b) : table[w][m] # Nil
  <2>1. CASE u = s /\ x = n
    <3>1. Put(table, s, n, v)[u][x] = v
      BY <2>1, PutAt
    <3> QED
      BY <2>1, <3>1
  <2>2. CASE ~(u = s /\ x = n)
    <3>1. Put(table, s, n, v)[u][x] = table[u][x]
      BY <2>2, PutAt
    <3> QED
      BY <3>1 DEF FoundFrom
  <2> QED
    BY <2>1, <2>2
<1>2. \A w \in Scope : table[w][m] # Nil => Put(table, s, n, v)[w][m] # Nil
  <2>1. m \in AllName
    BY DEF AllName
  <2> QED
    BY <2>1, PutAt
<1> QED
  BY <1>1, <1>2, OutwardIs

LEMMA PutWords ==
  ASSUME NEW table \in Tables, NEW s \in Scope, NEW n \in AllName, NEW v \in Parts,
         NEW b \in Build \cup {Nil}, NEW words, WordsFrom(table, b, words),
         v \in Seq(TextsOf(Known(s, b, words)) \cup Delayed)
  PROVE  WordsFrom(Put(table, s, n, v), b, words)
<1> SUFFICES ASSUME NEW u \in Scope, NEW x \in AllName
             PROVE  Put(table, s, n, v)[u][x] \in Seq(TextsOf(Known(u, b, words)) \cup Delayed) \cup {Nil}
  BY DEF WordsFrom
<1>1. CASE u = s /\ x = n
  <2>1. Put(table, s, n, v)[u][x] = v
    BY <1>1, PutAt
  <2> QED
    BY <1>1, <2>1
<1>2. CASE ~(u = s /\ x = n)
  <2>1. Put(table, s, n, v)[u][x] = table[u][x]
    BY <1>2, PutAt
  <2> QED
    BY <2>1 DEF WordsFrom
<1> QED
  BY <1>1, <1>2

-----------------------------------------------------------------------------
(***************************************************************************)
(* The parts that an assignment makes.                                     *)
(***************************************************************************)
LEMMA EvaluatedType ==
  ASSUME TypeOK, NEW right \in Right
  PROVE  Evaluated(right) \in Seq(Spelled) \cup {Die}
<1>1. right \in Seq(Spelled \cup Immediate)
  BY ScopesConstants
<1>2. DOMAIN right = 1 .. Len(right) /\ Len(right) \in Nat
  BY <1>1
<1> DEFINE words(n) == Text(bludfile, n)
<1> DEFINE literals(n) == [j \in DOMAIN words(n) |-> [text |-> words(n)[j]]]
<1> DEFINE pieces == [i \in DOMAIN right |->
      IF "immediate" \notin DOMAIN right[i] THEN <<right[i]>>
      ELSE IF words(right[i].immediate) = Die THEN Die ELSE literals(right[i].immediate)]
<1>3. Evaluated(right) = Concat(pieces)
  BY DEF Evaluated
<1>4. ASSUME NEW n \in Name PROVE words(n) \in Seq(Word) \cup {Die}
  <2>1. MacrosOf(variables, build_atom, bludfile) \in Definitions
    BY MacroType DEF TypeOK, Tables, Definitions, Scope
  <2>2. Definitions = [AllName -> Seq(TextsOf(Word) \cup Delayed) \cup {Nil}]
    BY DEF Definitions, Parts, Literal, TextsOf
  <2>3. Call(MacrosOf(variables, build_atom, bludfile))[{}] \in [AllName -> Seq(Word) \cup {Die}]
    BY <2>1, <2>2, CallType
  <2> QED
    BY <2>3, TextIs DEF AllName
<1> HIDE DEF words
<1>5. ASSUME NEW n \in Name, words(n) # Die PROVE literals(n) \in Seq(Spelled)
  <2>1. words(n) \in Seq(Word)
    BY <1>4, <1>5
  <2>2. DOMAIN words(n) = 1 .. Len(words(n)) /\ Len(words(n)) \in Nat
    BY <2>1
  <2>3. \A j \in DOMAIN words(n) : [text |-> words(n)[j]] \in Spelled
    BY <2>1 DEF Spelled, Literal
  <2>4. literals(n) \in [1 .. Len(words(n)) -> Spelled]
    BY <2>2, <2>3
  <2> HIDE DEF literals
  <2> QED
    BY <2>2, <2>4
<1> HIDE DEF literals
<1>6. ASSUME NEW i \in DOMAIN right PROVE pieces[i] \in Seq(Spelled) \cup {Die}
  <2>1. right[i] \in Spelled \cup Immediate
    BY <1>1
  <2>2. CASE "immediate" \notin DOMAIN right[i]
    <3>1. right[i] \in Spelled
      BY <2>1, <2>2 DEF Immediate
    <3> QED
      BY <2>2, <3>1
  <2>3. CASE "immediate" \in DOMAIN right[i]
    <3>1. right[i] \notin Literal /\ right[i] \notin [delay : Name]
      BY <2>3 DEF Literal
    <3>2. right[i].immediate \in Name
      BY <2>1, <3>1 DEF Spelled, Immediate
    <3> QED
      BY <1>5, <2>3, <3>2
  <2> QED
    BY <2>2, <2>3
<1>7. pieces \in [1 .. Len(right) -> Seq(Spelled) \cup {Die}]
  BY <1>2, <1>6
<1> HIDE DEF pieces
<1>8. Concat(pieces) \in Seq(Spelled) \cup {Die}
  BY <1>2, <1>7, ConcatType
<1> QED
  BY <1>3, <1>8

Words(parts) == {p.text : p \in Entries(parts) \cap Literal}

LEMMA SpelledWords ==
  ASSUME NEW parts \in Seq(Spelled)
  PROVE  /\ parts \in Parts
         /\ parts \in Seq(TextsOf(Words(parts)) \cup Delayed)
         /\ Words(parts) \subseteq Word
<1>1. ASSUME NEW i \in DOMAIN parts PROVE parts[i] \in TextsOf(Words(parts)) \cup Delayed
  <2>1. parts[i] \in Literal \cup [delay : Name]
    BY DEF Spelled
  <2>2. CASE parts[i] \in Literal
    <3>1. parts[i].text \in Words(parts)
      BY <2>2 DEF Words, Entries
    <3>2. parts[i] = [text |-> parts[i].text]
      BY <2>2 DEF Literal
    <3> QED
      BY <3>1, <3>2 DEF TextsOf
  <2>3. CASE parts[i] \in [delay : Name]
    BY <2>3 DEF Delayed, AllName
  <2> QED
    BY <2>1, <2>2, <2>3
<1>2. DOMAIN parts = 1 .. Len(parts) /\ Len(parts) \in Nat /\ parts = [i \in DOMAIN parts |-> parts[i]]
  OBVIOUS
<1>3. parts \in [1 .. Len(parts) -> TextsOf(Words(parts)) \cup Delayed]
  BY <1>1, <1>2
<1>4. Words(parts) \subseteq Word
  BY DEF Words, Literal
<1> QED
  BY <1>2, <1>3, <1>4, SpelledType

LEMMA AppendedRefers ==
  ASSUME NEW old \in Parts, NEW parts \in Parts, NEW m, Refers(old \o parts, m)
  PROVE  Refers(old, m) \/ Refers(parts, m)
<1>1. old \in Seq(Literal \cup Delayed) /\ parts \in Seq(Literal \cup Delayed)
  BY DEF Parts
<1>2. PICK i \in DOMAIN (old \o parts) :
        "text" \notin DOMAIN (old \o parts)[i] /\ (old \o parts)[i].delay = m
  BY DEF Refers
<1>3. i \in 1 .. Len(old) + Len(parts)
  BY <1>1
<1>4. CASE i <= Len(old)
  <2>1. i \in DOMAIN old /\ (old \o parts)[i] = old[i]
    BY <1>1, <1>3, <1>4
  <2> QED
    BY <1>2, <2>1 DEF Refers
<1>5. CASE i > Len(old)
  <2>1. i - Len(old) \in DOMAIN parts /\ (old \o parts)[i] = parts[i - Len(old)]
    BY <1>1, <1>3, <1>5
  <2> QED
    BY <1>2, <2>1 DEF Refers
<1> QED
  BY <1>1, <1>3, <1>4, <1>5

LEMMA RedirectedIs ==
  ASSUME NEW W, NEW parts \in Seq(TextsOf(W) \cup Delayed), NEW n, NEW saved \in AllName
  PROVE  /\ Redirected(parts, n, saved) \in Seq(TextsOf(W) \cup Delayed)
         /\ \A m : Refers(Redirected(parts, n, saved), m) => m = saved \/ Refers(parts, m)
<1> DEFINE new == Redirected(parts, n, saved)
<1>1. DOMAIN parts = 1 .. Len(parts) /\ Len(parts) \in Nat
  OBVIOUS
<1>2. \A i \in DOMAIN parts : new[i] = IF parts[i] = [delay |-> n] THEN [delay |-> saved] ELSE parts[i]
  BY DEF Redirected
<1>3. \A i \in DOMAIN parts : parts[i] \in TextsOf(W) \cup Delayed
  OBVIOUS
<1>4. \A i \in DOMAIN parts : new[i] \in TextsOf(W) \cup Delayed
  BY <1>2, <1>3 DEF Delayed
<1>5. new \in [1 .. Len(parts) -> TextsOf(W) \cup Delayed]
  BY <1>1, <1>4 DEF Redirected
<1>6. DOMAIN new = DOMAIN parts
  BY DEF Redirected
<1> HIDE DEF new
<1>7. new \in Seq(TextsOf(W) \cup Delayed)
  BY <1>1, <1>5
<1>8. ASSUME NEW m, Refers(new, m) PROVE m = saved \/ Refers(parts, m)
  BY <1>2, <1>6, <1>8 DEF Refers
<1> QED
  BY <1>7, <1>8 DEF new

-----------------------------------------------------------------------------
(***************************************************************************)
(* Every step keeps the invariant.                                         *)
(***************************************************************************)
LEMMA TypeFacts ==
  ASSUME TypeOK
  PROVE  /\ variables \in Tables /\ build_atom \in Build \cup {Nil}
         /\ saved_value_count \in Nat /\ assignments \in Nat /\ saved_value_count <= assignments
         /\ Nil \notin Parts
BY ScopesConstants DEF TypeOK, Tables, Definitions

LEMMA WordsGrow ==
  ASSUME NEW table, NEW b \in Build \cup {Nil}, NEW words, NEW more,
         \A u \in Scope : words[u] \subseteq more[u], WordsFrom(table, b, words)
  PROVE  WordsFrom(table, b, more)
<1> SUFFICES ASSUME NEW s \in Scope, NEW n \in AllName
             PROVE  table[s][n] \in Seq(TextsOf(Known(s, b, more)) \cup Delayed) \cup {Nil}
  BY DEF WordsFrom
<1>1. Known(s, b, words) \subseteq Known(s, b, more)
  BY OutwardIs DEF Known
<1>2. table[s][n] \in Seq(TextsOf(Known(s, b, words)) \cup Delayed) \cup {Nil}
  BY DEF WordsFrom
<1> QED
  BY <1>1, <1>2, SeqGrows

LEMMA InitInv == Init => ScopesInv
<1> SUFFICES ASSUME Init PROVE ScopesInv
  OBVIOUS
<1>1. variables \in [Scope -> [AllName -> Parts \cup {Nil}]]
  BY DEF Init
<1>2. \A s \in Scope : \A n \in AllName : variables[s][n] = Nil
  BY DEF Init
<1>3. TypeOK
  <2>1. /\ build_atom \in Build \cup {Nil} /\ dead \in BOOLEAN /\ switched \in BOOLEAN
        /\ assigned \in [Scope -> SUBSET Word]
    BY DEF Init
  <2>2. saved_value_count \in 0 .. assignments /\ assignments \in 0 .. MaxAssignments
    BY ScopesConstants DEF Init
  <2> QED
    BY <1>1, <2>1, <2>2 DEF TypeOK
<1>4. SavedName \subseteq AllName
  BY DEF AllName
<1> QED
  BY <1>2, <1>3, <1>4 DEF ScopesInv, Numbered, FoundFrom, WordsFrom

(* What an assignment finds. *)
LEMMA OldIs ==
  ASSUME ScopesInv, NEW s \in Scope, NEW n \in AllName, NEW old,
         old = IF Macro(s, n) = Nil THEN <<>> ELSE Macro(s, n)
  PROVE  /\ old \in Parts
         /\ \A m \in SavedName : Refers(old, m) => m[2] <= saved_value_count
         /\ ~switched =>
              /\ \A m \in SavedName : Refers(old, m) => \E u \in Outward(s, build_atom) : variables[u][m] # Nil
              /\ old \in Seq(TextsOf(Known(s, build_atom, assigned)) \cup Delayed)
<1>0. TypeOK
  BY DEF ScopesInv
<1>1. Macro(s, n) = MacroOf(variables, build_atom, s, n)
  BY MacroIs
<1>2. CASE Macro(s, n) = Nil
  <2>1. old = <<>> /\ \A m : ~Refers(old, m)
    BY <1>2 DEF Refers
  <2>2. \A S : <<>> \in Seq(S)
    OBVIOUS
  <2> QED
    BY <2>1, <2>2 DEF Parts
<1>3. CASE Macro(s, n) # Nil
  <2>1. old = MacroOf(variables, build_atom, s, n) /\ old # Nil
    BY <1>1, <1>3
  <2>2. old \in Parts
    <3>1. MacrosOf(variables, build_atom, s) \in Definitions
      BY <1>0, TypeFacts, MacroType
    <3> QED
      BY <2>1, <3>1 DEF MacrosOf, Definitions
  <2>3. ASSUME NEW m \in SavedName, Refers(old, m) PROVE m[2] <= saved_value_count
    BY <1>0, <2>1, <2>3, TypeFacts, MacroNumbered DEF ScopesInv
  <2>4. ASSUME ~switched, NEW m \in SavedName, Refers(old, m)
        PROVE  \E u \in Outward(s, build_atom) : variables[u][m] # Nil
    BY <1>0, <2>1, <2>4, TypeFacts, MacroFound DEF ScopesInv
  <2>5. ASSUME ~switched PROVE old \in Seq(TextsOf(Known(s, build_atom, assigned)) \cup Delayed)
    <3>1. MacroOf(variables, build_atom, s, n)
            \in Seq(TextsOf(Known(s, build_atom, assigned)) \cup Delayed) \cup {Nil}
      BY <1>0, <2>5, TypeFacts, MacroWords DEF ScopesInv
    <3> QED
      BY <2>1, <3>1
  <2> QED
    BY <2>2, <2>3, <2>4, <2>5
<1> QED
  BY <1>2, <1>3

LEMMA AssignInv ==
  ASSUME ScopesInv, NEW s \in Scope, NEW n \in Name, NEW op, NEW right \in Right,
         Assign(s, n, op, right)
  PROVE  ScopesInv'
<1> DEFINE parts == Evaluated(right)
<1> DEFINE old == IF Macro(s, n) = Nil THEN <<>> ELSE Macro(s, n)
<1> DEFINE saved == <<n, Number>>
<1> DEFINE new == Redirected(parts, n, saved)
<1> DEFINE b == build_atom
<1> DEFINE known == Known(s, b, assigned')
<1>0. TypeOK
  BY DEF ScopesInv
<1>1. /\ variables \in Tables /\ b \in Build \cup {Nil}
      /\ saved_value_count \in Nat /\ assignments \in Nat /\ saved_value_count <= assignments
      /\ Nil \notin Parts /\ MaxAssignments \in Nat
  BY <1>0, TypeFacts, ScopesConstants
<1>2. /\ parts # Die /\ assignments < MaxAssignments /\ assignments' = assignments + 1
      /\ assigned' = [assigned EXCEPT ![s] = @ \cup Words(parts)]
      /\ UNCHANGED <<build_atom, dead, switched>>
  BY DEF Assign, Words
<1>3. parts \in Seq(Spelled)
  BY <1>0, <1>2, EvaluatedType
<1>4. /\ parts \in Parts /\ parts \in Seq(TextsOf(Words(parts)) \cup Delayed)
      /\ Words(parts) \subseteq Word
      /\ \A m \in SavedName : ~Refers(parts, m)
  BY <1>3, SpelledWords, SpelledRefers, ScopesConstants
<1>5. n \in AllName /\ n \notin SavedName
  BY ScopesConstants DEF AllName
<1>6. saved \in SavedName /\ saved \in AllName /\ saved[2] = saved_value_count + 1
  BY <1>1, <1>2 DEF SavedName, AllName, Number
<1>7. /\ old \in Parts
      /\ \A m \in SavedName : Refers(old, m) => m[2] <= saved_value_count
      /\ ~switched =>
           /\ \A m \in SavedName : Refers(old, m) => \E u \in Outward(s, b) : variables[u][m] # Nil
           /\ old \in Seq(TextsOf(Known(s, b, assigned)) \cup Delayed)
  BY <1>5, OldIs
<1>8. /\ assigned \in [Scope -> SUBSET Word]
      /\ assigned' \in [Scope -> SUBSET Word]
      /\ \A u \in Scope : assigned[u] \subseteq assigned'[u]
      /\ Words(parts) \subseteq assigned'[s]
  <2>1. assigned \in [Scope -> SUBSET Word]
    BY <1>0 DEF TypeOK
  <2> HIDE DEF parts
  <2> QED
    BY <1>2, <1>4, <2>1
<1>9. Known(s, b, assigned) \subseteq known /\ Words(parts) \subseteq known
  <2>1. s \in Outward(s, b) /\ Outward(s, b) \subseteq Scope
    BY <1>1, OutwardIs
  <2> HIDE DEF parts, b
  <2> QED
    BY <1>8, <2>1 DEF Known
<1>10. /\ parts \in Seq(TextsOf(known) \cup Delayed)
       /\ ~switched => old \in Seq(TextsOf(known) \cup Delayed)
  <2> HIDE DEF parts, old, b, known
  <2> QED
    BY <1>4, <1>7, <1>9, SeqGrows
<1>11. /\ Numbered(variables, saved_value_count)
       /\ ~switched => FoundFrom(variables, b) /\ WordsFrom(variables, b, assigned')
  BY <1>1, <1>8, WordsGrow DEF ScopesInv
<1>12. /\ variables' \in Tables /\ saved_value_count' \in 0 .. assignments'
       /\ Numbered(variables', saved_value_count')
       /\ ~switched => FoundFrom(variables', b) /\ WordsFrom(variables', b, assigned')
  <2>1. \/ UNCHANGED <<variables, saved_value_count>>
        \/ variables' = Put(variables, s, n, old \o parts) /\ saved_value_count' = saved_value_count
        \/ /\ saved_value_count' = saved_value_count + 1
           /\ \/ variables' = Put(variables, s, n, parts)
              \/ variables' = [variables EXCEPT ![s][saved] = old, ![s][n] = new]
    BY DEF Assign, Table, SavedIn, Number, Put
  <2>2. CASE UNCHANGED <<variables, saved_value_count>>
    <3>1. variables' = variables /\ saved_value_count' = saved_value_count
      BY <2>2
    <3> HIDE DEF b
    <3> QED
      BY <1>1, <1>2, <1>11, <3>1
  <2>3. CASE variables' = Put(variables, s, n, old \o parts) /\ saved_value_count' = saved_value_count
    <3> DEFINE v == old \o parts
    <3> HIDE DEF parts, old, b, known
    <3>1. v \in Parts
      BY <1>4, <1>7 DEF Parts
    <3>2. \A m \in SavedName : Refers(v, m) => Refers(old, m)
      BY <1>4, <1>7, AppendedRefers
    <3>3. ~switched => v \in Seq(TextsOf(known) \cup Delayed)
      BY <1>10
    <3> HIDE DEF v
    <3>4. variables' \in Tables
      BY <1>1, <1>5, <2>3, <3>1, PutAt DEF v
    <3>5. Numbered(variables', saved_value_count')
      <4>1. \A m \in SavedName : Refers(v, m) => m[2] <= saved_value_count
        BY <1>7, <3>2
      <4>2. Numbered(Put(variables, s, n, v), saved_value_count)
        BY <1>1, <1>5, <1>11, <3>1, <4>1, PutNumbered
      <4> QED
        BY <2>3, <4>2 DEF v
    <3>6. ASSUME ~switched PROVE FoundFrom(variables', b)
      <4>1. \A m \in SavedName : Refers(v, m) => \E u \in Outward(s, b) : variables[u][m] # Nil
        BY <1>7, <3>2, <3>6
      <4>2. FoundFrom(Put(variables, s, n, v), b)
        BY <1>1, <1>5, <1>11, <3>1, <3>6, <4>1, PutFound
      <4> QED
        BY <2>3, <4>2 DEF v
    <3>7. ASSUME ~switched PROVE WordsFrom(variables', b, assigned')
      <4>1. WordsFrom(Put(variables, s, n, v), b, assigned')
        BY <1>1, <1>5, <1>11, <3>1, <3>3, <3>7, PutWords DEF known
      <4> QED
        BY <2>3, <4>1 DEF v
    <3> QED
      BY <1>1, <1>2, <2>3, <3>4, <3>5, <3>6, <3>7
  <2>4. CASE variables' = Put(variables, s, n, parts) /\ saved_value_count' = saved_value_count + 1
    <3> HIDE DEF parts, old, b, known
    <3>1. variables' \in Tables
      BY <1>1, <1>4, <1>5, <2>4, PutAt
    <3>2. Numbered(variables', saved_value_count')
      <4>1. saved_value_count + 1 \in Nat /\ saved_value_count <= saved_value_count + 1
        BY <1>1
      <4>2. Numbered(Put(variables, s, n, parts), saved_value_count + 1)
        BY <1>1, <1>4, <1>5, <1>11, <4>1, PutNumbered
      <4> QED
        BY <2>4, <4>2
    <3>3. ASSUME ~switched PROVE FoundFrom(variables', b)
      BY <1>1, <1>4, <1>5, <1>11, <2>4, <3>3, PutFound
    <3>4. ASSUME ~switched PROVE WordsFrom(variables', b, assigned')
      <4>1. WordsFrom(Put(variables, s, n, parts), b, assigned')
        BY <1>1, <1>4, <1>5, <1>10, <1>11, <3>4, PutWords DEF known
      <4> QED
        BY <2>4, <4>1
    <3> QED
      BY <1>1, <1>2, <2>4, <3>1, <3>2, <3>3, <3>4
  <2>5. CASE /\ variables' = [variables EXCEPT ![s][saved] = old, ![s][n] = new]
             /\ saved_value_count' = saved_value_count + 1
    <3> DEFINE count == saved_value_count + 1
    <3> DEFINE middle == Put(variables, s, saved, old)
    <3>0. saved # n
      BY <1>5, <1>6
    <3>1. variables' = Put(middle, s, n, new)
      BY <2>5 DEF Put
    <3>2. /\ new \in Parts
          /\ new \in Seq(TextsOf(known) \cup Delayed)
          /\ \A m \in SavedName : Refers(new, m) => m = saved
      <4>1. \A W : parts \in Seq(TextsOf(W) \cup Delayed) => new \in Seq(TextsOf(W) \cup Delayed)
        BY <1>6, RedirectedIs
      <4>2. \A m : Refers(new, m) => m = saved \/ Refers(parts, m)
        BY <1>4, <1>6, RedirectedIs
      <4>3. Parts = Seq(TextsOf(Word) \cup Delayed)
        BY DEF Parts, TextsOf, Literal
      <4> HIDE DEF new, parts, known, saved
      <4> QED
        BY <1>4, <1>10, <4>1, <4>2, <4>3
    <3> HIDE DEF parts, old, b, known, new, saved
    <3>3. middle \in Tables /\ middle[s][saved] = old /\ old # Nil
      BY <1>1, <1>6, <1>7, PutAt
    <3>4. count \in Nat /\ saved_value_count <= count /\ count <= count
      BY <1>1
    <3>5. Numbered(middle, count)
      <4>1. \A m \in SavedName : m[2] \in Nat
        BY <1>1 DEF SavedName
      <4>2. saved[2] <= count
        BY <1>6, <3>4
      <4>3. \A m \in SavedName : Refers(old, m) => m[2] <= count
        BY <1>1, <1>7, <4>1
      <4> HIDE DEF count
      <4> QED
        BY <1>1, <1>6, <1>7, <1>11, <3>4, <4>2, <4>3, PutNumbered
    <3>6. ~switched => FoundFrom(middle, b)
      BY <1>1, <1>6, <1>7, <1>11, PutFound
    <3>7. ~switched => WordsFrom(middle, b, assigned')
      BY <1>1, <1>6, <1>7, <1>10, <1>11, PutWords DEF known
    <3> HIDE DEF middle
    <3>8. variables' \in Tables
      BY <1>5, <3>1, <3>2, <3>3, PutAt
    <3>9. Numbered(variables', count)
      <4>1. \A m \in SavedName : Refers(new, m) => m[2] <= count
        BY <1>6, <3>2, <3>4
      <4> HIDE DEF count
      <4>2. Numbered(Put(middle, s, n, new), count)
        BY <1>5, <3>2, <3>3, <3>4, <3>5, <4>1, PutNumbered
      <4> QED
        BY <3>1, <4>2
    <3>10. ASSUME ~switched PROVE FoundFrom(variables', b)
      <4>1. s \in Outward(s, b)
        BY <1>1, OutwardIs
      <4>2. \A m \in SavedName : Refers(new, m) => \E u \in Outward(s, b) : middle[u][m] # Nil
        BY <3>2, <3>3, <4>1
      <4>3. FoundFrom(Put(middle, s, n, new), b)
        BY <1>1, <1>5, <3>2, <3>3, <3>6, <3>10, <4>2, PutFound
      <4> QED
        BY <3>1, <4>3
    <3>11. ASSUME ~switched PROVE WordsFrom(variables', b, assigned')
      <4>1. WordsFrom(Put(middle, s, n, new), b, assigned')
        BY <1>1, <1>5, <3>2, <3>3, <3>7, <3>11, PutWords DEF known
      <4> QED
        BY <3>1, <4>1
    <3> QED
      BY <1>1, <1>2, <2>5, <3>8, <3>9, <3>10, <3>11
  <2> QED
    BY <2>1, <2>2, <2>3, <2>4, <2>5
<1>13. TypeOK'
  <2>1. assignments' \in 0 .. MaxAssignments
    BY <1>1, <1>2
  <2> HIDE DEF parts
  <2> QED
    BY <1>0, <1>2, <1>8, <1>12, <2>1 DEF TypeOK, Tables, Definitions
<1> QED
  BY <1>2, <1>12, <1>13 DEF ScopesInv

LEMMA ActivateInv ==
  ASSUME ScopesInv, NEW b \in Build, ActivateBuild(b) PROVE ScopesInv'
<1>1. TypeOK /\ variables \in Tables /\ Nil \notin Build
  BY TypeFacts, ScopesConstants DEF ScopesInv
<1>2. TypeOK'
  BY <1>1 DEF ActivateBuild, TypeOK
<1>3. Numbered(variables', saved_value_count')
  BY DEF ActivateBuild, ScopesInv
<1>4. ASSUME ~switched' PROVE FoundFrom(variables', build_atom') /\ WordsFrom(variables', build_atom', assigned')
  <2>1. /\ ~switched /\ build_atom = Nil /\ build_atom' = b
        /\ variables' = variables /\ assigned' = assigned
    BY <1>4 DEF ActivateBuild
  <2>2. FoundFrom(variables, Nil) /\ WordsFrom(variables, Nil, assigned)
    BY <2>1 DEF ScopesInv
  <2>3. \A s : Outward(s, Nil) \subseteq Outward(s, b)
    BY DEF Outward
  <2>4. FoundFrom(variables, b)
    BY <2>2, <2>3 DEF FoundFrom
  <2>5. \A s : Known(s, Nil, assigned) \subseteq Known(s, b, assigned)
    BY <2>3 DEF Known
  <2>6. \A s : Seq(TextsOf(Known(s, Nil, assigned)) \cup Delayed)
                 \subseteq Seq(TextsOf(Known(s, b, assigned)) \cup Delayed)
    BY <2>5, SeqGrows
  <2>7. WordsFrom(variables, b, assigned)
    BY <2>2, <2>6 DEF WordsFrom
  <2> QED
    BY <2>1, <2>4, <2>7
<1> QED
  BY <1>2, <1>3, <1>4 DEF ScopesInv

LEMMA NextInv == ScopesInv /\ [Next]_vars => ScopesInv'
<1> SUFFICES ASSUME ScopesInv, [Next]_vars PROVE ScopesInv'
  OBVIOUS
<1>1. CASE \E s \in Scope, n \in Name, op \in Operators, right \in Right : Assign(s, n, op, right)
  BY <1>1, AssignInv
<1>2. CASE \E right \in Right : AssignDies(right)
  BY <1>2 DEF AssignDies, ScopesInv, TypeOK
<1>3. CASE \E b \in Build : ActivateBuild(b)
  BY <1>3, ActivateInv
<1>4. CASE UNCHANGED vars
  BY <1>4 DEF vars, ScopesInv, TypeOK
<1> QED
  BY <1>1, <1>2, <1>3, <1>4 DEF Next

LEMMA Invariance == Spec => []ScopesInv
BY InitInv, NextInv, PTL DEF Spec

-----------------------------------------------------------------------------
(* The tables hold parts, a value that was saved has a number that was     *)
(* given out, and assignments keep it so (macro.lua:68-72).                *)
THEOREM TypeCorrect == Spec => []TypeOK
<1>1. ScopesInv => TypeOK
  BY DEF ScopesInv
<1> QED
  BY <1>1, Invariance, PTL

(* Whoever sees a variable finds the saved values that it refers to, in    *)
(* every scope, also where += copied the reference from an outer one, as   *)
(* long as one build is active (macro.lua:68-81, scope.lua:116-145).       *)
THEOREM SavedValuesAreFound == Spec => []SavedFound
<1>1. ASSUME ScopesInv, ~switched, NEW s \in Scope, NEW n \in AllName, Macro(s, n) # Nil,
             NEW p \in Entries(Macro(s, n)), "delay" \in DOMAIN p, p.delay \in SavedName
      PROVE  Macro(s, p.delay) # Nil
  <2>0. TypeOK /\ FoundFrom(variables, build_atom)
    BY <1>1 DEF ScopesInv
  <2>1. Macro(s, n) = MacroOf(variables, build_atom, s, n)
    BY MacroIs
  <2>2. Macro(s, p.delay) = MacroOf(variables, build_atom, s, p.delay)
    BY MacroIs
  <2>3. p.delay \in AllName
    BY <1>1 DEF AllName
  <2>4. Macro(s, n) \in Parts
    <3>1. MacrosOf(variables, build_atom, s) \in Definitions
      BY <2>0, TypeFacts, MacroType
    <3> QED
      BY <1>1, <2>1, <3>1 DEF MacrosOf, Definitions
  <2>5. Refers(Macro(s, n), p.delay)
    <3>1. PICK i \in DOMAIN Macro(s, n) : p = Macro(s, n)[i]
      BY <1>1 DEF Entries
    <3>2. p \in Literal \cup Delayed
      BY <2>4, <3>1 DEF Parts
    <3>3. "text" \notin DOMAIN p
      BY <1>1, <3>2 DEF Literal, Delayed
    <3> QED
      BY <3>1, <3>3 DEF Refers
  <2>6. PICK u \in Outward(s, build_atom) : variables[u][p.delay] # Nil
    BY <1>1, <2>0, <2>1, <2>5, TypeFacts, MacroFound
  <2>7. PICK v \in Scope : variables[v][p.delay] # Nil
          /\ MacroOf(variables, build_atom, s, p.delay) = variables[v][p.delay]
    BY <2>0, <2>6, MacroIn, OutwardIs, TypeFacts
  <2> QED
    BY <2>2, <2>7
<1>2. ScopesInv => SavedFound
  BY <1>1 DEF SavedFound
<1> QED
  BY <1>2, Invariance, PTL

(* No word strays into a target's variables: each was assigned to the      *)
(* target, to the active build, to the bludfile or comes from outside, as  *)
(* long as one build is active (runtime.lua:451-467, scope.lua:116-145).   *)
THEOREM WordsAreOwn == Spec => []OwnWordsOfOneBuild
<1>1. ASSUME ScopesInv, ~switched, NEW t \in Target, NEW n \in Name PROVE WordsReach(t, n)
  <2> DEFINE known == Known(t, build_atom, assigned)
  <2>0. TypeOK /\ WordsFrom(variables, build_atom, assigned)
    BY <1>1 DEF ScopesInv
  <2>1. t \in Scope /\ n \in AllName /\ t # bludfile /\ build_atom \in Build \cup {Nil}
    BY <2>0, TypeFacts, ScopesConstants DEF Scope, AllName
  <2>2. MacrosOf(variables, build_atom, t) \in [AllName -> Seq(TextsOf(known) \cup Delayed) \cup {Nil}]
    BY <2>0, <2>1, MacroWords DEF MacrosOf
  <2>3. Call(MacrosOf(variables, build_atom, t))[{}] \in [AllName -> Seq(known) \cup {Die}]
    <3> HIDE DEF known
    <3> QED
      BY <2>2, CallType
  <2>4. Text(t, n) \in Seq(known) \cup {Die}
    <3> HIDE DEF known
    <3> QED
      BY <2>1, <2>3, TextIs
  <2>5. known = OuterWords \cup assigned[bludfile] \cup assigned[t]
                  \cup (IF build_atom = Nil THEN {} ELSE assigned[build_atom])
    BY <2>1 DEF Known, Outward
  <2>6. Text(t, n) # Die => Entries(Text(t, n)) \subseteq known
    <3> HIDE DEF known
    <3> QED
      BY <2>4 DEF Entries
  <2> HIDE DEF known
  <2> QED
    BY <2>5, <2>6 DEF WordsReach
<1>2. ScopesInv => OwnWordsOfOneBuild
  BY <1>1 DEF OwnWordsOfOneBuild
<1> QED
  BY <1>2, Invariance, PTL

(* What a scope reads after an assignment to it. *)
LEMMA AssignMeans ==
  ASSUME ScopesInv, NEW s \in Scope, NEW n \in Name, NEW right \in Right, Assign(s, n, "=", right)
  PROVE  Text(s, n)' =
           Tokens(Evaluated(right), [m \in AllName |-> IF m = n THEN Text(s, n) ELSE Text(s, m)'])
<1> DEFINE parts == Evaluated(right)
<1> DEFINE old == IF Macro(s, n) = Nil THEN <<>> ELSE Macro(s, n)
<1> DEFINE saved == <<n, Number>>
<1> DEFINE new == Redirected(parts, n, saved)
<1> DEFINE before == MacrosOf(variables, build_atom, s)
<1> DEFINE after == MacrosOf(variables', build_atom', s)
<1>0. TypeOK
  BY DEF ScopesInv
<1>1. /\ variables \in Tables /\ build_atom \in Build \cup {Nil}
      /\ saved_value_count \in Nat /\ assignments \in Nat /\ saved_value_count <= assignments
      /\ Nil \notin Parts /\ MaxAssignments \in Nat
  BY <1>0, TypeFacts, ScopesConstants
<1>2. /\ parts # Die /\ assignments < MaxAssignments /\ build_atom' = build_atom
      /\ variables' = IF [delay |-> n] \in Entries(parts)
                      THEN [variables EXCEPT ![s][saved] = old, ![s][n] = new]
                      ELSE [variables EXCEPT ![s][n] = parts]
  BY DEF Assign, SavedIn
<1>3. parts \in Seq(Spelled)
  BY <1>0, <1>2, EvaluatedType
<1>4. parts \in Parts /\ \A m \in SavedName : ~Refers(parts, m)
  BY <1>3, SpelledWords, SpelledRefers, ScopesConstants
<1>5. n \in AllName /\ n \notin SavedName
  BY ScopesConstants DEF AllName
<1>6. saved \in SavedName /\ saved \in AllName /\ saved[2] = saved_value_count + 1 /\ saved # n
  BY <1>1, <1>2, <1>5 DEF SavedName, AllName, Number
<1>7. old \in Parts /\ old # Nil
  BY <1>1, <1>5, OldIs
<1>8. new \in Parts /\ new # Nil
  <2>1. Parts = Seq(TextsOf(Word) \cup Delayed)
    BY DEF Parts, TextsOf, Literal
  <2> HIDE DEF parts, saved
  <2> QED
    BY <1>1, <1>4, <1>6, <2>1, RedirectedIs
<1>9. before \in Definitions
  BY <1>1, MacroType
<1>10. before[n] = Macro(s, n)
  BY <1>5, MacroIs DEF MacrosOf
<1>11. \A x \in AllName : before[x] # Nil => ~Refers(before[x], saved)
  <2> SUFFICES ASSUME NEW x \in AllName, before[x] # Nil, Refers(before[x], saved) PROVE FALSE
    OBVIOUS
  <2>1. before[x] = MacroOf(variables, build_atom, s, x)
    BY DEF MacrosOf
  <2>2. Numbered(variables, saved_value_count)
    BY DEF ScopesInv
  <2> HIDE DEF saved, before
  <2>3. saved[2] <= saved_value_count
    BY <1>1, <1>6, <2>1, <2>2, MacroNumbered
  <2> QED
    BY <1>1, <1>6, <2>3
(* The tables after it, entry by entry. *)
<1>12. /\ variables' \in Tables
       /\ \A u \in Scope : \A x \in AllName :
            (u # s \/ x \notin {n, saved}) => variables'[u][x] = variables[u][x]
       /\ IF [delay |-> n] \in Entries(parts)
          THEN variables'[s][saved] = old /\ variables'[s][n] = new
          ELSE variables'[s][n] = parts
  <2>1. CASE [delay |-> n] \in Entries(parts)
    <3> DEFINE middle == Put(variables, s, saved, old)
    <3>1. variables' = Put(middle, s, n, new)
      BY <1>2, <2>1 DEF Put
    <3> HIDE DEF parts, old, saved, new
    <3>2. /\ middle \in Tables
          /\ \A u \in Scope : \A x \in AllName :
               middle[u][x] = IF u = s /\ x = saved THEN old ELSE variables[u][x]
      BY <1>1, <1>6, <1>7, PutAt
    <3> HIDE DEF middle
    <3>3. /\ variables' \in Tables
          /\ \A u \in Scope : \A x \in AllName :
               variables'[u][x] = IF u = s /\ x = n THEN new ELSE middle[u][x]
      BY <1>5, <1>8, <3>1, <3>2, PutAt
    <3> QED
      BY <1>5, <1>6, <2>1, <3>2, <3>3
  <2>2. CASE [delay |-> n] \notin Entries(parts)
    <3>1. variables' = Put(variables, s, n, parts)
      BY <1>2, <2>2 DEF Put
    <3> HIDE DEF parts, old, saved, new
    <3>2. /\ variables' \in Tables
          /\ \A u \in Scope : \A x \in AllName :
               variables'[u][x] = IF u = s /\ x = n THEN parts ELSE variables[u][x]
      BY <1>1, <1>4, <1>5, <3>1, PutAt
    <3> QED
      BY <1>5, <2>2, <3>2
  <2> QED
    BY <2>1, <2>2
<1>13. after \in Definitions
  BY <1>1, <1>2, <1>12, MacroType
<1>14. \A x \in AllName \ {n, saved} : after[x] = before[x]
  <2>1. ASSUME NEW x \in AllName \ {n, saved}
        PROVE  MacroOf(variables', build_atom, s, x) = MacroOf(variables, build_atom, s, x)
    <3>1. \A u \in Scope : variables'[u][x] = variables[u][x]
      BY <1>12, <2>1
    <3>2. bludfile \in Scope /\ (build_atom # Nil => build_atom \in Scope)
      BY <1>1, ScopesConstants DEF Scope
    <3> QED
      BY <3>1, <3>2 DEF MacroOf
  <2> QED
    BY <1>2, <2>1 DEF MacrosOf
<1>15. IF [delay |-> n] \in Entries(parts)
       THEN after[saved] = old /\ after[n] = new
       ELSE after[n] = parts
  <2>1. \A x \in AllName : variables'[s][x] # Nil => after[x] = variables'[s][x]
    BY DEF MacrosOf, MacroOf
  <2>2. parts # Nil
    BY <1>1, <1>4
  <2> HIDE DEF parts, old, saved, new, after
  <2> QED
    BY <1>5, <1>6, <1>7, <1>8, <1>12, <2>1, <2>2
<1>16. /\ Text(s, n)' = Call(after)[{}][n]
       /\ Text(s, n) = Call(before)[{}][n]
       /\ \A m : Text(s, m)' = Call(after)[{}][m]
  BY TextIs
<1>17. Call(after)[{}][n] =
         Tokens(parts, [m \in AllName |-> IF m = n THEN Call(before)[{}][n] ELSE Call(after)[{}][m]])
  <2>1. IF [delay |-> n] \in Entries(parts)
        THEN /\ after[saved] = IF before[n] = Nil THEN <<>> ELSE before[n]
             /\ after[n] = Redirected(parts, n, saved)
        ELSE after[n] = parts
    BY <1>10, <1>15
  <2>2. ~Refers(parts, saved)
    BY <1>4, <1>6
  <2> HIDE DEF parts, saved, before, after
  <2> QED
    BY <1>1, <1>4, <1>5, <1>6, <1>9, <1>11, <1>13, <1>14, <2>1, <2>2, MeansTheValueBefore
<1> DEFINE meant == [m \in AllName |-> IF m = n THEN Text(s, n) ELSE Text(s, m)']
<1>18. meant = [m \in AllName |-> IF m = n THEN Call(before)[{}][n] ELSE Call(after)[{}][m]]
  <2> HIDE DEF before, after
  <2> QED
    BY <1>16
<1> HIDE DEF before, after, parts
<1> QED
  BY <1>16, <1>17, <1>18 DEF parts

(* An assignment means what its parts say with the value before in the     *)
(* place of the name itself, for any number of assignments that refer to   *)
(* themselves in any scopes; and if a value goes round, so do the parts    *)
(* (macro.lua:9-24, 57-85).                                                *)
THEOREM RefersToValueBefore == Spec => SelfReference
<1>1. ASSUME ScopesInv, NEW s \in Scope, NEW n \in Name, NEW right \in Right,
             Assign(s, n, "=", right)
      PROVE  LET parts == Evaluated(right)
                 Meant == [m \in AllName |-> IF m = n THEN Text(s, n) ELSE Texts(s)'[m]]
             IN  Texts(s)'[n] = Tokens(parts, Meant)
  <2>1. \A m \in AllName : Texts(s)'[m] = Text(s, m)'
    BY DEF Texts
  <2>2. n \in AllName
    BY DEF AllName
  <2> DEFINE one == [m \in AllName |-> IF m = n THEN Text(s, n) ELSE Texts(s)'[m]]
  <2> DEFINE two == [m \in AllName |-> IF m = n THEN Text(s, n) ELSE Text(s, m)']
  <2>3. one = two
    BY <2>1
  <2>4. Texts(s)'[n] = Tokens(Evaluated(right), two)
    BY <1>1, <2>1, <2>2, AssignMeans
  <2> HIDE DEF one, two
  <2>5. Texts(s)'[n] = Tokens(Evaluated(right), one)
    BY <2>3, <2>4
  <2> QED
    BY <2>5 DEF one
<1>2. ScopesInv /\ [Next]_vars =>
        [\A s \in Scope, n \in Name, right \in Right :
           Assign(s, n, "=", right) =>
             LET parts == Evaluated(right)
                 Meant == [m \in AllName |-> IF m = n THEN Text(s, n) ELSE Texts(s)'[m]]
             IN  Texts(s)'[n] = Tokens(parts, Meant)]_vars
  BY <1>1
<1> QED
  BY <1>2, Invariance, PTL DEF Spec, SelfReference
=============================================================================
