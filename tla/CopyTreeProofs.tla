--------------------------- MODULE CopyTreeProofs ---------------------------
(***************************************************************************)
(* Copying a file or a tree, for every tree, every link and every failure, *)
(* with both back ends. What was there before a copy stays there; a copy   *)
(* does not read what it has made, except where the check against that     *)
(* does not look; what it makes or changes is the counterpart of something *)
(* below its source; a copy that reports success is complete, and one that *)
(* ends leaves nothing half written.  The laws of walks along a path that  *)
(* this needs are derived from the recursion of Walk.                      *)
(***************************************************************************)
EXTENDS CopyTree, SequenceTheorems, WellFoundedInduction, NaturalsInduction, TLAPS

(* A frame that made its directory made one that had not been there, and   *)
(* that no frame below it uses; so has the file that was created.          *)
Own(s) ==
  /\ \A i \in DOMAIN s : s[i].created => s[i].place \notin DOMAIN req.tree
  /\ \A i, j \in DOMAIN s :
       i < j /\ s[j].created => s[j].place # s[i].at /\ s[j].place # s[i].place

(* A file that was there before is written over if it may be written. *)
Allowed(t, p, m) ==
  p \in DOMAIN req.tree =>
    req.tree[p].mode = "rw" /\ (Linux => m = "rw" /\ t[p].mode = "rw")

OwnPlaces ==
  /\ Own(stack)
  /\ pc = "write" =>
       /\ writing.created => writing.place \notin DOMAIN req.tree
       /\ Allowed(fs, writing.place, fs[writing.place].mode)

CopyInv == TypeOK /\ PriorStays /\ OwnPlaces

TreeOK(t) == DOMAIN t \subseteq Path /\ \A p \in DOMAIN t : t[p] \in Node

Held(t, s) ==
  \A i \in DOMAIN s :
    /\ s[i].at \in DOMAIN t /\ t[s[i].at].kind = "dir"
    /\ s[i].place \in DOMAIN t /\ t[s[i].place].kind = "dir"

KeptIn(t) ==
  \A p \in DOMAIN req.tree :
    /\ p \in DOMAIN t
    /\ t[p].kind = req.tree[p].kind
    /\ t[p] # req.tree[p] =>
         /\ t[p].kind = "file" /\ req.tree[p].mode = "rw"
         /\ Linux => t[p].mode = "rw"

SamePlaces(s, q) ==
  /\ Len(q) = Len(s)
  /\ \A i \in DOMAIN s : /\ q[i].at = s[i].at
                         /\ q[i].place = s[i].place
                         /\ q[i].created = s[i].created

-----------------------------------------------------------------------------
(* Sequences that are used as stacks. *)
LEMMA Stacks ==
  ASSUME NEW S, NEW s \in Seq(S), s # <<>>
  PROVE  /\ Last(s) \in S /\ Last(s) = s[Len(s)]
         /\ Front(s) \in Seq(S)
         /\ Len(s) \in Nat \ {0} /\ Len(Front(s)) = Len(s) - 1
         /\ \A i \in 1 .. Len(s) - 1 : Front(s)[i] = s[i]
<1>1. Len(s) \in Nat \ {0} /\ \A i \in 1 .. Len(s) : s[i] \in S
  BY EmptySeq
<1>2. Last(s) \in S /\ Last(s) = s[Len(s)]
  BY <1>1 DEF Last
<1>3. Front(s) = SubSeq(s, 1, Len(s) - 1)
  BY DEF Front
<1> DEFINE n == Len(s) - 1
<1>4. n \in Nat /\ \A i \in 1 .. n : s[i] \in S
  BY <1>1
<1> HIDE DEF n
<1>5. /\ SubSeq(s, 1, n) \in Seq(S)
      /\ Len(SubSeq(s, 1, n)) = IF 1 <= n THEN n - 1 + 1 ELSE 0
      /\ \A i \in 1 .. n - 1 + 1 : SubSeq(s, 1, n)[i] = s[1 + i - 1]
  BY <1>4, SubSeqProperties
<1>6. /\ Len(SubSeq(s, 1, n)) = n
      /\ \A i \in 1 .. n : SubSeq(s, 1, n)[i] = s[i]
  BY <1>4, <1>5
<1> QED BY <1>1, <1>2, <1>3, <1>5, <1>6 DEF n


LEMMA Retopped ==
  ASSUME NEW s \in Seq(Frames), s # <<>>, NEW f \in Frames,
         f.at = Last(s).at, f.place = Last(s).place,
         f.created = Last(s).created
  PROVE  /\ Append(Front(s), f) \in Seq(Frames)
         /\ Append(Front(s), f) # <<>>
         /\ SamePlaces(s, Append(Front(s), f))
<1>1. /\ Last(s) = s[Len(s)] /\ Front(s) \in Seq(Frames)
      /\ Len(s) \in Nat \ {0} /\ Len(Front(s)) = Len(s) - 1
      /\ \A i \in 1 .. Len(s) - 1 : Front(s)[i] = s[i]
  BY Stacks
<1> QED BY <1>1 DEF SamePlaces

LEMMA PlacesCarry ==
  ASSUME NEW t, NEW s \in Seq(Frames), NEW q \in Seq(Frames),
         SamePlaces(s, q), Held(t, s), Own(s)
  PROVE  Held(t, q) /\ Own(q)
<1>1. DOMAIN q = DOMAIN s
  BY DEF SamePlaces
<1> QED BY <1>1 DEF SamePlaces, Held, Own

(* The innermost frame is gone. *)
LEMMA PlacesOfFront ==
  ASSUME NEW t, NEW s \in Seq(Frames), s # <<>>, Held(t, s), Own(s)
  PROVE  Held(t, Front(s)) /\ Own(Front(s)) /\ Front(s) \in Seq(Frames)
<1>1. /\ Front(s) \in Seq(Frames) /\ Len(s) \in Nat \ {0}
      /\ Len(Front(s)) = Len(s) - 1
      /\ \A i \in 1 .. Len(s) - 1 : Front(s)[i] = s[i]
  BY Stacks
<1>2. \A i \in DOMAIN Front(s) : i \in DOMAIN s /\ Front(s)[i] = s[i]
  BY <1>1
<1> QED BY <1>1, <1>2 DEF Held, Own

LEMMA Returned ==
  ASSUME NEW s \in Seq(Frames), NEW v \in {-1, 0}, Return(s, v)
  PROVE  /\ stack' \in Seq(Frames) /\ SamePlaces(s, stack')
         /\ ret' \in {-1, 0} /\ pc' \in {"read", "close", "done"}
         /\ pc' \in {"read", "close"} => stack' # <<>>
<1>1. CASE s = <<>>
  BY <1>1 DEF Return, SamePlaces
<1>2. CASE s # <<>>
  <2> DEFINE f == [Last(s) EXCEPT !.result = v]
  <2>1. Last(s) \in Frames
    BY <1>2, Stacks
  <2>2. /\ f \in Frames /\ f.at = Last(s).at /\ f.place = Last(s).place
        /\ f.created = Last(s).created
    BY <2>1 DEF Frames
  <2>3. stack' = Append(Front(s), f) /\ ret' = v /\ pc' \in {"read", "close"}
    BY <1>2 DEF Return
  <2> HIDE DEF f
  <2> QED BY <1>2, <2>2, <2>3, Retopped
<1> QED BY <1>1, <1>2

LEMMA NamesOfEntries ==
  ASSUME NEW t, DOMAIN t \subseteq Path, NEW d
  PROVE  Entries(t, d) \subseteq Name
<1> SUFFICES ASSUME NEW p \in DOMAIN t, p # <<>> PROVE Last(p) \in Name
  BY DEF Entries
<1> QED BY Stacks DEF Path

-----------------------------------------------------------------------------
(* What is made where nothing was, and what is taken away or changed where *)
(* nothing was at the beginning, leaves alone what was there.              *)
LEMMA MakingKeeps ==
  ASSUME NEW t, TreeOK(t), KeptIn(t), NEW p \in Path, p \notin DOMAIN t,
         NEW node \in Node
  PROVE  TreeOK(With(t, p, node)) /\ KeptIn(With(t, p, node))
<1>1. p \notin DOMAIN req.tree
  BY DEF KeptIn
<1> QED BY <1>1 DEF With, TreeOK, KeptIn

LEMMA RemovingKeeps ==
  ASSUME NEW t, TreeOK(t), KeptIn(t), NEW p, p \notin DOMAIN req.tree
  PROVE  TreeOK(Without(t, p)) /\ KeptIn(Without(t, p))
  BY DEF Without, TreeOK, KeptIn

LEMMA WritingKeeps ==
  ASSUME NEW t, TreeOK(t), KeptIn(t), NEW p \in DOMAIN t, t[p].kind = "file",
         NEW d \in Content \cup {Torn}, NEW m \in {"rw", "ro"}, Allowed(t, p, m),
         NEW u, u = WithFile(t, p, d, m)
  PROVE  /\ TreeOK(u) /\ KeptIn(u) /\ DOMAIN u = DOMAIN t
         /\ \A q \in DOMAIN t : u[q].kind = t[q].kind
         /\ u[p].mode = m /\ Allowed(u, p, m)
<1>1. DOMAIN u = DOMAIN t /\ \A q \in DOMAIN t : q # p => u[q] = t[q]
  BY DEF WithFile
<1>2. u[p] = File(d, m)
  BY DEF WithFile
<1>3. u[p].kind = "file" /\ u[p].mode = m /\ u[p] \in Node
  BY <1>2 DEF File, Node
<1>4. TreeOK(u)
  BY <1>1, <1>3 DEF TreeOK
<1>5. KeptIn(u)
  BY <1>1, <1>3 DEF KeptIn, Allowed
<1>6. Allowed(u, p, m)
  BY <1>3 DEF Allowed
<1> QED BY <1>1, <1>3, <1>4, <1>5, <1>6

(* What may be written now was "rw" at the beginning. *)
LEMMA MayWrite ==
  ASSUME NEW t, KeptIn(t), NEW p \in DOMAIN t, t[p].mode = "rw",
         NEW m, m = t[p].mode \/ ~Linux
  PROVE  Allowed(t, p, m)
  BY DEF KeptIn, Allowed

(* New entries are paths that did not exist. *)
LEMMA NewPlaces ==
  ASSUME NEW t, TreeOK(t), NEW name \in Path, NEW modes,
         NEW p \in NewPlace(t, name, modes)
  PROVE  p \in Path /\ p \notin DOMAIN t
<1>1. /\ p = Append(Stat(t, Front(name)).at, Last(name))
      /\ name # <<>> /\ p \notin DOMAIN t
      /\ Stat(t, Front(name)).at \in DOMAIN t
  BY DEF NewPlace, Is
<1>2. Last(name) \in Name
  BY <1>1, Stacks DEF Path
<1> QED BY <1>1, <1>2 DEF TreeOK, Path

-----------------------------------------------------------------------------
(* The invariant of the next state, from its parts. *)
LEMMA Assembled ==
  ASSUME TypeOK, UNCHANGED req,
         TreeOK(fs'), KeptIn(fs'),
         stack' \in Seq(Frames), Held(fs', stack'), Own(stack'),
         pc' \in {"request", "enter", "read", "file", "write", "close", "done"},
         pc' \in {"read", "close"} => stack' # <<>>,
         args' \in [from : Path, to : Path],
         writing' \in [place : Path, created : BOOLEAN, source : Path],
         pc' = "write" => /\ writing'.place \in DOMAIN fs'
                          /\ fs'[writing'.place].kind = "file"
                          /\ writing'.source \in DOMAIN fs'
                          /\ fs'[writing'.source].kind = "file"
                          /\ writing'.created =>
                               writing'.place \notin DOMAIN req.tree
                          /\ Allowed(fs', writing'.place, fs'[writing'.place].mode),
         ret' \in {-1, 0}, faults' \in 0 .. MaxFaults, missed' \in BOOLEAN
  PROVE  CopyInv'
<1>1. TypeOK'
  BY DEF TypeOK, TreeOK, Held, IsOf
<1>2. PriorStays'
  BY DEF PriorStays, KeptIn, Linux
<1>3. OwnPlaces'
  BY DEF OwnPlaces, Own, Allowed, Linux
<1> QED BY <1>1, <1>2, <1>3 DEF CopyInv

(* What the invariant says, in the form the lemmas use. *)
LEMMA Taken ==
  ASSUME CopyInv
  PROVE  /\ TreeOK(fs) /\ KeptIn(fs) /\ stack \in Seq(Frames)
         /\ Held(fs, stack) /\ Own(stack)
         /\ args \in [from : Path, to : Path]
         /\ args.from \in Path /\ args.to \in Path
         /\ writing \in [place : Path, created : BOOLEAN, source : Path]
         /\ NoFile \in [place : Path, created : BOOLEAN, source : Path]
         /\ ret \in {-1, 0} /\ faults \in 0 .. MaxFaults /\ missed \in BOOLEAN
         /\ pc = "write" => /\ writing.place \in DOMAIN fs
                            /\ fs[writing.place].kind = "file"
                            /\ writing.source \in DOMAIN fs
                            /\ fs[writing.source].kind = "file"
                            /\ writing.created => writing.place \notin DOMAIN req.tree
                            /\ Allowed(fs, writing.place, fs[writing.place].mode)
  BY DEF CopyInv, TypeOK, PriorStays, OwnPlaces, TreeOK, KeptIn, Held, IsOf,
         NoFile, Path

LEMMA Failing == ASSUME TypeOK, Fault PROVE faults' \in 0 .. MaxFaults
  BY RequestsAssumption DEF TypeOK, Fault

(* A step that only returns a value, or only changes the innermost frame's *)
(* result and what it has seen.                                            *)
LEMMA ReturningKeeps ==
  ASSUME CopyInv, NEW v \in {-1, 0}, Return(stack, v),
         UNCHANGED <<req, args, missed>>, faults' \in 0 .. MaxFaults,
         TreeOK(fs'), KeptIn(fs'), Held(fs', stack),
         writing' \in [place : Path, created : BOOLEAN, source : Path]
  PROVE  CopyInv'
<1>1. /\ stack' \in Seq(Frames) /\ SamePlaces(stack, stack')
      /\ ret' \in {-1, 0} /\ pc' \in {"read", "close", "done"}
      /\ pc' \in {"read", "close"} => stack' # <<>>
  BY Taken, Returned
<1>2. Held(fs', stack') /\ Own(stack')
  BY <1>1, Taken, PlacesCarry
<1> QED BY <1>1, <1>2, Taken, Assembled DEF CopyInv

LEMMA ReadingKeeps ==
  ASSUME CopyInv, stack # <<>>, NEW f \in Frames, SetTop(f),
         f.at = Top.at, f.place = Top.place, f.created = Top.created,
         UNCHANGED <<req, fs, writing, ret>>,
         args' \in [from : Path, to : Path],
         faults' \in 0 .. MaxFaults, missed' \in BOOLEAN,
         pc' \in {"enter", "file", "close"}
  PROVE  CopyInv'
<1>1. /\ stack' \in Seq(Frames) /\ SamePlaces(stack, stack') /\ stack' # <<>>
  BY Taken, Retopped DEF SetTop, Top
<1>2. Held(fs, stack') /\ Own(stack')
  BY <1>1, Taken, PlacesCarry
<1> QED BY <1>1, <1>2, Taken, Assembled DEF CopyInv

LEMMA PushingKeeps ==
  ASSUME NEW t, NEW s \in Seq(Frames), Held(t, s), Own(s), NEW f \in Frames,
         f.at \in DOMAIN t, t[f.at].kind = "dir",
         f.place \in DOMAIN t, t[f.place].kind = "dir",
         f.created => /\ f.place \notin DOMAIN req.tree
                      /\ \A i \in DOMAIN s : /\ f.place # s[i].at
                                              /\ f.place # s[i].place
  PROVE  /\ Append(s, f) \in Seq(Frames) /\ Append(s, f) # <<>>
         /\ Held(t, Append(s, f)) /\ Own(Append(s, f))
<1> DEFINE q == Append(s, f)
<1>1. /\ q \in Seq(Frames) /\ q # <<>>
      /\ Len(s) \in Nat /\ DOMAIN s = 1 .. Len(s)
      /\ DOMAIN q = 1 .. Len(s) + 1 /\ q[Len(s) + 1] = f
      /\ \A i \in 1 .. Len(s) : q[i] = s[i]
  OBVIOUS
<1> HIDE DEF q
<1>2. \A i \in DOMAIN q : i = Len(s) + 1 \/ i \in DOMAIN s
  BY <1>1
<1>3. Held(t, q)
  BY <1>1, <1>2 DEF Held
<1>4. Own(q)
  BY <1>1, <1>2 DEF Own
<1> QED BY <1>1, <1>3, <1>4 DEF q

-----------------------------------------------------------------------------
LEMMA CopyInit == Init => CopyInv
<1> SUFFICES ASSUME Init PROVE CopyInv
  OBVIOUS
<1>1. /\ req.from \in Path /\ req.to \in Path
      /\ DOMAIN req.tree \subseteq Path
      /\ \A p \in DOMAIN req.tree : req.tree[p] \in Node
      /\ MaxFaults \in Nat
  BY RequestsAssumption DEF Init
<1>2. TypeOK
  <2>1. DOMAIN fs \subseteq Path /\ \A p \in DOMAIN fs : fs[p] \in Node
    BY <1>1 DEF Init
  <2>2. stack = <<>> /\ stack \in Seq(Frames) /\ DOMAIN stack = {}
    BY DEF Init
  <2>3. args \in [from : Path, to : Path]
    BY <1>1 DEF Init
  <2>4. writing \in [place : Path, created : BOOLEAN, source : Path]
    BY DEF Init, NoFile, Path
  <2>5. req \in Requests /\ pc = "request" /\ ret = 0 /\ missed = FALSE
    BY DEF Init
  <2>6. faults \in 0 .. MaxFaults
    BY <1>1 DEF Init
  <2> QED BY <2>1, <2>2, <2>3, <2>4, <2>5, <2>6 DEF TypeOK
<1>3. PriorStays
  BY DEF Init, PriorStays
<1>4. OwnPlaces
  BY DEF Init, OwnPlaces, Own
<1> QED BY <1>2, <1>3, <1>4 DEF CopyInv

(* The path that copy_destination returns is one. *)
LEMMA Destinations ==
  ASSUME TypeOK, NEW t, NEW p \in Destination(t)
  PROVE  p \in Path
<1>1. req.from \in Path /\ req.from # <<>> /\ req.to \in Path
  BY RequestsAssumption DEF TypeOK
<1>2. Last(req.from) \in Name
  BY <1>1, Stacks DEF Path
<1>3. Append(req.to, Last(req.from)) \in Path
  BY <1>1, <1>2 DEF Path
<1> QED BY <1>1, <1>3 DEF Destination

LEMMA RequestKeeps ==
  ASSUME CopyInv, CopyDir \/ CopyFile \/ RefuseCopy
  PROVE  CopyInv'
<1>1. CASE CopyDir \/ CopyFile
  <2>1. req.from \in Path /\ TypeOK
    BY RequestsAssumption DEF CopyInv, TypeOK
  <2>2. args' \in [from : Path, to : Path]
    BY <1>1, <2>1, Destinations DEF CopyDir, CopyFile
  <2>3. /\ pc' \in {"enter", "file"}
        /\ UNCHANGED <<req, fs, stack, writing, ret, faults, missed>>
    BY <1>1 DEF CopyDir, CopyFile
  <2> QED BY <2>1, <2>2, <2>3, Taken, Assembled
<1>2. CASE RefuseCopy
  BY <1>2, Taken, ReturningKeeps DEF RefuseCopy
<1> QED BY <1>1, <1>2

(* The frame of a directory that can be opened. *)
LEMMA Framed ==
  ASSUME CopyInv, Opens(fs), NEW t, DOMAIN t \subseteq Path,
         NEW place \in Path, NEW created \in BOOLEAN, NEW result \in {-1, 0}
  PROVE  LET f == Frame(t, place, created, result)
         IN  /\ f \in Frames /\ f.at \in DOMAIN fs /\ fs[f.at].kind = "dir"
             /\ f.place = place /\ f.created = created
<1>1. /\ Stat(fs, args.from).at \in DOMAIN fs
      /\ fs[Stat(fs, args.from).at].kind = "dir"
  BY DEF Opens, Is
<1>2. Stat(fs, args.from).at \in Path
  BY <1>1, Taken DEF TreeOK
<1>3. Entries(t, Stat(fs, args.from).at) \subseteq Name
  BY NamesOfEntries
<1> QED BY <1>1, <1>2, <1>3, Taken DEF Frame, Frames

LEMMA EnterExistingKeeps ==
  ASSUME CopyInv, EnterExisting
  PROVE  CopyInv'
<1> DEFINE place == Stat(fs, args.to).at
           f == Frame(fs, place, FALSE, IF Linux THEN -1 ELSE 0)
<1>1. /\ Opens(fs) /\ stack' = Append(stack, f) /\ pc' = "read"
      /\ UNCHANGED <<req, fs, args, writing, ret, faults, missed>>
  BY DEF EnterExisting
<1>2. place \in DOMAIN fs /\ fs[place].kind = "dir"
  BY DEF EnterExisting, Is
<1>3. place \in Path /\ DOMAIN fs \subseteq Path
  BY <1>2, Taken DEF TreeOK
<1>4. /\ f \in Frames /\ f.at \in DOMAIN fs /\ fs[f.at].kind = "dir"
      /\ f.place = place /\ f.created = FALSE
  BY <1>1, <1>3, Framed
<1> HIDE DEF f, place
<1>5. /\ stack' \in Seq(Frames) /\ stack' # <<>>
      /\ Held(fs, stack') /\ Own(stack')
  BY <1>1, <1>2, <1>4, Taken, PushingKeeps
<1> QED BY <1>1, <1>5, Taken, Assembled DEF CopyInv

(* A directory is made and a frame entered for it. *)
LEMMA EnteringNew ==
  ASSUME CopyInv, Opens(fs), NEW p \in Makeable(fs), NEW m \in {"rw", "ro", "open"},
         fs' = With(fs, p, Dir(m)), NEW t, DOMAIN t \subseteq Path,
         NEW result \in {-1, 0},
         stack' = Append(stack, Frame(t, p, TRUE, result)),
         pc' \in {"read", "close"}, faults' \in 0 .. MaxFaults,
         UNCHANGED <<req, args, writing, ret, missed>>
  PROVE  CopyInv'
<1>1. p \in Path /\ p \notin DOMAIN fs
  BY Taken, NewPlaces DEF Makeable
<1>2. Dir(m) \in Node
  BY DEF Dir, Node
<1>3. TreeOK(fs') /\ KeptIn(fs')
  BY <1>1, <1>2, Taken, MakingKeeps
<1> DEFINE f == Frame(t, p, TRUE, result)
<1>4. /\ f \in Frames /\ f.at \in DOMAIN fs /\ fs[f.at].kind = "dir"
      /\ f.place = p /\ f.created = TRUE
  <2>1. \A created \in BOOLEAN :
          LET g == Frame(t, p, created, result)
          IN  /\ g \in Frames /\ g.at \in DOMAIN fs /\ fs[g.at].kind = "dir"
              /\ g.place = p /\ g.created = created
    BY <1>1, Framed
  <2> QED BY <2>1
<1>5. /\ p \in DOMAIN fs' /\ fs'[p].kind = "dir"
      /\ \A q \in DOMAIN fs : q \in DOMAIN fs' /\ fs'[q] = fs[q]
  BY <1>1 DEF With, Dir
<1>6. Held(fs', stack)
  BY <1>5, Taken DEF Held
<1>7. /\ p \notin DOMAIN req.tree
      /\ \A i \in DOMAIN stack : p # stack[i].at /\ p # stack[i].place
  BY <1>1, Taken DEF KeptIn, Held
<1> HIDE DEF f
<1>8. /\ stack' \in Seq(Frames) /\ stack' # <<>>
      /\ Held(fs', stack') /\ Own(stack')
  <2>1. /\ f.at \in DOMAIN fs' /\ fs'[f.at].kind = "dir"
        /\ f.place \in DOMAIN fs' /\ fs'[f.place].kind = "dir"
    BY <1>4, <1>5
  <2>2. /\ f.place \notin DOMAIN req.tree
        /\ \A i \in DOMAIN stack : f.place # stack[i].at /\ f.place # stack[i].place
    BY <1>4, <1>7
  <2>3. stack \in Seq(Frames) /\ Own(stack) /\ f \in Frames
    BY <1>4, Taken
  <2>4. stack' = Append(stack, f)
    BY DEF f
  <2> QED BY <1>6, <2>1, <2>2, <2>3, <2>4, PushingKeeps
<1>9. pc' # "write"
  OBVIOUS
<1> QED BY <1>3, <1>8, <1>9, Taken, Assembled DEF CopyInv

LEMMA EnterKeeps ==
  ASSUME CopyInv,
         EnterExisting \/ EnterNew \/ EnterNewFails \/ EnterNowhere \/ EnterFails
  PROVE  CopyInv'
<1>1. CASE EnterExisting
  BY <1>1, EnterExistingKeeps
<1>2. CASE EnterNew
  <2> DEFINE m == IF Linux THEN "open" ELSE "rw"
             t == IF Linux THEN fs ELSE fs'
             result == IF Linux THEN -1 ELSE 0
  <2>1. PICK p \in Makeable(fs) :
          fs' = With(fs, p, Dir(m)) /\ stack' = Append(stack, Frame(t, p, TRUE, result))
    BY <1>2 DEF EnterNew
  <2>2. p \in Path /\ DOMAIN fs \subseteq Path
    BY Taken, NewPlaces DEF Makeable, TreeOK
  <2>3. DOMAIN t \subseteq Path
    BY <2>1, <2>2 DEF With
  <2>4. m \in {"rw", "open"} /\ result \in {-1, 0}
    OBVIOUS
  <2> HIDE DEF m, t, result
  <2> QED BY <1>2, <2>1, <2>3, <2>4, Taken, EnteringNew DEF EnterNew
<1>3. CASE EnterNewFails
  <2>1. PICK p \in Makeable(fs) :
          /\ fs' = With(fs, p, Dir(Masked("rw")))
          /\ stack' = Append(stack, Frame(fs', p, TRUE, -1))
    BY <1>3 DEF EnterNewFails
  <2>2. p \in Path /\ DOMAIN fs \subseteq Path
    BY Taken, NewPlaces DEF Makeable, TreeOK
  <2>3. DOMAIN fs' \subseteq Path
    BY <2>1, <2>2 DEF With
  <2>4. faults' \in 0 .. MaxFaults
    BY <1>3, Failing DEF EnterNewFails, CopyInv
  <2>5. Masked("rw") \in {"rw", "ro", "open"}
    BY DEF Masked
  <2> QED BY <1>3, <2>1, <2>3, <2>4, <2>5, Taken, EnteringNew DEF EnterNewFails
<1>4. CASE EnterFails
  <2>1. faults' \in 0 .. MaxFaults
    BY <1>4, Failing, Taken DEF EnterFails, CopyInv
  <2> QED BY <1>4, <2>1, Taken, ReturningKeeps DEF EnterFails
<1>5. CASE EnterNowhere
  <2>1. PICK v \in {-1, 0} : Return(stack, v)
    BY <1>5 DEF EnterNowhere
  <2> QED BY <1>5, <2>1, Taken, ReturningKeeps DEF EnterNowhere
<1> QED BY <1>1, <1>2, <1>3, <1>4, <1>5

-----------------------------------------------------------------------------
LEMMA TopFrame ==
  ASSUME CopyInv, pc \in {"read", "close"}
  PROVE  /\ stack # <<>> /\ Top \in Frames
         /\ Top.at \in DOMAIN fs /\ fs[Top.at].kind = "dir"
         /\ Top.place \in DOMAIN fs /\ fs[Top.place].kind = "dir"
         /\ Top.created => Top.place \notin DOMAIN req.tree
         /\ Top.result \in {-1, 0}
<1>1. stack # <<>> /\ stack \in Seq(Frames) /\ Held(fs, stack) /\ Own(stack)
  BY Taken DEF CopyInv, TypeOK
<1>2. Top \in Frames /\ Top = stack[Len(stack)] /\ Len(stack) \in DOMAIN stack
  BY <1>1, Stacks DEF Top
<1>3. Top.result \in {-1, 0}
  BY <1>2 DEF Frames
<1> QED BY <1>1, <1>2, <1>3 DEF Held, Own

LEMMA ReadKeeps ==
  ASSUME CopyInv, pc = "read", NEW n \in Name,
         \/ ReadDirectory(n) \/ ReadFile(n) \/ ReadOther(n) \/ ReadUnreachable(n)
         \/ ReadFails \/ EndOfDirectory
  PROVE  CopyInv'
<1>1. /\ stack # <<>> /\ Top \in Frames
  BY TopFrame
<1>2. \A r \in {-1, 0} : \A f \in {Top, Seen(n)} :
        LET g == [f EXCEPT !.result = r]
        IN  /\ g \in Frames /\ g.at = Top.at /\ g.place = Top.place
            /\ g.created = Top.created
  BY <1>1 DEF Seen, Frames
<1>3. Seen(n) \in Frames /\ Seen(n).at = Top.at /\ Seen(n).place = Top.place
      /\ Seen(n).created = Top.created /\ Seen(n).result = Top.result
      /\ Top.result \in {-1, 0}
  BY <1>1 DEF Seen, Frames
<1>4. faults' \in 0 .. MaxFaults \/ UNCHANGED faults
      => faults' \in 0 .. MaxFaults
  BY Taken
<1>5. CASE ReadDirectory(n) \/ ReadFile(n)
  <2>1. Top.from \in Path /\ Top.to \in Path
    BY <1>1 DEF Frames
  <2>2. Append(Top.from, n) \in Path /\ Append(Top.to, n) \in Path
    BY <2>1 DEF Path
  <2>3. args' \in [from : Path, to : Path]
    <3>1. args' = [from |-> Append(Top.from, n), to |-> Append(Top.to, n)]
      BY <1>5 DEF ReadDirectory, ReadFile, Call, Child
    <3> QED BY <2>2, <3>1
  <2>4. /\ SetTop(Seen(n)) /\ UNCHANGED <<req, fs, writing, ret>>
        /\ UNCHANGED <<faults, missed>> /\ pc' \in {"enter", "file"}
    BY <1>5 DEF ReadDirectory, ReadFile, Call
  <2> QED BY <1>1, <1>3, <2>3, <2>4, Taken, ReadingKeeps
<1>6. CASE ReadOther(n) \/ EndOfDirectory
  <2>1. PICK f \in {Top, Seen(n)}, r \in {-1, 0} : SetTop([f EXCEPT !.result = r])
    BY <1>6 DEF ReadOther, EndOfDirectory
  <2>2. UNCHANGED <<req, fs, writing, ret, args, faults, missed>> /\ pc' = "close"
    BY <1>6 DEF ReadOther, EndOfDirectory
  <2> QED BY <1>1, <1>2, <2>1, <2>2, Taken, ReadingKeeps
<1>7. CASE ReadUnreachable(n) \/ ReadFails
  <2>1. PICK f \in {Top, Seen(n)} : LeaveLoop(f)
    BY <1>7 DEF ReadUnreachable, ReadFails
  <2>2. f.result \in {-1, 0}
    BY <1>3
  <2>3. PICK r \in {-1, 0} : SetTop([f EXCEPT !.result = r])
    BY <2>1, <2>2 DEF LeaveLoop
  <2>4. /\ UNCHANGED <<req, fs, args, writing, ret>> /\ pc' = "close"
        /\ missed' \in BOOLEAN
    BY <2>1, Taken DEF LeaveLoop
  <2>5. faults' \in 0 .. MaxFaults
    BY <1>7, Taken, Failing DEF ReadUnreachable, ReadFails, CopyInv
  <2> QED BY <1>1, <1>2, <2>3, <2>4, <2>5, Taken, ReadingKeeps
<1> QED BY <1>5, <1>6, <1>7

(* A file is opened: the frames keep their directories. *)
(* The permissions of a file that is written over. *)
LEMMA OpenedOver ==
  ASSUME CopyInv, OpenOver
  PROVE  \E p \in Overwritten(fs), m \in {"rw", "ro"} :
           /\ fs' = WithFile(fs, p, Torn, m) /\ Allowed(fs, p, m)
           /\ Linux => m = fs[p].mode
           /\ p \in DOMAIN fs /\ fs[p].kind = "file"
           /\ Source(fs).at \in DOMAIN fs /\ fs[Source(fs).at].kind = "file"
           /\ writing' = [place |-> p, created |-> FALSE, source |-> Source(fs).at]
<1>1. PICK p \in Overwritten(fs),
           m \in {ModeOf(x) : x \in DOMAIN fs} \cup {ModeOf(Source(fs).at)} :
        /\ m \in {ModeOf(p)} \cup (IF Linux THEN {} ELSE {ModeOf(Source(fs).at)})
        /\ fs' = WithFile(fs, p, Torn, m)
        /\ writing' = [place |-> p, created |-> FALSE, source |-> Source(fs).at]
  BY DEF OpenOver, Overwritten, Is
<1>2. /\ p \in DOMAIN fs /\ fs[p].kind = "file" /\ fs[p].mode = "rw"
      /\ Source(fs).at \in DOMAIN fs /\ fs[Source(fs).at].kind = "file"
  BY DEF Overwritten, Is
<1>3. fs[Source(fs).at].mode \in {"rw", "ro"} /\ KeptIn(fs)
  BY <1>2, Taken DEF TreeOK, Node
<1>4. m \in {"rw", "ro"} /\ (m = fs[p].mode \/ ~Linux)
  BY <1>1, <1>2, <1>3 DEF ModeOf
<1>5. Allowed(fs, p, m)
  BY <1>2, <1>3, <1>4, MayWrite
<1> QED BY <1>1, <1>2, <1>4, <1>5 DEF Linux

LEMMA OpenKeeps ==
  ASSUME CopyInv, OpenOver \/ OpenNew \/ OpenPipe \/ OpenFails
  PROVE  CopyInv'
<1>1. CASE OpenOver
  <2>1. PICK p \in Overwritten(fs), m \in {"rw", "ro"} :
          /\ fs' = WithFile(fs, p, Torn, m) /\ Allowed(fs, p, m)
          /\ p \in DOMAIN fs /\ fs[p].kind = "file"
          /\ Source(fs).at \in DOMAIN fs /\ fs[Source(fs).at].kind = "file"
          /\ writing' = [place |-> p, created |-> FALSE, source |-> Source(fs).at]
    BY <1>1, OpenedOver
  <2>2. /\ p \in DOMAIN fs /\ fs[p].kind = "file"
        /\ Source(fs).at \in DOMAIN fs /\ fs[Source(fs).at].kind = "file"
    BY <2>1
  <2>3. /\ TreeOK(fs') /\ KeptIn(fs') /\ DOMAIN fs' = DOMAIN fs
        /\ \A q \in DOMAIN fs : fs'[q].kind = fs[q].kind
        /\ Allowed(fs', p, fs'[p].mode)
    <3>1. TreeOK(fs) /\ KeptIn(fs)
      BY Taken
    <3> DEFINE d == Torn
    <3>2. d \in Content \cup {Torn} /\ fs' = WithFile(fs, p, d, m)
      BY <2>1
    <3> HIDE DEF d
    <3> QED BY <2>1, <2>2, <3>1, <3>2, WritingKeeps
  <2>4. Held(fs', stack)
    BY <2>3, Taken DEF Held
  <2>5. writing' \in [place : Path, created : BOOLEAN, source : Path]
    BY <2>1, <2>2, Taken DEF TreeOK
  <2>6. pc' = "write" /\ UNCHANGED <<req, stack, args, ret, faults, missed>>
    BY <1>1 DEF OpenOver
  <2> QED BY <2>1, <2>2, <2>3, <2>4, <2>5, <2>6, Taken, Assembled DEF CopyInv
<1>2. CASE OpenNew
  <2> DEFINE node == File(Torn, Masked(fs[Source(fs).at].mode))
  <2>1. PICK p \in Created(fs) :
          /\ fs' = With(fs, p, node)
          /\ writing' = [place |-> p, created |-> TRUE, source |-> Source(fs).at]
    BY <1>2 DEF OpenNew, ModeOf
  <2>2. /\ p \in Path /\ p \notin DOMAIN fs
        /\ Source(fs).at \in DOMAIN fs /\ fs[Source(fs).at].kind = "file"
    BY Taken, NewPlaces DEF Created, Is
  <2>3. Masked(fs[Source(fs).at].mode) \in {"rw", "ro"}
    BY <2>2, Taken DEF TreeOK, Node, Masked
  <2>4. node \in Node /\ node.kind = "file"
    BY <2>3 DEF File, Node
  <2> HIDE DEF node
  <2>5. TreeOK(fs') /\ KeptIn(fs')
    BY <2>1, <2>2, <2>4, Taken, MakingKeeps
  <2>6. /\ p \in DOMAIN fs' /\ fs'[p] = node
        /\ \A q \in DOMAIN fs : q \in DOMAIN fs' /\ fs'[q] = fs[q]
    BY <2>1, <2>2 DEF With
  <2>7. Held(fs', stack)
    BY <2>6, Taken DEF Held
  <2>8. /\ writing' \in [place : Path, created : BOOLEAN, source : Path]
        /\ writing'.place = p /\ writing'.source = Source(fs).at
    BY <2>1, <2>2, Taken DEF TreeOK
  <2>9. p \notin DOMAIN req.tree /\ Allowed(fs', p, fs'[p].mode)
    BY <2>2, Taken DEF KeptIn, Allowed
  <2>10. pc' = "write" /\ UNCHANGED <<req, stack, args, ret, faults, missed>>
    BY <1>2 DEF OpenNew
  <2> QED BY <2>2, <2>4, <2>5, <2>6, <2>7, <2>8, <2>9, <2>10, Taken, Assembled DEF CopyInv
<1>3. CASE OpenFails
  <2>1. faults' \in 0 .. MaxFaults
    BY <1>3, Failing, Taken DEF OpenFails, CopyInv
  <2> QED BY <1>3, <2>1, Taken, ReturningKeeps DEF OpenFails
<1>4. CASE OpenPipe
  BY <1>4, Taken, ReturningKeeps DEF OpenPipe
<1> QED BY <1>1, <1>2, <1>3, <1>4

(* CopyFileW leaves the attributes of the source (oswindows.c:120). *)
LEMMA WrittenOver ==
  ASSUME CopyInv, Written
  PROVE  \E d \in Content \cup {Torn}, m \in {"rw", "ro"} :
           /\ fs' = WithFile(fs, writing.place, d, m)
           /\ d = fs[writing.source].data
           /\ Linux => m = fs[writing.place].mode
           /\ Allowed(fs, writing.place, m)
<1> DEFINE p == writing.place
           y == writing.source
           m == fs[IF Linux THEN p ELSE y].mode
<1>1. /\ p \in DOMAIN fs /\ fs[p].kind = "file" /\ y \in DOMAIN fs /\ fs[y].kind = "file"
      /\ Allowed(fs, p, fs[p].mode)
  BY Taken DEF Written
<1>2. /\ fs[y].data \in Content \cup {Torn}
      /\ fs[y].mode \in {"rw", "ro"} /\ fs[p].mode \in {"rw", "ro"}
  BY <1>1, Taken DEF TreeOK, Node
<1>3. fs' = WithFile(fs, p, fs[y].data, m)
  BY DEF Written, ModeOf
<1>4. m \in {"rw", "ro"} /\ (Linux => m = fs[p].mode)
  BY <1>2
<1>5. Allowed(fs, p, m)
  BY <1>1, <1>4 DEF Allowed
<1> QED BY <1>2, <1>3, <1>4, <1>5

LEMMA WriteKeeps ==
  ASSUME CopyInv, Written \/ WriteFails
  PROVE  CopyInv'
<1>1. /\ writing.place \in DOMAIN fs /\ fs[writing.place].kind = "file"
      /\ writing.source \in DOMAIN fs /\ fs[writing.source].kind = "file"
      /\ writing.created => writing.place \notin DOMAIN req.tree
  BY Taken DEF Written, WriteFails
<1>2. NoFile \in [place : Path, created : BOOLEAN, source : Path]
  BY Taken
<1>3. CASE Written
  <2>1. PICK d \in Content \cup {Torn}, m \in {"rw", "ro"} :
          fs' = WithFile(fs, writing.place, d, m) /\ Allowed(fs, writing.place, m)
    BY <1>3, WrittenOver
  <2>3. /\ TreeOK(fs') /\ KeptIn(fs') /\ DOMAIN fs' = DOMAIN fs
        /\ \A q \in DOMAIN fs : fs'[q].kind = fs[q].kind
    <3>1. TreeOK(fs) /\ KeptIn(fs)
      BY Taken
    <3> DEFINE p == writing.place
    <3>2. /\ p \in DOMAIN fs /\ fs[p].kind = "file" /\ Allowed(fs, p, m)
          /\ fs' = WithFile(fs, p, d, m)
      BY <1>1, <2>1
    <3> HIDE DEF p
    <3> QED BY <3>1, <3>2, WritingKeeps
  <2>4. Held(fs', stack)
    BY <2>3, Taken DEF Held
  <2> QED BY <1>2, <1>3, <2>3, <2>4, Taken, ReturningKeeps DEF Written
<1>4. CASE WriteFails
  <2>1. faults' \in 0 .. MaxFaults
    BY <1>4, Failing DEF WriteFails, CopyInv
  <2>2. TreeOK(fs') /\ KeptIn(fs') /\ Held(fs', stack)
    <3>1. CASE UNCHANGED fs
      BY <3>1, Taken
    <3>2. CASE writing.created /\ fs' = Without(fs, writing.place)
      <4>1. TreeOK(fs') /\ KeptIn(fs')
        BY <1>1, <3>2, Taken, RemovingKeeps
      <4>2. \A i \in DOMAIN stack :
              stack[i].at # writing.place /\ stack[i].place # writing.place
        BY <1>1, Taken DEF Held
      <4>3. Held(fs', stack)
        BY <3>2, <4>2, Taken DEF Held, Without
      <4> QED BY <4>1, <4>3
    <3> QED BY <1>4, <3>1, <3>2 DEF WriteFails
  <2> QED BY <1>2, <1>4, <2>1, <2>2, Taken, ReturningKeeps DEF WriteFails
<1> QED BY <1>3, <1>4

(* The innermost directory gets its permissions back and may go away. *)
LEMMA CleaningKeeps ==
  ASSUME CopyInv, pc = "close", NEW mode \in {"rw", "ro", "open"}, NEW result,
         fs' = Cleaned(Restored(mode), result)
  PROVE  TreeOK(fs') /\ KeptIn(fs') /\ Held(fs', Front(stack))
<1> DEFINE t == Restored(mode)
<1>1. /\ stack # <<>> /\ Top.place \in DOMAIN fs /\ fs[Top.place].kind = "dir"
      /\ Top.created => Top.place \notin DOMAIN req.tree
  BY TopFrame
<1>2. Held(fs, Front(stack))
  BY <1>1, Taken, PlacesOfFront
<1>3. TreeOK(t) /\ KeptIn(t) /\ Held(t, Front(stack))
  <2>1. CASE t = fs
    BY <2>1, <1>2, Taken
  <2>2. CASE t # fs
    <3>1. Top.created /\ t = [fs EXCEPT ![Top.place] = Dir(mode)]
      BY <2>2 DEF Restored
    <3>2. Dir(mode) \in Node /\ Dir(mode).kind = "dir"
      BY DEF Dir, Node
    <3>3. /\ DOMAIN t = DOMAIN fs /\ t[Top.place] = Dir(mode)
          /\ \A q \in DOMAIN fs : q # Top.place => t[q] = fs[q]
      BY <1>1, <3>1
    <3>4. TreeOK(t)
      BY <3>2, <3>3, Taken DEF TreeOK
    <3>5. KeptIn(t)
      BY <1>1, <3>1, <3>3, Taken DEF KeptIn
    <3>6. Held(t, Front(stack))
      BY <1>2, <3>2, <3>3 DEF Held
    <3> QED BY <3>4, <3>5, <3>6
  <2> QED BY <2>1, <2>2
<1> HIDE DEF t
<1>4. CASE fs' = t
  BY <1>3, <1>4
<1>5. CASE Top.created /\ fs' = Without(t, Top.place)
  <2>1. TreeOK(fs') /\ KeptIn(fs')
    BY <1>1, <1>3, <1>5, RemovingKeeps
  <2>2. /\ Last(stack) = stack[Len(stack)] /\ Len(stack) \in Nat \ {0}
        /\ Len(Front(stack)) = Len(stack) - 1
        /\ \A i \in 1 .. Len(stack) - 1 : Front(stack)[i] = stack[i]
        /\ Front(stack) \in Seq(Frames)
    <3>1. stack \in Seq(Frames)
      BY Taken
    <3> QED BY <1>1, <3>1, Stacks
  <2>3. \A i \in 1 .. Len(stack) - 1 :
          stack[i].at # Top.place /\ stack[i].place # Top.place
    <3>1. stack \in Seq(Frames) /\ Own(stack)
      BY Taken
    <3>2. Len(stack) \in DOMAIN stack /\ DOMAIN stack = 1 .. Len(stack)
      BY <2>2, <3>1
    <3>3. Top = stack[Len(stack)]
      BY <2>2 DEF Top
    <3>4. \A i \in 1 .. Len(stack) - 1 : i \in DOMAIN stack /\ i < Len(stack)
      BY <2>2, <3>2
    <3> QED BY <1>5, <3>1, <3>2, <3>3, <3>4 DEF Own
  <2>4. \A i \in DOMAIN Front(stack) :
          Front(stack)[i].at # Top.place /\ Front(stack)[i].place # Top.place
    BY <2>2, <2>3
  <2>5. Held(fs', Front(stack))
    BY <1>3, <1>5, <2>4 DEF Held, Without
  <2> QED BY <2>1, <2>5
<1> QED BY <1>4, <1>5 DEF Cleaned, t

LEMMA CloseKeeps ==
  ASSUME CopyInv, CloseDirectory \/ CloseFails
  PROVE  CopyInv'
<1>1. pc = "close"
  BY DEF CloseDirectory, CloseFails
<1>2. /\ stack # <<>> /\ Top.result \in {-1, 0}
      /\ Top.at \in DOMAIN fs /\ fs[Top.at].kind = "dir"
  BY <1>1, TopFrame
<1>3. fs[Top.at].mode \in {"rw", "ro", "open"}
  BY <1>2, Taken DEF TreeOK, Node
<1>4. PICK mode \in {"rw", "ro", "open"}, result \in {-1, 0} :
        /\ fs' = Cleaned(Restored(mode), result)
        /\ Return(Front(stack), result)
  BY <1>2, <1>3 DEF CloseDirectory, CloseFails
<1>5. TreeOK(fs') /\ KeptIn(fs') /\ Held(fs', Front(stack))
  BY <1>1, <1>4, CleaningKeeps
<1>6. Own(Front(stack)) /\ Front(stack) \in Seq(Frames)
  BY <1>2, Taken, PlacesOfFront
<1>7. /\ stack' \in Seq(Frames) /\ SamePlaces(Front(stack), stack')
      /\ ret' \in {-1, 0} /\ pc' \in {"read", "close", "done"}
      /\ pc' \in {"read", "close"} => stack' # <<>>
  BY <1>4, <1>6, Returned
<1>8. Held(fs', stack') /\ Own(stack')
  BY <1>5, <1>6, <1>7, PlacesCarry
<1>9. /\ faults' \in 0 .. MaxFaults
      /\ UNCHANGED <<req, args, writing, missed>>
  BY Failing, Taken DEF CloseDirectory, CloseFails, CopyInv
<1>10. pc' # "write"
  BY <1>7
<1> QED BY <1>5, <1>7, <1>8, <1>9, <1>10, Taken, Assembled DEF CopyInv

LEMMA CopyStep == CopyInv /\ [Next]_vars => CopyInv'
<1> SUFFICES ASSUME CopyInv, [Next]_vars PROVE CopyInv'
  OBVIOUS
<1>1. CASE UNCHANGED vars
  BY <1>1 DEF vars, CopyInv, TypeOK, PriorStays, OwnPlaces, Own, IsOf, Allowed, Linux
<1>2. CASE CopyDir \/ CopyFile \/ RefuseCopy
  BY <1>2, RequestKeeps
<1>3. CASE EnterExisting \/ EnterNew \/ EnterNewFails \/ EnterNowhere \/ EnterFails
  BY <1>3, EnterKeeps
<1>4. ASSUME NEW n \in Name,
             ReadDirectory(n) \/ ReadFile(n) \/ ReadOther(n) \/ ReadUnreachable(n)
      PROVE  CopyInv'
  <2>1. pc = "read"
    BY <1>4 DEF ReadDirectory, ReadFile, ReadOther, ReadUnreachable
  <2> QED BY <1>4, <2>1, ReadKeeps
<1>5. CASE ReadFails \/ EndOfDirectory
  <2>1. pc = "read" /\ stack # <<>> /\ stack \in Seq(Frames)
    BY <1>5 DEF ReadFails, EndOfDirectory, CopyInv, TypeOK
  <2>2. req.from \in Path /\ req.from # <<>>
    BY RequestsAssumption DEF CopyInv, TypeOK
  <2>3. Last(req.from) \in Name
    BY <2>2, Stacks DEF Path
  <2> QED BY <1>5, <2>1, <2>3, ReadKeeps
<1>6. CASE OpenOver \/ OpenNew \/ OpenPipe \/ OpenFails
  BY <1>6, OpenKeeps
<1>7. CASE Written \/ WriteFails
  BY <1>7, WriteKeeps
<1>8. CASE CloseDirectory \/ CloseFails
  BY <1>8, CloseKeeps
<1> QED BY <1>1, <1>2, <1>3, <1>4, <1>5, <1>6, <1>7, <1>8 DEF Next, Step

(***************************************************************************)
(* What is open exists and is what it was opened as, in every copy         *)
(* (oslinux.c:264-368, oswindows.c:447-520).                               *)
(***************************************************************************)
THEOREM CopyTypes == Spec => []TypeOK
<1>1. CopyInv => TypeOK
  BY DEF CopyInv
<1> QED BY <1>1, CopyInit, CopyStep, PTL DEF Spec

(***************************************************************************)
(* "never roll back copied or prior content" (oslinux.c:362): whatever     *)
(* fails, whatever the links lead to and however far a copy goes into      *)
(* itself, what was there is still there and of its kind, and as it was    *)
(* but for files that the owner may write; those stay so on Linux, while   *)
(* CopyFileW may leave one read-only, as its source is (oswindows.c:120).  *)
(***************************************************************************)
THEOREM PriorContentStays == Spec => []PriorKept
<1>1. CopyInv => PriorKept
  BY DEF CopyInv, PriorKept
<1> QED BY <1>1, CopyInit, CopyStep, PTL DEF Spec

-----------------------------------------------------------------------------
(***************************************************************************)
(* How the kernel walks a path.  A position is followed by one with fewer  *)
(* links left, or as many and a shorter rest, so the recursive function that*)
(* Reached chooses is one, and what holds of a position whenever it holds of*)
(* the next one holds of all positions.                                    *)
(***************************************************************************)
LEMMA Least ==
  ASSUME NEW T \in SUBSET Nat, T # {} PROVE \E n \in T : \A m \in T : n <= m
<1> DEFINE R == {p \in Nat \X Nat : p[1] < p[2]}
<1>1. OpToRel(<, Nat) = R
  BY DEF OpToRel
<1>2. IsWellFoundedOn(R, Nat)
  BY <1>1, NatLessThanWellFounded
<1>3. PICK n \in T : \A m \in T : ~(<<m, n>> \in R)
  <2> HIDE DEF R
  <2> QED BY <1>2, WFMin
<1>4. ASSUME NEW m \in T PROVE n <= m
  <2>1. m \in Nat /\ n \in Nat
    OBVIOUS
  <2>2. ~(m < n)
    BY <1>3, <2>1
  <2> QED BY <2>1, <2>2
<1> QED BY <1>4

Ends(t, w, f) ==
  \/ w.rest = <<>>
  \/ t[w.at].kind # "dir"
  \/ Ahead(w) \notin DOMAIN t
  \/ IsFollowed(t, w, f) /\ w.links = 0

LEMMA Limits == MaxLinks \in Nat /\ MaxPath \in Nat
  BY LimitsAssumption

LEMMA Positions ==
  ASSUME NEW w \in Position
  PROVE  /\ w.at \in Path /\ w.rest \in Path /\ w.links \in 0 .. MaxLinks /\ w.links \in Nat
         /\ Len(w.rest) \in Nat
         /\ w = [at |-> w.at, rest |-> w.rest, links |-> w.links]
         /\ w.rest # <<>> => /\ Head(w.rest) \in Name /\ Tail(w.rest) \in Path
                             /\ Ahead(w) \in Path
                             /\ Len(Tail(w.rest)) = Len(w.rest) - 1
                             /\ w.rest = <<Head(w.rest)>> \o Tail(w.rest)
<1>1. w.at \in Seq(Name) /\ w.rest \in Seq(Name) /\ w.links \in 0 .. MaxLinks /\ w.links \in Nat
  BY Limits DEF Position, Path
<1>2. w = [at |-> w.at, rest |-> w.rest, links |-> w.links]
  BY DEF Position
<1>3. ASSUME w.rest # <<>>
      PROVE  /\ Head(w.rest) \in Name /\ Tail(w.rest) \in Path
             /\ Ahead(w) \in Path
             /\ Len(Tail(w.rest)) = Len(w.rest) - 1
             /\ w.rest = <<Head(w.rest)>> \o Tail(w.rest)
  <2>1. Head(w.rest) \in Name /\ Tail(w.rest) \in Seq(Name) /\ Len(Tail(w.rest)) = Len(w.rest) - 1
    BY <1>1, <1>3, HeadTailProperties
  <2>2. Append(w.at, Head(w.rest)) \in Seq(Name)
    BY <1>1, <2>1
  <2>3. w.rest = <<Head(w.rest)>> \o Tail(w.rest)
    BY <1>1, <1>3
  <2> QED BY <2>1, <2>2, <2>3 DEF Ahead, Path
<1> QED BY <1>1, <1>2, <1>3 DEF Path

LEMMA Linked ==
  ASSUME NEW t, TreeOK(t), NEW p \in DOMAIN t, t[p].kind = "link"
  PROVE  t[p].target \in Path
  BY DEF TreeOK, Node

LEMMA Advance ==
  ASSUME NEW t, TreeOK(t), NEW f, NEW w \in Position, ~Ends(t, w, f)
  PROVE  /\ Onward(t, w, f) \in Position
         /\ \/ Onward(t, w, f).links < w.links
            \/ /\ Onward(t, w, f).links = w.links
               /\ Len(Onward(t, w, f).rest) < Len(w.rest)
<1>1. w.rest # <<>> /\ Ahead(w) \in DOMAIN t
  BY DEF Ends
<1>2. /\ w.links \in 0 .. MaxLinks /\ Len(w.rest) \in Nat
      /\ Tail(w.rest) \in Path /\ Ahead(w) \in Path /\ Len(Tail(w.rest)) = Len(w.rest) - 1
  BY <1>1, Positions
<1>3. CASE IsFollowed(t, w, f)
  <2>1. w.links # 0 /\ t[Ahead(w)].kind = "link"
    BY <1>3 DEF Ends, IsFollowed
  <2>2. t[Ahead(w)].target \in Path
    BY <1>1, <2>1, Linked
  <2>3. t[Ahead(w)].target \o Tail(w.rest) \in Path /\ <<>> \in Path
    BY <1>2, <2>2 DEF Path
  <2>4. w.links - 1 \in 0 .. MaxLinks /\ w.links - 1 < w.links
    BY <1>2, <2>1, Limits
  <2> QED BY <1>3, <2>3, <2>4 DEF Onward, Position
<1>4. CASE ~IsFollowed(t, w, f)
  <2>1. Onward(t, w, f) = [at |-> Ahead(w), rest |-> Tail(w.rest), links |-> w.links]
    BY <1>4 DEF Onward
  <2>2. Onward(t, w, f) \in Position
    BY <1>2, <2>1 DEF Position
  <2> QED BY <1>2, <2>1, <2>2
<1> QED BY <1>3, <1>4

(* What holds of a position when it holds of the next one holds of all.    *)
LEMMA WalkInduction ==
  ASSUME NEW t, TreeOK(t), NEW f, NEW T \in SUBSET Position,
         \A w \in Position : Ends(t, w, f) \/ Onward(t, w, f) \in T => w \in T
  PROVE  T = Position
<1> DEFINE U == Position \ T
<1> SUFFICES ASSUME U # {} PROVE FALSE
  OBVIOUS
<1> DEFINE L == {w.links : w \in U}
<1>1. PICK l \in L : \A m \in L : l <= m
  <2>1. L \in SUBSET Nat /\ L # {}
    BY Positions
  <2> HIDE DEF L
  <2> QED BY <2>1, Least
<1> DEFINE V == {w \in U : w.links = l}
           M == {Len(w.rest) : w \in V}
<1>2. PICK n \in M : \A m \in M : n <= m
  <2>1. M \in SUBSET Nat
    BY Positions
  <2>2. V # {}
    OBVIOUS
  <2>3. M # {}
    <3> HIDE DEF V
    <3> QED BY <2>2
  <2> HIDE DEF M
  <2> QED BY <2>1, <2>3, Least
<1>3. PICK w \in V : Len(w.rest) = n
  OBVIOUS
<1>4. w \in Position /\ w \notin T /\ w.links = l /\ w.links \in Nat /\ Len(w.rest) \in Nat
  BY <1>3, Positions
<1>5. ~Ends(t, w, f) /\ Onward(t, w, f) \notin T
  BY <1>4
<1> DEFINE x == Onward(t, w, f)
<1>6. x \in Position /\ (x.links < l \/ (x.links = l /\ Len(x.rest) < n))
  BY <1>3, <1>4, <1>5, Advance
<1>7. x \in U
  BY <1>5, <1>6
<1> HIDE DEF x
<1>8. x.links \in Nat /\ Len(x.rest) \in Nat
  BY <1>6, Positions
<1>9. l <= x.links
  BY <1>1, <1>7
<1>10. x.links = l /\ Len(x.rest) < n
  BY <1>4, <1>6, <1>8, <1>9
<1>11. x \in V
  BY <1>7, <1>10
<1>12. n <= Len(x.rest)
  BY <1>2, <1>11
<1> QED BY <1>3, <1>4, <1>8, <1>10, <1>12

-----------------------------------------------------------------------------
(* One step of the walk, and what a walk must be. *)
Answer(t, w, f) ==
  IF w.rest = <<>> THEN Found(w.at)
  ELSE IF t[w.at].kind # "dir" THEN Error("ENOTDIR")
  ELSE IF Ahead(w) \notin DOMAIN t THEN Error("ENOENT")
  ELSE Error("ELOOP")
StepOf(t, w, f, r) == IF Ends(t, w, f) THEN Answer(t, w, f) ELSE r[Onward(t, w, f)]

Solves(t, f, D, r) ==
  /\ D \subseteq Position
  /\ \A w \in D : ~Ends(t, w, f) => Onward(t, w, f) \in D
  /\ \A w \in D : r[w] = StepOf(t, w, f, r)

LEMMA Unique ==
  ASSUME NEW t, TreeOK(t), NEW f, NEW D, NEW E, NEW r, NEW s,
         Solves(t, f, D, r), Solves(t, f, E, s)
  PROVE  \A w \in D \cap E : r[w] = s[w]
<1> DEFINE T == {w \in Position : w \in D \cap E => r[w] = s[w]}
<1>1. ASSUME NEW w \in Position, Ends(t, w, f) \/ Onward(t, w, f) \in T PROVE w \in T
  BY <1>1 DEF Solves, StepOf
<1>2. T = Position
  <2>1. T \in SUBSET Position
    OBVIOUS
  <2> HIDE DEF T
  <2> QED BY <1>1, <2>1, WalkInduction
<1> QED BY <1>2 DEF Solves

LEMMA Solved ==
  ASSUME NEW t, TreeOK(t), NEW f
  PROVE  \A w \in Position : \E D, r : Solves(t, f, D, r) /\ w \in D
<1> DEFINE T == {w \in Position : \E D, r : Solves(t, f, D, r) /\ w \in D}
<1>1. ASSUME NEW w \in Position, Ends(t, w, f) PROVE w \in T
  <2> DEFINE r == [x \in {w} |-> Answer(t, w, f)]
  <2>1. Solves(t, f, {w}, r)
    BY <1>1 DEF Solves, StepOf
  <2> QED BY <2>1
<1>2. ASSUME NEW w \in Position, Onward(t, w, f) \in T, ~Ends(t, w, f) PROVE w \in T
  <2>1. PICK D, r : Solves(t, f, D, r) /\ Onward(t, w, f) \in D
    BY <1>2
  <2>2. CASE w \in D
    BY <2>1, <2>2
  <2>3. CASE w \notin D
    <3> DEFINE E == D \cup {w}
               s == [x \in E |-> IF x = w THEN r[Onward(t, w, f)] ELSE r[x]]
    <3>1. \A x \in D : s[x] = r[x]
      BY <2>3
    <3>2. \A x \in D : ~Ends(t, x, f) => Onward(t, x, f) \in D
      BY <2>1 DEF Solves
    <3>3. \A x \in D : s[x] = StepOf(t, x, f, s)
      BY <2>1, <3>1, <3>2 DEF Solves, StepOf
    <3>4. s[w] = StepOf(t, w, f, s)
      BY <2>1, <3>1, <1>2 DEF StepOf
    <3>5. Solves(t, f, E, s)
      <4> HIDE DEF s
      <4> QED BY <1>2, <2>1, <3>2, <3>3, <3>4 DEF Solves
    <3> QED BY <3>5
  <2> QED BY <2>2, <2>3
<1>3. T = Position
  <2>1. T \in SUBSET Position
    OBVIOUS
  <2> HIDE DEF T
  <2> QED BY <1>1, <1>2, <2>1, WalkInduction
<1> QED BY <1>3

LEMMA ReachedIs ==
  ASSUME NEW t, TreeOK(t), NEW f
  PROVE  \A w \in Position : Reached(t, f)[w] = StepOf(t, w, f, Reached(t, f))
<1> DEFINE Body(r) == [w \in Position |->
      IF w.rest = <<>> THEN Found(w.at)
      ELSE IF t[w.at].kind # "dir" THEN Error("ENOTDIR")
      ELSE IF Ahead(w) \notin DOMAIN t THEN Error("ENOENT")
      ELSE IF IsFollowed(t, w, f) /\ w.links = 0 THEN Error("ELOOP")
      ELSE r[Onward(t, w, f)]]
<1>1. Reached(t, f) = CHOOSE r : r = Body(r)
  BY DEF Reached
<1>2. \A r : Body(r) = [w \in Position |-> StepOf(t, w, f, r)]
  BY DEF StepOf, Ends, Answer
<1> DEFINE Sol(w) == CHOOSE r : \E D : Solves(t, f, D, r) /\ w \in D
           all == [w \in Position |-> Sol(w)[w]]
<1>3. \A w \in Position : \E D : Solves(t, f, D, Sol(w)) /\ w \in D
  BY Solved
<1>4. ASSUME NEW w \in Position PROVE all[w] = StepOf(t, w, f, all)
  <2>1. PICK D : Solves(t, f, D, Sol(w)) /\ w \in D
    BY <1>3
  <2>2. Sol(w)[w] = StepOf(t, w, f, Sol(w))
    BY <2>1 DEF Solves
  <2>3. CASE Ends(t, w, f)
    BY <2>2, <2>3 DEF StepOf
  <2>4. CASE ~Ends(t, w, f)
    <3> DEFINE x == Onward(t, w, f)
    <3>1. x \in D /\ x \in Position
      BY <2>1, <2>4, Advance DEF Solves
    <3>2. PICK E : Solves(t, f, E, Sol(x)) /\ x \in E
      BY <1>3, <3>1
    <3>3. Sol(w)[x] = Sol(x)[x]
      <4> HIDE DEF Sol, x
      <4> QED BY <2>1, <3>1, <3>2, Unique
    <3> HIDE DEF Sol
    <3> QED BY <2>2, <2>4, <3>1, <3>3 DEF StepOf
  <2> QED BY <2>3, <2>4
<1>5. all = Body(all)
  <2>1. all = [w \in Position |-> StepOf(t, w, f, all)]
    <3> HIDE DEF Sol
    <3> QED BY <1>4
  <2> HIDE DEF all, Body
  <2> QED BY <1>2, <2>1
<1>6. Reached(t, f) = Body(Reached(t, f))
  <2> HIDE DEF Body, all
  <2> QED BY <1>1, <1>5
<1>7. Reached(t, f) = [w \in Position |-> StepOf(t, w, f, Reached(t, f))]
  <2> HIDE DEF Body
  <2> QED BY <1>2, <1>6
<1> QED BY <1>7

-----------------------------------------------------------------------------
LEMMA Errors ==
  /\ \A p, q : Found(p).error = "none" /\ Found(p).at = p /\ (Found(p) = Found(q) => p = q)
  /\ \A e \in {"ENOTDIR", "ENOENT", "ELOOP", "ENAMETOOLONG"} : Error(e).error # "none"
  BY DEF Found, Error

LEMMA AnswerIs ==
  ASSUME NEW t, NEW f, NEW w, Ends(t, w, f), Answer(t, w, f).error = "none"
  PROVE  w.rest = <<>> /\ Answer(t, w, f) = Found(w.at)
  BY Errors DEF Answer

Goes(t) == Reached(t, TRUE)

LEMMA GoesIs ==
  ASSUME NEW t, TreeOK(t)
  PROVE  \A w \in Position : Goes(t)[w] = StepOf(t, w, TRUE, Goes(t))
  BY ReachedIs DEF Goes

(* What a walk comes to exists. *)
LEMMA Arrives ==
  ASSUME NEW t, TreeOK(t), <<>> \in DOMAIN t, NEW f,
         NEW w \in Position, w.at \in DOMAIN t, Reached(t, f)[w].error = "none"
  PROVE  \E q \in DOMAIN t : Reached(t, f)[w] = Found(q)
<1> DEFINE Ok(x) == x.at \in DOMAIN t /\ Reached(t, f)[x].error = "none" =>
                      \E q \in DOMAIN t : Reached(t, f)[x] = Found(q)
           T == {x \in Position : Ok(x)}
<1>1. ASSUME NEW x \in Position, Ends(t, x, f) \/ Onward(t, x, f) \in T,
             x.at \in DOMAIN t, Reached(t, f)[x].error = "none"
      PROVE  \E q \in DOMAIN t : Reached(t, f)[x] = Found(q)
  <2>1. Reached(t, f)[x] = StepOf(t, x, f, Reached(t, f))
    BY ReachedIs
  <2>2. CASE Ends(t, x, f)
    BY <1>1, <2>1, <2>2, AnswerIs DEF StepOf
  <2>3. CASE ~Ends(t, x, f)
    <3>1. Reached(t, f)[x] = Reached(t, f)[Onward(t, x, f)]
      BY <2>1, <2>3 DEF StepOf
    <3>2. Onward(t, x, f).at \in DOMAIN t
      BY <2>3 DEF Ends, Onward
    <3> QED BY <1>1, <2>3, <3>1, <3>2
  <2> QED BY <2>2, <2>3
<1>2. T = Position
  <2>1. T \in SUBSET Position
    OBVIOUS
  <2>2. \A x \in Position : Ends(t, x, f) \/ Onward(t, x, f) \in T => x \in T
    BY <1>1
  <2> HIDE DEF T
  <2> QED BY <2>1, <2>2, WalkInduction
<1> QED BY <1>2

(* A larger tree holds what a smaller one does, and its links lead alike. *)
Within(t, u) ==
  \A p \in DOMAIN t : /\ p \in DOMAIN u /\ u[p].kind = t[p].kind
                      /\ t[p].kind = "link" => u[p] = t[p]

LEMMA Grows ==
  ASSUME NEW t, TreeOK(t), <<>> \in DOMAIN t, NEW u, TreeOK(u), Within(t, u), NEW f,
         NEW w \in Position, w.at \in DOMAIN t, Reached(t, f)[w].error = "none"
  PROVE  Reached(u, f)[w] = Reached(t, f)[w]
<1> DEFINE Ok(x) == x.at \in DOMAIN t /\ Reached(t, f)[x].error = "none" =>
                      Reached(u, f)[x] = Reached(t, f)[x]
           T == {x \in Position : Ok(x)}
<1>1. ASSUME NEW x \in Position, Ends(t, x, f) \/ Onward(t, x, f) \in T,
             x.at \in DOMAIN t, Reached(t, f)[x].error = "none"
      PROVE  Reached(u, f)[x] = Reached(t, f)[x]
  <2>1. /\ Reached(t, f)[x] = StepOf(t, x, f, Reached(t, f))
        /\ Reached(u, f)[x] = StepOf(u, x, f, Reached(u, f))
    BY ReachedIs
  <2>2. CASE Ends(t, x, f)
    <3>1. x.rest = <<>> /\ Reached(t, f)[x] = Found(x.at)
      BY <1>1, <2>1, <2>2, AnswerIs DEF StepOf
    <3> QED BY <2>1, <3>1 DEF StepOf, Ends, Answer
  <2>3. CASE ~Ends(t, x, f)
    <3>1. Reached(t, f)[x] = Reached(t, f)[Onward(t, x, f)]
      BY <2>1, <2>3 DEF StepOf
    <3>2. Onward(t, x, f).at \in DOMAIN t
      BY <2>3 DEF Ends, Onward
    <3>3. IsFollowed(u, x, f) <=> IsFollowed(t, x, f)
      BY <2>3 DEF Ends, Within, IsFollowed
    <3>4. ~Ends(u, x, f)
      BY <1>1, <2>3, <3>3 DEF Ends, Within
    <3>5. Onward(u, x, f) = Onward(t, x, f)
      BY <2>3, <3>3 DEF Ends, Within, Onward, IsFollowed
    <3> QED BY <1>1, <2>1, <2>3, <3>1, <3>2, <3>4, <3>5 DEF StepOf
  <2> QED BY <2>2, <2>3
<1>2. T = Position
  <2>1. T \in SUBSET Position
    OBVIOUS
  <2>2. \A x \in Position : Ends(t, x, f) \/ Onward(t, x, f) \in T => x \in T
    BY <1>1
  <2> HIDE DEF T
  <2> QED BY <2>1, <2>2, WalkInduction
<1> QED BY <1>2

LEMMA Regrouped ==
  ASSUME NEW a \in Path, NEW b \in Path, NEW c \in Path
  PROVE  a \o (b \o c) = (a \o b) \o c
<1>1. a \in Seq(Name) /\ b \in Seq(Name) /\ c \in Seq(Name)
  BY DEF Path
<1> QED BY <1>1, ConcatAssociative, SMTT(30)

LEMMA TailOf ==
  ASSUME NEW S, NEW h \in S, NEW y \in Seq(S) PROVE Tail(<<h>> \o y) = y
<1> DEFINE z == <<h>> \o y
<1>1. z \in Seq(S) /\ Len(z) = Len(y) + 1 /\ z # <<>> /\ Len(y) \in Nat
  OBVIOUS
<1>2. \A i \in 1 .. Len(y) : z[i + 1] = y[i]
  OBVIOUS
<1> HIDE DEF z
<1>3. /\ Tail(z) \in Seq(S) /\ Len(Tail(z)) = Len(y)
      /\ \A i \in 1 .. Len(y) : Tail(z)[i] = y[i]
  BY <1>1, <1>2, HeadTailProperties
<1>4. Tail(z) = y
  BY <1>3
<1> QED BY <1>4 DEF z

LEMMA HeadOn ==
  ASSUME NEW S, NEW s \in Seq(S), s # <<>>, NEW r \in Seq(S)
  PROVE  s \o r # <<>> /\ Head(s \o r) = Head(s) /\ Tail(s \o r) = Tail(s) \o r
<1>1. Head(s) \in S /\ Tail(s) \in Seq(S) /\ Len(s) \in Nat \ {0}
  BY HeadTailProperties
<1>2. s = <<Head(s)>> \o Tail(s)
  OBVIOUS
<1>3. s \o r \in Seq(S) /\ s \o r # <<>>
  BY ConcatProperties, ConcatEqualIffEmpty
<1>4. (s \o r)[1] = s[1]
  BY <1>1, ConcatProperties
<1>5. Head(s \o r) = Head(s)
  BY <1>3, <1>4
<1>6. Tail(s \o r) \in Seq(S) /\ Tail(s) \o r \in Seq(S) /\ <<Head(s)>> \in Seq(S)
  BY <1>1, <1>3, HeadTailProperties, ConcatProperties
<1>8. s \o r = <<Head(s)>> \o (Tail(s) \o r)
  BY <1>1, <1>2, <1>6, ConcatAssociative
<1>9. Tail(s \o r) = Tail(s) \o r
  <2> DEFINE y == Tail(s) \o r
             z == s \o r
             h == Head(s)
  <2>1. z = <<h>> \o y /\ h \in S /\ y \in Seq(S)
    BY <1>1, <1>6, <1>8
  <2> HIDE DEF y, z, h
  <2>2. Tail(z) = y
    BY <2>1, TailOf
  <2> QED BY <2>2 DEF y, z
<1> QED BY <1>3, <1>5, <1>9

(* A longer path leads on from where the shorter one leads. *)
Further(w, r) == [at |-> w.at, rest |-> w.rest \o r, links |-> w.links]

Resumed(q, r, l) == [at |-> q, rest |-> r, links |-> l]

LEMMA FurtherIs ==
  ASSUME NEW w \in Position, NEW r \in Path
  PROVE  /\ Further(w, r) \in Position
         /\ Further(w, r).at = w.at /\ Further(w, r).links = w.links
         /\ w.rest = <<>> => Further(w, r).rest = r
         /\ w.rest # <<>> => /\ Further(w, r).rest # <<>>
                             /\ Head(Further(w, r).rest) = Head(w.rest)
                             /\ Tail(Further(w, r).rest) = Tail(w.rest) \o r
<1>1. w.at \in Path /\ w.rest \in Seq(Name) /\ w.links \in 0 .. MaxLinks /\ r \in Seq(Name)
  BY Positions DEF Path
<1>2. w.rest \o r \in Path
  BY <1>1 DEF Path
<1>3. w.rest = <<>> => w.rest \o r = r
  BY <1>1
<1>4. ASSUME w.rest # <<>>
      PROVE /\ w.rest \o r # <<>> /\ Head(w.rest \o r) = Head(w.rest)
            /\ Tail(w.rest \o r) = Tail(w.rest) \o r
  BY <1>1, <1>4, HeadOn
<1> QED BY <1>1, <1>2, <1>3, <1>4 DEF Further, Position

LEMMA Joined ==
  ASSUME NEW t, TreeOK(t), NEW w \in Position, NEW q, NEW r \in Path,
         Goes(t)[w] = Found(q)
  PROVE  \E l \in 0 .. MaxLinks :
           Goes(t)[Further(w, r)] = Goes(t)[Resumed(q, r, l)]
<1> DEFINE Ok(x) == Goes(t)[x] = Found(q) =>
              \E l \in 0 .. MaxLinks :
                Goes(t)[Further(x, r)] = Goes(t)[Resumed(q, r, l)]
           T == {x \in Position : Ok(x)}
<1>1. ASSUME NEW x \in Position, Ends(t, x, TRUE) \/ Onward(t, x, TRUE) \in T,
             Goes(t)[x] = Found(q)
      PROVE  \E l \in 0 .. MaxLinks :
               Goes(t)[Further(x, r)] = Goes(t)[Resumed(q, r, l)]
  <2>1. /\ Goes(t)[x] = StepOf(t, x, TRUE, Goes(t))
        /\ Goes(t)[Further(x, r)]
             = StepOf(t, Further(x, r), TRUE, Goes(t))
    <3>1. Further(x, r) \in Position
      BY FurtherIs
    <3> QED BY <3>1, GoesIs
  <2>2. CASE Ends(t, x, TRUE)
    <3>1. Answer(t, x, TRUE) = Found(q)
      BY <1>1, <2>1, <2>2 DEF StepOf
    <3>2. x.rest = <<>> /\ Found(q) = Found(x.at)
      <4>1. Answer(t, x, TRUE).error = "none"
        BY <3>1, Errors
      <4> QED BY <2>2, <3>1, <4>1, AnswerIs
    <3>3. x.at = q
      BY <3>2, Errors
    <3>4. x.rest \o r = r
      BY <3>2 DEF Path
    <3>5. Further(x, r) = Resumed(q, r, x.links)
      BY <3>3, <3>4 DEF Further, Resumed
    <3> QED BY <3>5, Positions
  <2>3. CASE ~Ends(t, x, TRUE)
    <3> DEFINE y == Further(x, r)
    <3>1. x.rest # <<>>
      BY <2>3 DEF Ends
    <3>2. /\ y.at = x.at /\ y.links = x.links /\ y.rest # <<>>
          /\ Head(y.rest) = Head(x.rest) /\ Tail(y.rest) = Tail(x.rest) \o r
      BY <3>1, FurtherIs
    <3> HIDE DEF y
    <3>3. Ahead(y) = Ahead(x) /\ (IsFollowed(t, y, TRUE) <=> IsFollowed(t, x, TRUE))
      BY <3>2 DEF Ahead, IsFollowed
    <3>4. ~Ends(t, y, TRUE)
      BY <2>3, <3>2, <3>3 DEF Ends
    <3>5. Onward(t, y, TRUE) = Further(Onward(t, x, TRUE), r)
      <4>1. CASE IsFollowed(t, x, TRUE)
        <5>1. t[Ahead(x)].target \in Path /\ Tail(x.rest) \in Path
          BY <2>3, <4>1, Linked, Positions DEF Ends, IsFollowed
        <5>2. t[Ahead(x)].target \o (Tail(x.rest) \o r) = (t[Ahead(x)].target \o Tail(x.rest)) \o r
          BY <5>1, Regrouped
        <5> QED BY <3>2, <3>3, <4>1, <5>2 DEF Onward, Further
      <4>2. CASE ~IsFollowed(t, x, TRUE)
        BY <3>2, <3>3, <4>2 DEF Onward, Further
      <4> QED BY <4>1, <4>2
    <3>6. /\ Goes(t)[x] = Goes(t)[Onward(t, x, TRUE)]
          /\ Goes(t)[y] = Goes(t)[Onward(t, y, TRUE)]
      BY <2>1, <2>3, <3>4 DEF StepOf, y
    <3>7. Onward(t, x, TRUE) \in T
      BY <1>1, <2>3
    <3> QED BY <1>1, <3>5, <3>6, <3>7 DEF y
  <2> QED BY <2>2, <2>3
<1>2. T = Position
  <2>1. T \in SUBSET Position
    OBVIOUS
  <2>2. \A x \in Position : Ends(t, x, TRUE) \/ Onward(t, x, TRUE) \in T => x \in T
    BY <1>1
  <2> HIDE DEF T
  <2> QED BY <2>1, <2>2, WalkInduction
<1> QED BY <1>2

-----------------------------------------------------------------------------
LEMMA PrefixAt ==
  ASSUME NEW s \in Path, NEW p \in Path
  PROVE  IsPrefix(s, p) <=> Len(s) <= Len(p) /\ \A i \in 1 .. Len(s) : s[i] = p[i]
<1>1. s \in Seq(Name) /\ p \in Seq(Name) /\ Len(s) \in Nat /\ Len(p) \in Nat
  BY DEF Path
<1>2. \A m \in Nat : m <= Len(s) => /\ SubSeq(s, 1, m) \in Seq(Name) /\ Len(SubSeq(s, 1, m)) = m
                                    /\ \A i \in 1 .. m : SubSeq(s, 1, m)[i] = s[i]
  BY <1>1
<1>3. \A m \in Nat : m <= Len(p) => /\ SubSeq(p, 1, m) \in Seq(Name) /\ Len(SubSeq(p, 1, m)) = m
                                    /\ \A i \in 1 .. m : SubSeq(p, 1, m)[i] = p[i]
  BY <1>1
<1>4. ASSUME Len(s) <= Len(p)
      PROVE  SubSeq(s, 1, Len(s)) = SubSeq(p, 1, Len(s)) <=> \A i \in 1 .. Len(s) : s[i] = p[i]
  BY <1>1, <1>2, <1>3, <1>4
<1> QED BY <1>4 DEF IsPrefix

LEMMA PrefixOfConcat ==
  ASSUME NEW s \in Path, NEW r \in Path
  PROVE  s \o r \in Path /\ Len(s \o r) = Len(s) + Len(r) /\ IsPrefix(s, s \o r)
<1>1. s \in Seq(Name) /\ r \in Seq(Name) /\ Len(s) \in Nat /\ Len(r) \in Nat
  BY DEF Path
<1> DEFINE z == s \o r
<1>2. z \in Path /\ Len(z) = Len(s) + Len(r) /\ \A i \in 1 .. Len(s) : z[i] = s[i]
  BY <1>1 DEF Path
<1> HIDE DEF z
<1>3. IsPrefix(s, z)
  BY <1>1, <1>2, PrefixAt
<1> QED BY <1>2, <1>3 DEF z

LEMMA PrefixChain ==
  ASSUME NEW a \in Path, NEW b \in Path, NEW c \in Path
  PROVE  /\ IsPrefix(a, a)
         /\ IsPrefix(a, b) /\ IsPrefix(b, c) => IsPrefix(a, c)
         /\ IsPrefix(a, c) /\ IsPrefix(b, c) /\ Len(a) <= Len(b) => IsPrefix(a, b)
         /\ IsPrefix(a, c) /\ IsPrefix(b, c) => IsPrefix(a, b) \/ IsPrefix(b, a)
         /\ IsPrefix(a, b) => Len(a) <= Len(b) /\ (a # b => Len(a) < Len(b))
<1>1. Len(a) \in Nat /\ Len(b) \in Nat /\ Len(c) \in Nat
  BY DEF Path
<1>2. IsPrefix(a, a)
  BY <1>1, PrefixAt
<1>3. ASSUME IsPrefix(a, b), IsPrefix(b, c) PROVE IsPrefix(a, c)
  <2>1. Len(a) <= Len(b) /\ Len(b) <= Len(c)
    BY <1>3, PrefixAt
  <2>2. \A i \in 1 .. Len(a) : a[i] = b[i] /\ i \in 1 .. Len(b)
    BY <1>1, <1>3, <2>1, PrefixAt
  <2>3. \A i \in 1 .. Len(b) : b[i] = c[i]
    BY <1>3, PrefixAt
  <2> QED BY <1>1, <2>1, <2>2, <2>3, PrefixAt
<1>4. ASSUME IsPrefix(a, c), IsPrefix(b, c), Len(a) <= Len(b) PROVE IsPrefix(a, b)
  <2>1. \A i \in 1 .. Len(a) : a[i] = c[i] /\ i \in 1 .. Len(b)
    BY <1>1, <1>4, PrefixAt
  <2>2. \A i \in 1 .. Len(b) : b[i] = c[i]
    BY <1>4, PrefixAt
  <2> QED BY <1>4, <2>1, <2>2, PrefixAt
<1>5. ASSUME IsPrefix(a, c), IsPrefix(b, c), Len(b) <= Len(a) PROVE IsPrefix(b, a)
  <2>1. \A i \in 1 .. Len(b) : b[i] = c[i] /\ i \in 1 .. Len(a)
    BY <1>1, <1>5, PrefixAt
  <2>2. \A i \in 1 .. Len(a) : a[i] = c[i]
    BY <1>5, PrefixAt
  <2> QED BY <1>5, <2>1, <2>2, PrefixAt
<1>6. ASSUME IsPrefix(a, b), a # b PROVE Len(a) < Len(b)
  <2>1. Len(a) <= Len(b) /\ \A i \in 1 .. Len(a) : a[i] = b[i]
    BY <1>6, PrefixAt
  <2>2. Len(a) = Len(b) => a = b
    BY <2>1 DEF Path
  <2> QED BY <1>1, <1>6, <2>1, <2>2
<1>7. IsPrefix(a, b) => Len(a) <= Len(b)
  BY PrefixAt
<1> QED BY <1>1, <1>2, <1>3, <1>4, <1>5, <1>6, <1>7

LEMMA AheadIs ==
  ASSUME NEW w \in Position, w.rest # <<>>
  PROVE  /\ Ahead(w) \in Path /\ Ahead(w) = w.at \o <<Head(w.rest)>>
         /\ IsPrefix(w.at, Ahead(w)) /\ Ahead(w) # w.at
         /\ IsPrefix(Ahead(w), w.at \o w.rest)
         /\ Ahead(w) \o Tail(w.rest) = w.at \o w.rest
<1> DEFINE h == Head(w.rest)
           e == Tail(w.rest)
           a == w.at
<1>1. /\ a \in Seq(Name) /\ h \in Name /\ e \in Seq(Name) /\ w.rest = <<h>> \o e
  BY Positions DEF Path
<1>2. Ahead(w) = Append(a, h)
  BY DEF Ahead
<1> HIDE DEF h, e, a
<1>3. Append(a, h) = a \o <<h>> /\ <<h>> \in Path /\ a \in Path /\ e \in Path
  BY <1>1, AppendIsConcat DEF Path
<1>4. a \o (<<h>> \o e) = (a \o <<h>>) \o e
  BY <1>3, Regrouped
<1>5. /\ a \o <<h>> \in Path /\ IsPrefix(a, a \o <<h>>) /\ Len(a \o <<h>>) = Len(a) + 1
  BY <1>3, PrefixOfConcat
<1>6. a \o <<h>> # a
  BY <1>1, <1>5
<1>7. IsPrefix(a \o <<h>>, (a \o <<h>>) \o e)
  BY <1>3, <1>5, PrefixOfConcat
<1> QED BY <1>1, <1>2, <1>3, <1>4, <1>5, <1>6, <1>7 DEF a, h, e

(* No link on the way from a to b. *)
Straight(t, a, b) ==
  \A p \in DOMAIN t : IsPrefix(a, p) /\ p # a /\ IsPrefix(p, b) => t[p].kind # "link"

LEMMA StraightOn ==
  ASSUME NEW t, TreeOK(t),
         NEW w \in Position, Straight(t, w.at, w.at \o w.rest), Goes(t)[w].error = "none"
  PROVE  Goes(t)[w] = Found(w.at \o w.rest)
<1> DEFINE Ok(x) == Straight(t, x.at, x.at \o x.rest) /\ Goes(t)[x].error = "none" =>
                      Goes(t)[x] = Found(x.at \o x.rest)
           T == {x \in Position : Ok(x)}
<1>1. ASSUME NEW x \in Position, Ends(t, x, TRUE) \/ Onward(t, x, TRUE) \in T,
             Straight(t, x.at, x.at \o x.rest), Goes(t)[x].error = "none"
      PROVE  Goes(t)[x] = Found(x.at \o x.rest)
  <2>1. Goes(t)[x] = StepOf(t, x, TRUE, Goes(t))
    BY GoesIs
  <2>2. CASE Ends(t, x, TRUE)
    <3>1. x.rest = <<>> /\ Goes(t)[x] = Found(x.at)
      BY <1>1, <2>1, <2>2, AnswerIs DEF StepOf
    <3>2. x.at \o x.rest = x.at
      BY <3>1, Positions DEF Path
    <3> QED BY <3>1, <3>2
  <2>3. CASE ~Ends(t, x, TRUE)
    <3> DEFINE y == Onward(t, x, TRUE)
    <3>1. Goes(t)[x] = Goes(t)[y] /\ y \in T
      BY <1>1, <2>1, <2>3 DEF StepOf
    <3>2. x.rest # <<>> /\ Ahead(x) \in DOMAIN t
      BY <2>3 DEF Ends
    <3>3. t[Ahead(x)].kind # "link"
      BY <1>1, <3>2, AheadIs DEF Straight
    <3>4. y.at = Ahead(x) /\ y.rest = Tail(x.rest)
      BY <3>3 DEF Onward, IsFollowed
    <3>5. y.at \o y.rest = x.at \o x.rest
      BY <3>2, <3>4, AheadIs
    <3> HIDE DEF y
    <3>6. Straight(t, y.at, y.at \o y.rest)
      <4>1. ASSUME NEW p \in DOMAIN t, IsPrefix(Ahead(x), p) PROVE IsPrefix(x.at, p) /\ p # x.at
        <5>1. p \in Path /\ x.at \in Path /\ Ahead(x) \in Path /\ IsPrefix(x.at, Ahead(x)) /\ Ahead(x) # x.at
          BY <3>2, AheadIs, Positions DEF TreeOK
        <5>2. IsPrefix(x.at, p) /\ Len(x.at) < Len(Ahead(x)) /\ Len(Ahead(x)) <= Len(p)
          BY <4>1, <5>1, PrefixChain
        <5>3. Len(x.at) \in Nat /\ Len(p) \in Nat /\ Len(Ahead(x)) \in Nat
          BY <5>1 DEF Path
        <5> QED BY <5>2, <5>3
      <4> QED BY <1>1, <3>4, <3>5, <4>1 DEF Straight
    <3> QED BY <1>1, <3>1, <3>5, <3>6
  <2> QED BY <2>2, <2>3
<1>2. T = Position
  <2>1. T \in SUBSET Position
    OBVIOUS
  <2>2. \A x \in Position : Ends(t, x, TRUE) \/ Onward(t, x, TRUE) \in T => x \in T
    BY <1>1
  <2> HIDE DEF T
  <2> QED BY <2>1, <2>2, WalkInduction
<1> QED BY <1>2

-----------------------------------------------------------------------------
(* stat, from these. *)
Start(p) == [at |-> <<>>, rest |-> p, links |-> MaxLinks]
Sound(t) == TreeOK(t) /\ <<>> \in DOMAIN t

LEMMA StartIs ==
  ASSUME NEW p \in Path
  PROVE  Start(p) \in Position /\ Start(p).at = <<>> /\ Start(p).rest = p
  BY Limits DEF Start, Position, Path

LEMMA StatIs ==
  ASSUME NEW t, NEW p \in Path
  PROVE  Stat(t, p) = IF Len(p) > MaxPath THEN Error("ENAMETOOLONG") ELSE Goes(t)[Start(p)]
  BY DEF Stat, Walk, Start, Goes

LEMMA StatFound ==
  ASSUME NEW t, Sound(t), NEW p \in Path, Stat(t, p).error = "none"
  PROVE  /\ Len(p) <= MaxPath /\ Stat(t, p) = Goes(t)[Start(p)]
         /\ Stat(t, p).at \in DOMAIN t /\ Stat(t, p).at \in Path /\ Stat(t, p) = Found(Stat(t, p).at)
<1>1. Len(p) \in Nat /\ MaxPath \in Nat
  BY Limits DEF Path
<1>2. ~(Len(p) > MaxPath)
  BY StatIs, Errors
<1>3. Stat(t, p) = Goes(t)[Start(p)]
  BY <1>2, StatIs
<1>4. PICK q \in DOMAIN t : Goes(t)[Start(p)] = Found(q)
  <2>1. TreeOK(t) /\ <<>> \in DOMAIN t
    BY DEF Sound
  <2>2. Start(p) \in Position /\ Start(p).at \in DOMAIN t /\ Goes(t)[Start(p)].error = "none"
    BY <1>3, <2>1, StartIs
  <2> DEFINE w == Start(p)
             f == TRUE
  <2>3. w \in Position /\ w.at \in DOMAIN t /\ Reached(t, f)[w].error = "none"
    BY <2>2 DEF Goes
  <2> HIDE DEF w, f
  <2>4. \E q \in DOMAIN t : Reached(t, f)[w] = Found(q)
    BY <2>1, <2>3, Arrives
  <2> QED BY <2>4 DEF Goes, w, f
<1>5. Stat(t, p) = Found(q) /\ Stat(t, p).at = q
  BY <1>3, <1>4, Errors
<1>6. q \in Path
  BY DEF Sound, TreeOK
<1>7. Len(p) <= MaxPath
  BY <1>1, <1>2
<1> QED BY <1>3, <1>5, <1>6, <1>7

LEMMA StatGrows ==
  ASSUME NEW t, Sound(t), NEW u, Sound(u), Within(t, u),
         NEW p \in Path, Stat(t, p).error = "none"
  PROVE  Stat(u, p) = Stat(t, p)
<1>1. Len(p) <= MaxPath /\ Stat(t, p) = Goes(t)[Start(p)]
  BY StatFound
<1>2. Goes(u)[Start(p)] = Goes(t)[Start(p)]
  <2>1. TreeOK(t) /\ <<>> \in DOMAIN t /\ TreeOK(u)
    BY DEF Sound
  <2> DEFINE links == TRUE
  <2>2. Goes(t) = Reached(t, links) /\ Goes(u) = Reached(u, links)
    BY DEF Goes
  <2> HIDE DEF links
  <2>3. Start(p) \in Position /\ Start(p).at \in DOMAIN t /\ Reached(t, links)[Start(p)].error = "none"
    BY <1>1, <2>1, <2>2, StartIs
  <2>4. Reached(u, links)[Start(p)] = Reached(t, links)[Start(p)]
    BY <2>1, <2>3, Grows
  <2> QED BY <2>2, <2>4
<1>3. ~(Len(p) > MaxPath)
  BY <1>1, Limits DEF Path
<1> QED BY <1>1, <1>2, <1>3, StatIs

LEMMA StatOn ==
  ASSUME NEW t, Sound(t), NEW b \in Path, NEW x \in Path, NEW e \in Path,
         Stat(t, b) = Found(e), Len(b \o x) <= MaxPath
  PROVE  \E l \in 0 .. MaxLinks :
           Stat(t, b \o x) = Goes(t)[Resumed(e, x, l)]
<1>1. Stat(t, b).error = "none"
  BY Errors
<1>2. Goes(t)[Start(b)] = Found(e)
  BY <1>1, StatFound
<1>3. Start(b) \in Position /\ Further(Start(b), x) = Start(b \o x)
  BY StartIs DEF Further, Start
<1>4. b \o x \in Path /\ ~(Len(b \o x) > MaxPath)
  <2>1. b \o x \in Path
    BY PrefixOfConcat
  <2> QED BY <2>1, Limits DEF Path
<1>5. Stat(t, b \o x) = Goes(t)[Start(b \o x)]
  BY <1>4, StatIs
<1>6. \E l \in 0 .. MaxLinks :
        Goes(t)[Further(Start(b), x)] = Goes(t)[Resumed(e, x, l)]
  <2>1. TreeOK(t)
    BY DEF Sound
  <2> QED BY <1>2, <1>3, <2>1, Joined
<1> QED BY <1>3, <1>5, <1>6

LEMMA StatBelow ==
  ASSUME NEW t, Sound(t), NEW b \in Path, NEW x \in Path, NEW e \in Path,
         Stat(t, b) = Found(e), Straight(t, e, e \o x), Stat(t, b \o x).error = "none"
  PROVE  Stat(t, b \o x) = Found(e \o x)
<1>1. b \o x \in Path
  BY PrefixOfConcat
<1>2. Len(b \o x) <= MaxPath
  BY <1>1, StatFound
<1>3. PICK l \in 0 .. MaxLinks :
        Stat(t, b \o x) = Goes(t)[Resumed(e, x, l)]
  BY <1>2, StatOn
<1> DEFINE w == Resumed(e, x, l)
<1>4. w \in Position /\ w.at = e /\ w.rest = x
  BY DEF Position, Resumed
<1> HIDE DEF w
<1>5. Goes(t)[w] = Found(w.at \o w.rest)
  BY <1>3, <1>4, StraightOn DEF Sound, w
<1> QED BY <1>3, <1>4, <1>5 DEF w

LEMMA StatStraight ==
  ASSUME NEW t, Sound(t), NEW p \in Path, Straight(t, <<>>, p), Stat(t, p).error = "none"
  PROVE  Stat(t, p) = Found(p)
<1>1. Stat(t, p) = Goes(t)[Start(p)]
  BY StatFound
<1>2. Start(p) \in Position /\ Start(p).at = <<>> /\ Start(p).rest = p
  BY StartIs
<1>3. <<>> \o p = p
  BY DEF Path
<1>4. Straight(t, Start(p).at, Start(p).at \o Start(p).rest)
  BY <1>2, <1>3
<1>5. Goes(t)[Start(p)] = Found(Start(p).at \o Start(p).rest)
  BY <1>1, <1>2, <1>4, StraightOn DEF Sound
<1> QED BY <1>1, <1>2, <1>3, <1>5

LEMMA FrontLast ==
  ASSUME NEW p \in Path, p # <<>>
  PROVE  /\ Front(p) \in Path /\ Last(p) \in Name /\ <<Last(p)>> \in Path
         /\ p = Front(p) \o <<Last(p)>> /\ p = Append(Front(p), Last(p))
         /\ IsPrefix(Front(p), p) /\ Len(p) = Len(Front(p)) + 1
<1>1. p \in Seq(Name)
  BY DEF Path
<1>2. /\ Last(p) \in Name /\ Last(p) = p[Len(p)] /\ Front(p) \in Seq(Name)
      /\ Len(p) \in Nat \ {0} /\ Len(Front(p)) = Len(p) - 1
      /\ \A i \in 1 .. Len(p) - 1 : Front(p)[i] = p[i]
  BY <1>1, Stacks
<1> DEFINE f == Front(p)
           e == Last(p)
<1>3. f \in Seq(Name) /\ e \in Name
  BY <1>2
<1> HIDE DEF f, e
<1>4. Append(f, e) = f \o <<e>> /\ f \in Path /\ <<e>> \in Path
  BY <1>3, AppendIsConcat DEF Path
<1>5. /\ Append(f, e) \in Seq(Name) /\ Len(Append(f, e)) = Len(f) + 1
      /\ \A i \in 1 .. Len(f) : Append(f, e)[i] = f[i]
      /\ Append(f, e)[Len(f) + 1] = e
  BY <1>3
<1>6. p = Append(f, e)
  BY <1>1, <1>2, <1>3, <1>5 DEF f, e
<1>7. IsPrefix(f, f \o <<e>>)
  BY <1>4, PrefixOfConcat
<1>8. Last(p) \in Name /\ Front(p) \in Path /\ <<Last(p)>> \in Path
  BY <1>2, <1>3, <1>4 DEF f, e
<1>9. Len(p) = Len(f) + 1 /\ p = f \o <<e>> /\ IsPrefix(f, p)
  BY <1>4, <1>5, <1>6, <1>7
<1> QED BY <1>6, <1>8, <1>9 DEF f, e

(* What can be made is not there yet, under that name either. *)
LEMMA NewIsNew ==
  ASSUME NEW t, Sound(t), NEW name \in Path, NEW modes, NEW p \in NewPlace(t, name, modes)
  PROVE  /\ name # <<>> /\ p \notin DOMAIN t /\ p = Append(Stat(t, Front(name)).at, Last(name))
         /\ Stat(t, Front(name)).error = "none"
         /\ Stat(t, name).error # "none"
<1>1. /\ name # <<>> /\ p \notin DOMAIN t /\ p = Append(Stat(t, Front(name)).at, Last(name))
      /\ Stat(t, Front(name)).error = "none" /\ Len(name) <= MaxPath
      /\ t[Stat(t, Front(name)).at].kind = "dir"
  BY DEF NewPlace, Is
<1> DEFINE b == Front(name)
           x == <<Last(name)>>
           e == Stat(t, b).at
<1>2. b \in Path /\ x \in Path /\ name = b \o x /\ Last(name) \in Name
  BY <1>1, FrontLast
<1>3. e \in Path /\ Stat(t, b) = Found(e)
  BY <1>1, <1>2, StatFound
<1> HIDE DEF e, b
<1>4. PICK l \in 0 .. MaxLinks : Stat(t, b \o x) = Goes(t)[Resumed(e, x, l)]
  <2> HIDE DEF x
  <2> QED BY <1>1, <1>2, <1>3, StatOn
<1> DEFINE w == Resumed(e, x, l)
<1>5. w \in Position /\ w.rest # <<>> /\ w.at = e /\ Ahead(w) = Append(e, Last(name))
  BY <1>2, <1>3 DEF Position, Ahead, Resumed
<1>6. Ahead(w) \notin DOMAIN t /\ t[w.at].kind = "dir"
  BY <1>1, <1>5 DEF e, b
<1> HIDE DEF w
<1>7. Goes(t)[w] = Error("ENOENT")
  <2>1. Goes(t)[w] = StepOf(t, w, TRUE, Goes(t))
    BY <1>5, GoesIs DEF Sound
  <2> QED BY <2>1, <1>5, <1>6 DEF StepOf, Ends, Answer
<1>8. Stat(t, name) = Error("ENOENT")
  BY <1>2, <1>4, <1>7 DEF w
<1> QED BY <1>1, <1>8, Errors

-----------------------------------------------------------------------------
(***************************************************************************)
(* What a copy has made and what it reads.  The places of the source and of*)
(* the destination are apart where the check looks and no link leads on; all*)
(* that the copy makes is below the one, all that it opens below the other.*)
(***************************************************************************)
Copied(q, c) ==
  /\ q \in Destination(req.tree) /\ c \in Canonical(req.tree, q)
  /\ Separate(req.tree, q)
  /\ Stat(req.tree, req.from).error = "none"
OwnBelow(t, c) ==
  \A p \in DOMAIN t : /\ p \notin DOMAIN req.tree => IsPrefix(c, p)
                      /\ t[p].kind = "link" => p \in DOMAIN req.tree
Counterparts(s, q) ==
  \A i \in DOMAIN s :
    /\ IsPrefix(SourcePlace, s[i].at)
    /\ \E r \in Path : s[i].from = req.from \o r /\ s[i].to = q \o r
Asked(p, a, q) ==
  /\ p # "request"
  /\ p \in {"enter", "file"} =>
       \E r \in Path \ {<<>>} : a.from = req.from \o r /\ a.to = q \o r

Chosen(q) ==
  /\ q \in Destination(req.tree) /\ Separate(req.tree, q)
  /\ args = [from |-> req.from, to |-> q]

SelfInv ==
  \/ Astray
  \/ stack = <<>> /\ pc = "request" /\ fs = req.tree
  \/ stack = <<>> /\ pc \in {"file", "write", "done"}
  \/ stack = <<>> /\ pc = "enter" /\ fs = req.tree /\ \E q : Chosen(q)
  \/ \E q, c :
       Copied(q, c) /\ OwnBelow(fs, c) /\ Counterparts(stack, q) /\ Asked(pc, args, q)

(* Where no link leads astray, the source and the destination are apart.   *)
Apart(c) ==
  /\ Stat(req.tree, req.from) = Found(SourcePlace)
  /\ SourcePlace \in Path /\ c \in Path
  /\ ~IsPrefix(SourcePlace, c) /\ ~IsPrefix(c, SourcePlace)
  /\ \A p \in DOMAIN req.tree :
       req.tree[p].kind = "link" => ~IsPrefix(SourcePlace, p) /\ ~IsPrefix(c, p)

LEMMA Given ==
  ASSUME CopyInv
  PROVE  /\ Sound(req.tree) /\ Sound(fs) /\ Within(req.tree, fs)
         /\ req.from \in Path /\ req.from # <<>> /\ req.to \in Path
         /\ req.backend \in {"linux", "windows"}
<1>1. /\ req.backend \in {"linux", "windows"}
      /\ req.from \in Path \ {<<>>} /\ req.to \in Path
      /\ <<>> \in DOMAIN req.tree /\ DOMAIN req.tree \subseteq Path
      /\ \A p \in DOMAIN req.tree : req.tree[p] \in Node
  BY RequestsAssumption DEF CopyInv, TypeOK
<1>2. Sound(req.tree)
  BY <1>1 DEF Sound, TreeOK
<1>3. TreeOK(fs) /\ KeptIn(fs)
  BY Taken
<1>4. Sound(fs)
  BY <1>1, <1>3 DEF Sound, KeptIn
<1>5. Within(req.tree, fs)
  BY <1>3 DEF Within, KeptIn
<1> QED BY <1>1, <1>2, <1>4, <1>5

LEMMA StatRoot ==
  ASSUME NEW t, Sound(t) PROVE Stat(t, <<>>) = Found(<<>>)
<1>1. <<>> \in Path /\ Len(<<>>) = 0 /\ ~(0 > MaxPath)
  BY Limits DEF Path
<1>2. Stat(t, <<>>) = Goes(t)[Start(<<>>)]
  BY <1>1, StatIs
<1>3. Goes(t)[Start(<<>>)] = StepOf(t, Start(<<>>), TRUE, Goes(t))
  BY <1>1, StartIs, GoesIs DEF Sound
<1>4. Start(<<>>).rest = <<>> /\ Start(<<>>).at = <<>>
  BY <1>1, StartIs
<1> QED BY <1>2, <1>3, <1>4 DEF StepOf, Ends, Answer

(* What a canonical path is made of: what exists, and at most one name.    *)
MadeOf(t, q, c, b, e, x) ==
  Stat(t, b) = Found(e) /\ q = b \o x /\ c = e \o x /\ Len(x) <= 1

LEMMA Leads ==
  ASSUME NEW t, Sound(t), NEW q \in Path, NEW c \in Canonical(t, q)
  PROVE  /\ c \in Path
         /\ \E b \in Path, e \in Path, x \in Path : MadeOf(t, q, c, b, e, x)
<1>1. CASE Stat(t, q).error = "none"
  <2>1. c = Stat(t, q).at
    BY <1>1 DEF Canonical
  <2>2. c \in Path /\ Stat(t, q) = Found(c)
    BY <1>1, <2>1, StatFound
  <2>3. <<>> \in Path /\ q = q \o <<>> /\ c = c \o <<>> /\ Len(<<>>) <= 1
    BY <2>2 DEF Path
  <2> QED BY <2>2, <2>3 DEF MadeOf
<1>2. CASE Stat(t, q).error # "none"
  <2>1. q # <<>>
    BY <1>2, StatRoot, Errors
  <2> DEFINE b == Front(q)
             e == Stat(t, b).at
             x == <<Last(q)>>
  <2>2. Stat(t, b).error = "none" /\ c = Append(e, Last(q))
    BY <1>2 DEF Canonical
  <2>3. b \in Path /\ x \in Path /\ Last(q) \in Name /\ q = b \o x
    BY <2>1, FrontLast
  <2>4. e \in Path /\ Stat(t, b) = Found(e)
    BY <2>2, <2>3, StatFound
  <2>5. Len(x) <= 1
    OBVIOUS
  <2> HIDE DEF e, b
  <2>6. c = e \o x
    BY <2>2, <2>3, <2>4, AppendIsConcat DEF Path
  <2> HIDE DEF x
  <2>7. c \in Path
    BY <2>3, <2>4, <2>6, PrefixOfConcat
  <2> QED BY <2>3, <2>4, <2>5, <2>6, <2>7 DEF MadeOf
<1> QED BY <1>1, <1>2

LEMMA RootPrefix == \A p \in Path : IsPrefix(<<>>, p)
<1> TAKE p \in Path
<1>1. <<>> \in Path /\ Len(<<>>) = 0 /\ 0 <= Len(p)
  BY DEF Path
<1> QED BY <1>1, PrefixAt

LEMMA ApartIs ==
  ASSUME CopyInv, ~Astray, NEW q, NEW c, Copied(q, c)
  PROVE  Apart(c) /\ q \in Path
<1> DEFINE t == req.tree
           s == SourcePlace
<1>1. /\ Sound(t) /\ req.from \in Path /\ q \in Path
  <2>1. TypeOK /\ q \in Destination(req.tree)
    BY DEF CopyInv, Copied
  <2> QED BY <2>1, Given, Destinations
<1>2. /\ q \in Destination(t) /\ c \in Canonical(t, q) /\ Separate(t, q)
      /\ Stat(t, req.from).error = "none"
  BY DEF Copied
<1>3. s \in Path /\ Stat(t, req.from) = Found(s)
  BY <1>1, <1>2, StatFound DEF SourcePlace
<1>4. c \in Path
  BY <1>1, <1>2, Leads
<1>5. ~IsPrefix(c, s)
  BY <1>2 DEF Astray
<1>6. ASSUME NEW p \in DOMAIN t, t[p].kind = "link" PROVE ~Unchecked(q, p)
  BY <1>2, <1>6 DEF Astray
<1>7. ASSUME NEW p \in DOMAIN t, t[p].kind = "link"
      PROVE  ~IsPrefix(s, p) /\ ~IsPrefix(c, p)
  BY <1>2, <1>6, <1>7 DEF Unchecked
<1>8. ~IsPrefix(s, c)
  <2>1. CASE Linux
    <3>1. PICK d \in Canonical(t, q) : ~IsPrefix(s, d)
      BY <1>2, <2>1 DEF Separate, SameOrChild, SourcePlace
    <3>2. c = d
      BY <1>2 DEF Canonical
    <3> QED BY <3>1, <3>2
  <2>2. CASE ~Linux
    <3>1. Windows
      BY <2>2, Given DEF Linux, Windows
    <3>2. ~IsPrefix(req.from, q)
      BY <1>2, <2>2 DEF Separate, SameOrChild
    <3>3. \A p \in DOMAIN t : t[p].kind = "link" => ~IsPrefix(p, q) /\ ~IsPrefix(p, req.from)
      BY <1>6, <3>1 DEF Unchecked
    <3>4. Straight(t, <<>>, req.from)
      BY <3>3 DEF Straight
    <3>5. Found(s) = Found(req.from)
      BY <1>1, <1>2, <1>3, <3>4, StatStraight
    <3>6. s = req.from
      BY <3>5, Errors
    <3>7. CASE Stat(t, q).error = "none"
      <4>1. Straight(t, <<>>, q)
        BY <3>3 DEF Straight
      <4>2. Stat(t, q) = Found(q)
        BY <1>1, <3>7, <4>1, StatStraight
      <4>3. c = q
        BY <1>2, <3>7, <4>2, Errors DEF Canonical
      <4> QED BY <3>2, <3>6, <4>3
    <3>8. CASE Stat(t, q).error # "none"
      <4>1. q # <<>>
        BY <1>1, <3>8, StatRoot, Errors
      <4>2. /\ Front(q) \in Path /\ IsPrefix(Front(q), q) /\ q = Append(Front(q), Last(q))
        BY <1>1, <4>1, FrontLast
      <4>3. Stat(t, Front(q)).error = "none" /\ c = Append(Stat(t, Front(q)).at, Last(q))
        BY <1>2, <3>8 DEF Canonical
      <4>4. Straight(t, <<>>, Front(q))
        <5>1. ASSUME NEW p \in DOMAIN t, IsPrefix(p, Front(q)) PROVE IsPrefix(p, q)
          <6>1. p \in Path
            BY <1>1 DEF Sound, TreeOK
          <6> QED BY <1>1, <4>2, <5>1, <6>1, PrefixChain
        <5> QED BY <3>3, <5>1 DEF Straight
      <4>5. Stat(t, Front(q)) = Found(Front(q))
        BY <1>1, <4>2, <4>3, <4>4, StatStraight
      <4>6. c = q
        BY <4>2, <4>3, <4>5, Errors
      <4> QED BY <3>2, <3>6, <4>6
    <3> QED BY <3>7, <3>8
  <2> QED BY <2>1, <2>2
<1> QED BY <1>1, <1>3, <1>4, <1>5, <1>7, <1>8 DEF Apart

(* No link below what is apart, in any tree the copy comes to. *)
LEMMA NoLinks ==
  ASSUME NEW t, Sound(t), Within(req.tree, t), NEW c, Apart(c), OwnBelow(t, c),
         NEW p \in DOMAIN t, IsPrefix(SourcePlace, p) \/ IsPrefix(c, p)
  PROVE  t[p].kind # "link"
  BY DEF Within, Apart, OwnBelow

LEMMA BelowSource ==
  ASSUME CopyInv, NEW t, Sound(t), Within(req.tree, t), NEW c, Apart(c), OwnBelow(t, c),
         NEW r \in Path, Stat(t, req.from \o r).error = "none"
  PROVE  IsPrefix(SourcePlace, Stat(t, req.from \o r).at)
<1> DEFINE s == SourcePlace
<1>1. /\ Sound(req.tree) /\ req.from \in Path /\ s \in Path
      /\ Stat(req.tree, req.from) = Found(s)
  BY Given DEF Apart
<1>2. Stat(req.tree, req.from).error = "none"
  BY <1>1, Errors
<1>3. Stat(t, req.from) = Found(s)
  BY <1>1, <1>2, StatGrows
<1>4. Straight(t, s, s \o r)
  BY NoLinks DEF Straight
<1>5. Stat(t, req.from \o r) = Found(s \o r)
  <2> HIDE DEF s
  <2> QED BY <1>1, <1>3, <1>4, StatBelow
<1>6. IsPrefix(s, s \o r)
  BY <1>1, PrefixOfConcat
<1> QED BY <1>5, <1>6, Errors

LEMMA BelowDestination ==
  ASSUME CopyInv, NEW t, Sound(t), Within(req.tree, t),
         NEW q \in Path, NEW c \in Canonical(req.tree, q), Apart(c), OwnBelow(t, c),
         NEW r \in Path, Stat(t, q \o r).error = "none"
  PROVE  Stat(t, q \o r) = Found(c \o r)
<1>1. Sound(req.tree) /\ c \in Path
  BY Given DEF Apart
<1>2. PICK b \in Path, e \in Path, x \in Path :
        Stat(req.tree, b) = Found(e) /\ q = b \o x /\ c = e \o x /\ Len(x) <= 1
  <2> DEFINE u == req.tree
  <2>1. Sound(u) /\ c \in Canonical(u, q)
    BY <1>1
  <2> HIDE DEF u
  <2>2. \E b \in Path, e \in Path, x \in Path : MadeOf(u, q, c, b, e, x)
    BY <2>1, Leads
  <2> QED BY <2>2 DEF u, MadeOf
<1>3. Stat(req.tree, b).error = "none"
  BY <1>2, Errors
<1>4. Stat(t, b) = Found(e)
  BY <1>1, <1>2, <1>3, StatGrows
<1>5. x \o r \in Path
  BY PrefixOfConcat
<1>6. q \o r = b \o (x \o r) /\ c \o r = e \o (x \o r)
  <2> DEFINE Alike(u, v, w) == u \o (v \o w) = (u \o v) \o w
  <2>0. \A u, v, w \in Path : Alike(u, v, w)
    BY Regrouped
  <2> HIDE DEF Alike
  <2>3. Alike(b, x, r) /\ Alike(e, x, r)
    BY <2>0
  <2>1. b \o (x \o r) = (b \o x) \o r
    BY <2>3, Zenon DEF Alike
  <2>2. e \o (x \o r) = (e \o x) \o r
    BY <2>3, Zenon DEF Alike
  <2> QED BY <1>2, <2>1, <2>2
<1>7. Straight(t, e, c \o r)
  <2>1. ASSUME NEW p \in DOMAIN t, IsPrefix(e, p), p # e, IsPrefix(p, c \o r) PROVE IsPrefix(c, p)
    <3>1. p \in Path /\ Len(p) \in Nat /\ Len(e) \in Nat /\ Len(x) \in Nat
      BY DEF Sound, TreeOK, Path
    <3>2. Len(e) < Len(p)
      BY <2>1, <3>1, PrefixChain
    <3>3. Len(c) = Len(e) + Len(x)
      BY <1>2, PrefixOfConcat
    <3>4. Len(c) <= Len(p)
      BY <1>2, <3>1, <3>2, <3>3
    <3>5. c \o r \in Path /\ IsPrefix(c, c \o r)
      BY <1>1, PrefixOfConcat
    <3> QED BY <1>1, <2>1, <3>1, <3>4, <3>5, PrefixChain
  <2> QED BY <2>1, NoLinks DEF Straight
<1>8. Stat(t, b \o (x \o r)).error = "none" /\ Straight(t, e, e \o (x \o r))
  BY <1>6, <1>7
<1>9. Stat(t, b \o (x \o r)) = Found(e \o (x \o r))
  <2> DEFINE y == x \o r
  <2>1. y \in Path /\ Stat(t, b \o y).error = "none" /\ Straight(t, e, e \o y)
    BY <1>5, <1>8
  <2> HIDE DEF y
  <2>2. Stat(t, b \o y) = Found(e \o y)
    BY <1>4, <2>1, StatBelow
  <2> QED BY <2>2 DEF y
<1> QED BY <1>6, <1>9

LEMMA FrontOn ==
  ASSUME NEW q \in Path, NEW r \in Path, r # <<>>
  PROVE  q \o r \in Path /\ Front(q \o r) = q \o Front(r) /\ Front(r) \in Path
<1> DEFINE f == Front(r)
           e == Last(r)
<1>1. f \in Path /\ e \in Name /\ <<e>> \in Path /\ r = f \o <<e>>
  BY FrontLast
<1> HIDE DEF f, e
<1>2. q \o f \in Path
  BY <1>1, PrefixOfConcat
<1>3. q \o r = (q \o f) \o <<e>>
  BY <1>1, Regrouped
<1> DEFINE z == q \o f
<1>4. z \in Seq(Name) /\ q \o r = Append(z, e) /\ Append(z, e) \in Seq(Name)
  BY <1>1, <1>2, <1>3, AppendIsConcat DEF Path
<1> HIDE DEF z
<1>5. Front(Append(z, e)) = z
  <2>1. Append(z, e) # <<>> /\ Len(Append(z, e)) = Len(z) + 1 /\ \A i \in 1 .. Len(z) : Append(z, e)[i] = z[i]
    BY <1>4
  <2>2. /\ Front(Append(z, e)) \in Seq(Name) /\ Len(Front(Append(z, e))) = Len(Append(z, e)) - 1
        /\ \A i \in 1 .. Len(Append(z, e)) - 1 : Front(Append(z, e))[i] = Append(z, e)[i]
    BY <1>4, <2>1, Stacks
  <2> QED BY <1>4, <2>1, <2>2
<1> QED BY <1>1, <1>4, <1>5 DEF z, f, Path

LEMMA NewBelow ==
  ASSUME CopyInv, NEW t, Sound(t), Within(req.tree, t),
         NEW q \in Path, NEW c \in Canonical(req.tree, q), Apart(c), OwnBelow(t, c),
         NEW r \in Path, r # <<>>, NEW modes, NEW p \in NewPlace(t, q \o r, modes)
  PROVE  IsPrefix(c, p)
<1>1. q \o r \in Path /\ Front(q \o r) = q \o Front(r) /\ Front(r) \in Path
  BY FrontOn
<1> DEFINE name == q \o r
<1>2. /\ name # <<>> /\ p = Append(Stat(t, Front(name)).at, Last(name))
      /\ Stat(t, Front(name)).error = "none"
  <2>1. name \in Path /\ p \in NewPlace(t, name, modes)
    BY <1>1
  <2> HIDE DEF name
  <2> QED BY <2>1, NewIsNew
<1>3. Last(name) \in Name
  <2> HIDE DEF name
  <2>1. name \in Path
    BY <1>1 DEF name
  <2> QED BY <1>2, <2>1, FrontLast
<1>4. Stat(t, q \o Front(r)) = Found(c \o Front(r))
  BY <1>1, <1>2, BelowDestination
<1> DEFINE z == c \o Front(r)
           n == Last(name)
<1>5. p = Append(z, n)
  BY <1>1, <1>2, <1>4, Errors
<1>6. c \in Path /\ z \in Path /\ IsPrefix(c, z)
  BY <1>1, PrefixOfConcat DEF Apart
<1> HIDE DEF z, n, name
<1>7. z \o <<n>> \in Path /\ IsPrefix(z, z \o <<n>>) /\ Append(z, n) = z \o <<n>>
  <2>1. z \in Seq(Name) /\ n \in Name /\ <<n>> \in Path
    BY <1>3, <1>6 DEF n, Path
  <2> QED BY <1>6, <2>1, AppendIsConcat, PrefixOfConcat
<1> QED BY <1>5, <1>6, <1>7, PrefixChain

-----------------------------------------------------------------------------
LEMMA Stays ==
  ASSUME UNCHANGED req
  PROVE  /\ Astray' <=> Astray
         /\ \A q, c : Copied(q, c)' <=> Copied(q, c)
         /\ \A q : q \in Destination(req.tree)' <=> q \in Destination(req.tree)
         /\ \A q : Separate(req.tree, q)' <=> Separate(req.tree, q)
<1>1. Astray' <=> Astray
  BY DEF Astray, Unchecked, SourcePlace, Windows, Destination, IsDirectory, Linux, Probe, Missing
<1>2. \A q : q \in Destination(req.tree)' <=> q \in Destination(req.tree)
  BY DEF Destination, IsDirectory, Linux, Probe, Missing, Windows
<1>3. \A q : Separate(req.tree, q)' <=> Separate(req.tree, q)
  BY DEF Separate, Linux
<1>4. \A q, c : Copied(q, c)' <=> Copied(q, c)
  BY <1>2, <1>3 DEF Copied
<1> QED BY <1>1, <1>2, <1>3, <1>4

LEMMA SelfAssembled ==
  ASSUME UNCHANGED req, NEW q, NEW c, Copied(q, c),
         OwnBelow(fs', c), Counterparts(stack', q), Asked(pc', args', q)
  PROVE  SelfInv'
<1>1. Copied(q, c)'
  BY Stays
<1>2. OwnBelow(fs, c)'
  BY DEF OwnBelow
<1>3. Counterparts(stack, q)'
  BY DEF Counterparts, SourcePlace
<1>4. Asked(pc, args, q)'
  BY DEF Asked
<1> QED BY <1>1, <1>2, <1>3, <1>4 DEF SelfInv

-----------------------------------------------------------------------------
LEMMA OwnMaking ==
  ASSUME NEW t, NEW c, OwnBelow(t, c), NEW p, IsPrefix(c, p), p \notin DOMAIN t,
         NEW node, node.kind # "link"
  PROVE  OwnBelow(With(t, p, node), c)
  BY DEF OwnBelow, With

LEMMA OwnRemoving ==
  ASSUME NEW t, NEW c, OwnBelow(t, c), NEW p PROVE OwnBelow(Without(t, p), c)
  BY DEF OwnBelow, Without

LEMMA OwnSame ==
  ASSUME NEW t, NEW c, OwnBelow(t, c), NEW u, DOMAIN u = DOMAIN t,
         \A p \in DOMAIN t : u[p].kind = t[p].kind \/ u[p].kind # "link"
  PROVE  OwnBelow(u, c)
  BY DEF OwnBelow

SameSource(f, g) == f.at = g.at /\ f.from = g.from /\ f.to = g.to

LEMMA CounterFront ==
  ASSUME NEW s \in Seq(Frames), s # <<>>, NEW q, Counterparts(s, q)
  PROVE  Counterparts(Front(s), q)
<1>1. /\ Front(s) \in Seq(Frames) /\ Len(s) \in Nat \ {0}
      /\ Len(Front(s)) = Len(s) - 1
      /\ \A i \in 1 .. Len(s) - 1 : Front(s)[i] = s[i]
  BY Stacks
<1>2. \A i \in DOMAIN Front(s) : i \in DOMAIN s /\ Front(s)[i] = s[i]
  BY <1>1
<1> QED BY <1>2 DEF Counterparts

LEMMA CounterPush ==
  ASSUME NEW s \in Seq(Frames), NEW q, Counterparts(s, q), NEW f \in Frames,
         IsPrefix(SourcePlace, f.at),
         \E r \in Path : f.from = req.from \o r /\ f.to = q \o r
  PROVE  Counterparts(Append(s, f), q)
<1> DEFINE z == Append(s, f)
<1>1. /\ z \in Seq(Frames) /\ Len(s) \in Nat /\ DOMAIN s = 1 .. Len(s)
      /\ DOMAIN z = 1 .. Len(s) + 1 /\ z[Len(s) + 1] = f
      /\ \A i \in 1 .. Len(s) : z[i] = s[i]
  OBVIOUS
<1> HIDE DEF z
<1>2. \A i \in DOMAIN z : i = Len(s) + 1 \/ i \in DOMAIN s
  BY <1>1
<1>3. Counterparts(z, q)
  BY <1>1, <1>2 DEF Counterparts
<1> QED BY <1>3 DEF z

LEMMA CounterTop ==
  ASSUME NEW s \in Seq(Frames), s # <<>>, NEW q, Counterparts(s, q)
  PROVE  /\ Last(s) \in Frames /\ IsPrefix(SourcePlace, Last(s).at)
         /\ \E r \in Path : Last(s).from = req.from \o r /\ Last(s).to = q \o r
<1>1. Last(s) \in Frames /\ Last(s) = s[Len(s)] /\ Len(s) \in Nat \ {0}
  BY Stacks
<1>2. Len(s) \in DOMAIN s
  BY <1>1
<1> QED BY <1>1, <1>2 DEF Counterparts

LEMMA CounterRetop ==
  ASSUME NEW s \in Seq(Frames), s # <<>>, NEW q, Counterparts(s, q),
         NEW f \in Frames, SameSource(f, Last(s))
  PROVE  Counterparts(Append(Front(s), f), q)
<1>1. Counterparts(Front(s), q) /\ Front(s) \in Seq(Frames)
  BY CounterFront, Stacks
<1>2. /\ IsPrefix(SourcePlace, f.at)
      /\ \E r \in Path : f.from = req.from \o r /\ f.to = q \o r
  <2> DEFINE l == Last(s)
  <2>1. /\ IsPrefix(SourcePlace, l.at)
        /\ \E r \in Path : l.from = req.from \o r /\ l.to = q \o r
    <3>1. Last(s) \in Frames /\ Last(s) = s[Len(s)] /\ Len(s) \in DOMAIN s
      BY Stacks
    <3> QED BY <3>1 DEF Counterparts
  <2>2. f.at = l.at /\ f.from = l.from /\ f.to = l.to
    BY DEF SameSource
  <2> HIDE DEF l
  <2> QED BY <2>1, <2>2, Zenon
<1> QED BY <1>1, <1>2, CounterPush

LEMMA CounterReturn ==
  ASSUME NEW s \in Seq(Frames), NEW v \in {-1, 0}, Return(s, v), NEW q, Counterparts(s, q)
  PROVE  Counterparts(stack', q) /\ pc' \in {"read", "close", "done"}
<1>1. CASE s = <<>>
  BY <1>1 DEF Return, Counterparts
<1>2. CASE s # <<>>
  <2> DEFINE f == [Last(s) EXCEPT !.result = v]
  <2>1. Last(s) \in Frames
    BY <1>2, Stacks
  <2>2. f \in Frames /\ SameSource(f, Last(s))
    BY <2>1 DEF Frames, SameSource
  <2>3. stack' = Append(Front(s), f) /\ pc' \in {"read", "close"}
    BY <1>2 DEF Return
  <2> HIDE DEF f
  <2> QED BY <1>2, <2>2, <2>3, CounterRetop
<1> QED BY <1>1, <1>2

-----------------------------------------------------------------------------
LEMMA SelfReturn ==
  ASSUME CopyInv, UNCHANGED req, NEW s \in Seq(Frames), NEW v \in {-1, 0}, Return(s, v),
         NEW q, NEW c, Copied(q, c), OwnBelow(fs', c), Counterparts(s, q)
  PROVE  SelfInv'
<1>1. Counterparts(stack', q) /\ pc' \in {"read", "close", "done"}
  BY CounterReturn
<1>2. Asked(pc', args', q)
  BY <1>1 DEF Asked
<1> QED BY <1>1, <1>2, SelfAssembled

LEMMA SelfRequest ==
  ASSUME CopyInv, stack = <<>>, fs = req.tree, CopyDir \/ CopyFile \/ RefuseCopy
  PROVE  SelfInv'
<1>1. CASE CopyDir
  <2>1. PICK q \in Destination(fs) : Separate(fs, q) /\ args' = [from |-> req.from, to |-> q]
    BY <1>1 DEF CopyDir
  <2>2. UNCHANGED <<req, fs, stack>> /\ pc' = "enter"
    BY <1>1 DEF CopyDir
  <2>3. q \in Destination(req.tree)' /\ Separate(req.tree, q)'
    BY <2>1, <2>2, Stays
  <2>4. Chosen(q)'
    BY <2>1, <2>2, <2>3 DEF Chosen
  <2> QED BY <2>2, <2>4 DEF SelfInv
<1>2. CASE CopyFile
  BY <1>2 DEF CopyFile, SelfInv
<1>3. CASE RefuseCopy
  BY <1>3 DEF RefuseCopy, Return, SelfInv
<1> QED BY <1>1, <1>2, <1>3

LEMMA SelfOneFile ==
  ASSUME CopyInv, stack = <<>>,
         OpenOver \/ OpenNew \/ OpenPipe \/ OpenFails \/ Written \/ WriteFails
  PROVE  SelfInv'
  BY DEF OpenOver, OpenNew, OpenPipe, OpenFails, Written, WriteFails, Return, SelfInv

(* What the frame of a directory that is entered says of its source.       *)
LEMMA SelfFrame ==
  ASSUME CopyInv, Opens(fs), NEW t, DOMAIN t \subseteq Path,
         NEW place \in Path, NEW created \in BOOLEAN, NEW result \in {-1, 0},
         NEW q, Counterparts(stack, q),
         IsPrefix(SourcePlace, Stat(fs, args.from).at),
         \E r \in Path : args.from = req.from \o r /\ args.to = q \o r
  PROVE  Counterparts(Append(stack, Frame(t, place, created, result)), q)
<1> DEFINE f == Frame(t, place, created, result)
<1>1. f \in Frames
  BY Framed
<1>2. f.at = Stat(fs, args.from).at /\ f.from = args.from /\ f.to = args.to
  BY DEF Frame
<1>3. stack \in Seq(Frames)
  BY Taken
<1> HIDE DEF f
<1>4. Counterparts(Append(stack, f), q)
  BY <1>1, <1>2, <1>3, CounterPush
<1> QED BY <1>4 DEF f

LEMMA Bare ==
  ASSUME NEW p \in Path PROVE p \o <<>> = p /\ <<>> \in Path
  BY DEF Path

(* The place of the copy is known when its first directory is entered.     *)
LEMMA SelfBegins ==
  ASSUME CopyInv, ~Astray, stack = <<>>, fs = req.tree, NEW q, Chosen(q), Opens(fs)
  PROVE  /\ Counterparts(stack, q)
         /\ IsPrefix(SourcePlace, Stat(fs, args.from).at)
         /\ \E r \in Path : args.from = req.from \o r /\ args.to = q \o r
         /\ Is(fs, Stat(fs, args.to), "dir") => Copied(q, Stat(fs, args.to).at)
         /\ \A p \in NewPlace(fs, args.to, Writable) : Copied(q, p)
         /\ \A c : OwnBelow(fs, c)
<1>1. /\ q \in Destination(req.tree) /\ Separate(req.tree, q)
      /\ args.from = req.from /\ args.to = q
  BY DEF Chosen
<1>2. q \in Path /\ req.from \in Path /\ Sound(fs)
  BY <1>1, Given, Destinations DEF CopyInv
<1>3. Counterparts(stack, q)
  BY DEF Counterparts
<1>4. \E r \in Path : args.from = req.from \o r /\ args.to = q \o r
  BY <1>1, <1>2, Bare
<1>5. Stat(req.tree, req.from).error = "none"
  BY <1>1 DEF Opens, Is
<1>6. Stat(fs, args.from).at = SourcePlace /\ SourcePlace \in Path
  BY <1>1, <1>2, <1>5, StatFound DEF SourcePlace
<1>7. IsPrefix(SourcePlace, Stat(fs, args.from).at)
  BY <1>6, PrefixChain
<1>8. ASSUME Is(fs, Stat(fs, args.to), "dir") PROVE Copied(q, Stat(fs, args.to).at)
  BY <1>1, <1>5, <1>8 DEF Copied, Canonical, Is
<1>9. ASSUME NEW p \in NewPlace(fs, args.to, Writable) PROVE Copied(q, p)
  <2>1. /\ p = Append(Stat(fs, Front(q)).at, Last(q)) /\ Stat(fs, Front(q)).error = "none"
        /\ Stat(fs, q).error # "none"
    BY <1>1, <1>2, NewIsNew
  <2>2. p \in Canonical(fs, q)
    BY <2>1 DEF Canonical
  <2> QED BY <1>1, <1>5, <2>2 DEF Copied
<1>10. \A c : OwnBelow(fs, c)
  BY DEF OwnBelow
<1> QED BY <1>3, <1>4, <1>7, <1>8, <1>9, <1>10

(* Later ones lie below it.                                                *)
LEMMA SelfGoesOn ==
  ASSUME CopyInv, ~Astray, pc = "enter", NEW q, NEW c, Copied(q, c), OwnBelow(fs, c),
         Asked(pc, args, q), Opens(fs)
  PROVE  /\ IsPrefix(SourcePlace, Stat(fs, args.from).at)
         /\ \E r \in Path : args.from = req.from \o r /\ args.to = q \o r
         /\ \A p \in NewPlace(fs, args.to, Writable) : IsPrefix(c, p)
<1>1. PICK r \in Path \ {<<>>} : args.from = req.from \o r /\ args.to = q \o r
  BY DEF Asked
<1>2. Apart(c) /\ q \in Path /\ Sound(fs) /\ Within(req.tree, fs) /\ c \in Canonical(req.tree, q)
  BY ApartIs, Given DEF Copied
<1>3. Stat(fs, req.from \o r).error = "none"
  BY <1>1 DEF Opens, Is
<1>4. IsPrefix(SourcePlace, Stat(fs, req.from \o r).at)
  BY <1>2, <1>3, BelowSource
<1>5. \A p \in NewPlace(fs, q \o r, Writable) : IsPrefix(c, p)
  BY <1>1, <1>2, NewBelow
<1> QED BY <1>1, <1>4, <1>5

LEMMA SelfEntersExisting ==
  ASSUME CopyInv, EnterExisting, NEW q, NEW c, Copied(q, c), OwnBelow(fs, c),
         Counterparts(stack, q), IsPrefix(SourcePlace, Stat(fs, args.from).at),
         \E r \in Path : args.from = req.from \o r /\ args.to = q \o r
  PROVE  SelfInv'
<1> DEFINE place == Stat(fs, args.to).at
           result == IF Linux THEN -1 ELSE 0
<1>1. /\ Opens(fs) /\ stack' = Append(stack, Frame(fs, place, FALSE, result)) /\ pc' = "read"
      /\ UNCHANGED <<req, fs>>
  BY DEF EnterExisting
<1>2. place \in Path /\ DOMAIN fs \subseteq Path
  BY Taken DEF EnterExisting, Is, TreeOK
<1>3. result \in {-1, 0}
  OBVIOUS
<1> HIDE DEF place, result
<1>4. Counterparts(stack', q)
  BY <1>1, <1>2, <1>3, SelfFrame
<1>5. Asked(pc', args', q)
  BY <1>1 DEF Asked
<1> QED BY <1>1, <1>4, <1>5, SelfAssembled

LEMMA SelfEntersNew ==
  ASSUME CopyInv, pc = "enter", Opens(fs), UNCHANGED req,
         NEW p \in NewPlace(fs, args.to, Writable), NEW m, fs' = With(fs, p, Dir(m)),
         NEW t, DOMAIN t \subseteq Path, NEW result \in {-1, 0},
         stack' = Append(stack, Frame(t, p, TRUE, result)), pc' \in {"read", "close"},
         NEW q, NEW c, Copied(q, c), OwnBelow(fs, c),
         Counterparts(stack, q), IsPrefix(SourcePlace, Stat(fs, args.from).at),
         \E r \in Path : args.from = req.from \o r /\ args.to = q \o r,
         IsPrefix(c, p)
  PROVE  SelfInv'
<1>1. p \in Path /\ p \notin DOMAIN fs
  BY Taken, NewPlaces
<1>2. Dir(m).kind # "link"
  BY DEF Dir
<1>3. OwnBelow(fs', c)
  BY <1>1, <1>2, OwnMaking
<1>4. Counterparts(stack', q)
  BY <1>1, SelfFrame
<1>5. Asked(pc', args', q)
  BY DEF Asked
<1> QED BY <1>3, <1>4, <1>5, SelfAssembled

-----------------------------------------------------------------------------
(* pc = "enter": the first directory, or a later one.                      *)
LEMMA SelfEnter ==
  ASSUME CopyInv, ~Astray,
         EnterExisting \/ EnterNew \/ EnterNewFails \/ EnterNowhere \/ EnterFails,
         \/ stack = <<>> /\ fs = req.tree /\ \E q : Chosen(q)
         \/ \E q, c : /\ Copied(q, c) /\ OwnBelow(fs, c) /\ Counterparts(stack, q)
                      /\ Asked(pc, args, q)
  PROVE  SelfInv'
<1>0. pc = "enter"
  BY DEF EnterExisting, EnterNew, EnterNewFails, EnterNowhere, EnterFails
<1>1. ASSUME Opens(fs)
      PROVE  \E q : /\ Counterparts(stack, q)
                    /\ IsPrefix(SourcePlace, Stat(fs, args.from).at)
                    /\ \E r \in Path : args.from = req.from \o r /\ args.to = q \o r
                    /\ Is(fs, Stat(fs, args.to), "dir") => \E c : Copied(q, c) /\ OwnBelow(fs, c)
                    /\ \A p \in NewPlace(fs, args.to, Writable) :
                         \E c : Copied(q, c) /\ OwnBelow(fs, c) /\ IsPrefix(c, p)
  <2>1. CASE stack = <<>> /\ fs = req.tree /\ \E q : Chosen(q)
    <3>1. PICK q : Chosen(q)
      BY <2>1
    <3>2. \A p \in NewPlace(fs, args.to, Writable) : IsPrefix(p, p)
      BY Taken, NewPlaces, PrefixChain
    <3> QED BY <1>1, <2>1, <3>1, <3>2, SelfBegins
  <2>2. CASE \E q, c : /\ Copied(q, c) /\ OwnBelow(fs, c) /\ Counterparts(stack, q)
                       /\ Asked(pc, args, q)
    BY <1>0, <1>1, <2>2, SelfGoesOn
  <2> QED BY <2>1, <2>2
<1>2. CASE EnterExisting
  <2>1. Opens(fs) /\ Is(fs, Stat(fs, args.to), "dir")
    BY <1>2 DEF EnterExisting
  <2> QED BY <1>1, <1>2, <2>1, SelfEntersExisting
<1>3. CASE EnterNew \/ EnterNewFails
  <2>1. Opens(fs) /\ UNCHANGED req /\ pc' \in {"read", "close"}
    BY <1>3 DEF EnterNew, EnterNewFails
  <2>2. PICK p \in Makeable(fs), m \in {"open", "rw", "ro"}, u \in {fs, fs'}, result \in {-1, 0} :
          fs' = With(fs, p, Dir(m)) /\ stack' = Append(stack, Frame(u, p, TRUE, result))
    BY <1>3 DEF EnterNew, EnterNewFails, Masked
  <2>3. p \in NewPlace(fs, args.to, Writable)
    BY DEF Makeable
  <2>4. DOMAIN u \subseteq Path
    <3>1. p \in Path /\ DOMAIN fs \subseteq Path
      BY <2>3, Taken, NewPlaces DEF TreeOK
    <3> QED BY <2>2, <3>1 DEF With
  <2>5. PICK q : /\ Counterparts(stack, q)
                 /\ IsPrefix(SourcePlace, Stat(fs, args.from).at)
                 /\ \E r \in Path : args.from = req.from \o r /\ args.to = q \o r
                 /\ \A x \in NewPlace(fs, args.to, Writable) :
                      \E c : Copied(q, c) /\ OwnBelow(fs, c) /\ IsPrefix(c, x)
    BY <1>1, <2>1
  <2>6. PICK c : Copied(q, c) /\ OwnBelow(fs, c) /\ IsPrefix(c, p)
    BY <2>3, <2>5
  <2> QED BY <1>0, <2>1, <2>2, <2>3, <2>4, <2>5, <2>6, SelfEntersNew
<1>4. CASE EnterNowhere \/ EnterFails
  <2>1. PICK v \in {-1, 0} : Return(stack, v) /\ UNCHANGED <<req, fs>>
    BY <1>4 DEF EnterNowhere, EnterFails
  <2>2. CASE stack = <<>>
    BY <2>1, <2>2 DEF Return, SelfInv
  <2>3. CASE stack # <<>>
    <3>1. PICK q, c : Copied(q, c) /\ OwnBelow(fs, c) /\ Counterparts(stack, q)
      BY <2>3
    <3> QED BY <2>1, <3>1, Taken, SelfReturn
  <2> QED BY <2>2, <2>3
<1> QED BY <1>2, <1>3, <1>4

(* A step of the loop over the entries of a directory. *)
LEMMA SelfRead ==
  ASSUME CopyInv, NEW n \in Name,
         \/ ReadDirectory(n) \/ ReadFile(n) \/ ReadOther(n) \/ ReadUnreachable(n)
         \/ ReadFails \/ EndOfDirectory,
         NEW q, NEW c, Copied(q, c), OwnBelow(fs, c), Counterparts(stack, q)
  PROVE  SelfInv'
<1>0. pc = "read"
  BY DEF ReadDirectory, ReadFile, ReadOther, ReadUnreachable, ReadFails, EndOfDirectory
<1>1. stack # <<>> /\ stack \in Seq(Frames) /\ Top \in Frames /\ Top.result \in {-1, 0}
  BY <1>0, TopFrame, Taken
<1>3. Seen(n) \in Frames /\ SameSource(Seen(n), Top) /\ Seen(n).result = Top.result
  <2> DEFINE f == Top
             g == [f EXCEPT !.seen = @ \cup {n}]
  <2>1. f \in Frames /\ Seen(n) = g
    BY <1>1 DEF Seen
  <2> HIDE DEF f
  <2>2. g \in Frames
    BY <2>1 DEF Frames
  <2>3. g.at = f.at /\ g.from = f.from /\ g.to = f.to /\ g.result = f.result
    BY <2>1 DEF Frames
  <2> QED BY <2>1, <2>2, <2>3 DEF SameSource, f
<1>2. \A r \in {-1, 0} : \A f \in {Top, Seen(n)} :
        [f EXCEPT !.result = r] \in Frames /\ SameSource([f EXCEPT !.result = r], Top)
  <2> SUFFICES ASSUME NEW r \in {-1, 0}, NEW f \in {Top, Seen(n)}
               PROVE  [f EXCEPT !.result = r] \in Frames /\ SameSource([f EXCEPT !.result = r], Top)
    OBVIOUS
  <2> DEFINE g == [f EXCEPT !.result = r]
  <2>1. f \in Frames /\ SameSource(f, Top)
    BY <1>1, <1>3 DEF SameSource
  <2>2. g \in Frames
    BY <2>1 DEF Frames
  <2>3. g.at = f.at /\ g.from = f.from /\ g.to = f.to
    BY <2>1 DEF Frames
  <2> QED BY <2>1, <2>2, <2>3 DEF SameSource
<1>4. UNCHANGED <<req, fs>>
  BY DEF ReadDirectory, ReadFile, ReadOther, ReadUnreachable, ReadFails, EndOfDirectory,
         Call, LeaveLoop
<1>5. ASSUME NEW f \in Frames, SetTop(f), SameSource(f, Top) PROVE Counterparts(stack', q)
  BY <1>1, <1>5, CounterRetop DEF SetTop, Top
<1>6. CASE ReadDirectory(n) \/ ReadFile(n)
  <2>1. /\ SetTop(Seen(n)) /\ pc' # "request"
        /\ args' = [from |-> Append(Top.from, n), to |-> Append(Top.to, n)]
    BY <1>6 DEF ReadDirectory, ReadFile, Call, Child
  <2>2. PICK r \in Path : Top.from = req.from \o r /\ Top.to = q \o r
    <3>1. Last(stack) = stack[Len(stack)] /\ Len(stack) \in DOMAIN stack
      BY <1>1 DEF Last
    <3>2. PICK r \in Path : stack[Len(stack)].from = req.from \o r /\ stack[Len(stack)].to = q \o r
      BY <3>1 DEF Counterparts
    <3> QED BY <3>1, <3>2 DEF Top
  <2> DEFINE x == r \o <<n>>
  <2>3. <<n>> \in Path /\ req.from \in Path /\ q \in Path
    BY Given, Destinations DEF Path, Copied, CopyInv
  <2>4. x \in Path /\ x # <<>>
    BY <2>3 DEF Path
  <2>5. \A b \in Path : Append(b \o r, n) = b \o x
    <3> TAKE b \in Path
    <3> DEFINE z == b \o r
    <3>1. z \in Path /\ z \o <<n>> = b \o x
      BY <2>3, PrefixOfConcat, Regrouped
    <3> HIDE DEF z, x
    <3>2. Append(z, n) = z \o <<n>>
      BY <3>1, AppendIsConcat DEF Path
    <3> QED BY <3>1, <3>2 DEF z
  <2> HIDE DEF x
  <2>6. args'.from = req.from \o x /\ args'.to = q \o x
    BY <2>1, <2>2, <2>3, <2>5
  <2>7. Asked(pc', args', q)
    BY <2>1, <2>4, <2>6 DEF Asked
  <2> QED BY <1>3, <1>4, <1>5, <2>1, <2>7, SelfAssembled
<1>7. CASE ~(ReadDirectory(n) \/ ReadFile(n))
  <2>1. PICK f \in {Top, Seen(n)}, r \in {-1, 0} : SetTop([f EXCEPT !.result = r])
    <3>1. CASE ReadOther(n) \/ EndOfDirectory
      BY <3>1 DEF ReadOther, EndOfDirectory
    <3>2. CASE ReadUnreachable(n) \/ ReadFails
      <4>1. PICK f \in {Top, Seen(n)} : LeaveLoop(f)
        BY <3>2 DEF ReadUnreachable, ReadFails
      <4>2. f.result \in {-1, 0}
        BY <1>1, <1>3
      <4> QED BY <4>1, <4>2 DEF LeaveLoop
    <3> QED BY <1>7, <3>1, <3>2
  <2>2. pc' = "close"
    BY <1>7 DEF ReadOther, ReadUnreachable, ReadFails, EndOfDirectory, LeaveLoop
  <2>3. Counterparts(stack', q)
    <3> DEFINE g == [f EXCEPT !.result = r]
    <3>1. g \in Frames /\ SameSource(g, Top) /\ SetTop(g)
      BY <1>2, <2>1
    <3> HIDE DEF g
    <3> QED BY <1>5, <3>1
  <2>4. Asked(pc', args', q)
    BY <2>2 DEF Asked
  <2> QED BY <1>4, <2>3, <2>4, SelfAssembled
<1> QED BY <1>6, <1>7

LEMMA SelfOpen ==
  ASSUME CopyInv, ~Astray, OpenOver \/ OpenNew \/ OpenPipe \/ OpenFails,
         NEW q, NEW c, Copied(q, c), OwnBelow(fs, c), Counterparts(stack, q), Asked(pc, args, q)
  PROVE  SelfInv'
<1>1. CASE OpenOver
  <2>1. PICK p \in Overwritten(fs), m \in {"rw", "ro"} :
          /\ fs' = WithFile(fs, p, Torn, m) /\ Allowed(fs, p, m)
          /\ p \in DOMAIN fs /\ fs[p].kind = "file"
    BY <1>1, OpenedOver
  <2>2. p \in DOMAIN fs /\ fs[p].kind = "file"
    BY <2>1
  <2>3. DOMAIN fs' = DOMAIN fs /\ \A x \in DOMAIN fs : fs'[x].kind = fs[x].kind
    <3>1. TreeOK(fs) /\ KeptIn(fs)
      BY Taken
    <3> DEFINE d == Torn
    <3>2. d \in Content \cup {Torn} /\ fs' = WithFile(fs, p, d, m)
      BY <2>1
    <3> HIDE DEF d
    <3> QED BY <2>1, <2>2, <3>1, <3>2, WritingKeeps
  <2>4. UNCHANGED <<req, stack>> /\ pc' = "write"
    BY <1>1 DEF OpenOver
  <2>5. OwnBelow(fs', c)
    BY <2>3, OwnSame
  <2>6. Counterparts(stack', q) /\ Asked(pc', args', q)
    BY <2>4 DEF Asked
  <2> QED BY <2>4, <2>5, <2>6, SelfAssembled
<1>2. CASE OpenNew
  <2>1. PICK p \in Created(fs) :
          fs' = With(fs, p, File(Torn, Masked(fs[Source(fs).at].mode)))
    BY <1>2 DEF OpenNew, ModeOf
  <2>2. p \in NewPlace(fs, args.to, Writable)
    BY DEF Created
  <2>3. UNCHANGED <<req, stack>> /\ pc' = "write" /\ pc = "file"
    BY <1>2 DEF OpenNew
  <2>4. PICK r \in Path \ {<<>>} : args.from = req.from \o r /\ args.to = q \o r
    BY <2>3 DEF Asked
  <2>5. Apart(c) /\ q \in Path /\ Sound(fs) /\ Within(req.tree, fs) /\ c \in Canonical(req.tree, q)
    BY ApartIs, Given DEF Copied
  <2>6. p \in NewPlace(fs, q \o r, Writable)
    BY <2>2, <2>4
  <2>7. IsPrefix(c, p)
    BY <2>4, <2>5, <2>6, NewBelow
  <2>8. p \notin DOMAIN fs
    BY <2>2 DEF NewPlace
  <2> DEFINE node == File(Torn, Masked(fs[Source(fs).at].mode))
  <2>9. node.kind # "link"
    BY DEF File
  <2> HIDE DEF node
  <2>10. OwnBelow(fs', c)
    BY <2>1, <2>7, <2>8, <2>9, OwnMaking DEF node
  <2>11. Counterparts(stack', q) /\ Asked(pc', args', q)
    BY <2>3 DEF Asked
  <2> QED BY <2>3, <2>10, <2>11, SelfAssembled
<1>3. CASE OpenPipe \/ OpenFails
  BY <1>3, Taken, SelfReturn DEF OpenPipe, OpenFails
<1> QED BY <1>1, <1>2, <1>3

LEMMA SelfWrite ==
  ASSUME CopyInv, Written \/ WriteFails,
         NEW q, NEW c, Copied(q, c), OwnBelow(fs, c), Counterparts(stack, q)
  PROVE  SelfInv'
<1>1. /\ writing.place \in DOMAIN fs /\ fs[writing.place].kind = "file"
      /\ writing.source \in DOMAIN fs /\ fs[writing.source].kind = "file"
  BY Taken DEF Written, WriteFails
<1>2. OwnBelow(fs', c)
  <2>1. CASE Written
    <3> DEFINE p == writing.place
    <3>1. TreeOK(fs) /\ KeptIn(fs) /\ p \in DOMAIN fs /\ fs[p].kind = "file"
      BY <1>1, Taken
    <3>2. PICK d \in Content \cup {Torn}, m \in {"rw", "ro"} :
            fs' = WithFile(fs, p, d, m) /\ Allowed(fs, p, m)
      BY <2>1, WrittenOver
    <3> HIDE DEF p
    <3>4. DOMAIN fs' = DOMAIN fs /\ \A x \in DOMAIN fs : fs'[x].kind = fs[x].kind
      BY <3>1, <3>2, WritingKeeps
    <3> QED BY <3>4, OwnSame
  <2>2. CASE WriteFails
    BY <2>2, OwnRemoving DEF WriteFails
  <2> QED BY <2>1, <2>2
<1>3. PICK v \in {-1, 0} : Return(stack, v) /\ UNCHANGED req
  BY DEF Written, WriteFails
<1> QED BY <1>2, <1>3, Taken, SelfReturn

LEMMA SelfClose ==
  ASSUME CopyInv, CloseDirectory \/ CloseFails,
         NEW q, NEW c, Copied(q, c), OwnBelow(fs, c), Counterparts(stack, q)
  PROVE  SelfInv'
<1>1. pc = "close"
  BY DEF CloseDirectory, CloseFails
<1>2. stack # <<>> /\ Top.result \in {-1, 0} /\ stack \in Seq(Frames) /\ Top.place \in DOMAIN fs
  BY <1>1, TopFrame, Taken
<1>3. PICK mode \in {fs[Top.at].mode, "open"}, result \in {-1, 0} :
        fs' = Cleaned(Restored(mode), result) /\ Return(Front(stack), result) /\ UNCHANGED req
  BY <1>2 DEF CloseDirectory, CloseFails
<1> DEFINE u == Restored(mode)
<1>4. OwnBelow(u, c)
  <2>1. DOMAIN u = DOMAIN fs /\ \A p \in DOMAIN fs : u[p] = fs[p] \/ u[p] = Dir(mode)
    BY <1>2 DEF Restored
  <2>2. Dir(mode).kind # "link"
    BY DEF Dir
  <2> HIDE DEF u
  <2> QED BY <2>1, <2>2, OwnSame
<1> HIDE DEF u
<1>5. fs' = u \/ fs' = Without(u, Top.place)
  BY <1>3 DEF Cleaned, u
<1>6. OwnBelow(fs', c)
  BY <1>4, <1>5, OwnRemoving
<1>7. Front(stack) \in Seq(Frames) /\ Counterparts(Front(stack), q)
  BY <1>2, Stacks, CounterFront
<1> QED BY <1>3, <1>6, <1>7, SelfReturn

LEMMA SelfStep == CopyInv /\ SelfInv /\ [Next]_vars => SelfInv'
<1> SUFFICES ASSUME CopyInv, SelfInv, [Next]_vars PROVE SelfInv'
  OBVIOUS
<1>0. UNCHANGED req
  BY DEF Next, Step, vars, CopyDir, CopyFile, RefuseCopy, EnterExisting, EnterNew,
         EnterNewFails, EnterNowhere, EnterFails, OpenPipe,
         ReadDirectory, ReadFile, ReadOther, ReadUnreachable, ReadFails,
         EndOfDirectory, OpenOver, OpenNew, OpenFails, Written, WriteFails, CloseDirectory,
         CloseFails, Call, LeaveLoop
<1>1. CASE Astray
  BY <1>0, <1>1, Stays DEF SelfInv
<1> SUFFICES ASSUME ~Astray PROVE SelfInv'
  BY <1>1
<1>2. CASE UNCHANGED vars
  <2>1. UNCHANGED <<req, fs, pc, stack, args>>
    BY <1>2 DEF vars
  <2>2. CASE \E q : Chosen(q) /\ stack = <<>> /\ pc = "enter" /\ fs = req.tree
    <3>1. PICK q : Chosen(q)
      BY <2>2
    <3>2. Chosen(q)'
      BY <2>1, <3>1, Stays DEF Chosen
    <3> QED BY <2>1, <2>2, <3>2 DEF SelfInv
  <2>3. CASE \E q, c : /\ Copied(q, c) /\ OwnBelow(fs, c) /\ Counterparts(stack, q)
                       /\ Asked(pc, args, q)
    BY <2>1, <2>3, SelfAssembled
  <2> QED BY <2>1, <2>2, <2>3 DEF SelfInv
<1>3. CASE CopyDir \/ CopyFile \/ RefuseCopy
  <2>1. pc = "request"
    BY <1>3 DEF CopyDir, CopyFile, RefuseCopy
  <2>2. stack = <<>> /\ fs = req.tree
    BY <2>1 DEF SelfInv, Asked
  <2> QED BY <1>3, <2>2, SelfRequest
<1>4. CASE EnterExisting \/ EnterNew \/ EnterNewFails \/ EnterNowhere \/ EnterFails
  <2>1. pc = "enter"
    BY <1>4 DEF EnterExisting, EnterNew, EnterNewFails, EnterNowhere, EnterFails
  <2> QED BY <1>4, <2>1, SelfEnter DEF SelfInv
<1>5. ASSUME NEW n \in Name,
             \/ ReadDirectory(n) \/ ReadFile(n) \/ ReadOther(n) \/ ReadUnreachable(n)
             \/ ReadFails \/ EndOfDirectory
      PROVE  SelfInv'
  <2>1. pc = "read"
    BY <1>5 DEF ReadDirectory, ReadFile, ReadOther, ReadUnreachable, ReadFails, EndOfDirectory
  <2>2. PICK q, c : Copied(q, c) /\ OwnBelow(fs, c) /\ Counterparts(stack, q)
    BY <2>1 DEF SelfInv
  <2> QED BY <1>5, <2>2, SelfRead
<1>6. CASE ReadFails \/ EndOfDirectory
  <2>1. Last(req.from) \in Name
    BY Given, FrontLast
  <2> QED BY <1>5, <1>6, <2>1
<1>7. CASE OpenOver \/ OpenNew \/ OpenPipe \/ OpenFails \/ Written \/ WriteFails
  <2>1. CASE stack = <<>>
    BY <1>7, <2>1, SelfOneFile
  <2>2. CASE stack # <<>>
    <3>1. PICK q, c : /\ Copied(q, c) /\ OwnBelow(fs, c) /\ Counterparts(stack, q)
                      /\ Asked(pc, args, q)
      BY <2>2 DEF SelfInv
    <3> QED BY <1>7, <3>1, SelfOpen, SelfWrite
  <2> QED BY <2>1, <2>2
<1>8. CASE CloseDirectory \/ CloseFails
  <2>1. pc = "close"
    BY <1>8 DEF CloseDirectory, CloseFails
  <2>2. PICK q, c : Copied(q, c) /\ OwnBelow(fs, c) /\ Counterparts(stack, q)
    BY <2>1 DEF SelfInv
  <2> QED BY <1>8, <2>2, SelfClose
<1> QED BY <1>2, <1>3, <1>4, <1>5, <1>6, <1>7, <1>8 DEF Next, Step

LEMMA ApartFromOwn == CopyInv /\ SelfInv => NotIntoItself
<1> SUFFICES ASSUME CopyInv, SelfInv, ~Astray,
                    NEW i \in DOMAIN stack, stack[i].at \notin DOMAIN req.tree
             PROVE  FALSE
  BY DEF NotIntoItself
<1>1. stack # <<>>
  OBVIOUS
<1>2. PICK q, c : Copied(q, c) /\ OwnBelow(fs, c) /\ Counterparts(stack, q)
  BY <1>1 DEF SelfInv
<1>3. stack[i].at \in DOMAIN fs /\ stack[i].at \in Path
  BY Taken DEF Held, TreeOK
<1>4. IsPrefix(SourcePlace, stack[i].at) /\ IsPrefix(c, stack[i].at)
  BY <1>2, <1>3 DEF Counterparts, OwnBelow
<1>5. SourcePlace \in Path /\ c \in Path /\ ~IsPrefix(SourcePlace, c) /\ ~IsPrefix(c, SourcePlace)
  BY <1>2, ApartIs DEF Apart
<1> QED BY <1>3, <1>4, <1>5, PrefixChain

(***************************************************************************)
(* The check against copying into itself (oslinux.c:463-466,               *)
(* oswindows.c:594) is enough where the source is not below the destination*)
(* and no link is below either of them, on Windows nor in the two paths: no*)
(* directory that the copy has made is read as a source.                   *)
(***************************************************************************)
THEOREM ReadsNotWhatItMade == Spec => []NotIntoItself
<1>1. Init => SelfInv
  BY DEF Init, SelfInv
<1> QED BY <1>1, ApartFromOwn, CopyInit, CopyStep, SelfStep, PTL DEF Spec

-----------------------------------------------------------------------------
(***************************************************************************)
(* lstat walks like stat, but for a link at the end.                       *)
(***************************************************************************)
Looks(t) == Reached(t, FALSE)

LEMMA LooksIs ==
  ASSUME NEW t, TreeOK(t)
  PROVE  \A w \in Position : Looks(t)[w] = StepOf(t, w, FALSE, Looks(t))
  BY ReachedIs DEF Looks

(* The kinds of walks differ at a link that is the last name. *)
LEMMA Differ ==
  ASSUME NEW t, NEW w
  PROVE  /\ Ends(t, w, FALSE) => Ends(t, w, TRUE) \/ w.rest = <<>>
         /\ Ends(t, w, TRUE) /\ ~Ends(t, w, FALSE) => Tail(w.rest) = <<>> /\ t[Ahead(w)].kind = "link"
         /\ ~Ends(t, w, FALSE) =>
              \/ ~Ends(t, w, TRUE) /\ Onward(t, w, FALSE) = Onward(t, w, TRUE)
              \/ /\ Tail(w.rest) = <<>> /\ t[Ahead(w)].kind = "link"
                 /\ Onward(t, w, FALSE) = [at |-> Ahead(w), rest |-> <<>>, links |-> w.links]
  BY DEF Ends, IsFollowed, Onward

LEMMA Rested ==
  ASSUME NEW t, TreeOK(t), NEW f, NEW w \in Position, w.rest = <<>>
  PROVE  Reached(t, f)[w] = Found(w.at)
<1>1. Reached(t, f)[w] = StepOf(t, w, f, Reached(t, f))
  BY ReachedIs
<1> QED BY <1>1 DEF StepOf, Ends, Answer

LEMMA LooksRest ==
  ASSUME NEW t, TreeOK(t), NEW w \in Position, ~Ends(t, w, FALSE), Tail(w.rest) = <<>>
  PROVE  Looks(t)[w] = Found(Ahead(w))
<1> DEFINE x == Onward(t, w, FALSE)
<1>1. x \in Position /\ Looks(t)[w] = Looks(t)[x]
  <2>1. Looks(t)[w] = StepOf(t, w, FALSE, Looks(t))
    BY LooksIs
  <2> DEFINE f == FALSE
  <2>2. ~Ends(t, w, f)
    OBVIOUS
  <2>3. Onward(t, w, f) = x
    OBVIOUS
  <2> HIDE DEF f, x
  <2>4. x \in Position
    BY <2>2, <2>3, Advance
  <2> QED BY <2>1, <2>4 DEF StepOf, x
<1>2. x.at = Ahead(w) /\ x.rest = <<>>
  BY DEF Onward, IsFollowed
<1> HIDE DEF x
<1>3. Looks(t)[x] = Found(x.at)
  <2> DEFINE f == FALSE
  <2>1. Looks(t) = Reached(t, f)
    BY DEF Looks
  <2> HIDE DEF f
  <2> QED BY <1>1, <1>2, <2>1, Rested
<1> QED BY <1>1, <1>2, <1>3

(* What lstat finds and is no link, stat finds. *)
LEMMA NoLinkAtTheEnd ==
  ASSUME NEW t, TreeOK(t), NEW q, t[q].kind # "link",
         NEW w \in Position, Looks(t)[w] = Found(q)
  PROVE  Goes(t)[w] = Found(q)
<1> DEFINE Ok(x) == Looks(t)[x] = Found(q) => Goes(t)[x] = Found(q)
           T == {x \in Position : Ok(x)}
<1>1. ASSUME NEW x \in Position, Ends(t, x, TRUE) \/ Onward(t, x, TRUE) \in T,
             Looks(t)[x] = Found(q)
      PROVE  Goes(t)[x] = Found(q)
  <2>1. /\ Goes(t)[x] = StepOf(t, x, TRUE, Goes(t))
        /\ Looks(t)[x] = StepOf(t, x, FALSE, Looks(t))
    BY GoesIs, LooksIs
  <2>2. CASE Ends(t, x, FALSE)
    <3>1. Answer(t, x, FALSE) = Found(q)
      BY <1>1, <2>1, <2>2 DEF StepOf
    <3>2. x.rest = <<>> /\ Found(q) = Found(x.at)
      BY <2>2, <3>1 DEF Answer, Found, Error
    <3> QED BY <2>1, <3>2 DEF StepOf, Ends, Answer
  <2>3. CASE ~Ends(t, x, FALSE) /\ Tail(x.rest) = <<>> /\ t[Ahead(x)].kind = "link"
    <3>1. Found(Ahead(x)) = Found(q)
      BY <1>1, <2>3, LooksRest
    <3> QED BY <2>3, <3>1, Errors
  <2>4. CASE ~Ends(t, x, FALSE) /\ ~(Tail(x.rest) = <<>> /\ t[Ahead(x)].kind = "link")
    <3>1. ~Ends(t, x, TRUE) /\ Onward(t, x, FALSE) = Onward(t, x, TRUE)
      BY <2>4, Differ
    <3>2. /\ Goes(t)[x] = Goes(t)[Onward(t, x, TRUE)]
          /\ Looks(t)[x] = Looks(t)[Onward(t, x, TRUE)]
      BY <2>1, <2>4, <3>1 DEF StepOf
    <3> QED BY <1>1, <3>1, <3>2
  <2> QED BY <2>2, <2>3, <2>4
<1>2. T = Position
  <2> DEFINE f == TRUE
  <2>1. T \in SUBSET Position
    OBVIOUS
  <2>2. \A x \in Position : Ends(t, x, f) \/ Onward(t, x, f) \in T => x \in T
    BY <1>1
  <2> HIDE DEF T, f
  <2> QED BY <2>1, <2>2, WalkInduction
<1> QED BY <1>2

(* Where stat finds something, lstat does. *)
LEMMA StatThenLstat ==
  ASSUME NEW t, TreeOK(t), NEW w \in Position, Goes(t)[w].error = "none"
  PROVE  Looks(t)[w].error = "none"
<1> DEFINE Ok(x) == Goes(t)[x].error = "none" => Looks(t)[x].error = "none"
           T == {x \in Position : Ok(x)}
<1>1. ASSUME NEW x \in Position, Ends(t, x, TRUE) \/ Onward(t, x, TRUE) \in T,
             Goes(t)[x].error = "none"
      PROVE  Looks(t)[x].error = "none"
  <2>1. /\ Goes(t)[x] = StepOf(t, x, TRUE, Goes(t))
        /\ Looks(t)[x] = StepOf(t, x, FALSE, Looks(t))
    BY GoesIs, LooksIs
  <2>2. CASE Ends(t, x, TRUE)
    <3>1. Answer(t, x, TRUE).error = "none"
      BY <1>1, <2>1, <2>2 DEF StepOf
    <3>2. x.rest = <<>>
      BY <2>2, <3>1, AnswerIs
    <3> QED BY <2>1, <3>2, Errors DEF StepOf, Ends, Answer
  <2>3. CASE ~Ends(t, x, TRUE)
    <3>1. ~Ends(t, x, FALSE)
      BY <2>3 DEF Ends, IsFollowed
    <3>2. CASE Tail(x.rest) = <<>> /\ t[Ahead(x)].kind = "link"
      <4>1. Looks(t)[x] = Found(Ahead(x))
        BY <3>1, <3>2, LooksRest
      <4> QED BY <4>1, Errors
    <3>3. CASE ~(Tail(x.rest) = <<>> /\ t[Ahead(x)].kind = "link")
      <4>1. Onward(t, x, FALSE) = Onward(t, x, TRUE)
        BY <3>1, <3>3, Differ
      <4>2. /\ Goes(t)[x] = Goes(t)[Onward(t, x, TRUE)]
            /\ Looks(t)[x] = Looks(t)[Onward(t, x, TRUE)]
        BY <2>1, <2>3, <3>1, <4>1 DEF StepOf
      <4> QED BY <1>1, <2>3, <4>2
    <3> QED BY <3>2, <3>3
  <2> QED BY <2>2, <2>3
<1>2. T = Position
  <2> DEFINE f == TRUE
  <2>1. T \in SUBSET Position
    OBVIOUS
  <2>2. \A x \in Position : Ends(t, x, f) \/ Onward(t, x, f) \in T => x \in T
    BY <1>1
  <2> HIDE DEF T, f
  <2> QED BY <2>1, <2>2, WalkInduction
<1> QED BY <1>2

(* Directories and links of the one tree are in the other: what both find  *)
(* under a name is at the same place.                                      *)
Follows(t, u) ==
  \A p \in DOMAIN t : t[p].kind \in {"dir", "link"} => p \in DOMAIN u /\ u[p] = t[p]

LEMMA SamePlace ==
  ASSUME NEW t, TreeOK(t), <<>> \in DOMAIN t, NEW u, TreeOK(u), Follows(t, u), NEW q, NEW w \in Position,
         w.at \in DOMAIN t, Looks(t)[w] = Found(q), Looks(u)[w].error = "none" \/ q \in DOMAIN u
  PROVE  Looks(u)[w] = Found(q)
<1> DEFINE Ok(x) == x.at \in DOMAIN t /\ Looks(t)[x] = Found(q)
                       /\ (Looks(u)[x].error = "none" \/ q \in DOMAIN u) => Looks(u)[x] = Found(q)
           T == {x \in Position : Ok(x)}
<1>1. ASSUME NEW x \in Position, Ends(t, x, FALSE) \/ Onward(t, x, FALSE) \in T,
             x.at \in DOMAIN t, Looks(t)[x] = Found(q), Looks(u)[x].error = "none" \/ q \in DOMAIN u
      PROVE  Looks(u)[x] = Found(q)
  <2>1. /\ Looks(t)[x] = StepOf(t, x, FALSE, Looks(t))
        /\ Looks(u)[x] = StepOf(u, x, FALSE, Looks(u))
    BY LooksIs
  <2>2. CASE Ends(t, x, FALSE)
    <3>1. Answer(t, x, FALSE) = Found(q)
      BY <1>1, <2>1, <2>2 DEF StepOf
    <3>2. x.rest = <<>> /\ Found(q) = Found(x.at)
      BY <2>2, <3>1 DEF Answer, Found, Error
    <3> QED BY <2>1, <3>2 DEF StepOf, Ends, Answer
  <2>3. CASE ~Ends(t, x, FALSE)
    <3>1. /\ x.rest # <<>> /\ t[x.at].kind = "dir" /\ Ahead(x) \in DOMAIN t
          /\ x.at \in DOMAIN u /\ u[x.at].kind = "dir"
      BY <1>1, <2>3 DEF Ends, Follows
    <3>2. CASE Tail(x.rest) = <<>>
      <4>1. q = Ahead(x)
        <5>1. Looks(t)[x] = Found(Ahead(x))
          BY <2>3, <3>2, LooksRest
        <5> QED BY <1>1, <5>1, Errors
      <4>2. Ahead(x) \in DOMAIN u
        <5>1. CASE Ahead(x) \notin DOMAIN u
          <6>1. Looks(u)[x] = Error("ENOENT")
            BY <2>1, <3>1, <5>1 DEF StepOf, Ends, Answer
          <6> QED BY <1>1, <4>1, <6>1, Errors
        <5> QED BY <5>1
      <4>3. ~Ends(u, x, FALSE)
        BY <3>1, <3>2, <4>2 DEF Ends, IsFollowed
      <4> QED BY <3>2, <4>1, <4>3, LooksRest
    <3>3. CASE Tail(x.rest) # <<>>
      <4> DEFINE y == Onward(t, x, FALSE)
      <4>1. Looks(t)[x] = Looks(t)[y] /\ y \in T
        BY <1>1, <2>1, <2>3 DEF StepOf
      <4>2. Ahead(x) \in DOMAIN u /\ u[Ahead(x)] = t[Ahead(x)]
        <5>1. CASE t[Ahead(x)].kind = "link"
          BY <3>1, <5>1 DEF Follows
        <5>2. CASE t[Ahead(x)].kind # "link"
          <6>1. y.at = Ahead(x) /\ y.rest # <<>>
            BY <3>3, <5>2 DEF Onward, IsFollowed
          <6>2. y \in Position
            BY <4>1
          <6> HIDE DEF y
          <6>3. Looks(t)[y] = StepOf(t, y, FALSE, Looks(t))
            BY <6>2, LooksIs
          <6>4. CASE t[y.at].kind # "dir"
            <7>1. Looks(t)[y] = Error("ENOTDIR")
              BY <6>1, <6>3, <6>4 DEF StepOf, Ends, Answer
            <7>2. Found(q) = Error("ENOTDIR")
              BY <1>1, <4>1, <7>1
            <7> QED BY <7>2, Errors
          <6> QED BY <3>1, <6>1, <6>4 DEF Follows
        <5> QED BY <5>1, <5>2
      <4>3. ~Ends(u, x, FALSE) /\ Onward(u, x, FALSE) = y
        BY <2>3, <3>1, <4>2 DEF Ends, IsFollowed, Onward
      <4>4. y.at \in DOMAIN t
        BY <1>1, <2>3 DEF Ends, Onward
      <4>5. Looks(u)[x] = Looks(u)[y]
        BY <2>1, <4>3 DEF StepOf
      <4> QED
        <5> HIDE DEF y
        <5> QED BY <1>1, <4>1, <4>4, <4>5
    <3> QED BY <3>2, <3>3
  <2> QED BY <2>2, <2>3
<1>2. T = Position
  <2> DEFINE f == FALSE
  <2>1. T \in SUBSET Position
    OBVIOUS
  <2>2. \A x \in Position : Ends(t, x, f) \/ Onward(t, x, f) \in T => x \in T
    BY <1>1
  <2> HIDE DEF T, f
  <2> QED BY <2>1, <2>2, WalkInduction
<1> QED BY <1>2

-----------------------------------------------------------------------------
(* A longer path leads on from where stat finds the shorter one.           *)
LEMMA JoinedOn ==
  ASSUME NEW t, TreeOK(t), NEW w \in Position, NEW q, NEW r \in Path, r # <<>>,
         Goes(t)[w] = Found(q)
  PROVE  \E l \in 0 .. MaxLinks :
           Looks(t)[Further(w, r)] = Looks(t)[Resumed(q, r, l)]
<1> DEFINE Ok(x) == Goes(t)[x] = Found(q) =>
              \E l \in 0 .. MaxLinks :
                Looks(t)[Further(x, r)] = Looks(t)[Resumed(q, r, l)]
           T == {x \in Position : Ok(x)}
<1>1. ASSUME NEW x \in Position, Ends(t, x, TRUE) \/ Onward(t, x, TRUE) \in T,
             Goes(t)[x] = Found(q)
      PROVE  \E l \in 0 .. MaxLinks :
               Looks(t)[Further(x, r)] = Looks(t)[Resumed(q, r, l)]
  <2>1. /\ Goes(t)[x] = StepOf(t, x, TRUE, Goes(t))
        /\ Looks(t)[Further(x, r)]
             = StepOf(t, Further(x, r), FALSE, Looks(t))
    <3>1. Further(x, r) \in Position
      BY FurtherIs
    <3> QED BY <3>1, GoesIs, LooksIs
  <2>2. CASE Ends(t, x, TRUE)
    <3>1. Answer(t, x, TRUE) = Found(q)
      BY <1>1, <2>1, <2>2 DEF StepOf
    <3>2. x.rest = <<>> /\ Found(q) = Found(x.at)
      BY <2>2, <3>1 DEF Answer, Found, Error
    <3>3. x.at = q
      BY <3>2, Errors
    <3>4. x.rest \o r = r
      BY <3>2 DEF Path
    <3>5. Further(x, r) = Resumed(q, r, x.links)
      BY <3>3, <3>4 DEF Further, Resumed
    <3> QED BY <3>5, Positions
  <2>3. CASE ~Ends(t, x, TRUE)
    <3> DEFINE y == Further(x, r)
    <3>1. x.rest # <<>>
      BY <2>3 DEF Ends
    <3>2. /\ y.at = x.at /\ y.links = x.links /\ y.rest # <<>>
          /\ Head(y.rest) = Head(x.rest) /\ Tail(y.rest) = Tail(x.rest) \o r
      BY <3>1, FurtherIs
    <3>0. Tail(x.rest) \o r # <<>>
      <4>1. Tail(x.rest) \in Seq(Name) /\ r \in Seq(Name)
        BY <3>1, Positions DEF Path
      <4> QED BY <4>1, ConcatEqualIffEmpty
    <3> HIDE DEF y
    <3>3. Ahead(y) = Ahead(x) /\ (IsFollowed(t, y, FALSE) <=> IsFollowed(t, x, TRUE))
      BY <3>0, <3>2 DEF Ahead, IsFollowed
    <3>4. ~Ends(t, y, FALSE)
      BY <2>3, <3>2, <3>3 DEF Ends
    <3>5. Onward(t, y, FALSE) = Further(Onward(t, x, TRUE), r)
      <4>1. CASE IsFollowed(t, x, TRUE)
        <5>1. t[Ahead(x)].target \in Path /\ Tail(x.rest) \in Path
          BY <2>3, <4>1, Linked, Positions DEF Ends, IsFollowed
        <5>2. t[Ahead(x)].target \o (Tail(x.rest) \o r) = (t[Ahead(x)].target \o Tail(x.rest)) \o r
          BY <5>1, Regrouped
        <5> QED BY <3>2, <3>3, <4>1, <5>2 DEF Onward, Further
      <4>2. CASE ~IsFollowed(t, x, TRUE)
        BY <3>2, <3>3, <4>2 DEF Onward, Further
      <4> QED BY <4>1, <4>2
    <3>6. /\ Goes(t)[x] = Goes(t)[Onward(t, x, TRUE)]
          /\ Looks(t)[y] = Looks(t)[Onward(t, y, FALSE)]
      BY <2>1, <2>3, <3>4 DEF StepOf, y
    <3>7. Onward(t, x, TRUE) \in T
      BY <1>1, <2>3
    <3> QED BY <1>1, <3>5, <3>6, <3>7 DEF y
  <2> QED BY <2>2, <2>3
<1>2. T = Position
  <2> DEFINE f == TRUE
  <2>1. T \in SUBSET Position
    OBVIOUS
  <2>2. \A x \in Position : Ends(t, x, f) \/ Onward(t, x, f) \in T => x \in T
    BY <1>1
  <2> HIDE DEF T, f
  <2> QED BY <2>1, <2>2, WalkInduction
<1> QED BY <1>2

-----------------------------------------------------------------------------
(* lstat, from these. *)
LEMMA LstatIs ==
  ASSUME NEW t, NEW p \in Path
  PROVE  Lstat(t, p) = IF Len(p) > MaxPath THEN Error("ENAMETOOLONG") ELSE Looks(t)[Start(p)]
  BY DEF Lstat, Walk, Start, Looks

LEMMA LstatFound ==
  ASSUME NEW t, Sound(t), NEW p \in Path, Lstat(t, p).error = "none"
  PROVE  /\ Len(p) <= MaxPath /\ Lstat(t, p) = Looks(t)[Start(p)]
         /\ Lstat(t, p).at \in DOMAIN t /\ Lstat(t, p).at \in Path
         /\ Lstat(t, p) = Found(Lstat(t, p).at)
<1>1. Len(p) \in Nat /\ MaxPath \in Nat
  BY Limits DEF Path
<1>2. ~(Len(p) > MaxPath)
  BY LstatIs, Errors
<1>3. Lstat(t, p) = Looks(t)[Start(p)]
  BY <1>2, LstatIs
<1>4. PICK q \in DOMAIN t : Looks(t)[Start(p)] = Found(q)
  <2> DEFINE links == FALSE
  <2>1. TreeOK(t) /\ <<>> \in DOMAIN t /\ Looks(t) = Reached(t, links)
    BY DEF Sound, Looks
  <2> HIDE DEF links
  <2>2. Start(p) \in Position /\ Start(p).at \in DOMAIN t /\ Reached(t, links)[Start(p)].error = "none"
    BY <1>3, <2>1, StartIs
  <2>3. \E q \in DOMAIN t : Reached(t, links)[Start(p)] = Found(q)
    BY <2>1, <2>2, Arrives
  <2> QED BY <2>1, <2>3
<1>5. Lstat(t, p) = Found(q) /\ Lstat(t, p).at = q
  BY <1>3, <1>4, Errors
<1>6. q \in Path
  BY DEF Sound, TreeOK
<1>7. Len(p) <= MaxPath
  BY <1>1, <1>2
<1> QED BY <1>3, <1>5, <1>6, <1>7

LEMMA LstatGrows ==
  ASSUME NEW t, Sound(t), NEW u, Sound(u), Within(t, u),
         NEW p \in Path, Lstat(t, p).error = "none"
  PROVE  Lstat(u, p) = Lstat(t, p)
<1>1. Len(p) <= MaxPath /\ Lstat(t, p) = Looks(t)[Start(p)]
  BY LstatFound
<1>2. Looks(u)[Start(p)] = Looks(t)[Start(p)]
  <2> DEFINE links == FALSE
  <2>1. TreeOK(t) /\ <<>> \in DOMAIN t /\ TreeOK(u)
    BY DEF Sound
  <2>2. Looks(t) = Reached(t, links) /\ Looks(u) = Reached(u, links)
    BY DEF Looks
  <2> HIDE DEF links
  <2>3. Start(p) \in Position /\ Start(p).at \in DOMAIN t /\ Reached(t, links)[Start(p)].error = "none"
    BY <1>1, <2>1, <2>2, StartIs
  <2>4. Reached(u, links)[Start(p)] = Reached(t, links)[Start(p)]
    BY <2>1, <2>3, Grows
  <2> QED BY <2>2, <2>4
<1>3. ~(Len(p) > MaxPath)
  BY <1>1, Limits DEF Path
<1> QED BY <1>1, <1>2, <1>3, LstatIs

(* So do the attributes of what has a name.                                *)
LEMMA AttributeGrows ==
  ASSUME NEW t, Sound(t), NEW u, Sound(u), Within(t, u), NEW p \in Path, HasDirectoryAttribute(t, p)
  PROVE  HasDirectoryAttribute(u, p)
<1> DEFINE z == Lstat(t, p)
<1>1. /\ z.error = "none" /\ z.at \in DOMAIN t
      /\ t[z.at].kind = "dir" \/ (t[z.at].kind = "link" /\ t[z.at].directory)
  BY DEF HasDirectoryAttribute, Is
<1>2. Lstat(u, p) = z
  BY <1>1, LstatGrows
<1> HIDE DEF z
<1>3. z.at \in DOMAIN u /\ u[z.at].kind = t[z.at].kind /\ (t[z.at].kind = "link" => u[z.at] = t[z.at])
  BY <1>1 DEF Within
<1> QED BY <1>1, <1>2, <1>3 DEF HasDirectoryAttribute, Is

(* What both trees find under a name is at the same place. *)
LEMMA LstatSame ==
  ASSUME NEW t, Sound(t), NEW u, Sound(u), Follows(t, u), NEW p \in Path,
         Lstat(t, p).error = "none", Lstat(u, p).error = "none" \/ Lstat(t, p).at \in DOMAIN u
  PROVE  Lstat(u, p) = Lstat(t, p)
<1> DEFINE q == Lstat(t, p).at
<1>1. Len(p) <= MaxPath /\ Lstat(t, p) = Looks(t)[Start(p)] /\ Lstat(t, p) = Found(q)
  BY LstatFound
<1>2. Lstat(u, p) = Looks(u)[Start(p)]
  <2>1. ~(Len(p) > MaxPath)
    BY <1>1, Limits DEF Path
  <2> QED BY <2>1, LstatIs
<1>3. Looks(u)[Start(p)] = Found(q)
  <2>1. TreeOK(t) /\ <<>> \in DOMAIN t /\ TreeOK(u)
    BY DEF Sound
  <2>2. Start(p) \in Position /\ Start(p).at \in DOMAIN t
    BY <2>1, StartIs
  <2>3. Looks(u)[Start(p)].error = "none" \/ q \in DOMAIN u
    BY <1>2
  <2>4. Looks(t)[Start(p)] = Found(q)
    BY <1>1
  <2> DEFINE w == Start(p)
  <2> HIDE DEF q, w
  <2>5. w \in Position /\ w.at \in DOMAIN t /\ Looks(t)[w] = Found(q)
    BY <2>2, <2>4 DEF w
  <2>6. Looks(u)[w].error = "none" \/ q \in DOMAIN u
    BY <2>3 DEF w
  <2>7. Looks(u)[w] = Found(q)
    BY <2>1, <2>5, <2>6, SamePlace
  <2> QED BY <2>7 DEF w
<1> QED BY <1>1, <1>2, <1>3

LEMMA LstatThenStat ==
  ASSUME NEW t, Sound(t), NEW p \in Path, Lstat(t, p).error = "none",
         t[Lstat(t, p).at].kind # "link"
  PROVE  Stat(t, p) = Lstat(t, p)
<1> DEFINE q == Lstat(t, p).at
<1>1. Len(p) <= MaxPath /\ Lstat(t, p) = Looks(t)[Start(p)] /\ Lstat(t, p) = Found(q)
  BY LstatFound
<1>2. Stat(t, p) = Goes(t)[Start(p)]
  <2>1. ~(Len(p) > MaxPath)
    BY <1>1, Limits DEF Path
  <2> QED BY <2>1, StatIs
<1>3. t[q].kind # "link" /\ TreeOK(t) /\ Start(p) \in Position
  BY StartIs DEF Sound
<1> HIDE DEF q
<1>4. Goes(t)[Start(p)] = Found(q)
  BY <1>1, <1>3, NoLinkAtTheEnd
<1> QED BY <1>1, <1>2, <1>4

LEMMA StatThenLink ==
  ASSUME NEW t, Sound(t), NEW p \in Path, Stat(t, p).error = "none"
  PROVE  /\ Lstat(t, p).error = "none"
         /\ \/ Lstat(t, p) = Stat(t, p)
            \/ t[Lstat(t, p).at].kind = "link"
<1>1. Len(p) <= MaxPath /\ Stat(t, p) = Goes(t)[Start(p)]
  BY StatFound
<1>2. Lstat(t, p) = Looks(t)[Start(p)]
  <2>1. ~(Len(p) > MaxPath)
    BY <1>1, Limits DEF Path
  <2> QED BY <2>1, LstatIs
<1>3. Looks(t)[Start(p)].error = "none"
  BY <1>1, StartIs, StatThenLstat DEF Sound
<1> QED BY <1>2, <1>3, LstatThenStat

(* An entry of a directory that lstat has found. *)
LEMMA LstatNext ==
  ASSUME NEW t, Sound(t), NEW p \in Path, Lstat(t, p).error = "none",
         t[Lstat(t, p).at].kind # "link", NEW n \in Name, Lstat(t, Append(p, n)).error = "none"
  PROVE  Lstat(t, Append(p, n)) = Found(Append(Lstat(t, p).at, n))
<1> DEFINE q == Lstat(t, p).at
           r == <<n>>
           z == Append(p, n)
<1>1. /\ Lstat(t, p) = Found(q) /\ q \in Path
      /\ Stat(t, p) = Found(q) /\ TreeOK(t)
  BY LstatFound, LstatThenStat DEF Sound
<1>2. z \in Path /\ z = p \o r /\ r \in Path /\ r # <<>>
  BY AppendIsConcat DEF Path
<1> HIDE DEF q, z
<1>3. Goes(t)[Start(p)] = Found(q)
  <2>1. Stat(t, p).error = "none"
    BY <1>1, Errors
  <2> QED BY <1>1, <2>1, StatFound
<1>4. Lstat(t, z) = Looks(t)[Start(z)]
  BY <1>2, LstatFound DEF z
<1>5. Start(z) = Further(Start(p), r) /\ Start(p) \in Position
  BY <1>2, StartIs DEF Start, Further
<1>6. PICK l \in 0 .. MaxLinks : Looks(t)[Start(z)] = Looks(t)[Resumed(q, r, l)]
  <2> HIDE DEF r
  <2>1. \E l \in 0 .. MaxLinks : Looks(t)[Further(Start(p), r)] = Looks(t)[Resumed(q, r, l)]
    BY <1>1, <1>2, <1>3, <1>5, JoinedOn
  <2> QED BY <1>5, <2>1
<1> DEFINE w == Resumed(q, r, l)
<1>7. w \in Position /\ w.rest = r /\ w.at = q /\ Ahead(w) = Append(q, n) /\ Tail(w.rest) = <<>>
  BY <1>1, <1>2 DEF Position, Ahead, Resumed
<1> HIDE DEF w
<1>8. CASE Ends(t, w, FALSE)
  <2>1. Looks(t)[w] = Answer(t, w, FALSE)
    BY <1>1, <1>7, <1>8, LooksIs DEF StepOf
  <2>2. Looks(t)[w].error # "none"
    BY <1>2, <1>7, <2>1, Errors DEF Answer
  <2> QED BY <1>4, <1>6, <2>2 DEF w, z
<1>9. CASE ~Ends(t, w, FALSE)
  <2>1. Looks(t)[w] = Found(Ahead(w))
    BY <1>1, <1>7, <1>9, LooksRest
  <2> QED BY <1>4, <1>6, <1>7, <2>1 DEF w, z, q
<1> QED BY <1>8, <1>9

-----------------------------------------------------------------------------
(* The shape of a tree: what exists is in a directory. *)
Shaped(t) ==
  /\ t[<<>>].kind = "dir"
  /\ \A p \in DOMAIN t \ {<<>>} : Front(p) \in DOMAIN t /\ t[Front(p)].kind = "dir"

LEMMA EntryOf ==
  ASSUME NEW d \in Path, NEW n \in Name
  PROVE  /\ Append(d, n) \in Path /\ Append(d, n) # <<>>
         /\ Front(Append(d, n)) = d /\ Last(Append(d, n)) = n
         /\ IsPrefix(d, Append(d, n)) /\ Len(Append(d, n)) = Len(d) + 1
<1> DEFINE z == Append(d, n)
<1>1. d \in Seq(Name) /\ Len(d) \in Nat
  BY DEF Path
<1>2. /\ z \in Seq(Name) /\ Len(z) = Len(d) + 1 /\ z # <<>>
      /\ \A i \in 1 .. Len(d) : z[i] = d[i]
      /\ z[Len(d) + 1] = n
  BY <1>1
<1> HIDE DEF z
<1>3. z \in Path
  BY <1>2 DEF Path
<1>4. Last(z) = n
  BY <1>1, <1>2, Stacks
<1>5. /\ Front(z) \in Seq(Name) /\ Len(Front(z)) = Len(d)
      /\ \A i \in 1 .. Len(d) : Front(z)[i] = z[i]
  <2>1. /\ Front(z) \in Seq(Name) /\ Len(Front(z)) = Len(z) - 1
        /\ \A i \in 1 .. Len(z) - 1 : Front(z)[i] = z[i]
    BY <1>2, Stacks
  <2> QED BY <1>1, <1>2, <2>1
<1>6. Front(z) = d
  BY <1>1, <1>2, <1>5
<1>7. IsPrefix(d, z)
  BY <1>1, <1>2, <1>3, PrefixAt
<1> QED BY <1>2, <1>3, <1>4, <1>6, <1>7 DEF z

LEMMA EntriesAre ==
  ASSUME NEW t, Sound(t), NEW d \in Path, NEW n
  PROVE  n \in Entries(t, d) <=> n \in Name /\ Append(d, n) \in DOMAIN t
<1>1. ASSUME n \in Entries(t, d) PROVE n \in Name /\ Append(d, n) \in DOMAIN t
  <2>1. PICK p \in DOMAIN t : p # <<>> /\ Front(p) = d /\ Last(p) = n
    BY <1>1 DEF Entries
  <2>2. p \in Path
    BY DEF Sound, TreeOK
  <2> QED BY <2>1, <2>2, FrontLast
<1>2. ASSUME n \in Name, Append(d, n) \in DOMAIN t PROVE n \in Entries(t, d)
  BY <1>2, EntryOf DEF Entries
<1> QED BY <1>1, <1>2

(* A path below another one is it or is below one of its entries. *)
LEMMA BelowFront ==
  ASSUME NEW p \in Path, NEW q \in Path, IsPrefix(p, q), q # p
  PROVE  q # <<>> /\ Front(q) \in Path /\ IsPrefix(p, Front(q)) /\ Len(Front(q)) < Len(q)
<1>1. Len(p) \in Nat /\ Len(q) \in Nat /\ Len(p) < Len(q)
  BY PrefixChain DEF Path
<1>2. q # <<>>
  BY <1>1
<1>3. Front(q) \in Path /\ IsPrefix(Front(q), q) /\ Len(q) = Len(Front(q)) + 1
  BY <1>2, FrontLast
<1>4. Len(p) <= Len(Front(q)) /\ Len(Front(q)) < Len(q) /\ Len(Front(q)) \in Nat
  BY <1>1, <1>3 DEF Path
<1>5. IsPrefix(p, Front(q))
  BY <1>3, <1>4, PrefixChain
<1> QED BY <1>2, <1>3, <1>4, <1>5

(* Nothing is below what has no entries. *)
LEMMA NothingBelow ==
  ASSUME NEW t, Sound(t), Shaped(t), NEW p \in Path,
         Entries(t, p) = {} \/ (p \in DOMAIN t /\ t[p].kind # "dir"),
         NEW q \in DOMAIN t, IsPrefix(p, q)
  PROVE  q = p
<1> DEFINE B == {x \in DOMAIN t : IsPrefix(p, x) /\ x # p}
           L == {Len(x) : x \in B}
<1>1. SUFFICES ASSUME B # {} PROVE FALSE
  OBVIOUS
<1>2. \A x \in DOMAIN t : x \in Path /\ Len(x) \in Nat
  BY DEF Sound, TreeOK, Path
<1>3. PICK n \in L : \A m \in L : n <= m
  <2>1. L \in SUBSET Nat
    BY <1>2
  <2>2. L # {}
    <3> HIDE DEF B
    <3> QED BY <1>1
  <2> HIDE DEF L
  <2> QED BY <2>1, <2>2, Least
<1>4. PICK x \in B : Len(x) = n
  OBVIOUS
<1>5. /\ x \in DOMAIN t /\ x \in Path /\ x # <<>>
      /\ Front(x) \in Path /\ IsPrefix(p, Front(x)) /\ Len(Front(x)) < Len(x)
  BY <1>2, <1>4, BelowFront
<1>6. Front(x) \in DOMAIN t /\ t[Front(x)].kind = "dir"
  BY <1>5 DEF Shaped
<1>7. Front(x) # p
  <2>1. Front(x) = p => Last(x) \in Entries(t, p)
    BY <1>5 DEF Entries
  <2> QED BY <1>6, <2>1
<1>8. Front(x) \in B
  BY <1>5, <1>6, <1>7
<1>9. n <= Len(Front(x))
  BY <1>3, <1>8
<1> QED BY <1>2, <1>4, <1>5, <1>6, <1>9

(* What leads to an entry is there, up to the root. *)
LEMMA PrefixIsThere ==
  ASSUME NEW t, Sound(t), Shaped(t), NEW p \in DOMAIN t, NEW a \in Path, IsPrefix(a, p)
  PROVE  a \in DOMAIN t
<1> DEFINE B == {x \in DOMAIN t : IsPrefix(a, x)}
           L == {Len(x) : x \in B}
<1>1. \A x \in B : x \in Path /\ Len(x) \in Nat
  BY DEF Sound, TreeOK, Path
<1>2. PICK n \in L : \A m \in L : n <= m
  <2>1. L \in SUBSET Nat
    BY <1>1
  <2>2. L # {}
    OBVIOUS
  <2> HIDE DEF L
  <2> QED BY <2>1, <2>2, Least
<1>3. PICK x \in B : n = Len(x)
  OBVIOUS
<1>4. x \in Path /\ x \in DOMAIN t /\ IsPrefix(a, x) /\ \A y \in B : Len(x) <= Len(y)
  BY <1>1, <1>2, <1>3
<1>5. CASE x # a
  <2>1. x # <<>> /\ Front(x) \in Path /\ IsPrefix(a, Front(x)) /\ Len(Front(x)) < Len(x)
    BY <1>4, <1>5, BelowFront
  <2>2. Front(x) \in B
    BY <1>4, <2>1 DEF Shaped
  <2>3. Len(Front(x)) \in Nat /\ Len(x) \in Nat
    BY <1>1, <1>3, <2>2
  <2> QED BY <1>4, <2>1, <2>2, <2>3
<1> QED BY <1>4, <1>5

-----------------------------------------------------------------------------
(* Trees with an entry more or less. *)
LEMMA Nodes ==
  /\ \A m \in {"rw", "ro", "open"} : Dir(m) \in Node /\ Dir(m).kind = "dir"
  /\ \A d \in Content \cup {Torn}, m \in {"rw", "ro"} : File(d, m) \in Node /\ File(d, m).kind = "file"
  BY DEF Dir, File, Node

More(t, u, p, node) ==
  /\ DOMAIN u = DOMAIN t \cup {p} /\ u[p] = node
  /\ \A q \in DOMAIN t : u[q] = t[q]
Less(t, u, p) ==
  DOMAIN u = DOMAIN t \ {p} /\ \A q \in DOMAIN t \ {p} : u[q] = t[q]

LEMMA WithIs ==
  ASSUME NEW t, Sound(t), NEW p \in Path, p \notin DOMAIN t, NEW node \in Node,
         NEW u, u = With(t, p, node)
  PROVE  /\ Sound(u) /\ Within(t, u) /\ More(t, u, p, node)
         /\ Shaped(t) /\ Front(p) \in DOMAIN t /\ t[Front(p)].kind = "dir" => Shaped(u)
<1>1. /\ DOMAIN u = DOMAIN t \cup {p} /\ u[p] = node
      /\ \A q \in DOMAIN t : u[q] = t[q]
  BY DEF With
<1>2. Sound(u) /\ Within(t, u)
  BY <1>1 DEF Sound, TreeOK, Within
<1>3. ASSUME Shaped(t), Front(p) \in DOMAIN t, t[Front(p)].kind = "dir" PROVE Shaped(u)
  BY <1>1, <1>3 DEF Shaped, Sound
<1> QED BY <1>1, <1>2, <1>3 DEF More

LEMMA WithoutIs ==
  ASSUME NEW t, Sound(t), NEW p \in Path, p # <<>>,
         NEW u, u = Without(t, p)
  PROVE  /\ Sound(u) /\ Within(u, t)
         /\ Less(t, u, p)
         /\ Shaped(t) /\ (Entries(t, p) = {} \/ (p \in DOMAIN t /\ t[p].kind # "dir")) =>
              Shaped(u)
<1>1. /\ DOMAIN u = DOMAIN t \ {p} /\ \A q \in DOMAIN t \ {p} : u[q] = t[q]
  BY DEF Without
<1>2. Sound(u) /\ Within(u, t)
  BY <1>1 DEF Sound, TreeOK, Within
<1>3. ASSUME Shaped(t), Entries(t, p) = {} \/ (p \in DOMAIN t /\ t[p].kind # "dir") PROVE Shaped(u)
  <2>1. ASSUME NEW q \in DOMAIN u \ {<<>>} PROVE Front(q) \in DOMAIN u /\ u[Front(q)].kind = "dir"
    <3>1. q \in DOMAIN t /\ q # p /\ q # <<>> /\ q \in Path
      BY <1>1, <2>1 DEF Sound, TreeOK
    <3>2. Front(q) \in DOMAIN t /\ t[Front(q)].kind = "dir"
      BY <1>3, <3>1 DEF Shaped
    <3>3. Front(q) # p
      <4>1. Front(q) = p => Last(q) \in Entries(t, p)
        BY <3>1 DEF Entries
      <4> QED BY <1>3, <3>2, <4>1
    <3> QED BY <1>1, <3>2, <3>3
  <2> QED BY <1>1, <1>3, <2>1 DEF Shaped, Sound
<1> QED BY <1>1, <1>2, <1>3 DEF Less

(* What is made where NewPlace says is found under its name. *)
LEMMA NewIsThere ==
  ASSUME NEW t, Sound(t), NEW name \in Path, NEW modes, NEW p \in NewPlace(t, name, modes),
         NEW node \in Node, node.kind # "link"
  PROVE  /\ p \in Path /\ p \notin DOMAIN t
         /\ Front(p) \in DOMAIN t /\ t[Front(p)].kind = "dir"
         /\ Stat(With(t, p, node), name) = Found(p)
<1> DEFINE b == Front(name)
           n == Last(name)
           r == <<n>>
           e == Stat(t, b).at
           u == With(t, p, node)
<1>1. /\ name # <<>> /\ Len(name) <= MaxPath /\ p \notin DOMAIN t /\ p = Append(e, n)
      /\ Stat(t, b).error = "none" /\ e \in DOMAIN t /\ t[e].kind = "dir"
  BY DEF NewPlace, Is
<1>2. b \in Path /\ n \in Name /\ r \in Path /\ name = b \o r
  BY <1>1, FrontLast
<1>3. e \in Path /\ Stat(t, b) = Found(e)
  BY <1>1, <1>2, StatFound
<1> HIDE DEF b, n, e
<1>4. p \in Path /\ Front(p) = e /\ p # <<>>
  BY <1>1, <1>2, <1>3, EntryOf
<1>5. /\ Sound(u) /\ Within(t, u) /\ u[p] = node /\ u[e].kind = "dir"
      /\ p \in DOMAIN u /\ e \in DOMAIN u
  <2> DEFINE x == node
  <2>1. u = With(t, p, x) /\ x \in Node
    OBVIOUS
  <2> HIDE DEF u, x
  <2>2. p \in Path /\ p \notin DOMAIN t /\ Sound(t)
    BY <1>1, <1>4
  <2>3. Sound(u) /\ Within(t, u) /\ More(t, u, p, x)
    BY <2>1, <2>2, WithIs
  <2> QED BY <1>1, <2>3 DEF More, x
<1> HIDE DEF u, r
<1>6. Stat(u, b) = Found(e)
  BY <1>1, <1>2, <1>3, <1>5, StatGrows
<1>7. PICK l \in 0 .. MaxLinks : Stat(u, b \o r) = Goes(u)[Resumed(e, r, l)]
  BY <1>1, <1>2, <1>3, <1>5, <1>6, StatOn
<1> DEFINE w == Resumed(e, r, l)
<1>8. w \in Position /\ w.at = e /\ w.rest = r /\ Ahead(w) = p /\ Tail(r) = <<>> /\ r # <<>>
  BY <1>1, <1>2, <1>3 DEF Position, Resumed, Ahead, r
<1> HIDE DEF w
<1>9. ~Ends(u, w, TRUE)
  BY <1>5, <1>8 DEF Ends, IsFollowed
<1> DEFINE x == Onward(u, w, TRUE)
<1>10. x.at = p /\ x.rest = <<>>
  BY <1>5, <1>8 DEF Onward, IsFollowed
<1>11. TreeOK(u)
  BY <1>5 DEF Sound
<1>12. x \in Position
  <2> DEFINE f == TRUE
  <2>1. x = Onward(u, w, f) /\ ~Ends(u, w, f)
    BY <1>9
  <2> HIDE DEF f, x
  <2> QED BY <1>8, <1>11, <2>1, Advance
<1>13. Goes(u)[w] = Goes(u)[x]
  BY <1>8, <1>9, <1>11, GoesIs DEF StepOf
<1> HIDE DEF x
<1>14. Goes(u)[x] = Found(p)
  BY <1>10, <1>11, <1>12, GoesIs DEF StepOf, Ends, Answer
<1> QED BY <1>1, <1>2, <1>4, <1>7, <1>13, <1>14 DEF w, u

LEMMA Trees ==
  ASSUME NEW q \in Requests
  PROVE  /\ Sound(q.tree) /\ Shaped(q.tree)
         /\ q.from \in Path /\ q.from # <<>>
         /\ q.backend \in {"linux", "windows"}
<1> DEFINE t == q.tree
<1>1. /\ q.from \in Path \ {<<>>} /\ <<>> \in DOMAIN t /\ DOMAIN t \subseteq Path
      /\ \A p \in DOMAIN t : t[p] \in Node
      /\ q.backend \in {"linux", "windows"}
  BY RequestsAssumption
<1>2. /\ t[<<>>].kind = "dir"
      /\ \A p \in DOMAIN t \ {<<>>} : Front(p) \in DOMAIN t /\ t[Front(p)].kind = "dir"
  BY TreesAssumption
<1> HIDE DEF t
<1>3. Sound(t) /\ Shaped(t)
  BY <1>1, <1>2 DEF Sound, TreeOK, Shaped
<1> QED BY <1>1, <1>3 DEF t

LEMMA CutIs ==
  ASSUME NEW a \in Path, NEW r \in Path
  PROVE  SubSeq(a \o r, Len(a) + 1, Len(a \o r)) = r
<1>1. a \in Seq(Name) /\ r \in Seq(Name) /\ Len(a) \in Nat /\ Len(r) \in Nat
  BY DEF Path
<1> DEFINE z == a \o r
<1>2. z \in Seq(Name) /\ Len(z) = Len(a) + Len(r) /\ \A i \in 1 .. Len(r) : z[Len(a) + i] = r[i]
  BY <1>1
<1> HIDE DEF z
<1> DEFINE y == SubSeq(z, Len(a) + 1, Len(z))
<1>3. y \in Seq(Name) /\ Len(y) = Len(r)
  BY <1>1, <1>2
<1>4. \A i \in 1 .. Len(r) : y[i] = z[Len(a) + i]
  BY <1>1, <1>2
<1> HIDE DEF y
<1>5. y = r
  BY <1>1, <1>2, <1>3, <1>4
<1> QED BY <1>5 DEF y, z

Alike(w, v) == v.at = w.at /\ v.rest = w.rest /\ v.links <= w.links

(* The last name, where a file or directory of that name is. *)
LEMMA LastStep ==
  ASSUME NEW u, TreeOK(u), NEW e \in Path, NEW n \in Name, u[e].kind = "dir",
         Append(e, n) \in DOMAIN u, u[Append(e, n)].kind # "link", NEW l \in 0 .. MaxLinks
  PROVE  Goes(u)[Resumed(e, <<n>>, l)] = Found(Append(e, n))
<1> DEFINE r == <<n>>
           p == Append(e, n)
           w == Resumed(e, r, l)
<1>1. w \in Position /\ w.at = e /\ w.rest = r /\ Ahead(w) = p /\ Tail(r) = <<>> /\ r # <<>>
  <2>1. r \in Path
    BY DEF Path
  <2> QED BY <2>1 DEF Position, Resumed, Ahead
<1>2. p \in DOMAIN u /\ u[p].kind # "link"
  OBVIOUS
<1> HIDE DEF w, p, r
<1>3. ~Ends(u, w, TRUE)
  BY <1>1, <1>2 DEF Ends, IsFollowed
<1> DEFINE x == Onward(u, w, TRUE)
<1>4. x.at = p /\ x.rest = <<>>
  BY <1>1, <1>2 DEF Onward, IsFollowed
<1>5. x \in Position
  <2> DEFINE f == TRUE
  <2>1. x = Onward(u, w, f) /\ ~Ends(u, w, f)
    BY <1>3
  <2> HIDE DEF f, x
  <2> QED BY <1>1, <2>1, Advance
<1>6. Goes(u)[w] = Goes(u)[x]
  BY <1>1, <1>3, GoesIs DEF StepOf
<1> HIDE DEF x
<1>7. Goes(u)[x] = Found(p)
  BY <1>4, <1>5, GoesIs DEF StepOf, Ends, Answer
<1> QED BY <1>6, <1>7 DEF w, p, r

-----------------------------------------------------------------------------
(***************************************************************************)
(* What a copy makes or changes is the counterpart of something below its  *)
(* source.                                                                 *)
(***************************************************************************)
(* What a removal takes away from a walk is only what it ends at.          *)
LEMMA GoesStays ==
  ASSUME NEW t, Sound(t), NEW x \in DOMAIN t, x # <<>>, t[x].kind # "link",
         t[x].kind # "dir" \/ Entries(t, x) = {},
         NEW u, TreeOK(u), Less(t, u, x),
         NEW w \in Position, w.at \in DOMAIN t, w.at # x,
         Goes(t)[w].error = "none", Goes(t)[w].at # x
  PROVE  Goes(u)[w] = Goes(t)[w]
<1> DEFINE Ok(y) == y.at \in DOMAIN t /\ y.at # x
                    /\ Goes(t)[y].error = "none" /\ Goes(t)[y].at # x =>
                      Goes(u)[y] = Goes(t)[y]
           T == {y \in Position : Ok(y)}
<1>0. /\ TreeOK(t) /\ <<>> \in DOMAIN t /\ x \in Path
      /\ DOMAIN u = DOMAIN t \ {x} /\ \A q \in DOMAIN t \ {x} : u[q] = t[q]
  BY DEF Sound, TreeOK, Less
<1>1. ASSUME NEW y \in Position, Ends(t, y, TRUE) \/ Onward(t, y, TRUE) \in T,
             y.at \in DOMAIN t, y.at # x,
             Goes(t)[y].error = "none", Goes(t)[y].at # x
      PROVE  Goes(u)[y] = Goes(t)[y]
  <2>1. /\ Goes(t)[y] = StepOf(t, y, TRUE, Goes(t))
        /\ Goes(u)[y] = StepOf(u, y, TRUE, Goes(u))
    BY <1>0, GoesIs
  <2>2. CASE Ends(t, y, TRUE)
    <3>1. y.rest = <<>> /\ Goes(t)[y] = Found(y.at)
      BY <1>1, <2>1, <2>2, AnswerIs DEF StepOf
    <3> QED BY <2>1, <3>1 DEF StepOf, Ends, Answer
  <2>3. CASE ~Ends(t, y, TRUE)
    <3> DEFINE a == Ahead(y)
               z == Onward(t, y, TRUE)
    <3>1. Goes(t)[y] = Goes(t)[z] /\ a \in DOMAIN t /\ y.rest # <<>>
      BY <2>1, <2>3 DEF StepOf, Ends
    <3>2. z \in Position
      <4> DEFINE f == TRUE
      <4>1. z = Onward(t, y, f) /\ ~Ends(t, y, f)
        BY <2>3
      <4> HIDE DEF f, z
      <4> QED BY <1>0, <1>1, <4>1, Advance
    <3>3. a # x
      <4> SUFFICES ASSUME a = x PROVE FALSE
        OBVIOUS
      <4>1. z.at = x /\ ~IsFollowed(t, y, TRUE)
        BY DEF IsFollowed, Onward
      <4> HIDE DEF z, a
      <4>2. Goes(t)[z] = StepOf(t, z, TRUE, Goes(t))
        BY <1>0, <3>2, GoesIs
      <4>3. z.rest # <<>>
        <5> SUFFICES ASSUME z.rest = <<>> PROVE FALSE
          OBVIOUS
        <5>1. Goes(t)[z] = Found(x)
          BY <4>1, <4>2 DEF StepOf, Ends, Answer
        <5>2. Goes(t)[z].at = x
          BY <5>1, Errors
        <5> QED BY <1>1, <3>1, <5>2
      <4>4. Ahead(z) \notin DOMAIN t \/ t[z.at].kind # "dir"
        <5>1. Head(z.rest) \in Name /\ Ahead(z) = Append(x, Head(z.rest))
          BY <3>2, <4>1, <4>3, Positions DEF Ahead
        <5>2. CASE Entries(t, x) = {}
          BY <1>0, <5>1, <5>2, EntriesAre
        <5> QED BY <4>1, <5>2
      <4>5. Ends(t, z, TRUE)
        BY <4>4 DEF Ends
      <4> QED BY <1>1, <3>1, <4>2, <4>3, <4>5, AnswerIs DEF StepOf
    <3>4. z.at \in DOMAIN t /\ z.at # x
      <4>1. z.at \in {a, <<>>}
        BY DEF Onward
      <4> QED BY <1>0, <3>1, <3>3, <4>1
    <3>5. u[a] = t[a] /\ a \in DOMAIN u /\ u[y.at] = t[y.at]
      BY <1>0, <1>1, <3>1, <3>3
    <3>6. IsFollowed(u, y, TRUE) <=> IsFollowed(t, y, TRUE)
      BY <3>5 DEF IsFollowed
    <3>7. ~Ends(u, y, TRUE)
      BY <2>3, <3>5, <3>6 DEF Ends
    <3>8. Onward(u, y, TRUE) = z
      BY <3>5, <3>6 DEF Onward
    <3> QED BY <1>1, <2>1, <2>3, <3>1, <3>4, <3>7, <3>8 DEF StepOf
  <2> QED BY <2>2, <2>3
<1>2. T = Position
  <2>1. T \in SUBSET Position
    OBVIOUS
  <2>2. \A y \in Position : Ends(t, y, TRUE) \/ Onward(t, y, TRUE) \in T => y \in T
    BY <1>1
  <2> HIDE DEF T
  <2> QED BY <1>0, <2>1, <2>2, WalkInduction
<1> QED BY <1>2


LEMMA StatStays ==
  ASSUME NEW t, Sound(t), NEW x \in DOMAIN t, x # <<>>, t[x].kind # "link",
         t[x].kind # "dir" \/ Entries(t, x) = {},
         NEW u, Sound(u), Less(t, u, x), NEW p \in Path,
         Stat(t, p).error = "none", Stat(t, p).at # x
  PROVE  Stat(u, p) = Stat(t, p)
<1>1. Len(p) <= MaxPath /\ Stat(t, p) = Goes(t)[Start(p)]
  BY StatFound
<1>2. Goes(u)[Start(p)] = Goes(t)[Start(p)]
  BY <1>1, StartIs, GoesStays DEF Sound
<1>3. ~(Len(p) > MaxPath)
  BY <1>1, Limits DEF Path
<1> QED BY <1>1, <1>2, <1>3, StatIs

-----------------------------------------------------------------------------
(* What is at p is the counterpart of what is at y. *)
Mate(c, t, q, p, y) ==
  /\ t[y].kind = t[p].kind
  /\ \E r \in Path : Stat(t, q \o r) = Found(p) /\ Stat(t, c.from \o r) = Found(y)

New(c, t, p) == p \in DOMAIN t /\ (p \notin DOMAIN c.tree \/ t[p] # c.tree[p])

(* A source may go only together with its counterpart. *)
Mated(c, t, q, doomed, p) ==
  \E y \in DOMAIN t : Mate(c, t, q, p, y) /\ (y \in doomed => IsPrefix(y, p))
AllMated(c, t, q, doomed) == \A p \in DOMAIN t : New(c, t, p) => Mated(c, t, q, doomed, p)

LEMMA MateGrows ==
  ASSUME NEW c, c.from \in Path, NEW q \in Path, NEW t, Sound(t), NEW u, Sound(u), Within(t, u),
         NEW p, NEW y, Mate(c, t, q, p, y)
  PROVE  Mate(c, u, q, p, y) /\ y \in DOMAIN t /\ p \in DOMAIN t
<1>1. PICK r \in Path : Stat(t, q \o r) = Found(p) /\ Stat(t, c.from \o r) = Found(y)
  BY DEF Mate
<1> DEFINE a == q \o r
           b == c.from \o r
<1>2. a \in Path /\ b \in Path
  BY PrefixOfConcat
<1>3. Stat(t, a) = Found(p) /\ Stat(t, b) = Found(y)
  BY <1>1
<1> HIDE DEF a, b
<1>4. Stat(t, a).error = "none" /\ Stat(t, b).error = "none" /\ Stat(t, a).at = p /\ Stat(t, b).at = y
  BY <1>3, Errors
<1>5. p \in DOMAIN t /\ y \in DOMAIN t
  BY <1>2, <1>4, StatFound
<1>6. Stat(u, a) = Found(p) /\ Stat(u, b) = Found(y)
  BY <1>2, <1>3, <1>4, StatGrows
<1>7. u[y].kind = u[p].kind
  BY <1>5 DEF Within, Mate
<1> QED BY <1>5, <1>6, <1>7 DEF Mate, a, b

LEMMA MatedGrow ==
  ASSUME NEW c, c.from \in Path, NEW q \in Path, NEW t, Sound(t), NEW u, Sound(u), Within(t, u),
         NEW doomed, AllMated(c, t, q, doomed), NEW soon, soon \cap DOMAIN t \subseteq doomed,
         \A p \in DOMAIN u : New(c, u, p) => New(c, t, p) \/ Mated(c, u, q, soon, p)
  PROVE  AllMated(c, u, q, soon)
<1> SUFFICES ASSUME NEW p \in DOMAIN u, New(c, t, p) PROVE Mated(c, u, q, soon, p)
  BY DEF AllMated
<1>1. PICK y \in DOMAIN t : Mate(c, t, q, p, y) /\ (y \in doomed => IsPrefix(y, p))
  BY DEF AllMated, Mated, New
<1>2. Mate(c, u, q, p, y)
  BY <1>1, MateGrows
<1>3. y \in DOMAIN u /\ (y \in soon => IsPrefix(y, p))
  BY <1>1 DEF Within
<1> QED BY <1>2, <1>3 DEF Mated

LEMMA MatedLess ==
  ASSUME NEW c, c.from \in Path, NEW q \in Path, NEW t, Sound(t), Shaped(t), NEW u, Sound(u),
         NEW x \in DOMAIN t, x # <<>>, t[x].kind # "link",
         t[x].kind # "dir" \/ Entries(t, x) = {}, Less(t, u, x),
         NEW doomed, AllMated(c, t, q, doomed), x \in doomed, NEW soon, soon \subseteq doomed
  PROVE  AllMated(c, u, q, soon)
<1> SUFFICES ASSUME NEW p \in DOMAIN u, New(c, u, p) PROVE Mated(c, u, q, soon, p)
  BY DEF AllMated
<1>0. x \in Path
  BY DEF Sound, TreeOK
<1>1. p \in DOMAIN t /\ p # x /\ u[p] = t[p] /\ New(c, t, p)
  BY DEF Less, New
<1>2. PICK y \in DOMAIN t : Mate(c, t, q, p, y) /\ (y \in doomed => IsPrefix(y, p))
  BY <1>1 DEF AllMated, Mated
<1>3. y # x
  <2> SUFFICES ASSUME y = x PROVE FALSE
    OBVIOUS
  <2>1. IsPrefix(x, p)
    BY <1>2
  <2> QED BY <1>0, <1>1, <2>1, NothingBelow
<1>4. y \in DOMAIN u /\ u[y] = t[y]
  BY <1>3 DEF Less
<1>5. PICK r \in Path : Stat(t, q \o r) = Found(p) /\ Stat(t, c.from \o r) = Found(y)
  BY <1>2 DEF Mate
<1> DEFINE a == q \o r
           b == c.from \o r
<1>6. a \in Path /\ b \in Path
  BY PrefixOfConcat
<1>7. Stat(t, a) = Found(p) /\ Stat(t, b) = Found(y)
  BY <1>5
<1> HIDE DEF a, b
<1>8. Stat(t, a).error = "none" /\ Stat(t, b).error = "none" /\ Stat(t, a).at = p /\ Stat(t, b).at = y
  BY <1>7, Errors
<1>9. Stat(u, a) = Found(p) /\ Stat(u, b) = Found(y)
  BY <1>1, <1>3, <1>6, <1>7, <1>8, StatStays
<1>10. Mate(c, u, q, p, y)
  BY <1>1, <1>2, <1>4, <1>9 DEF Mate, a, b
<1> QED BY <1>2, <1>4, <1>10 DEF Mated

-----------------------------------------------------------------------------
(* The frames: what they copy, and where; below a directory that the copy  *)
(* has made everything is new.                                             *)
Beneath(c, q, f) == \E r \in Path : f.from = c.from \o r /\ f.to = q \o r
Mates(c, s, q) == \A i \in DOMAIN s : Beneath(c, q, s[i])
AllUnder(s, p) == \A i \in DOMAIN s : s[i].created => IsPrefix(s[i].place, p)
Nested(t, s) ==
  \A i \in DOMAIN s :
    /\ Stat(t, s[i].to) = Found(s[i].place)
    /\ \A j \in DOMAIN s : i < j /\ s[i].created => IsPrefix(s[i].place, s[j].place)
NextOf(c, s, a, q) ==
  IF s = <<>> THEN a.from = c.from /\ a.to = q
  ELSE \E n \in Name : a.from = Append(Last(s).from, n) /\ a.to = Append(Last(s).to, n)

(* What the copy may take away again.                                      *)
Doomed(s, x) == {s[i].place : i \in {j \in DOMAIN s : s[j].created}} \cup x
Half(w, ph) == IF ph = "write" /\ w.created THEN {w.place} ELSE {}

SameCalls(s, z) ==
  /\ DOMAIN z = DOMAIN s
  /\ \A i \in DOMAIN s : /\ z[i].from = s[i].from /\ z[i].to = s[i].to
                         /\ z[i].place = s[i].place /\ z[i].created = s[i].created
SameCall(f, g) ==
  f.from = g.from /\ f.to = g.to /\ f.place = g.place /\ f.created = g.created

LEMMA CallsCarry ==
  ASSUME NEW s, NEW z, SameCalls(s, z)
  PROVE  /\ \A c, q : Mates(c, s, q) => Mates(c, z, q)
         /\ \A t : Nested(t, s) => Nested(t, z)
         /\ \A x : Doomed(z, x) = Doomed(s, x)
<1>0. /\ DOMAIN z = DOMAIN s
      /\ \A i \in DOMAIN s : /\ z[i].from = s[i].from /\ z[i].to = s[i].to
                             /\ z[i].place = s[i].place /\ z[i].created = s[i].created
  BY DEF SameCalls
<1>1. ASSUME NEW c, NEW q, Mates(c, s, q) PROVE Mates(c, z, q)
  BY <1>0, <1>1 DEF Mates, Beneath
<1>2. ASSUME NEW t, Nested(t, s) PROVE Nested(t, z)
  BY <1>0, <1>2 DEF Nested
<1>3. ASSUME NEW x PROVE Doomed(z, x) = Doomed(s, x)
  <2>1. {j \in DOMAIN z : z[j].created} = {j \in DOMAIN s : s[j].created}
    BY <1>0
  <2> QED BY <1>0, <2>1 DEF Doomed
<1> QED BY <1>1, <1>2, <1>3

LEMMA CallsRetopped ==
  ASSUME NEW s \in Seq(Frames), s # <<>>, NEW f \in Frames, SameCall(f, Last(s))
  PROVE  /\ SameCalls(s, Append(Front(s), f)) /\ Append(Front(s), f) # <<>>
         /\ Last(Append(Front(s), f)) = f
<1> DEFINE z == Append(Front(s), f)
<1>1. /\ Last(s) = s[Len(s)] /\ Front(s) \in Seq(Frames) /\ Len(s) \in Nat \ {0}
      /\ Len(Front(s)) = Len(s) - 1 /\ \A i \in 1 .. Len(s) - 1 : Front(s)[i] = s[i]
  BY Stacks
<1>2. /\ z \in Seq(Frames) /\ Len(z) = Len(s) /\ DOMAIN z = 1 .. Len(s) /\ z # <<>>
      /\ z[Len(s)] = f /\ \A i \in 1 .. Len(s) - 1 : z[i] = s[i]
  BY <1>1
<1> HIDE DEF z
<1>3. DOMAIN s = 1 .. Len(s) /\ \A i \in DOMAIN s : i = Len(s) \/ i \in 1 .. Len(s) - 1
  BY <1>1
<1>4. SameCalls(s, z)
  BY <1>1, <1>2, <1>3 DEF SameCalls, SameCall
<1>5. Last(z) = f
  BY <1>2 DEF Last
<1> QED BY <1>2, <1>4, <1>5 DEF z

LEMMA CallsReturned ==
  ASSUME NEW s \in Seq(Frames), NEW v \in {-1, 0}, Return(s, v)
  PROVE  SameCalls(s, stack') /\ pc' \in {"read", "close", "done"}
<1>1. CASE s = <<>>
  BY <1>1 DEF Return, SameCalls
<1>2. CASE s # <<>>
  <2> DEFINE f == [Last(s) EXCEPT !.result = v]
  <2>1. Last(s) \in Frames
    BY <1>2, Stacks
  <2>2. f \in Frames /\ SameCall(f, Last(s))
    BY <2>1 DEF Frames, SameCall
  <2>3. stack' = Append(Front(s), f) /\ pc' \in {"read", "close"}
    BY <1>2 DEF Return
  <2> HIDE DEF f
  <2> QED BY <1>2, <2>2, <2>3, CallsRetopped
<1> QED BY <1>1, <1>2

LEMMA CallsOfFront ==
  ASSUME NEW s \in Seq(Frames), s # <<>>
  PROVE  /\ \A c, q : Mates(c, s, q) => Mates(c, Front(s), q)
         /\ \A t : Nested(t, s) => Nested(t, Front(s))
         /\ \A x : Doomed(Front(s), x) \subseteq Doomed(s, x)
         /\ Front(s) \in Seq(Frames)
<1>1. /\ Front(s) \in Seq(Frames) /\ Len(s) \in Nat \ {0} /\ Len(Front(s)) = Len(s) - 1
      /\ \A i \in 1 .. Len(s) - 1 : Front(s)[i] = s[i]
  BY Stacks
<1> DEFINE z == Front(s)
<1>2. z \in Seq(Frames) /\ \A i \in DOMAIN z : i \in DOMAIN s /\ z[i] = s[i]
  BY <1>1
<1> HIDE DEF z
<1>3. \A c, q : Mates(c, s, q) => Mates(c, z, q)
  BY <1>2 DEF Mates
<1>4. \A t : Nested(t, s) => Nested(t, z)
  BY <1>2 DEF Nested
<1>5. \A x : Doomed(z, x) \subseteq Doomed(s, x)
  BY <1>2 DEF Doomed
<1> QED BY <1>2, <1>3, <1>4, <1>5 DEF z

LEMMA CallPushed ==
  ASSUME NEW s \in Seq(Frames), NEW f \in Frames,
         NEW c, NEW q, Mates(c, s, q), NEW t, Nested(t, s),
         Beneath(c, q, f), Stat(t, f.to) = Found(f.place), AllUnder(s, f.place)
  PROVE  /\ Mates(c, Append(s, f), q) /\ Nested(t, Append(s, f))
         /\ \A x : Doomed(Append(s, f), x) =
                     Doomed(s, x) \cup (IF f.created THEN {f.place} ELSE {})
<1> DEFINE z == Append(s, f)
<1>1. /\ z \in Seq(Frames) /\ Len(s) \in Nat /\ DOMAIN s = 1 .. Len(s)
      /\ DOMAIN z = 1 .. Len(s) + 1 /\ z[Len(s) + 1] = f
      /\ \A i \in 1 .. Len(s) : z[i] = s[i]
  OBVIOUS
<1> HIDE DEF z
<1>2. \A i \in DOMAIN z : i = Len(s) + 1 \/ i \in DOMAIN s
  BY <1>1
<1>3. Mates(c, z, q)
  BY <1>1, <1>2 DEF Mates
<1>4. Nested(t, z)
  <2> SUFFICES ASSUME NEW i \in DOMAIN z
               PROVE  /\ Stat(t, z[i].to) = Found(z[i].place)
                      /\ \A j \in DOMAIN z : i < j /\ z[i].created => IsPrefix(z[i].place, z[j].place)
    BY DEF Nested
  <2>1. Stat(t, z[i].to) = Found(z[i].place)
    BY <1>1, <1>2 DEF Nested
  <2>2. ASSUME NEW j \in DOMAIN z, i < j, z[i].created PROVE IsPrefix(z[i].place, z[j].place)
    <3>1. i \in DOMAIN s /\ z[i] = s[i]
      BY <1>1, <1>2, <2>2
    <3>2. CASE j = Len(s) + 1
      BY <1>1, <2>2, <3>1, <3>2 DEF AllUnder
    <3>3. CASE j # Len(s) + 1
      <4>1. j \in DOMAIN s /\ z[j] = s[j]
        BY <1>1, <1>2, <3>3
      <4> QED BY <2>2, <3>1, <4>1 DEF Nested
    <3> QED BY <3>2, <3>3
  <2> QED BY <2>1, <2>2
<1>5. ASSUME NEW x PROVE Doomed(z, x) = Doomed(s, x) \cup (IF f.created THEN {f.place} ELSE {})
  <2>1. \A i \in DOMAIN s : i \in DOMAIN z /\ z[i] = s[i]
    BY <1>1
  <2>2. Len(s) + 1 \in DOMAIN z /\ z[Len(s) + 1] = f
    BY <1>1
  <2>3. ASSUME NEW y \in Doomed(z, x) PROVE y \in Doomed(s, x) \cup (IF f.created THEN {f.place} ELSE {})
    <3>1. CASE y \in x
      BY <3>1 DEF Doomed
    <3>2. CASE y \notin x
      <4>1. PICK i \in DOMAIN z : z[i].created /\ y = z[i].place
        BY <2>3, <3>2 DEF Doomed
      <4> QED BY <1>1, <1>2, <4>1 DEF Doomed
    <3> QED BY <3>1, <3>2
  <2>4. ASSUME NEW y \in Doomed(s, x) PROVE y \in Doomed(z, x)
    BY <2>1 DEF Doomed
  <2>5. f.created => f.place \in Doomed(z, x)
    BY <2>2 DEF Doomed
  <2> QED BY <2>3, <2>4, <2>5
<1> QED BY <1>3, <1>4, <1>5 DEF z

LEMMA NestedGrows ==
  ASSUME NEW t, Sound(t), NEW u, Sound(u), Within(t, u), NEW s \in Seq(Frames), Nested(t, s)
  PROVE  Nested(u, s)
<1>1. ASSUME NEW i \in DOMAIN s PROVE Stat(u, s[i].to) = Found(s[i].place)
  <2>1. s[i] \in Frames
    OBVIOUS
  <2>2. s[i].to \in Path
    BY <2>1 DEF Frames
  <2>3. Stat(t, s[i].to) = Found(s[i].place)
    BY DEF Nested
  <2>4. Stat(t, s[i].to).error = "none"
    BY <2>3, Errors
  <2> QED BY <2>2, <2>3, <2>4, StatGrows
<1> QED BY <1>1 DEF Nested

LEMMA NestedLess ==
  ASSUME NEW t, Sound(t), NEW x \in DOMAIN t, x # <<>>, t[x].kind # "link",
         t[x].kind # "dir" \/ Entries(t, x) = {},
         NEW u, Sound(u), Less(t, u, x), NEW s \in Seq(Frames), Nested(t, s),
         \A i \in DOMAIN s : s[i].place # x
  PROVE  Nested(u, s)
<1>1. ASSUME NEW i \in DOMAIN s PROVE Stat(u, s[i].to) = Found(s[i].place)
  <2>1. s[i] \in Frames
    OBVIOUS
  <2>2. s[i].to \in Path
    BY <2>1 DEF Frames
  <2>3. Stat(t, s[i].to) = Found(s[i].place)
    BY DEF Nested
  <2>4. Stat(t, s[i].to).error = "none" /\ Stat(t, s[i].to).at # x
    BY <2>3, Errors
  <2> QED BY <2>2, <2>3, <2>4, StatStays
<1> QED BY <1>1 DEF Nested

(* The next directory or file is below what the frames have made.          *)
LEMMA NextIs ==
  ASSUME NEW c, c.from \in Path, NEW q \in Path, NEW s \in Seq(Frames), Mates(c, s, q),
         NEW a, NextOf(c, s, a, q)
  PROVE  Beneath(c, q, a)
<1>1. CASE s = <<>>
  BY <1>1, Bare DEF NextOf, Beneath
<1>2. CASE s # <<>>
  <2>1. PICK n \in Name : a.from = Append(Last(s).from, n) /\ a.to = Append(Last(s).to, n)
    BY <1>2 DEF NextOf
  <2>2. PICK r \in Path : Last(s).from = c.from \o r /\ Last(s).to = q \o r
    <3>1. Last(s) = s[Len(s)] /\ Len(s) \in Nat \ {0}
      BY <1>2, Stacks
    <3>2. Len(s) \in DOMAIN s
      BY <3>1
    <3> QED BY <3>1, <3>2 DEF Mates, Beneath
  <2> DEFINE x == r \o <<n>>
  <2>3. <<n>> \in Path
    BY DEF Path
  <2>4. \A b \in Path : Append(b \o r, n) = b \o x
    <3> TAKE b \in Path
    <3> DEFINE z == b \o r
    <3>1. z \in Path /\ z \o <<n>> = b \o x
      BY <2>3, PrefixOfConcat, Regrouped
    <3> HIDE DEF z, x
    <3>2. Append(z, n) = z \o <<n>>
      BY <3>1, AppendIsConcat DEF Path
    <3> QED BY <3>1, <3>2 DEF z
  <2>5. x \in Path
    BY <2>3, PrefixOfConcat
  <2> HIDE DEF x
  <2>6. a.from = c.from \o x /\ a.to = q \o x
    BY <2>1, <2>2, <2>4
  <2> QED BY <2>5, <2>6 DEF Beneath
<1> QED BY <1>1, <1>2

LEMMA TopAbove ==
  ASSUME NEW s \in Seq(Frames), s # <<>>, NEW t, Nested(t, s)
  PROVE  /\ Last(s) \in Frames /\ Last(s).place \in Path /\ Last(s).to \in Path
         /\ Stat(t, Last(s).to) = Found(Last(s).place)
         /\ \A i \in DOMAIN s : s[i].created =>
              s[i].place \in Path /\ IsPrefix(s[i].place, Last(s).place)
<1>1. Last(s) \in Frames /\ Last(s) = s[Len(s)] /\ Len(s) \in Nat \ {0}
  BY Stacks
<1>2. Len(s) \in DOMAIN s /\ \A i \in DOMAIN s : s[i] \in Frames /\ (i = Len(s) \/ i < Len(s))
  BY <1>1
<1>3. \A i \in DOMAIN s : s[i].place \in Path /\ s[i].to \in Path
  BY <1>2 DEF Frames
<1>4. ASSUME NEW i \in DOMAIN s, s[i].created PROVE IsPrefix(s[i].place, s[Len(s)].place)
  <2>1. CASE i = Len(s)
    BY <1>3, <2>1, PrefixChain
  <2>2. CASE i < Len(s)
    BY <1>2, <1>4, <2>2 DEF Nested
  <2> QED BY <1>2, <2>1, <2>2
<1>5. Stat(t, s[Len(s)].to) = Found(s[Len(s)].place)
  BY <1>2 DEF Nested
<1> QED BY <1>1, <1>2, <1>3, <1>4, <1>5

LEMMA NewBelowMade ==
  ASSUME NEW t, Sound(t), NEW s \in Seq(Frames), Nested(t, s), NEW c, NEW q,
         NEW a, NextOf(c, s, a, q), a.to \in Path, NEW modes, NEW p \in NewPlace(t, a.to, modes)
  PROVE  AllUnder(s, p)
<1>1. CASE s = <<>>
  BY <1>1 DEF AllUnder
<1>2. CASE s # <<>>
  <2> DEFINE b == Last(s).to
             e == Last(s).place
  <2>1. PICK n \in Name : a.to = Append(b, n)
    BY <1>2 DEF NextOf
  <2>2. b \in Path /\ e \in Path /\ Stat(t, b) = Found(e)
        /\ \A i \in DOMAIN s : s[i].created => s[i].place \in Path /\ IsPrefix(s[i].place, e)
    BY <1>2, TopAbove
  <2> HIDE DEF b, e
  <2>3. Front(a.to) = b /\ Last(a.to) = n
    BY <2>1, <2>2, EntryOf
  <2>4. p = Append(Stat(t, b).at, n)
    BY <2>3, NewIsNew
  <2>5. p = Append(e, n) /\ p \in Path /\ IsPrefix(e, p)
    BY <2>2, <2>4, Errors, EntryOf
  <2>6. \A i \in DOMAIN s : s[i].created => IsPrefix(s[i].place, p)
    BY <2>2, <2>5, PrefixChain
  <2> QED BY <2>6 DEF AllUnder
<1> QED BY <1>1, <1>2

(* No link is below what the copy has made.                                *)
LEMMA OldBelowMade ==
  ASSUME NEW c \in Requests, NEW t, Sound(t),
         \A p \in DOMAIN t : t[p].kind = "link" => p \in DOMAIN c.tree,
         NEW s \in Seq(Frames), Nested(t, s),
         \A i \in DOMAIN s : s[i].created => s[i].place \notin DOMAIN c.tree,
         NEW q, NEW a, NextOf(c, s, a, q), a.to \in Path, Stat(t, a.to).error = "none"
  PROVE  AllUnder(s, Stat(t, a.to).at)
<1>1. CASE s = <<>>
  BY <1>1 DEF AllUnder
<1>2. CASE s # <<>>
  <2> SUFFICES ASSUME NEW i \in DOMAIN s, s[i].created
               PROVE  IsPrefix(s[i].place, Stat(t, a.to).at)
    BY DEF AllUnder
  <2> DEFINE b == Last(s).to
             e == Last(s).place
             d == s[i].place
  <2>1. PICK n \in Name : a.to = Append(b, n)
    BY <1>2 DEF NextOf
  <2>2. b \in Path /\ e \in Path /\ Stat(t, b) = Found(e) /\ d \in Path /\ IsPrefix(d, e)
    BY <1>2, TopAbove
  <2>3. d \notin DOMAIN c.tree
    OBVIOUS
  <2> HIDE DEF b, e, d
  <2> DEFINE x == <<n>>
             p == Append(e, n)
  <2>4. /\ x \in Path /\ a.to = b \o x /\ p \in Path /\ p # <<>> /\ Front(p) = e
        /\ IsPrefix(e, p) /\ x # <<>> /\ Head(x) = n
    <3>1. p \in Path /\ p # <<>> /\ Front(p) = e /\ IsPrefix(e, p)
      BY <2>2, EntryOf
    <3>2. x \in Path /\ x # <<>> /\ Head(x) = n
      BY DEF Path
    <3>3. Append(b, n) = b \o x
      BY <2>2, AppendIsConcat DEF Path
    <3> QED BY <2>1, <3>1, <3>2, <3>3
  <2>5. Len(a.to) <= MaxPath
    BY StatFound
  <2> HIDE DEF x, p
  <2>6. PICK l \in 0 .. MaxLinks : Stat(t, b \o x) = Goes(t)[Resumed(e, x, l)]
    BY <2>2, <2>4, <2>5, StatOn
  <2> DEFINE w == Resumed(e, x, l)
  <2>7. w \in Position /\ w.rest # <<>> /\ w.at = e /\ Ahead(w) = p
    BY <2>2, <2>4 DEF Position, Ahead, Resumed, p
  <2> HIDE DEF w
  <2>8. Goes(t)[w].error = "none"
    BY <2>4, <2>6 DEF w
  <2>9. Goes(t)[w] = StepOf(t, w, TRUE, Goes(t))
    BY <2>7, GoesIs DEF Sound
  <2>10. ~Ends(t, w, TRUE)
    BY <2>7, <2>8, <2>9, AnswerIs DEF StepOf
  <2>11. p \in DOMAIN t /\ t[e].kind = "dir"
    BY <2>7, <2>10 DEF Ends
  <2>12. t[p].kind # "link"
    <3> SUFFICES ASSUME t[p].kind = "link" PROVE FALSE
      OBVIOUS
    <3>1. p \in DOMAIN c.tree /\ Sound(c.tree) /\ Shaped(c.tree)
      BY <2>11, Trees
    <3>2. IsPrefix(d, p)
      BY <2>2, <2>4, PrefixChain
    <3>3. d \in DOMAIN c.tree
      <4> DEFINE u == c.tree
      <4>1. p \in DOMAIN u /\ Sound(u) /\ Shaped(u)
        BY <3>1
      <4> HIDE DEF u
      <4>2. d \in DOMAIN u
        BY <2>2, <3>2, <4>1, PrefixIsThere
      <4> QED BY <4>2 DEF u
    <3> QED BY <2>3, <3>3
  <2>13. Stat(t, a.to) = Found(p)
    <3>1. Goes(t)[Resumed(e, <<n>>, l)] = Found(Append(e, n))
      BY <2>2, <2>11, <2>12, LastStep DEF Sound, p
    <3> QED BY <2>4, <2>6, <3>1 DEF x, p
  <2>14. IsPrefix(d, p)
    BY <2>2, <2>4, PrefixChain
  <2> QED BY <2>13, <2>14, Errors DEF d
<1> QED BY <1>1, <1>2

-----------------------------------------------------------------------------
Fits(c, t) ==
  Shaped(t) /\ \A p \in DOMAIN t : t[p].kind = "link" => p \in DOMAIN c.tree

NamedIs(c, t, s, a, w, ph, q) ==
  /\ Fits(c, t) /\ ph # "request"
  /\ Mates(c, s, q) /\ Nested(t, s)
  /\ ph \in {"enter", "file"} => NextOf(c, s, a, q)
  /\ ph = "write" => Mate(c, t, q, w.place, w.source)
  /\ AllMated(c, t, q, Doomed(s, Half(w, ph)))

NamedInv ==
  \/ fs = req.tree /\ stack = <<>> /\ pc \in {"request", "done"}
  \/ \E q \in Destination(req.tree) : NamedIs(req, fs, stack, args, writing, pc, q)

LEMMA NamedAssembled ==
  ASSUME UNCHANGED req, NEW q \in Destination(req.tree),
         NamedIs(req, fs', stack', args', writing', pc', q)
  PROVE  NamedInv'
<1>1. q \in Destination(req.tree)'
  BY Stays
<1>2. NamedIs(req, fs, stack, args, writing, pc, q)'
  OBVIOUS
<1> QED BY <1>1, <1>2 DEF NamedInv

LEMMA NamedReturn ==
  ASSUME UNCHANGED req, NEW s \in Seq(Frames), NEW v \in {-1, 0}, Return(s, v),
         NEW q \in Destination(req.tree), Fits(req, fs'), Mates(req, s, q), Nested(fs', s),
         AllMated(req, fs', q, Doomed(s, {}))
  PROVE  NamedInv'
<1>1. SameCalls(s, stack') /\ pc' \in {"read", "close", "done"}
  BY CallsReturned
<1>2. Mates(req, stack', q) /\ Nested(fs', stack') /\ Doomed(stack', {}) = Doomed(s, {})
  <2> DEFINE z == stack'
             u == fs'
  <2>1. SameCalls(s, z) /\ Nested(u, s)
    BY <1>1
  <2> HIDE DEF z, u
  <2>2. Mates(req, z, q) /\ Nested(u, z) /\ Doomed(z, {}) = Doomed(s, {})
    BY <2>1, CallsCarry
  <2> QED BY <2>2 DEF z, u
<1>3. Half(writing', pc') = {}
  BY <1>1 DEF Half
<1>4. NamedIs(req, fs', stack', args', writing', pc', q)
  BY <1>1, <1>2, <1>3 DEF NamedIs
<1> QED BY <1>4, NamedAssembled

-----------------------------------------------------------------------------
(* The parts of the invariant in a step of the copy.                       *)
LEMMA NamedGiven ==
  ASSUME CopyInv, NEW q \in Destination(req.tree), NEW w, NEW ph,
         NamedIs(req, fs, stack, args, w, ph, q)
  PROVE  /\ q \in Path /\ req.from \in Path /\ req \in Requests /\ Sound(fs)
         /\ stack \in Seq(Frames) /\ Fits(req, fs) /\ Mates(req, stack, q) /\ Nested(fs, stack)
         /\ Doomed(stack, {}) \subseteq Doomed(stack, Half(w, ph))
         /\ ph # "write" => AllMated(req, fs, q, Doomed(stack, {}))
         /\ \A i \in DOMAIN stack : stack[i].created =>
              /\ stack[i].place \notin DOMAIN req.tree
              /\ stack[i].place \in DOMAIN fs /\ fs[stack[i].place].kind = "dir"
<1>1. q \in Path /\ req.from \in Path /\ req \in Requests /\ Sound(fs)
  BY Given, Destinations DEF CopyInv, TypeOK
<1>2. stack \in Seq(Frames) /\ Held(fs, stack) /\ Own(stack)
  BY Taken
<1>3. \A i \in DOMAIN stack : stack[i].created =>
              /\ stack[i].place \notin DOMAIN req.tree
              /\ stack[i].place \in DOMAIN fs /\ fs[stack[i].place].kind = "dir"
  BY <1>2 DEF Held, Own
<1>4. Doomed(stack, {}) \subseteq Doomed(stack, Half(w, ph))
  BY DEF Doomed
<1>5. ph # "write" => AllMated(req, fs, q, Doomed(stack, {}))
  BY DEF NamedIs, Half
<1> QED BY <1>1, <1>2, <1>3, <1>4, <1>5 DEF NamedIs

LEMMA DoomedAre ==
  ASSUME NEW s, NEW x, NEW y \in Doomed(s, x)
  PROVE  y \in x \/ \E i \in DOMAIN s : s[i].created /\ y = s[i].place
  BY DEF Doomed

LEMMA NamedRequest ==
  ASSUME CopyInv, fs = req.tree, stack = <<>>, CopyDir \/ CopyFile \/ RefuseCopy
  PROVE  NamedInv'
<1>1. CASE CopyDir \/ CopyFile
  <2>1. PICK q \in Destination(req.tree) : args' = [from |-> req.from, to |-> q]
    BY <1>1 DEF CopyDir, CopyFile
  <2>2. UNCHANGED <<req, fs, stack>> /\ pc' \in {"enter", "file"}
    BY <1>1 DEF CopyDir, CopyFile
  <2>3. Shaped(req.tree)
    BY Trees DEF CopyInv, TypeOK
  <2>4. NamedIs(req, fs', stack', args', writing', pc', q)
    BY <2>1, <2>2, <2>3 DEF NamedIs, Fits, Mates, Nested, NextOf, AllMated, New
  <2> QED BY <2>2, <2>4, NamedAssembled
<1>2. CASE RefuseCopy
  BY <1>2 DEF RefuseCopy, Return, NamedInv
<1> QED BY <1>1, <1>2

LEMMA NamedNext ==
  ASSUME CopyInv, NEW q \in Destination(req.tree), NextOf(req, stack, args, q),
         Mates(req, stack, q)
  PROVE  Beneath(req, q, args)
<1>1. q \in Path /\ req.from \in Path /\ stack \in Seq(Frames)
  BY Given, Destinations, Taken DEF CopyInv
<1> DEFINE c == req
           s == stack
           a == args
<1>2. c.from \in Path /\ s \in Seq(Frames) /\ NextOf(c, s, a, q) /\ Mates(c, s, q)
  BY <1>1
<1> HIDE DEF c, s, a
<1>3. Beneath(c, q, a)
  BY <1>1, <1>2, NextIs
<1> QED BY <1>3 DEF c, a

-----------------------------------------------------------------------------
LEMMA NamedEntersExisting ==
  ASSUME CopyInv, EnterExisting, NEW q \in Destination(req.tree),
         NamedIs(req, fs, stack, args, writing, pc, q)
  PROVE  NamedInv'
<1> DEFINE place == Stat(fs, args.to).at
           result == IF Linux THEN -1 ELSE 0
           f == Frame(fs, place, FALSE, result)
<1>1. /\ pc = "enter" /\ Opens(fs) /\ stack' = Append(stack, f) /\ pc' = "read"
      /\ UNCHANGED <<req, fs>> /\ Is(fs, Stat(fs, args.to), "dir")
  BY DEF EnterExisting
<1>2. /\ q \in Path /\ req.from \in Path /\ req \in Requests /\ Sound(fs)
      /\ stack \in Seq(Frames) /\ Fits(req, fs) /\ Mates(req, stack, q) /\ Nested(fs, stack)
      /\ AllMated(req, fs, q, Doomed(stack, {}))
      /\ \A i \in DOMAIN stack : stack[i].created => stack[i].place \notin DOMAIN req.tree
  BY <1>1, NamedGiven
<1>3. NextOf(req, stack, args, q)
  BY <1>1 DEF NamedIs
<1>4. Stat(fs, args.to).error = "none" /\ args.to \in Path
  BY <1>1, Taken DEF Is
<1>5. place \in Path /\ Stat(fs, args.to) = Found(place) /\ DOMAIN fs \subseteq Path
  BY <1>2, <1>4, StatFound DEF Sound, TreeOK
<1>6. AllUnder(stack, place)
  <2> DEFINE c == req
             t == fs
             s == stack
             a == args
  <2>1. /\ c \in Requests /\ Sound(t) /\ s \in Seq(Frames) /\ Nested(t, s)
        /\ \A p \in DOMAIN t : t[p].kind = "link" => p \in DOMAIN c.tree
        /\ \A i \in DOMAIN s : s[i].created => s[i].place \notin DOMAIN c.tree
        /\ NextOf(c, s, a, q) /\ a.to \in Path /\ Stat(t, a.to).error = "none"
    BY <1>2, <1>3, <1>4 DEF Fits
  <2> HIDE DEF c, t, s, a
  <2>2. AllUnder(s, Stat(t, a.to).at)
    BY <2>1, OldBelowMade
  <2> QED BY <2>2 DEF c, t, s, a
<1>7. /\ f \in Frames /\ f.from = args.from /\ f.to = args.to
      /\ f.place = place /\ f.created = FALSE
  <2>1. result \in {-1, 0}
    OBVIOUS
  <2>2. \A created \in BOOLEAN, r \in {-1, 0} :
          LET g == Frame(fs, place, created, r)
          IN  g \in Frames /\ g.place = place /\ g.created = created
    <3> HIDE DEF place
    <3> QED BY <1>1, <1>5, Framed
  <2> QED BY <2>1, <2>2 DEF Frame
<1>8. Beneath(req, q, f)
  BY <1>2, <1>3, <1>7, NamedNext DEF Beneath
<1>9. Stat(fs, f.to) = Found(f.place) /\ AllUnder(stack, f.place)
  BY <1>5, <1>6, <1>7
<1> HIDE DEF f, place
<1> DEFINE z == Append(stack, f)
<1>10. /\ Mates(req, z, q) /\ Nested(fs, z) /\ Doomed(z, {}) = Doomed(stack, {})
  <2> DEFINE c == req
             s == stack
             t == fs
  <2>1. /\ Mates(c, s, q) /\ Nested(t, s) /\ s \in Seq(Frames)
        /\ Beneath(c, q, f) /\ Stat(t, f.to) = Found(f.place) /\ AllUnder(s, f.place)
    BY <1>2, <1>8, <1>9
  <2> HIDE DEF c, s, t
  <2>2. /\ Mates(c, Append(s, f), q) /\ Nested(t, Append(s, f))
        /\ \A x : Doomed(Append(s, f), x) =
                    Doomed(s, x) \cup (IF f.created THEN {f.place} ELSE {})
    BY <1>7, <2>1, CallPushed
  <2> QED BY <1>7, <2>2 DEF c, s, t
<1> HIDE DEF z
<1>11. Half(writing', pc') = {}
  BY <1>1 DEF Half
<1>12. NamedIs(req, fs', stack', args', writing', pc', q)
  BY <1>1, <1>2, <1>10, <1>11 DEF NamedIs, z
<1> QED BY <1>1, <1>12, NamedAssembled


-----------------------------------------------------------------------------
(* Something is made or changed that has a counterpart.                    *)
LEMMA MatedMore ==
  ASSUME NEW c, c.from \in Path, NEW q \in Path, NEW t, Sound(t), NEW u, Sound(u), Within(t, u),
         NEW p, DOMAIN u \subseteq DOMAIN t \cup {p}, \A x \in DOMAIN t \ {p} : u[x] = t[x],
         NEW y \in DOMAIN u, Mate(c, u, q, p, y),
         NEW doomed, AllMated(c, t, q, doomed), NEW soon, soon \cap DOMAIN t \subseteq doomed,
         y \in soon => IsPrefix(y, p)
  PROVE  AllMated(c, u, q, soon)
<1>1. Mated(c, u, q, soon, p)
  BY DEF Mated
<1>2. \A x \in DOMAIN u : New(c, u, x) => New(c, t, x) \/ Mated(c, u, q, soon, x)
  BY <1>1 DEF New
<1> QED BY <1>2, MatedGrow

LEMMA FitsMore ==
  ASSUME NEW c, NEW t, Sound(t), Fits(c, t), NEW p \in Path, p \notin DOMAIN t,
         Front(p) \in DOMAIN t, t[Front(p)].kind = "dir",
         NEW node \in Node, node.kind # "link", NEW u, u = With(t, p, node)
  PROVE  Fits(c, u)
<1>1. Shaped(u) /\ More(t, u, p, node)
  BY WithIs DEF Fits
<1> QED BY <1>1 DEF Fits, More

(* What is at y is copied to p. *)
Making(c, t, q, a, y, modes, p, node) ==
  /\ c.from \in Path /\ q \in Path /\ Sound(t) /\ Fits(c, t)
  /\ a.from \in Path /\ a.to \in Path /\ Beneath(c, q, a) /\ Stat(t, a.from) = Found(y)
  /\ p \in NewPlace(t, a.to, modes)
  /\ node \in Node /\ node.kind = t[y].kind /\ node.kind # "link"

LEMMA MateMade ==
  ASSUME NEW c, NEW t, NEW q, NEW a, NEW y, NEW modes, NEW p, NEW node,
         Making(c, t, q, a, y, modes, p, node), NEW u, u = With(t, p, node),
         NEW doomed, AllMated(c, t, q, doomed), NEW soon, soon \cap DOMAIN t \subseteq doomed,
         \A x \in soon : x = p \/ IsPrefix(x, p)
  PROVE  /\ p \in Path /\ p \notin DOMAIN t /\ More(t, u, p, node)
         /\ Sound(u) /\ Within(t, u) /\ Fits(c, u)
         /\ Stat(u, a.to) = Found(p) /\ Mate(c, u, q, p, y) /\ AllMated(c, u, q, soon)
<1> DEFINE b == a.to
<1>0. /\ c.from \in Path /\ q \in Path /\ Sound(t) /\ Fits(c, t)
      /\ a.from \in Path /\ a.to \in Path /\ Beneath(c, q, a) /\ Stat(t, a.from) = Found(y)
      /\ p \in NewPlace(t, a.to, modes)
      /\ node \in Node /\ node.kind = t[y].kind /\ node.kind # "link"
  BY DEF Making
<1>1. b \in Path /\ p \in NewPlace(t, b, modes)
  BY <1>0
<1> HIDE DEF b
<1>2. /\ p \in Path /\ p \notin DOMAIN t /\ Front(p) \in DOMAIN t /\ t[Front(p)].kind = "dir"
      /\ Stat(With(t, p, node), b) = Found(p)
  BY <1>0, <1>1, NewIsThere
<1>3. Sound(u) /\ Within(t, u) /\ More(t, u, p, node)
  BY <1>0, <1>2, WithIs
<1>4. Fits(c, u)
  BY <1>0, <1>2, FitsMore
<1>5. Stat(t, a.from).error = "none" /\ Stat(t, a.from).at = y /\ y \in DOMAIN t
  <2>1. Stat(t, a.from).error = "none" /\ Stat(t, a.from).at = y
    BY <1>0, Errors
  <2> QED BY <1>0, <2>1, StatFound
<1>6. Stat(u, a.from) = Found(y)
  BY <1>0, <1>3, <1>5, StatGrows
<1>7. Mate(c, u, q, p, y)
  <2>1. PICK r \in Path : a.from = c.from \o r /\ a.to = q \o r
    BY <1>0 DEF Beneath
  <2>2. Stat(u, q \o r) = Found(p) /\ Stat(u, c.from \o r) = Found(y)
    BY <1>2, <1>6, <2>1 DEF b
  <2>3. u[y].kind = u[p].kind
    BY <1>0, <1>3, <1>5 DEF More
  <2> QED BY <2>2, <2>3 DEF Mate
<1>8. y \in DOMAIN u /\ (y \in soon => IsPrefix(y, p))
  BY <1>2, <1>3, <1>5 DEF More
<1>9. DOMAIN u \subseteq DOMAIN t \cup {p} /\ \A x \in DOMAIN t \ {p} : u[x] = t[x]
  BY <1>3 DEF More
<1>10. AllMated(c, u, q, soon)
  BY <1>0, <1>3, <1>7, <1>8, <1>9, MatedMore
<1> QED BY <1>2, <1>3, <1>4, <1>7, <1>10 DEF b

LEMMA NamedEntersNew ==
  ASSUME CopyInv, pc = "enter", Opens(fs), UNCHANGED req,
         NEW p \in NewPlace(fs, args.to, Writable), NEW m \in {"open", "rw", "ro"},
         fs' = With(fs, p, Dir(m)),
         NEW t, DOMAIN t \subseteq Path, NEW result \in {-1, 0},
         stack' = Append(stack, Frame(t, p, TRUE, result)), pc' \in {"read", "close"},
         NEW q \in Destination(req.tree), NamedIs(req, fs, stack, args, writing, pc, q)
  PROVE  NamedInv'
<1> DEFINE f == Frame(t, p, TRUE, result)
           y == Stat(fs, args.from).at
<1>1. /\ q \in Path /\ req.from \in Path /\ req \in Requests /\ Sound(fs)
      /\ stack \in Seq(Frames) /\ Fits(req, fs) /\ Mates(req, stack, q) /\ Nested(fs, stack)
      /\ AllMated(req, fs, q, Doomed(stack, {}))
  BY NamedGiven
<1>2. NextOf(req, stack, args, q) /\ args.from \in Path /\ args.to \in Path
  BY Taken DEF NamedIs
<1>3. Beneath(req, q, args)
  BY <1>1, <1>2, NamedNext
<1>4. /\ Stat(fs, args.from) = Found(y) /\ fs[y].kind = "dir" /\ y \in DOMAIN fs
  <2>1. Stat(fs, args.from).error = "none" /\ fs[y].kind = "dir" /\ y \in DOMAIN fs
    BY DEF Opens, Is
  <2> QED BY <1>1, <1>2, <2>1, StatFound
<1>5. p \in Path /\ p \notin DOMAIN fs
  BY Taken, NewPlaces
<1>6. /\ f \in Frames /\ f.from = args.from /\ f.to = args.to
      /\ f.place = p /\ f.created = TRUE
  <2>1. \A created \in BOOLEAN :
          LET g == Frame(t, p, created, result)
          IN  g \in Frames /\ g.place = p /\ g.created = created
    BY <1>5, Framed
  <2> QED BY <2>1 DEF Frame
<1>7. AllUnder(stack, p)
  <2> DEFINE c == req
             s == stack
             a == args
             l == fs
             w == Writable
  <2>1. /\ Sound(l) /\ s \in Seq(Frames) /\ Nested(l, s) /\ NextOf(c, s, a, q)
        /\ a.to \in Path /\ p \in NewPlace(l, a.to, w)
    BY <1>1, <1>2
  <2> HIDE DEF c, s, a, l, w
  <2>2. AllUnder(s, p)
    BY <2>1, NewBelowMade
  <2> QED BY <2>2 DEF s
<1> DEFINE doomed == Doomed(stack, {})
           soon == doomed \cup {p}
           node == Dir(m)
           u == fs'
<1>8. node \in Node /\ node.kind = "dir" /\ u = With(fs, p, node)
  BY DEF Dir, Node
<1>9. soon \cap DOMAIN fs \subseteq doomed /\ \A x \in soon : x = p \/ IsPrefix(x, p)
  <2>1. \A x \in doomed : IsPrefix(x, p)
    BY <1>7, DoomedAre DEF AllUnder
  <2> QED BY <1>5, <2>1
<1>10. /\ Sound(u) /\ Within(fs, u) /\ Fits(req, u)
       /\ Stat(u, args.to) = Found(p) /\ AllMated(req, u, q, soon)
  <2> DEFINE c == req
             a == args
             l == fs
             w == Writable
  <2>1. /\ Making(c, l, q, a, y, w, p, node) /\ u = With(l, p, node)
        /\ AllMated(c, l, q, doomed) /\ soon \cap DOMAIN l \subseteq doomed
        /\ \A x \in soon : x = p \/ IsPrefix(x, p)
    BY <1>1, <1>2, <1>3, <1>4, <1>8, <1>9 DEF Making
  <2> HIDE DEF c, a, l, w, y, doomed, soon, node, u
  <2>2. /\ Sound(u) /\ Within(l, u) /\ Fits(c, u)
        /\ Stat(u, a.to) = Found(p) /\ AllMated(c, u, q, soon)
    BY <2>1, MateMade
  <2> QED BY <2>2 DEF c, a, l
<1> HIDE DEF f, y
<1> DEFINE z == Append(stack, f)
<1>11. /\ Mates(req, z, q) /\ Nested(u, z) /\ Doomed(z, {}) = soon
  <2> DEFINE c == req
             s == stack
             l == fs
  <2>1. /\ Mates(c, s, q) /\ Nested(l, s) /\ s \in Seq(Frames) /\ Sound(l)
        /\ Sound(u) /\ Within(l, u) /\ Beneath(c, q, f) /\ Stat(u, f.to) = Found(f.place)
        /\ AllUnder(s, f.place)
    BY <1>1, <1>3, <1>6, <1>7, <1>10 DEF Beneath
  <2> HIDE DEF c, s, l, u
  <2>2. Nested(u, s)
    BY <2>1, NestedGrows
  <2>3. /\ Mates(c, Append(s, f), q) /\ Nested(u, Append(s, f))
        /\ \A x : Doomed(Append(s, f), x) =
                    Doomed(s, x) \cup (IF f.created THEN {f.place} ELSE {})
    BY <1>6, <2>1, <2>2, CallPushed
  <2> QED BY <1>6, <2>3 DEF c, s
<1>12. stack' = z
  BY DEF f
<1> HIDE DEF z, soon, doomed
<1>13. Half(writing', pc') = {}
  BY DEF Half
<1>14. NamedIs(req, fs', stack', args', writing', pc', q)
  BY <1>10, <1>11, <1>12, <1>13 DEF NamedIs
<1> QED BY <1>14, NamedAssembled


(* pc = "enter" *)
LEMMA NamedEnter ==
  ASSUME CopyInv,
         EnterExisting \/ EnterNew \/ EnterNewFails \/ EnterNowhere \/ EnterFails,
         NEW q \in Destination(req.tree), NamedIs(req, fs, stack, args, writing, pc, q)
  PROVE  NamedInv'
<1>1. CASE EnterExisting
  BY <1>1, NamedEntersExisting
<1>2. CASE EnterNew \/ EnterNewFails
  <2>1. pc = "enter" /\ Opens(fs) /\ UNCHANGED req /\ pc' \in {"read", "close"}
    BY <1>2 DEF EnterNew, EnterNewFails
  <2>2. PICK p \in Makeable(fs), m \in {"open", "rw", "ro"}, u \in {fs, fs'}, result \in {-1, 0} :
          fs' = With(fs, p, Dir(m)) /\ stack' = Append(stack, Frame(u, p, TRUE, result))
    BY <1>2 DEF EnterNew, EnterNewFails, Masked
  <2>3. p \in NewPlace(fs, args.to, Writable)
    BY DEF Makeable
  <2>4. DOMAIN u \subseteq Path
    <3>1. p \in Path /\ DOMAIN fs \subseteq Path
      BY <2>3, Taken, NewPlaces DEF TreeOK
    <3> QED BY <2>2, <3>1 DEF With
  <2> QED BY <2>1, <2>2, <2>3, <2>4, NamedEntersNew
<1>3. CASE EnterNowhere \/ EnterFails
  <2>1. PICK v \in {-1, 0} : pc = "enter" /\ Return(stack, v) /\ UNCHANGED <<req, fs>>
    BY <1>3 DEF EnterNowhere, EnterFails
  <2>2. /\ stack \in Seq(Frames) /\ Fits(req, fs) /\ Mates(req, stack, q) /\ Nested(fs, stack)
        /\ AllMated(req, fs, q, Doomed(stack, {}))
    BY <2>1, NamedGiven
  <2> QED BY <2>1, <2>2, NamedReturn
<1> QED BY <1>1, <1>2, <1>3

-----------------------------------------------------------------------------
(* The loop over the entries changes only the innermost frame, and calls   *)
(* for one of its entries.                                                 *)
LEMMA NamedRetop ==
  ASSUME CopyInv, pc = "read", NEW f \in Frames, SetTop(f), SameCall(f, Top),
         UNCHANGED <<req, fs>>, pc' \in {"enter", "file", "close"},
         pc' \in {"enter", "file"} =>
           \E n \in Name : args' = [from |-> Append(Top.from, n), to |-> Append(Top.to, n)],
         NEW q \in Destination(req.tree), NamedIs(req, fs, stack, args, writing, pc, q)
  PROVE  NamedInv'
<1>1. /\ stack \in Seq(Frames) /\ Fits(req, fs) /\ Mates(req, stack, q) /\ Nested(fs, stack)
      /\ AllMated(req, fs, q, Doomed(stack, {}))
  BY NamedGiven
<1>2. stack # <<>> /\ stack' = Append(Front(stack), f) /\ SameCall(f, Last(stack))
  BY TopFrame DEF SetTop, Top
<1>3. SameCalls(stack, stack') /\ stack' # <<>> /\ Last(stack') = f
  BY <1>1, <1>2, CallsRetopped
<1>4. Mates(req, stack', q) /\ Nested(fs, stack') /\ Doomed(stack', {}) = Doomed(stack, {})
  <2> DEFINE z == stack'
             c == req
             l == fs
  <2>1. SameCalls(stack, z) /\ Mates(c, stack, q) /\ Nested(l, stack)
    BY <1>1, <1>3
  <2> HIDE DEF z, c, l
  <2>2. Mates(c, z, q) /\ Nested(l, z) /\ Doomed(z, {}) = Doomed(stack, {})
    BY <2>1, CallsCarry
  <2> QED BY <2>2 DEF z, c, l
<1>5. pc' \in {"enter", "file"} => NextOf(req, stack', args', q)
  BY <1>3 DEF NextOf, SameCall
<1>6. Half(writing', pc') = {} /\ pc' # "write" /\ pc' # "request"
  BY DEF Half
<1>7. NamedIs(req, fs', stack', args', writing', pc', q)
  BY <1>1, <1>4, <1>5, <1>6 DEF NamedIs
<1> QED BY <1>7, NamedAssembled

LEMMA NamedRead ==
  ASSUME CopyInv, NEW n \in Name,
         \/ ReadDirectory(n) \/ ReadFile(n) \/ ReadOther(n) \/ ReadUnreachable(n)
         \/ ReadFails \/ EndOfDirectory,
         NEW q \in Destination(req.tree), NamedIs(req, fs, stack, args, writing, pc, q)
  PROVE  NamedInv'
<1>0. pc = "read"
  BY DEF ReadDirectory, ReadFile, ReadOther, ReadUnreachable, ReadFails, EndOfDirectory
<1>1. Top \in Frames /\ Top.result \in {-1, 0}
  BY <1>0, TopFrame
<1>2. \A r \in {-1, 0} : \A f \in {Top, Seen(n)} :
        LET g == [f EXCEPT !.result = r]
        IN  g \in Frames /\ SameCall(g, Top)
  BY <1>1 DEF Seen, Frames, SameCall
<1>3. Seen(n) \in Frames /\ SameCall(Seen(n), Top) /\ Seen(n).result = Top.result
  BY <1>1 DEF Seen, Frames, SameCall
<1>4. CASE ReadDirectory(n) \/ ReadFile(n)
  <2>1. /\ SetTop(Seen(n)) /\ UNCHANGED <<req, fs>> /\ pc' \in {"enter", "file"}
        /\ args' = [from |-> Append(Top.from, n), to |-> Append(Top.to, n)]
    BY <1>4 DEF ReadDirectory, ReadFile, Call, Child
  <2> QED BY <1>0, <1>3, <2>1, NamedRetop
<1>5. CASE ReadOther(n) \/ EndOfDirectory
  <2>1. PICK f \in {Top, Seen(n)}, r \in {-1, 0} : SetTop([f EXCEPT !.result = r])
    BY <1>5 DEF ReadOther, EndOfDirectory
  <2>2. UNCHANGED <<req, fs>> /\ pc' = "close"
    BY <1>5 DEF ReadOther, EndOfDirectory
  <2> DEFINE g == [f EXCEPT !.result = r]
  <2>3. g \in Frames /\ SameCall(g, Top) /\ SetTop(g)
    BY <1>2, <2>1
  <2> HIDE DEF g
  <2> QED BY <1>0, <2>2, <2>3, NamedRetop
<1>6. CASE ReadUnreachable(n) \/ ReadFails
  <2>1. PICK f \in {Top, Seen(n)} : LeaveLoop(f)
    BY <1>6 DEF ReadUnreachable, ReadFails
  <2>2. f.result \in {-1, 0}
    BY <1>1, <1>3
  <2>3. PICK r \in {-1, 0} : SetTop([f EXCEPT !.result = r])
    BY <2>1, <2>2 DEF LeaveLoop
  <2>4. UNCHANGED <<req, fs>> /\ pc' = "close"
    BY <2>1 DEF LeaveLoop
  <2> DEFINE g == [f EXCEPT !.result = r]
  <2>5. g \in Frames /\ SameCall(g, Top) /\ SetTop(g)
    BY <1>2, <2>3
  <2> HIDE DEF g
  <2> QED BY <1>0, <2>4, <2>5, NamedRetop
<1> QED BY <1>4, <1>5, <1>6


-----------------------------------------------------------------------------
(* An entry gets another content or other permissions. *)
Altered(t, u, p) ==
  /\ DOMAIN u = DOMAIN t /\ p \in DOMAIN t /\ u[p].kind = t[p].kind
  /\ \A x \in DOMAIN t : x # p => u[x] = t[x]

LEMMA AlteredIs ==
  ASSUME NEW t, Sound(t), NEW u, TreeOK(u), NEW p, Altered(t, u, p), t[p].kind # "link"
  PROVE  Sound(u) /\ Within(t, u) /\ \A c : Fits(c, t) => Fits(c, u)
<1>1. Sound(u) /\ Within(t, u)
  BY DEF Altered, Sound, Within
<1>2. \A x \in DOMAIN t : u[x].kind = t[x].kind
  BY DEF Altered
<1>3. ASSUME Shaped(t) PROVE Shaped(u)
  BY <1>2, <1>3 DEF Shaped, Altered, Sound
<1>4. \A c : Fits(c, t) => Fits(c, u)
  BY <1>2, <1>3 DEF Fits, Altered
<1> QED BY <1>1, <1>4

LEMMA MateChanged ==
  ASSUME NEW c, c.from \in Path, NEW q \in Path, NEW t, Sound(t), Fits(c, t),
         NEW u, TreeOK(u), NEW p, Altered(t, u, p), t[p].kind # "link",
         NEW y, Mate(c, t, q, p, y), NEW doomed, AllMated(c, t, q, doomed),
         NEW soon, soon \subseteq doomed, y \notin soon
  PROVE  Sound(u) /\ Within(t, u) /\ Fits(c, u) /\ Mate(c, u, q, p, y) /\ AllMated(c, u, q, soon)
<1>1. Sound(u) /\ Within(t, u) /\ Fits(c, u)
  BY AlteredIs
<1>2. Mate(c, u, q, p, y) /\ y \in DOMAIN t /\ p \in DOMAIN t
  BY <1>1, MateGrows
<1>3. /\ y \in DOMAIN u /\ DOMAIN u \subseteq DOMAIN t \cup {p}
      /\ \A x \in DOMAIN t \ {p} : u[x] = t[x]
  BY <1>2 DEF Altered
<1>4. soon \cap DOMAIN t \subseteq doomed /\ (y \in soon => IsPrefix(y, p))
  OBVIOUS
<1>5. AllMated(c, u, q, soon)
  BY <1>1, <1>2, <1>3, <1>4, MatedMore
<1> QED BY <1>1, <1>2, <1>5

LEMMA DataChanged ==
  ASSUME NEW t, TreeOK(t), NEW p \in DOMAIN t, t[p].kind = "file",
         NEW d \in Content \cup {Torn}, NEW m \in {"rw", "ro"},
         NEW u, u = WithFile(t, p, d, m)
  PROVE  TreeOK(u) /\ Altered(t, u, p)
<1>1. DOMAIN u = DOMAIN t /\ u[p] = File(d, m) /\ \A x \in DOMAIN t : x # p => u[x] = t[x]
  BY DEF WithFile
<1>2. u[p].kind = "file" /\ u[p] \in Node
  BY <1>1 DEF File, Node
<1>3. TreeOK(u)
  BY <1>1, <1>2 DEF TreeOK
<1> QED BY <1>1, <1>2, <1>3 DEF Altered

(* No file may go with the directories. *)
LEMMA FilesStay ==
  ASSUME CopyInv, NEW q \in Destination(req.tree), NEW w, NEW ph,
         NamedIs(req, fs, stack, args, w, ph, q), NEW y \in DOMAIN fs, fs[y].kind = "file"
  PROVE  y \notin Doomed(stack, {})
<1>1. \A i \in DOMAIN stack : stack[i].created =>
              stack[i].place \in DOMAIN fs /\ fs[stack[i].place].kind = "dir"
  BY NamedGiven
<1> QED BY <1>1, DoomedAre

(* pc = "file" *)
LEMMA NamedOpensOver ==
  ASSUME CopyInv, OpenOver, NEW q \in Destination(req.tree),
         NamedIs(req, fs, stack, args, writing, pc, q)
  PROVE  NamedInv'
<1>1. /\ pc = "file" /\ pc' = "write" /\ UNCHANGED <<req, stack, args>>
  BY DEF OpenOver
<1>2. PICK p \in Overwritten(fs), m \in {"rw", "ro"} :
        /\ fs' = WithFile(fs, p, Torn, m)
        /\ writing' = [place |-> p, created |-> FALSE, source |-> Source(fs).at]
  BY OpenedOver
<1> DEFINE y == Source(fs).at
           u == fs'
           d == Torn
<1>3. /\ q \in Path /\ req.from \in Path /\ Sound(fs) /\ stack \in Seq(Frames)
      /\ Fits(req, fs) /\ Mates(req, stack, q) /\ Nested(fs, stack)
      /\ AllMated(req, fs, q, Doomed(stack, {}))
  BY <1>1, NamedGiven
<1>4. NextOf(req, stack, args, q) /\ args.from \in Path /\ args.to \in Path
  BY <1>1, Taken DEF NamedIs
<1>5. Beneath(req, q, args)
  BY <1>3, <1>4, NamedNext
<1>6. /\ p \in DOMAIN fs /\ fs[p].kind = "file" /\ y \in DOMAIN fs /\ fs[y].kind = "file"
      /\ Stat(fs, args.to) = Found(p) /\ Stat(fs, args.from) = Found(y)
  <2>1. /\ p \in DOMAIN fs /\ fs[p].kind = "file" /\ y \in DOMAIN fs /\ fs[y].kind = "file"
        /\ Stat(fs, args.to).error = "none" /\ Stat(fs, args.from).error = "none"
        /\ p = Stat(fs, args.to).at /\ y = Stat(fs, args.from).at
    BY DEF Overwritten, Is, Source
  <2> HIDE DEF y
  <2> QED BY <1>3, <1>4, <2>1, StatFound
<1>7. TreeOK(u) /\ Altered(fs, u, p)
  <2>1. TreeOK(fs) /\ d \in Content \cup {Torn} /\ u = WithFile(fs, p, d, m)
    BY <1>2, Taken
  <2> HIDE DEF d, u
  <2> QED BY <1>6, <2>1, DataChanged
<1>8. Mate(req, fs, q, p, y)
  <2>1. PICK r \in Path : args.from = req.from \o r /\ args.to = q \o r
    BY <1>5 DEF Beneath
  <2> QED BY <1>6, <2>1 DEF Mate
<1>9. y \notin Doomed(stack, {})
  BY <1>6, FilesStay
<1>10. Within(fs, u) /\ Fits(req, u) /\ Mate(req, u, q, p, y) /\ AllMated(req, u, q, Doomed(stack, {}))
       /\ Sound(u)
  <2> DEFINE c == req
             l == fs
             x == Doomed(stack, {})
  <2>1. /\ c.from \in Path /\ Sound(l) /\ Fits(c, l) /\ TreeOK(u) /\ Altered(l, u, p)
        /\ l[p].kind # "link" /\ Mate(c, l, q, p, y) /\ AllMated(c, l, q, x) /\ y \notin x
    BY <1>3, <1>6, <1>7, <1>8, <1>9
  <2> HIDE DEF c, l, x, y, u
  <2>2. Sound(u) /\ Within(l, u) /\ Fits(c, u) /\ Mate(c, u, q, p, y) /\ AllMated(c, u, q, x)
    BY <1>3, <2>1, MateChanged
  <2> QED BY <2>2 DEF c, l, x
<1>11. Nested(u, stack)
  <2> DEFINE l == fs
  <2>1. Sound(l) /\ Within(l, u) /\ Nested(l, stack)
    BY <1>3, <1>10
  <2> HIDE DEF l, u
  <2> QED BY <1>3, <1>10, <2>1, NestedGrows
<1>12. /\ Half(writing', pc') = {} /\ writing'.place = p /\ writing'.source = y
  BY <1>2 DEF Half
<1> HIDE DEF y
<1>13. NamedIs(req, fs', stack', args', writing', pc', q)
  BY <1>1, <1>3, <1>10, <1>11, <1>12 DEF NamedIs
<1> QED BY <1>1, <1>13, NamedAssembled

LEMMA NamedOpensNew ==
  ASSUME CopyInv, OpenNew, NEW q \in Destination(req.tree),
         NamedIs(req, fs, stack, args, writing, pc, q)
  PROVE  NamedInv'
<1> DEFINE y == Source(fs).at
           node == File(Torn, Masked(fs[y].mode))
           u == fs'
<1>1. /\ pc = "file" /\ pc' = "write" /\ UNCHANGED <<req, stack, args>>
  BY DEF OpenNew
<1>2. PICK p \in Created(fs) :
        /\ u = With(fs, p, node)
        /\ writing' = [place |-> p, created |-> TRUE, source |-> y]
  BY DEF OpenNew, ModeOf
<1>3. /\ q \in Path /\ req.from \in Path /\ Sound(fs) /\ stack \in Seq(Frames)
      /\ Fits(req, fs) /\ Mates(req, stack, q) /\ Nested(fs, stack)
      /\ AllMated(req, fs, q, Doomed(stack, {}))
  BY <1>1, NamedGiven
<1>4. NextOf(req, stack, args, q) /\ args.from \in Path /\ args.to \in Path
  BY <1>1, Taken DEF NamedIs
<1>5. Beneath(req, q, args)
  BY <1>3, <1>4, NamedNext
<1>6. /\ p \in NewPlace(fs, args.to, Writable) /\ y \in DOMAIN fs /\ fs[y].kind = "file"
      /\ Stat(fs, args.from) = Found(y)
  <2>1. /\ p \in NewPlace(fs, args.to, Writable) /\ y \in DOMAIN fs /\ fs[y].kind = "file"
        /\ Stat(fs, args.from).error = "none" /\ y = Stat(fs, args.from).at
    BY DEF Created, Is, Source
  <2> HIDE DEF y
  <2> QED BY <1>3, <1>4, <2>1, StatFound
<1>7. p \in Path /\ p \notin DOMAIN fs
  BY <1>6, Taken, NewPlaces
<1>8. node \in Node /\ node.kind = "file"
  <2>1. Masked(fs[y].mode) \in {"rw", "ro"}
    BY <1>6, Taken DEF TreeOK, Node, Masked
  <2> QED BY <2>1 DEF File, Node
<1>9. AllUnder(stack, p)
  <2> DEFINE c == req
             s == stack
             a == args
             l == fs
             w == Writable
  <2>1. /\ Sound(l) /\ s \in Seq(Frames) /\ Nested(l, s) /\ NextOf(c, s, a, q)
        /\ a.to \in Path /\ p \in NewPlace(l, a.to, w)
    BY <1>3, <1>4, <1>6
  <2> HIDE DEF c, s, a, l, w
  <2>2. AllUnder(s, p)
    BY <2>1, NewBelowMade
  <2> QED BY <2>2 DEF s
<1> DEFINE doomed == Doomed(stack, {})
           soon == Doomed(stack, {p})
<1>10. soon = doomed \cup {p}
  BY DEF Doomed
<1>11. soon \cap DOMAIN fs \subseteq doomed /\ \A x \in soon : x = p \/ IsPrefix(x, p)
  <2>1. \A x \in doomed : IsPrefix(x, p)
    BY <1>9, DoomedAre DEF AllUnder
  <2> QED BY <1>7, <1>10, <2>1
<1>12. /\ Sound(u) /\ Within(fs, u) /\ Fits(req, u)
       /\ Mate(req, u, q, p, y) /\ AllMated(req, u, q, soon)
  <2> DEFINE c == req
             a == args
             l == fs
             w == Writable
  <2>1. /\ Making(c, l, q, a, y, w, p, node) /\ u = With(l, p, node)
        /\ AllMated(c, l, q, doomed) /\ soon \cap DOMAIN l \subseteq doomed
        /\ \A x \in soon : x = p \/ IsPrefix(x, p)
    <3> HIDE DEF y, soon, doomed, node
    <3> QED BY <1>2, <1>3, <1>4, <1>5, <1>6, <1>8, <1>11 DEF Making, doomed
  <2> HIDE DEF c, a, l, w, y, doomed, soon, node, u
  <2>2. Sound(u) /\ Within(l, u) /\ Fits(c, u) /\ Mate(c, u, q, p, y) /\ AllMated(c, u, q, soon)
    BY <2>1, MateMade
  <2> QED BY <2>2 DEF c, a, l
<1>13. Nested(u, stack)
  <2> DEFINE l == fs
  <2>1. Sound(l) /\ Within(l, u) /\ Nested(l, stack)
    BY <1>3, <1>12
  <2> HIDE DEF l, u
  <2> QED BY <1>3, <1>12, <2>1, NestedGrows
<1>14. Half(writing', pc') = {p} /\ writing'.place = p /\ writing'.source = y
  BY <1>1, <1>2 DEF Half
<1> HIDE DEF y, node
<1>15. NamedIs(req, fs', stack', args', writing', pc', q)
  BY <1>1, <1>3, <1>12, <1>13, <1>14 DEF NamedIs
<1> QED BY <1>1, <1>15, NamedAssembled

LEMMA NamedOpen ==
  ASSUME CopyInv, OpenOver \/ OpenNew \/ OpenPipe \/ OpenFails, NEW q \in Destination(req.tree),
         NamedIs(req, fs, stack, args, writing, pc, q)
  PROVE  NamedInv'
<1>1. CASE OpenPipe \/ OpenFails
  <2>1. pc = "file" /\ Return(stack, -1) /\ UNCHANGED <<req, fs>>
    BY <1>1 DEF OpenPipe, OpenFails
  <2>2. /\ stack \in Seq(Frames) /\ Fits(req, fs) /\ Mates(req, stack, q) /\ Nested(fs, stack)
        /\ AllMated(req, fs, q, Doomed(stack, {}))
    BY <2>1, NamedGiven
  <2> QED BY <2>1, <2>2, NamedReturn
<1> QED BY <1>1, NamedOpensOver, NamedOpensNew


-----------------------------------------------------------------------------
(* The file has been written, or has not. *)
LEMMA NamedWritten ==
  ASSUME CopyInv, Written, NEW q \in Destination(req.tree),
         NamedIs(req, fs, stack, args, writing, pc, q)
  PROVE  NamedInv'
<1> DEFINE p == writing.place
           y == writing.source
           u == fs'
           doomed == Doomed(stack, Half(writing, pc))
           soon == Doomed(stack, {})
<1>1. pc = "write" /\ UNCHANGED req /\ Return(stack, 0)
  BY DEF Written
<1>2. /\ q \in Path /\ req.from \in Path /\ Sound(fs) /\ stack \in Seq(Frames)
      /\ Fits(req, fs) /\ Mates(req, stack, q) /\ Nested(fs, stack) /\ soon \subseteq doomed
  BY NamedGiven
<1>3. p \in DOMAIN fs /\ fs[p].kind = "file" /\ y \in DOMAIN fs /\ fs[y].kind = "file"
  BY <1>1, Taken
<1>4. y \notin soon
  BY <1>3, FilesStay
<1>5. Mate(req, fs, q, p, y) /\ AllMated(req, fs, q, doomed)
  BY <1>1 DEF NamedIs
<1>6. TreeOK(u) /\ Altered(fs, u, p)
  <2>1. PICK d \in Content \cup {Torn}, m \in {"rw", "ro"} : u = WithFile(fs, p, d, m)
    BY WrittenOver
  <2>2. TreeOK(fs)
    BY Taken
  <2> HIDE DEF u, p
  <2> QED BY <1>3, <2>1, <2>2, DataChanged
<1>7. Sound(u) /\ Within(fs, u) /\ Fits(req, u) /\ AllMated(req, u, q, soon)
  <2> DEFINE c == req
             l == fs
  <2>1. /\ c.from \in Path /\ Sound(l) /\ Fits(c, l) /\ TreeOK(u) /\ Altered(l, u, p)
        /\ l[p].kind # "link" /\ Mate(c, l, q, p, y) /\ AllMated(c, l, q, doomed)
        /\ soon \subseteq doomed /\ y \notin soon
    BY <1>2, <1>3, <1>4, <1>5, <1>6
  <2> HIDE DEF c, l, y, u, p, doomed, soon
  <2>2. Sound(u) /\ Within(l, u) /\ Fits(c, u) /\ AllMated(c, u, q, soon)
    BY <1>2, <2>1, MateChanged
  <2> QED BY <2>2 DEF c, l
<1>8. Nested(u, stack)
  <2> DEFINE l == fs
  <2>1. Sound(l) /\ Within(l, u) /\ Nested(l, stack)
    BY <1>2, <1>7
  <2> HIDE DEF l, u
  <2> QED BY <1>2, <1>7, <2>1, NestedGrows
<1> QED BY <1>1, <1>2, <1>7, <1>8, NamedReturn

LEMMA NamedWriteFails ==
  ASSUME CopyInv, WriteFails, NEW q \in Destination(req.tree),
         NamedIs(req, fs, stack, args, writing, pc, q)
  PROVE  NamedInv'
<1> DEFINE p == writing.place
           u == fs'
           doomed == Doomed(stack, Half(writing, pc))
           soon == Doomed(stack, {})
<1>1. pc = "write" /\ UNCHANGED req /\ Return(stack, -1)
  BY DEF WriteFails
<1>2. /\ q \in Path /\ req.from \in Path /\ Sound(fs) /\ stack \in Seq(Frames)
      /\ Fits(req, fs) /\ Mates(req, stack, q) /\ Nested(fs, stack) /\ soon \subseteq doomed
  BY NamedGiven
<1>3. p \in DOMAIN fs /\ fs[p].kind = "file"
  BY <1>1, Taken
<1>4. AllMated(req, fs, q, doomed)
  BY <1>1 DEF NamedIs
<1>5. CASE UNCHANGED fs
  <2>1. AllMated(req, fs, q, soon)
    BY <1>2, <1>4 DEF AllMated, Mated
  <2> QED BY <1>1, <1>2, <1>5, <2>1, NamedReturn
<1>6. CASE writing.created /\ u = Without(fs, p)
  <2>1. p # <<>> /\ p \in Path
    <3>1. Sound(req.tree)
      BY Given
    <3>2. p \notin DOMAIN req.tree
      BY <1>1, <1>6, Taken
    <3> QED BY <1>2, <1>3, <3>1, <3>2 DEF Sound, TreeOK
  <2>2. Sound(u) /\ Less(fs, u, p) /\ Shaped(u)
    <3> DEFINE l == fs
    <3>1. Sound(l) /\ u = Without(l, p) /\ Shaped(l) /\ p \in DOMAIN l /\ l[p].kind # "dir"
      BY <1>2, <1>3, <1>6 DEF Fits
    <3> HIDE DEF l, p, u
    <3>2. Sound(u) /\ Less(l, u, p) /\ Shaped(u)
      BY <2>1, <3>1, WithoutIs
    <3> QED BY <3>2 DEF l
  <2>3. Fits(req, u)
    BY <1>2, <2>2 DEF Fits, Less
  <2>4. p \in doomed
    BY <1>1, <1>6 DEF Doomed, Half
  <2>5. AllMated(req, u, q, soon)
    <3> DEFINE c == req
               l == fs
    <3>1. /\ c.from \in Path /\ Sound(l) /\ Shaped(l) /\ p \in DOMAIN l /\ l[p].kind = "file"
          /\ Less(l, u, p) /\ AllMated(c, l, q, doomed) /\ soon \subseteq doomed
      BY <1>2, <1>3, <1>4, <2>2 DEF Fits
    <3> HIDE DEF c, l, u, p, doomed, soon
    <3>2. AllMated(c, u, q, soon)
      BY <1>2, <2>1, <2>2, <2>4, <3>1, MatedLess
    <3> QED BY <3>2 DEF c
  <2>6. Nested(u, stack)
    <3>1. \A i \in DOMAIN stack : stack[i].place # p
      <4>1. Held(fs, stack)
        BY Taken
      <4> HIDE DEF p
      <4> QED BY <1>3, <4>1 DEF Held
    <3> DEFINE l == fs
               s == stack
    <3>2. /\ Sound(l) /\ p \in DOMAIN l /\ l[p].kind = "file" /\ Less(l, u, p)
          /\ Nested(l, s) /\ s \in Seq(Frames) /\ \A i \in DOMAIN s : s[i].place # p
      BY <1>2, <1>3, <2>2, <3>1
    <3> HIDE DEF l, u, p, s
    <3>3. Nested(u, s)
      BY <2>1, <2>2, <3>2, NestedLess
    <3> QED BY <3>3 DEF s
  <2> QED BY <1>1, <1>2, <2>3, <2>5, <2>6, NamedReturn
<1> QED BY <1>5, <1>6 DEF WriteFails


-----------------------------------------------------------------------------
(* The directory that has been copied gets its permissions back, and goes  *)
(* again when it was made for nothing.                                     *)
LEMMA MatedLater ==
  ASSUME NEW c, NEW q, NEW t, NEW doomed, AllMated(c, t, q, doomed), NEW soon, soon \subseteq doomed
  PROVE  AllMated(c, t, q, soon)
BY DEF AllMated, Mated

LEMMA NamedRestored ==
  ASSUME CopyInv, pc = "close", NEW mode \in {"rw", "ro", "open"}, NEW t, t = Restored(mode),
         NEW q \in Destination(req.tree), NamedIs(req, fs, stack, args, writing, pc, q)
  PROVE  /\ Sound(t) /\ Fits(req, t) /\ Nested(t, stack) /\ DOMAIN t = DOMAIN fs
         /\ AllMated(req, t, q, Doomed(stack, {}))
         /\ t[Top.place].kind = "dir"
<1>1. /\ q \in Path /\ req.from \in Path /\ Sound(fs) /\ stack \in Seq(Frames)
      /\ Fits(req, fs) /\ Nested(fs, stack) /\ AllMated(req, fs, q, Doomed(stack, {}))
  BY NamedGiven
<1>2. /\ Top.place \in DOMAIN fs /\ fs[Top.place].kind = "dir"
      /\ Top.created => Top.place \notin DOMAIN req.tree
  BY TopFrame
<1>3. CASE t = fs
  BY <1>1, <1>2, <1>3
<1>4. CASE t # fs
  <2> DEFINE p == Top.place
  <2>1. Top.created /\ t = [fs EXCEPT ![p] = Dir(mode)]
    BY <1>4 DEF Restored
  <2>2. Dir(mode) \in Node /\ Dir(mode).kind = "dir"
    BY DEF Dir, Node
  <2>3. /\ DOMAIN t = DOMAIN fs /\ t[p] = Dir(mode)
        /\ \A x \in DOMAIN fs : x # p => t[x] = fs[x]
    BY <1>2, <2>1
  <2>4. TreeOK(t) /\ Altered(fs, t, p) /\ p \notin DOMAIN req.tree /\ t[p].kind = "dir"
    BY <1>2, <2>1, <2>2, <2>3, Taken DEF TreeOK, Altered
  <2> DEFINE l == fs
             c == req
             x == Doomed(stack, {})
  <2>5. /\ Sound(l) /\ Altered(l, t, p) /\ l[p].kind # "link" /\ Fits(c, l) /\ Nested(l, stack)
        /\ c.from \in Path /\ AllMated(c, l, q, x) /\ p \notin DOMAIN c.tree
    BY <1>1, <1>2, <2>4
  <2> HIDE DEF l, c, x, p
  <2>6. Sound(t) /\ Within(l, t) /\ Fits(c, t)
    BY <2>4, <2>5, AlteredIs
  <2>7. Nested(t, stack)
    BY <1>1, <2>5, <2>6, NestedGrows
  <2>8. \A z \in DOMAIN t : New(c, t, z) => New(c, l, z)
    BY <2>5 DEF New, Altered
  <2>9. AllMated(c, t, q, x)
    BY <1>1, <2>5, <2>6, <2>8, MatedGrow
  <2> QED BY <2>3, <2>4, <2>6, <2>7, <2>9 DEF c, x, p
<1> QED BY <1>3, <1>4

(* No other frame uses a directory that the innermost one has made.        *)
LEMMA TopAlone ==
  ASSUME CopyInv, pc = "close", Top.created
  PROVE  /\ \A i \in DOMAIN Front(stack) : Front(stack)[i].place # Top.place
         /\ Top.place \in Doomed(stack, {})
<1>1. stack # <<>> /\ stack \in Seq(Frames) /\ Own(stack)
  BY TopFrame, Taken
<1>2. /\ Last(stack) = stack[Len(stack)] /\ Len(stack) \in Nat \ {0}
      /\ Len(Front(stack)) = Len(stack) - 1 /\ Front(stack) \in Seq(Frames)
      /\ \A i \in 1 .. Len(stack) - 1 : Front(stack)[i] = stack[i]
  BY <1>1, Stacks
<1>3. Len(stack) \in DOMAIN stack /\ Top = stack[Len(stack)]
  BY <1>1, <1>2 DEF Top
<1>4. \A i \in DOMAIN Front(stack) :
        i \in DOMAIN stack /\ i < Len(stack) /\ Front(stack)[i] = stack[i]
  BY <1>1, <1>2
<1>5. \A i \in DOMAIN Front(stack) : Front(stack)[i].place # Top.place
  BY <1>1, <1>3, <1>4 DEF Own
<1>6. Top.place \in Doomed(stack, {})
  BY <1>3 DEF Doomed
<1> QED BY <1>5, <1>6

LEMMA NamedClose ==
  ASSUME CopyInv, CloseDirectory \/ CloseFails, NEW q \in Destination(req.tree),
         NamedIs(req, fs, stack, args, writing, pc, q)
  PROVE  NamedInv'
<1>1. pc = "close" /\ UNCHANGED req
  BY DEF CloseDirectory, CloseFails
<1>2. /\ stack # <<>> /\ Top.result \in {-1, 0} /\ stack \in Seq(Frames)
      /\ Top.at \in DOMAIN fs /\ fs[Top.at].kind = "dir" /\ Top.place \in DOMAIN fs
      /\ Top.created => Top.place \notin DOMAIN req.tree
  BY <1>1, TopFrame, Taken
<1>3. fs[Top.at].mode \in {"rw", "ro", "open"}
  BY <1>2, Taken DEF TreeOK, Node
<1>4. PICK mode \in {"rw", "ro", "open"}, result \in {-1, 0} :
        fs' = Cleaned(Restored(mode), result) /\ Return(Front(stack), result)
  BY <1>2, <1>3 DEF CloseDirectory, CloseFails
<1> DEFINE t == Restored(mode)
           s == Front(stack)
           p == Top.place
           u == fs'
           doomed == Doomed(stack, {})
           soon == Doomed(s, {})
<1>5. /\ Sound(t) /\ Fits(req, t) /\ Nested(t, stack) /\ DOMAIN t = DOMAIN fs
      /\ AllMated(req, t, q, doomed) /\ t[p].kind = "dir"
  <2> DEFINE z == Restored(mode)
  <2>1. z = Restored(mode)
    OBVIOUS
  <2> HIDE DEF z
  <2>2. /\ Sound(z) /\ Fits(req, z) /\ Nested(z, stack) /\ DOMAIN z = DOMAIN fs
        /\ AllMated(req, z, q, doomed) /\ z[p].kind = "dir"
    BY <1>1, <2>1, NamedRestored
  <2> QED BY <2>1, <2>2
<1>6. Mates(req, stack, q) /\ q \in Path /\ req.from \in Path
  BY <1>1, NamedGiven
<1> HIDE DEF t
<1>7. Mates(req, s, q) /\ Nested(t, s) /\ soon \subseteq doomed /\ s \in Seq(Frames)
  <2> DEFINE c == req
  <2>1. Mates(c, stack, q)
    BY <1>6
  <2> HIDE DEF c
  <2>2. Mates(c, s, q) /\ Nested(t, s) /\ soon \subseteq doomed /\ s \in Seq(Frames)
    BY <1>2, <1>5, <2>1, CallsOfFront
  <2> QED BY <2>2 DEF c
<1>8. CASE u = t
  <2>1. AllMated(req, t, q, soon)
    <3> DEFINE c == req
    <3>1. AllMated(c, t, q, doomed)
      BY <1>5
    <3> HIDE DEF c, doomed, soon
    <3>2. AllMated(c, t, q, soon)
      BY <1>7, <3>1, MatedLater
    <3> QED BY <3>2 DEF c
  <2> QED BY <1>1, <1>4, <1>5, <1>7, <1>8, <2>1, NamedReturn
<1>9. CASE Top.created /\ u = Without(t, p) /\ Entries(t, p) = {}
  <2>1. p # <<>> /\ p \in Path /\ p \in DOMAIN t
    <3>1. Sound(req.tree) /\ Sound(fs)
      BY Given
    <3>2. p \notin DOMAIN req.tree
      BY <1>2, <1>9
    <3> QED BY <1>2, <1>5, <3>1, <3>2 DEF Sound, TreeOK
  <2>2. Sound(u) /\ Less(t, u, p) /\ Shaped(u)
    <3>1. Sound(t) /\ u = Without(t, p) /\ Shaped(t) /\ Entries(t, p) = {}
      BY <1>5, <1>9 DEF Fits
    <3> HIDE DEF p, u
    <3> QED BY <2>1, <3>1, WithoutIs
  <2>3. Fits(req, u)
    BY <1>5, <2>2 DEF Fits, Less
  <2>4. p \in doomed /\ \A i \in DOMAIN s : s[i].place # p
    BY <1>1, <1>9, TopAlone
  <2>5. AllMated(req, u, q, soon)
    <3> DEFINE c == req
    <3>1. /\ c.from \in Path /\ Shaped(t) /\ t[p].kind = "dir" /\ AllMated(c, t, q, doomed)
      BY <1>5, <1>6 DEF Fits
    <3> HIDE DEF c, u, p, doomed, soon
    <3>2. AllMated(c, u, q, soon)
      BY <1>5, <1>6, <1>7, <1>9, <2>1, <2>2, <2>4, <3>1, MatedLess
    <3> QED BY <3>2 DEF c
  <2>6. Nested(u, s)
    <3> HIDE DEF u, p, s
    <3> QED BY <1>5, <1>7, <1>9, <2>1, <2>2, <2>4, NestedLess
  <2> QED BY <1>1, <1>4, <1>7, <2>3, <2>5, <2>6, NamedReturn
<1> QED BY <1>4, <1>8, <1>9 DEF Cleaned, t


-----------------------------------------------------------------------------
LEMMA NamedStep == CopyInv /\ NamedInv /\ [Next]_vars => NamedInv'
<1> SUFFICES ASSUME CopyInv, NamedInv, [Next]_vars PROVE NamedInv'
  OBVIOUS
<1>0. UNCHANGED req
  BY DEF Next, Step, vars, CopyDir, CopyFile, RefuseCopy, EnterExisting, EnterNew,
         EnterNewFails, EnterNowhere, EnterFails, OpenPipe,
         ReadDirectory, ReadFile, ReadOther, ReadUnreachable, ReadFails,
         EndOfDirectory, OpenOver, OpenNew, OpenFails, Written, WriteFails, CloseDirectory,
         CloseFails, Call, LeaveLoop
<1>1. CASE UNCHANGED vars
  <2>1. UNCHANGED <<req, fs, pc, stack, args, writing>>
    BY <1>1 DEF vars
  <2>2. CASE fs = req.tree /\ stack = <<>> /\ pc \in {"request", "done"}
    BY <2>1, <2>2 DEF NamedInv
  <2>3. CASE \E q \in Destination(req.tree) : NamedIs(req, fs, stack, args, writing, pc, q)
    <3>1. PICK q \in Destination(req.tree) : NamedIs(req, fs, stack, args, writing, pc, q)
      BY <2>3
    <3>2. NamedIs(req, fs', stack', args', writing', pc', q)
      BY <2>1, <3>1
    <3> QED BY <1>0, <3>2, NamedAssembled
  <2> QED BY <2>2, <2>3 DEF NamedInv
<1>2. CASE CopyDir \/ CopyFile \/ RefuseCopy
  <2>1. pc = "request"
    BY <1>2 DEF CopyDir, CopyFile, RefuseCopy
  <2>2. fs = req.tree /\ stack = <<>>
    BY <2>1 DEF NamedInv, NamedIs
  <2> QED BY <1>2, <2>2, NamedRequest
<1>3. CASE pc \notin {"request", "done"}
  <2>1. PICK q \in Destination(req.tree) : NamedIs(req, fs, stack, args, writing, pc, q)
    BY <1>3 DEF NamedInv
  <2>2. CASE EnterExisting \/ EnterNew \/ EnterNewFails \/ EnterNowhere \/ EnterFails
    BY <2>1, <2>2, NamedEnter
  <2>3. ASSUME NEW n \in Name,
               \/ ReadDirectory(n) \/ ReadFile(n) \/ ReadOther(n) \/ ReadUnreachable(n)
               \/ ReadFails \/ EndOfDirectory
        PROVE  NamedInv'
    BY <2>1, <2>3, NamedRead
  <2>4. CASE ReadFails \/ EndOfDirectory
    <3>1. Last(req.from) \in Name
      BY Given, FrontLast
    <3> QED BY <2>3, <2>4, <3>1
  <2>5. CASE OpenOver \/ OpenNew \/ OpenPipe \/ OpenFails
    BY <2>1, <2>5, NamedOpen
  <2>6. CASE Written \/ WriteFails
    BY <2>1, <2>6, NamedWritten, NamedWriteFails
  <2>7. CASE CloseDirectory \/ CloseFails
    BY <2>1, <2>7, NamedClose
  <2> QED BY <1>1, <1>2, <2>2, <2>3, <2>4, <2>5, <2>6, <2>7 DEF Next, Step
<1>4. CASE pc \in {"request", "done"}
  BY <1>1, <1>2, <1>4 DEF Next, Step, EnterExisting, EnterNew, EnterNewFails, EnterNowhere,
     EnterFails, OpenPipe, ReadDirectory, ReadFile, ReadOther, ReadUnreachable, ReadFails,
     EndOfDirectory, OpenOver, OpenNew, OpenFails,
     Written, WriteFails, CloseDirectory, CloseFails
<1> QED BY <1>3, <1>4

LEMMA NamedMeans == CopyInv /\ NamedInv => OnlyCounterparts
<1> SUFFICES ASSUME CopyInv, NamedInv, NEW p \in Changed
             PROVE  \E q \in Destination(req.tree) : \E r \in Below(fs, req.from) :
                      /\ Stat(fs, q \o r) = Found(p)
                      /\ fs[Stat(fs, req.from \o r).at].kind = fs[p].kind
  BY DEF OnlyCounterparts
<1>1. PICK q \in Destination(req.tree) : NamedIs(req, fs, stack, args, writing, pc, q)
  BY DEF NamedInv, Changed
<1>2. p \in DOMAIN fs /\ New(req, fs, p)
  BY DEF Changed, New
<1>3. AllMated(req, fs, q, Doomed(stack, Half(writing, pc)))
  BY <1>1 DEF NamedIs
<1>4. PICK y \in DOMAIN fs : Mate(req, fs, q, p, y)
  <2> HIDE DEF Mate
  <2> QED BY <1>2, <1>3 DEF AllMated, Mated
<1>5. PICK r \in Path : Stat(fs, q \o r) = Found(p) /\ Stat(fs, req.from \o r) = Found(y)
  BY <1>4 DEF Mate
<1>6. Stat(fs, req.from \o r).error = "none" /\ Stat(fs, req.from \o r).at = y
  BY <1>5, Errors
<1>7. r \in Relative
  <2> DEFINE f == req.from
             z == f \o r
             t == fs
  <2>1. Sound(t) /\ f \in Path /\ Stat(t, z).error = "none"
    BY <1>6, Given
  <2>2. z \in Path /\ Len(z) = Len(f) + Len(r) /\ Len(f) \in Nat /\ Len(r) \in Nat
    <3> HIDE DEF f
    <3> QED BY <2>1, PrefixOfConcat DEF Path
  <2> HIDE DEF f, z, t
  <2>3. Len(z) <= MaxPath
    BY <2>1, <2>2, StatFound
  <2>4. Len(r) \in 0 .. MaxPath
    BY <2>2, <2>3, Limits
  <2>5. r \in [1 .. Len(r) -> Name]
    BY DEF Path
  <2> QED BY <2>4, <2>5 DEF Relative
<1>8. r \in Below(fs, req.from)
  BY <1>6, <1>7 DEF Below
<1>9. fs[y].kind = fs[p].kind
  BY <1>4 DEF Mate
<1> QED BY <1>5, <1>6, <1>8, <1>9

-----------------------------------------------------------------------------
(***************************************************************************)
(* A copy goes through the names below its source in the order of its      *)
(* stack. Coming are the names it has still to come to. Every other name   *)
(* has a faithful copy, or two names meet in one file or one new directory *)
(* (Got, Twice); what is new is the copy of a name that is past (Pasts);   *)
(* only the file that is being written is torn (Clean). That lasts until a *)
(* call fails: from then on nothing new is torn unless a file of the copy  *)
(* was written over under a second name, and all that is returned to fails *)
(* (FailedIs).                                                             *)
(***************************************************************************)
(* The names that a copy has still to come to: below the one it is at, and *)
(* below those that a frame has not seen.                                  *)
Coming(s, a, ph, x) ==
  \/ ph \in {"enter", "file", "write"} /\ IsPrefix(a.from, x)
  \/ \E i \in DOMAIN s : \E n \in Name \ s[i].seen : IsPrefix(Append(s[i].from, n), x)

BelowSeen(f, x) == \E m \in f.seen : IsPrefix(Append(f.from, m), x)
InLine(s, a, ph) ==
  /\ \A i, j \in DOMAIN s : i < j => BelowSeen(s[i], s[j].from)
  /\ ph \in {"enter", "file", "write"} => \A i \in DOMAIN s : BelowSeen(s[i], a.from)

UpToResult(s, z) ==
  /\ DOMAIN z = DOMAIN s
  /\ \A i \in DOMAIN s :
       /\ z[i].from = s[i].from /\ z[i].to = s[i].to /\ z[i].at = s[i].at
       /\ z[i].place = s[i].place /\ z[i].created = s[i].created
       /\ z[i].listed = s[i].listed /\ z[i].seen = s[i].seen

LEMMA OneName ==
  ASSUME NEW d \in Path, NEW n \in Name, NEW m \in Name, NEW x \in Path,
         IsPrefix(Append(d, n), x), IsPrefix(Append(d, m), x)
  PROVE  n = m
<1> DEFINE a == Append(d, n)
           b == Append(d, m)
<1>1. /\ a \in Path /\ b \in Path /\ Len(a) = Len(d) + 1 /\ Len(b) = Len(d) + 1
      /\ Last(a) = n /\ Last(b) = m /\ Len(d) \in Nat
  <2>1. Len(d) \in Nat
    BY DEF Path
  <2> QED BY <2>1, EntryOf
<1>2. IsPrefix(a, x) /\ IsPrefix(b, x)
  OBVIOUS
<1> HIDE DEF a, b
<1>3. IsPrefix(a, b) /\ Len(a) = Len(b)
  BY <1>1, <1>2, PrefixChain
<1>4. a = b
  BY <1>1, <1>3, PrefixChain
<1> QED BY <1>1, <1>4

LEMMA LongerIsNot ==
  ASSUME NEW d \in Path, NEW n \in Name
  PROVE  ~IsPrefix(Append(d, n), d)
<1> DEFINE a == Append(d, n)
<1>1. a \in Path /\ Len(a) = Len(d) + 1 /\ Len(d) \in Nat
  <2>1. Len(d) \in Nat
    BY DEF Path
  <2> QED BY <2>1, EntryOf
<1> HIDE DEF a
<1>2. ~IsPrefix(a, d)
  BY <1>1, PrefixChain
<1> QED BY <1>2 DEF a

(* What is below a directory is below one of its entries. *)
LEMMA BelowEntry ==
  ASSUME NEW d \in Path, NEW x \in Path, IsPrefix(d, x), x # d
  PROVE  \E n \in Name : IsPrefix(Append(d, n), x)
<1>1. Len(d) <= Len(x) /\ \A i \in 1 .. Len(d) : d[i] = x[i]
  BY PrefixAt
<1>2. Len(d) \in Nat /\ Len(x) \in Nat /\ Len(d) < Len(x)
  <2>1. Len(d) < Len(x)
    BY PrefixChain
  <2> QED BY <2>1 DEF Path
<1> DEFINE n == x[Len(d) + 1]
           a == Append(d, n)
<1>3. n \in Name
  BY <1>2 DEF Path
<1> HIDE DEF n
<1>4. a \in Path /\ Len(a) = Len(d) + 1
  BY <1>3, EntryOf
<1>5. \A i \in 1 .. Len(a) : a[i] = x[i]
  <2>1. \A i \in 1 .. Len(d) : a[i] = d[i]
    BY <1>2, <1>3 DEF Path
  <2>2. a[Len(d) + 1] = n
    BY <1>2, <1>3 DEF Path
  <2> QED BY <1>1, <1>2, <1>4, <2>1, <2>2 DEF n
<1> HIDE DEF a
<1>6. IsPrefix(a, x)
  BY <1>2, <1>4, <1>5, PrefixAt
<1> QED BY <1>3, <1>6 DEF a

(* What the frames have come past. *)
LEMMA PastLine ==
  ASSUME NEW s \in Seq(Frames), NEW x \in Path, \A i \in DOMAIN s : BelowSeen(s[i], x)
  PROVE  ~\E i \in DOMAIN s : \E n \in Name \ s[i].seen : IsPrefix(Append(s[i].from, n), x)
<1> SUFFICES ASSUME NEW i \in DOMAIN s, NEW n \in Name \ s[i].seen,
                    IsPrefix(Append(s[i].from, n), x)
             PROVE  FALSE
  OBVIOUS
<1>1. s[i] \in Frames
  OBVIOUS
<1>2. s[i].from \in Path /\ s[i].seen \subseteq Name
  BY <1>1 DEF Frames
<1>3. PICK m \in s[i].seen : IsPrefix(Append(s[i].from, m), x)
  BY DEF BelowSeen
<1>4. n = m
  BY <1>2, <1>3, OneName
<1> QED BY <1>4

LEMMA LineCarries ==
  ASSUME NEW s, NEW z, UpToResult(s, z)
  PROVE  /\ \A a, ph : InLine(s, a, ph) => InLine(z, a, ph)
         /\ \A a, ph, x : Coming(z, a, ph, x) <=> Coming(s, a, ph, x)
<1>0. /\ DOMAIN z = DOMAIN s
      /\ \A i \in DOMAIN s : z[i].from = s[i].from /\ z[i].seen = s[i].seen
  BY DEF UpToResult
<1>1. ASSUME NEW a, NEW ph, InLine(s, a, ph) PROVE InLine(z, a, ph)
  BY <1>0, <1>1 DEF InLine, BelowSeen
<1>2. ASSUME NEW a, NEW ph, NEW x PROVE Coming(z, a, ph, x) <=> Coming(s, a, ph, x)
  BY <1>0 DEF Coming
<1> QED BY <1>1, <1>2

(* A directory is entered. *)
LEMMA LineEnters ==
  ASSUME NEW s \in Seq(Frames), NEW f \in Frames, NEW a, a.from \in Path, InLine(s, a, "enter"),
         f.from = a.from, f.seen = {}, NEW b, NEW ph \in {"read", "close"}
  PROVE  LET z == Append(s, f)
         IN  /\ InLine(z, b, ph) /\ ~Coming(z, b, ph, a.from)
             /\ \A x \in Path : Coming(z, b, ph, x) => Coming(s, a, "enter", x)
             /\ \A x \in Path : Coming(s, a, "enter", x) => Coming(z, b, ph, x) \/ x = a.from
<1> DEFINE z == Append(s, f)
<1>1. /\ z \in Seq(Frames) /\ Len(s) \in Nat /\ DOMAIN s = 1 .. Len(s)
      /\ DOMAIN z = 1 .. Len(s) + 1 /\ z[Len(s) + 1] = f
      /\ \A i \in 1 .. Len(s) : z[i] = s[i]
  OBVIOUS
<1> HIDE DEF z
<1>2. \A i \in DOMAIN z : i = Len(s) + 1 \/ (i \in DOMAIN s /\ i < Len(s) + 1)
  BY <1>1
<1>3. \A i \in DOMAIN s : BelowSeen(s[i], a.from) /\ i \in DOMAIN z /\ z[i] = s[i]
  BY <1>1 DEF InLine
<1>4. InLine(z, b, ph)
  <2> SUFFICES ASSUME NEW i \in DOMAIN z, NEW j \in DOMAIN z, i < j
               PROVE  BelowSeen(z[i], z[j].from)
    BY DEF InLine
  <2>1. i \in DOMAIN s /\ z[i] = s[i]
    BY <1>1, <1>2
  <2>2. CASE j = Len(s) + 1
    BY <1>1, <1>3, <2>1, <2>2
  <2>3. CASE j # Len(s) + 1
    BY <1>2, <1>3, <2>1, <2>3 DEF InLine
  <2> QED BY <2>2, <2>3
<1>5. \A x \in Path : Coming(z, b, ph, x) <=>
        \/ \E i \in DOMAIN s : \E n \in Name \ s[i].seen : IsPrefix(Append(s[i].from, n), x)
        \/ \E n \in Name : IsPrefix(Append(a.from, n), x)
  <2> TAKE x \in Path
  <2> DEFINE Out(g) == \E n \in Name \ g.seen : IsPrefix(Append(g.from, n), x)
  <2>1. Coming(z, b, ph, x) <=> \E i \in DOMAIN z : Out(z[i])
    BY DEF Coming
  <2>2. Out(f) <=> \E n \in Name : IsPrefix(Append(a.from, n), x)
    OBVIOUS
  <2> HIDE DEF Out
  <2>3. (\E i \in DOMAIN z : Out(z[i])) <=> (\E i \in DOMAIN s : Out(s[i])) \/ Out(f)
    BY <1>1, <1>2, <1>3
  <2> QED BY <2>1, <2>2, <2>3 DEF Out
<1>6. ~Coming(z, b, ph, a.from)
  <2>1. ~\E i \in DOMAIN s : \E n \in Name \ s[i].seen : IsPrefix(Append(s[i].from, n), a.from)
    BY <1>3, PastLine
  <2>2. ~\E n \in Name : IsPrefix(Append(a.from, n), a.from)
    BY LongerIsNot
  <2> QED BY <1>5, <2>1, <2>2
<1>7. ASSUME NEW x \in Path, Coming(z, b, ph, x) PROVE Coming(s, a, "enter", x)
  <2>1. CASE \E n \in Name : IsPrefix(Append(a.from, n), x)
    <3>1. PICK n \in Name : IsPrefix(Append(a.from, n), x)
      BY <2>1
    <3>2. Append(a.from, n) \in Path /\ IsPrefix(a.from, Append(a.from, n))
      BY EntryOf
    <3> DEFINE e == Append(a.from, n)
    <3>3. e \in Path /\ IsPrefix(a.from, e) /\ IsPrefix(e, x)
      BY <3>1, <3>2
    <3> HIDE DEF e
    <3>4. IsPrefix(a.from, x)
      BY <3>3, PrefixChain
    <3> QED BY <3>4 DEF Coming
  <2>2. CASE \E i \in DOMAIN s : \E n \in Name \ s[i].seen : IsPrefix(Append(s[i].from, n), x)
    BY <2>2 DEF Coming
  <2> QED BY <1>5, <1>7, <2>1, <2>2
<1>8. ASSUME NEW x \in Path, Coming(s, a, "enter", x), x # a.from PROVE Coming(z, b, ph, x)
  <2>1. CASE IsPrefix(a.from, x)
    <3>1. \E n \in Name : IsPrefix(Append(a.from, n), x)
      BY <1>8, <2>1, BelowEntry
    <3> QED BY <1>5, <3>1
  <2>2. CASE \E i \in DOMAIN s : \E n \in Name \ s[i].seen : IsPrefix(Append(s[i].from, n), x)
    BY <1>5, <2>2
  <2> QED BY <1>8, <2>1, <2>2 DEF Coming
<1> QED BY <1>4, <1>6, <1>7, <1>8 DEF z

(* The innermost frame has seen one more name, or none. *)
LEMMA LineReads ==
  ASSUME NEW s \in Seq(Frames), s # <<>>, NEW a, InLine(s, a, "read"),
         NEW f \in Frames, f.from = Last(s).from, Last(s).seen \subseteq f.seen,
         NEW b, NEW ph \in {"enter", "file", "close"}, NEW n,
         ph # "close" => /\ n \in Name /\ f.seen = Last(s).seen \cup {n} /\ n \notin Last(s).seen
                         /\ b.from = Append(f.from, n)
  PROVE  LET z == Append(Front(s), f)
         IN  /\ InLine(z, b, ph)
             /\ \A x \in Path : Coming(z, b, ph, x) => Coming(s, a, "read", x)
             /\ ph # "close" => \A x \in Path : Coming(s, a, "read", x) => Coming(z, b, ph, x)
<1> DEFINE z == Append(Front(s), f)
           l == Len(s)
<1>1. /\ Last(s) = s[l] /\ Front(s) \in Seq(Frames) /\ l \in Nat \ {0}
      /\ Len(Front(s)) = l - 1 /\ \A i \in 1 .. l - 1 : Front(s)[i] = s[i]
  BY Stacks
<1>2. /\ z \in Seq(Frames) /\ Len(z) = l /\ DOMAIN z = 1 .. l /\ DOMAIN s = 1 .. l
      /\ z[l] = f /\ \A i \in 1 .. l - 1 : z[i] = s[i]
  BY <1>1
<1> HIDE DEF z, l
<1>3. \A i \in 1 .. l : i = l \/ (i \in 1 .. l - 1 /\ i < l)
  BY <1>1
<1>4. l \in 1 .. l /\ \A i \in 1 .. l - 1 : i \in 1 .. l
  BY <1>1
<1>5. f.from \in Path /\ f.seen \subseteq Name /\ s[l].from = f.from /\ s[l].seen \subseteq f.seen
  <2>1. s[l].from = f.from /\ s[l].seen \subseteq f.seen
    BY <1>1
  <2> QED BY <2>1 DEF Frames
<1>6. \A i \in 1 .. l - 1 : BelowSeen(s[i], f.from)
  BY <1>2, <1>3, <1>4, <1>5 DEF InLine
<1>7. \A i \in DOMAIN z, j \in DOMAIN z : i < j => BelowSeen(z[i], z[j].from)
  <2> SUFFICES ASSUME NEW i \in DOMAIN z, NEW j \in DOMAIN z, i < j
               PROVE  BelowSeen(z[i], z[j].from)
    OBVIOUS
  <2>1. i \in 1 .. l - 1 /\ z[i] = s[i]
    BY <1>2, <1>3, <1>1
  <2>2. CASE j = l
    BY <1>2, <1>6, <2>1, <2>2
  <2>3. CASE j # l
    <3>1. z[j] = s[j] /\ j \in DOMAIN s /\ i \in DOMAIN s
      BY <1>2, <1>3, <1>4, <2>1, <2>3
    <3> QED BY <2>1, <3>1 DEF InLine
  <2> QED BY <2>2, <2>3
<1>8. ASSUME ph # "close" PROVE \A i \in DOMAIN z : BelowSeen(z[i], b.from)
  <2>1. n \in f.seen /\ b.from = Append(f.from, n)
    BY <1>8
  <2>2. b.from \in Path /\ IsPrefix(f.from, b.from) /\ n \in Name
    BY <1>5, <2>1, EntryOf
  <2> TAKE i \in DOMAIN z
  <2>3. CASE i = l
    <3>1. IsPrefix(b.from, b.from)
      BY <2>2, PrefixChain
    <3> QED BY <1>2, <2>1, <2>3, <3>1 DEF BelowSeen
  <2>4. CASE i # l
    <3>1. i \in 1 .. l - 1 /\ z[i] = s[i]
      BY <1>2, <1>3, <2>4
    <3>2. s[i] \in Frames
      BY <1>2, <1>4, <3>1
    <3>3. PICK m \in s[i].seen : IsPrefix(Append(s[i].from, m), f.from)
      BY <1>6, <3>1 DEF BelowSeen
    <3> DEFINE d == Append(s[i].from, m)
    <3>4. d \in Path
      <4>1. m \in Name /\ s[i].from \in Path
        BY <3>2, <3>3 DEF Frames
      <4> QED BY <4>1, EntryOf
    <3>5. IsPrefix(d, f.from)
      BY <3>3
    <3> HIDE DEF d
    <3>6. IsPrefix(d, b.from)
      BY <1>5, <2>2, <3>4, <3>5, PrefixChain
    <3> QED BY <3>1, <3>3, <3>6 DEF BelowSeen, d
  <2> QED BY <2>3, <2>4
<1>9. InLine(z, b, ph)
  BY <1>7, <1>8 DEF InLine
<1> DEFINE Out(g, x) == \E k \in Name \ g.seen : IsPrefix(Append(g.from, k), x)
<1>10. \A x : Coming(s, a, "read", x) <=> \E i \in 1 .. l : Out(s[i], x)
  BY <1>2 DEF Coming
<1>11. \A x : Coming(z, b, ph, x) <=> \/ ph # "close" /\ IsPrefix(b.from, x)
                                      \/ \E i \in 1 .. l : Out(z[i], x)
  BY <1>2 DEF Coming
<1>12. \A x : Out(f, x) => Out(s[l], x)
  BY <1>5
<1>13. ASSUME ph # "close", NEW x \in Path
       PROVE  Out(s[l], x) <=> Out(f, x) \/ IsPrefix(b.from, x)
  <2>1. /\ f.seen = s[l].seen \cup {n} /\ n \notin s[l].seen
        /\ b.from = Append(f.from, n)
    BY <1>1, <1>13
  <2>3. ASSUME IsPrefix(b.from, x) PROVE Out(s[l], x)
    BY <1>5, <2>1, <2>3
  <2>4. ASSUME Out(s[l], x) PROVE Out(f, x) \/ IsPrefix(b.from, x)
    <3>1. PICK m \in Name \ s[l].seen : IsPrefix(Append(f.from, m), x)
      BY <1>5, <2>4
    <3> QED BY <2>1, <3>1
  <2> QED BY <1>12, <2>3, <2>4
<1> HIDE DEF Out
<1>14. ASSUME NEW x \in Path, Coming(z, b, ph, x) PROVE Coming(s, a, "read", x)
  <2>1. CASE \E i \in 1 .. l : Out(z[i], x)
    <3>1. PICK i \in 1 .. l : Out(z[i], x)
      BY <2>1
    <3>2. Out(s[i], x)
      BY <1>2, <1>3, <1>12, <3>1
    <3> QED BY <1>10, <3>2
  <2>2. CASE ph # "close" /\ IsPrefix(b.from, x)
    <3>1. Out(s[l], x)
      BY <1>13, <2>2
    <3> QED BY <1>4, <1>10, <3>1
  <2> QED BY <1>11, <1>14, <2>1, <2>2
<1>15. ASSUME ph # "close", NEW x \in Path, Coming(s, a, "read", x) PROVE Coming(z, b, ph, x)
  <2>1. PICK i \in 1 .. l : Out(s[i], x)
    BY <1>10, <1>15
  <2>2. CASE i = l
    <3>1. Out(f, x) \/ IsPrefix(b.from, x)
      BY <1>13, <1>15, <2>1, <2>2
    <3> QED BY <1>2, <1>4, <1>11, <1>15, <3>1
  <2>3. CASE i # l
    <3>1. z[i] = s[i]
      BY <1>2, <1>3, <2>3
    <3> QED BY <1>11, <2>1, <3>1
  <2> QED BY <2>2, <2>3
<1> QED BY <1>9, <1>14, <1>15 DEF z

(* A file has been copied. *)
LEMMA LineReturns ==
  ASSUME NEW s \in Seq(Frames), NEW a, a.from \in Path, NEW ph \in {"enter", "file", "write"},
         InLine(s, a, ph), NEW b, NEW k \in {"read", "close", "done"}
  PROVE  /\ InLine(s, b, k) /\ ~Coming(s, b, k, a.from)
         /\ \A x : Coming(s, b, k, x) => Coming(s, a, ph, x)
         /\ \A x : Coming(s, a, ph, x) => Coming(s, b, k, x) \/ IsPrefix(a.from, x)
<1>1. InLine(s, b, k)
  BY DEF InLine
<1>2. ~\E i \in DOMAIN s : \E n \in Name \ s[i].seen : IsPrefix(Append(s[i].from, n), a.from)
  <2>1. \A i \in DOMAIN s : BelowSeen(s[i], a.from)
    BY DEF InLine
  <2> QED BY <2>1, PastLine
<1>3. ~Coming(s, b, k, a.from)
  BY <1>2 DEF Coming
<1>4. \A x : Coming(s, b, k, x) => Coming(s, a, ph, x)
  BY DEF Coming
<1>5. \A x : Coming(s, a, ph, x) => Coming(s, b, k, x) \/ IsPrefix(a.from, x)
  BY DEF Coming
<1> QED BY <1>1, <1>3, <1>4, <1>5

(* A directory has been copied: what had not been seen of it does not come. *)
LEMMA LineCloses ==
  ASSUME NEW s \in Seq(Frames), s # <<>>, NEW a, InLine(s, a, "close"),
         NEW b, NEW k \in {"read", "close", "done"}
  PROVE  /\ InLine(Front(s), b, k)
         /\ \A x : Coming(Front(s), b, k, x) => Coming(s, a, "close", x)
         /\ \A x : Coming(s, a, "close", x) =>
              \/ Coming(Front(s), b, k, x)
              \/ \E n \in Name \ Last(s).seen : IsPrefix(Append(Last(s).from, n), x)
<1> DEFINE z == Front(s)
           l == Len(s)
<1>1. /\ Last(s) = s[l] /\ z \in Seq(Frames) /\ l \in Nat \ {0}
      /\ Len(z) = l - 1 /\ \A i \in 1 .. l - 1 : z[i] = s[i]
  BY Stacks
<1>2. DOMAIN z = 1 .. l - 1 /\ DOMAIN s = 1 .. l
  BY <1>1
<1> HIDE DEF z, l
<1>3. \A i \in 1 .. l : i = l \/ i \in 1 .. l - 1
  BY <1>1
<1>4. \A i \in 1 .. l - 1 : i \in 1 .. l
  BY <1>1
<1>5. InLine(z, b, k)
  BY <1>1, <1>2, <1>4 DEF InLine
<1> DEFINE Out(g, x) == \E n \in Name \ g.seen : IsPrefix(Append(g.from, n), x)
<1>6. \A x : Coming(s, a, "close", x) <=> \E i \in 1 .. l : Out(s[i], x)
  BY <1>2 DEF Coming
<1>7. \A x : Coming(z, b, k, x) <=> \E i \in 1 .. l - 1 : Out(z[i], x)
  BY <1>2 DEF Coming
<1> HIDE DEF Out
<1>8. \A x : Coming(z, b, k, x) => Coming(s, a, "close", x)
  BY <1>1, <1>4, <1>6, <1>7
<1>9. \A x : Coming(s, a, "close", x) => Coming(z, b, k, x) \/ Out(Last(s), x)
  BY <1>1, <1>3, <1>6, <1>7
<1> QED BY <1>5, <1>8, <1>9 DEF Out, z

-----------------------------------------------------------------------------
(* Paths: what is found on the way to what is found, one name further.     *)
LEMMA Cancelled ==
  ASSUME NEW a \in Path, NEW r \in Path, NEW s \in Path, a \o r = a \o s
  PROVE  r = s
<1>1. /\ SubSeq(a \o r, Len(a) + 1, Len(a \o r)) = r
      /\ SubSeq(a \o s, Len(a) + 1, Len(a \o s)) = s
  BY CutIs
<1> QED BY <1>1

LEMMA RestIs ==
  ASSUME NEW a \in Path, NEW x \in Path, IsPrefix(a, x)
  PROVE  \E b \in Path : x = a \o b
<1> DEFINE b == SubSeq(x, Len(a) + 1, Len(x))
<1>1. Len(a) \in Nat /\ Len(x) \in Nat /\ Len(a) <= Len(x) /\ \A i \in 1 .. Len(a) : a[i] = x[i]
  <2>1. Len(a) <= Len(x) /\ \A i \in 1 .. Len(a) : a[i] = x[i]
    BY PrefixAt
  <2> QED BY <2>1 DEF Path
<1>2. b \in Path /\ Len(b) = Len(x) - Len(a) /\ \A i \in 1 .. Len(b) : b[i] = x[Len(a) + i]
  BY <1>1 DEF Path
<1> HIDE DEF b
<1> DEFINE z == a \o b
<1>3. z \in Seq(Name) /\ Len(z) = Len(x) /\ \A i \in 1 .. Len(x) : z[i] = x[i]
  <2>1. z \in Seq(Name) /\ Len(z) = Len(x)
    BY <1>1, <1>2 DEF Path
  <2> SUFFICES ASSUME NEW i \in 1 .. Len(x) PROVE z[i] = x[i]
    BY <2>1
  <2>2. CASE i <= Len(a)
    BY <1>1, <1>2, <2>2 DEF Path
  <2>3. CASE i > Len(a)
    <3>1. i - Len(a) \in 1 .. Len(b) /\ Len(a) + (i - Len(a)) = i
      BY <1>1, <1>2, <2>3
    <3>2. b[i - Len(a)] = x[i]
      BY <1>2, <3>1
    <3>3. z[i] = b[i - Len(a)]
      BY <1>1, <1>2, <2>3, <3>1 DEF Path
    <3> QED BY <3>2, <3>3
  <2>4. i <= Len(a) \/ i > Len(a)
    BY <1>1
  <2> QED BY <2>2, <2>3, <2>4
<1> HIDE DEF z
<1>4. z = x
  BY <1>1, <1>3 DEF Path
<1> QED BY <1>2, <1>4 DEF z

LEMMA OnTheWay ==
  ASSUME NEW t, Sound(t), NEW r \in Path, r # <<>>
  PROVE  \A w \in Position : Goes(t)[Further(w, r)].error = "none" => Goes(t)[w].error = "none"
<1> DEFINE Ok(x) == Goes(t)[Further(x, r)].error = "none" => Goes(t)[x].error = "none"
           T == {x \in Position : Ok(x)}
<1>0. TreeOK(t)
  BY DEF Sound
<1>1. ASSUME NEW x \in Position, Ends(t, x, TRUE) \/ Onward(t, x, TRUE) \in T,
             Goes(t)[Further(x, r)].error = "none"
      PROVE  Goes(t)[x].error = "none"
  <2>1. /\ Goes(t)[x] = StepOf(t, x, TRUE, Goes(t))
        /\ Goes(t)[Further(x, r)]
             = StepOf(t, Further(x, r), TRUE, Goes(t))
    <3>1. Further(x, r) \in Position
      BY FurtherIs
    <3> QED BY <1>0, <3>1, GoesIs
  <2>2. CASE x.rest = <<>>
    BY <2>1, <2>2, Errors DEF StepOf, Ends, Answer
  <2>3. CASE x.rest # <<>>
    <3> DEFINE y == Further(x, r)
    <3>2. /\ y.at = x.at /\ y.links = x.links /\ y.rest # <<>>
          /\ Head(y.rest) = Head(x.rest) /\ Tail(y.rest) = Tail(x.rest) \o r
      BY <2>3, FurtherIs
    <3>3. Goes(t)[y] = StepOf(t, y, TRUE, Goes(t)) /\ Goes(t)[y].error = "none"
      BY <1>1, <2>1
    <3> HIDE DEF y
    <3>4. Ahead(y) = Ahead(x) /\ (IsFollowed(t, y, TRUE) <=> IsFollowed(t, x, TRUE))
      BY <3>2 DEF Ahead, IsFollowed
    <3>5. ~Ends(t, y, TRUE)
      BY <3>2, <3>3, AnswerIs DEF StepOf
    <3>6. ~Ends(t, x, TRUE)
      BY <2>3, <3>2, <3>4, <3>5 DEF Ends
    <3>7. Onward(t, y, TRUE) = Further(Onward(t, x, TRUE), r)
      <4>1. CASE IsFollowed(t, x, TRUE)
        <5>1. t[Ahead(x)].target \in Path /\ Tail(x.rest) \in Path
          BY <1>0, <2>3, <3>6, <4>1, Linked, Positions DEF Ends, IsFollowed
        <5>2. t[Ahead(x)].target \o (Tail(x.rest) \o r) = (t[Ahead(x)].target \o Tail(x.rest)) \o r
          BY <5>1, Regrouped
        <5> QED BY <3>2, <3>4, <4>1, <5>2 DEF Onward, Further
      <4>2. CASE ~IsFollowed(t, x, TRUE)
        BY <3>2, <3>4, <4>2 DEF Onward, Further
      <4> QED BY <4>1, <4>2
    <3>8. /\ Goes(t)[x] = Goes(t)[Onward(t, x, TRUE)]
          /\ Goes(t)[y] = Goes(t)[Onward(t, y, TRUE)]
      BY <2>1, <3>3, <3>5, <3>6 DEF StepOf
    <3>9. Onward(t, x, TRUE) \in T
      BY <1>1, <3>6
    <3> QED BY <1>1, <3>3, <3>7, <3>8, <3>9
  <2> QED BY <2>2, <2>3
<1>2. T = Position
  <2> DEFINE f == TRUE
  <2>1. T \in SUBSET Position
    OBVIOUS
  <2>2. \A x \in Position : Ends(t, x, f) \/ Onward(t, x, f) \in T => x \in T
    BY <1>1
  <2> HIDE DEF T, f
  <2> QED BY <1>0, <2>1, <2>2, WalkInduction
<1> QED BY <1>2

LEMMA StatOnTheWay ==
  ASSUME NEW t, Sound(t), NEW a \in Path, NEW n \in Name, NEW x \in Path,
         IsPrefix(Append(a, n), x), Stat(t, x).error = "none"
  PROVE  /\ Stat(t, a).error = "none" /\ t[Stat(t, a).at].kind = "dir"
         /\ n \in Entries(t, Stat(t, a).at)
<1>1. \E b \in Path : b # <<>> /\ x = a \o b /\ Head(b) = n
  <2> DEFINE e == Append(a, n)
             h == <<n>>
  <2>1. e \in Path /\ IsPrefix(e, x) /\ h \in Path /\ e = a \o h
    <3>1. e \in Path
      BY EntryOf
    <3>2. h \in Path /\ e = a \o h
      BY AppendIsConcat DEF Path
    <3> QED BY <3>1, <3>2
  <2>2. h # <<>> /\ Head(h) = n
    OBVIOUS
  <2> HIDE DEF e, h
  <2>3. PICK d \in Path : x = e \o d
    BY <2>1, RestIs
  <2>4. x = a \o (h \o d)
    BY <2>1, <2>3, Regrouped
  <2>5. h \o d \in Path
    BY <2>1, PrefixOfConcat
  <2>6. h \o d # <<>> /\ Head(h \o d) = n
    BY <2>1, <2>2, HeadOn DEF Path
  <2> QED BY <2>4, <2>5, <2>6
<1>2. PICK b \in Path : b # <<>> /\ x = a \o b /\ Head(b) = n
  BY <1>1
<1>3. Len(x) <= MaxPath /\ Stat(t, x) = Goes(t)[Start(x)]
  BY StatFound
<1>4. Stat(t, a).error = "none"
  <2>1. Start(a) \in Position /\ Further(Start(a), b) = Start(x)
    BY <1>2, StartIs DEF Further, Start
  <2>2. Goes(t)[Start(a)].error = "none"
    BY <1>2, <1>3, <2>1, OnTheWay
  <2>3. ~(Len(a) > MaxPath)
    <3>1. Len(x) = Len(a) + Len(b)
      BY <1>2, PrefixOfConcat
    <3> QED BY <1>3, <3>1, Limits DEF Path
  <2> QED BY <2>2, <2>3, StatIs
<1> DEFINE e == Stat(t, a).at
<1>5. e \in Path /\ e \in DOMAIN t /\ Stat(t, a) = Found(e)
  BY <1>4, StatFound
<1> HIDE DEF e
<1>6. Len(a \o b) <= MaxPath
  BY <1>2, <1>3
<1>7. PICK l \in 0 .. MaxLinks : Stat(t, a \o b) = Goes(t)[Resumed(e, b, l)]
  BY <1>2, <1>5, <1>6, StatOn
<1> DEFINE w == Resumed(e, b, l)
<1>8. w \in Position /\ w.rest # <<>> /\ w.at = e /\ Ahead(w) = Append(e, n)
  BY <1>2, <1>5 DEF Position, Ahead, Resumed
<1>9. Goes(t)[w].error = "none"
  BY <1>2, <1>7
<1> HIDE DEF w
<1>10. Goes(t)[w] = StepOf(t, w, TRUE, Goes(t))
  BY <1>8, GoesIs DEF Sound
<1>11. ~Ends(t, w, TRUE)
  BY <1>8, <1>9, <1>10, AnswerIs DEF StepOf
<1>12. Append(e, n) \in DOMAIN t /\ t[e].kind = "dir"
  BY <1>8, <1>11 DEF Ends
<1>13. n \in Entries(t, e)
  BY <1>5, <1>12, EntriesAre
<1> QED BY <1>4, <1>12, <1>13 DEF e

(* What is there stays there, as it is. *)
LEMMA SeenGrows ==
  ASSUME NEW t, Sound(t), NEW u, Sound(u), Within(t, u), NEW p \in Path, Stat(t, p).error = "none"
  PROVE  /\ Stat(u, p) = Stat(t, p) /\ Stat(t, p).at \in DOMAIN t /\ Stat(t, p).at \in DOMAIN u
         /\ u[Stat(t, p).at].kind = t[Stat(t, p).at].kind
<1>1. Stat(u, p) = Stat(t, p) /\ Stat(t, p).at \in DOMAIN t
  BY StatGrows, StatFound
<1> QED BY <1>1 DEF Within

-----------------------------------------------------------------------------
Src(c, r) == c.from \o r
Dst(q, r) == q \o r

(* What the copy has come past, K being the names it has still to come to. *)
TwiceBy(c, t, q, r, s) ==
  /\ r # s /\ Stat(t, Src(c, r)).error = "none" /\ Stat(t, Src(c, s)).error = "none"
  /\ Stat(t, Dst(q, r)).error = "none"
  /\ \/ /\ Stat(t, Dst(q, r)) = Stat(t, Dst(q, s))
        /\ t[Stat(t, Dst(q, r)).at].kind = "file" \/ Stat(t, Dst(q, r)).at \notin DOMAIN c.tree
     \/ /\ Stat(t, Dst(q, r)) = Stat(t, Src(c, s))
        /\ t[Stat(t, Dst(q, r)).at].kind = "file"
Twice(c, t, q) == \E r, s \in Path : TwiceBy(c, t, q, r, s)

(* A file that the copy has made is written over under a second name. *)
OverlaidBy(c, t, q, r, s) ==
  /\ r # s
  /\ \A x \in {r, s} : /\ Stat(t, Src(c, x)).error = "none"
                       /\ t[Stat(t, Src(c, x)).at].kind = "file"
  /\ Stat(t, Dst(q, r)).error = "none" /\ Stat(t, Dst(q, r)) = Stat(t, Dst(q, s))
  /\ t[Stat(t, Dst(q, r)).at].kind = "file"
Overlaid(c, t, q) == \E r, s \in Path : OverlaidBy(c, t, q, r, s)

PastBy(c, t, K, q, p, r) ==
  /\ Stat(t, Dst(q, r)) = Found(p) /\ Src(c, r) \notin K
  /\ Stat(t, Src(c, r)).error = "none"
  /\ t[Stat(t, Src(c, r)).at].kind = t[p].kind
Past(c, t, K, q, p) == \E r \in Path : PastBy(c, t, K, q, p, r)
Pasts(c, t, K, half, q) == \A p \in DOMAIN t \ DOMAIN c.tree : p \in half \/ Past(c, t, K, q, p)

(* What umask leaves to a file that is new. *)
Left(c, mode) == IF c.masked THEN "ro" ELSE mode

(* The copy of r; P are the directories that are being filled. *)
Equal(c, t, P, q, r) ==
  /\ Stat(t, Dst(q, r)).error = "none"
  /\ LET from == c.tree[Stat(c.tree, Src(c, r)).at]
         p == Stat(t, Dst(q, r)).at
     IN  /\ t[p].kind = from.kind
         /\ from.kind = "file" => t[p].data = from.data
         /\ c.backend = "linux" /\ p \notin DOMAIN c.tree =>
              \/ p \in P
              \/ t[p].mode = IF from.kind = "file" THEN Left(c, from.mode) ELSE from.mode
(* A directory is lost that is copied to a link to nowhere. *)
Lost(c, t, q, r) ==
  /\ c.backend = "windows" /\ c.tree[Stat(c.tree, Src(c, r)).at].kind = "dir"
  /\ HasDirectoryAttribute(t, Dst(q, r))
Faithful(c, t, P, q, r) == Equal(c, t, P, q, r) \/ Lost(c, t, q, r)
Got(c, t, K, P, q) ==
  \A r \in Path :
    Stat(c.tree, Src(c, r)).error = "none" /\ Src(c, r) \notin K => Faithful(c, t, P, q, r)

Clean(t, x) == \A p \in DOMAIN t : t[p].kind = "file" /\ t[p].data = Torn => p \in x
Looked(c, t, s) ==
  \A i \in DOMAIN s : /\ Stat(t, s[i].from) = Found(s[i].at)
                      /\ Entries(c.tree, s[i].at) \subseteq s[i].listed
Writes(c, t, a, w, q) ==
  /\ Beneath(c, q, a)
  /\ Stat(t, a.to) = Found(w.place) /\ Stat(t, a.from) = Found(w.source)
  /\ w.place # w.source
  /\ c.backend = "linux" /\ w.place \notin DOMAIN c.tree =>
       IF w.created THEN t[w.place].mode = Left(c, t[w.source].mode)
       ELSE Overlaid(c, t, q)

Comings(s, a, ph) == {x \in Path : Coming(s, a, ph, x)}
Unfinished(w, ph) == IF ph = "write" THEN {w.place} ELSE {}

WholeIs(c, t, s, a, w, ph, m, q) ==
  /\ InLine(s, a, ph) /\ (ph = "done" => s = <<>>)
  /\ Clean(t, Unfinished(w, ph))
  /\ ph = "write" => Writes(c, t, a, w, q)
  /\ Pasts(c, t, Comings(s, a, ph), Half(w, ph), q)
  /\ Looked(c, t, s)
  /\ ~m => /\ ph = "close" => Last(s).listed \subseteq Last(s).seen
           /\ Twice(c, t, q) \/ Got(c, t, Comings(s, a, ph), Doomed(s, {}), q)

(* Once a call has failed, all do that it returns to. *)
FailedIs(c, t, q) ==
  c.backend = "linux" =>
    \/ Overlaid(c, t, q)
    \/ \A p \in DOMAIN t \ DOMAIN c.tree : t[p].kind = "file" => t[p].data # Torn
Fails(s, ph, v) == (ph = "close" /\ Last(s).result = -1) \/ (ph = "done" /\ v = -1)

WholeAt(c, t, s, a, w, ph, v, m, q) ==
  IF Fails(s, ph, v) THEN FailedIs(c, t, q) ELSE WholeIs(c, t, s, a, w, ph, m, q)

WholeInv ==
  \/ fs = req.tree /\ stack = <<>> /\ (pc = "request" \/ (pc = "done" /\ ret = -1))
  \/ /\ pc # "request"
     /\ \E q \in Destination(req.tree) :
          WholeAt(req, fs, stack, args, writing, pc, ret, missed, q)

LEMMA SourcesAre ==
  ASSUME NEW c, c.from \in Path, NEW q \in Path
  PROVE  /\ \A r \in Path : Src(c, r) \in Path /\ Dst(q, r) \in Path /\ IsPrefix(c.from, Src(c, r))
         /\ \A r, s \in Path : (Src(c, r) = Src(c, s) => r = s) /\ (Dst(q, r) = Dst(q, s) => r = s)
<1> DEFINE f == c.from
<1>1. \A r \in Path : f \o r \in Path /\ q \o r \in Path /\ IsPrefix(f, f \o r)
  <2> HIDE DEF f
  <2>1. f \in Path
    BY DEF f
  <2> QED BY <2>1, PrefixOfConcat
<1>2. \A r, s \in Path : (f \o r = f \o s => r = s) /\ (q \o r = q \o s => r = s)
  <2> HIDE DEF f
  <2>1. f \in Path
    BY DEF f
  <2> QED BY <2>1, Cancelled
<1> QED BY <1>1, <1>2 DEF Src, Dst

LEMMA TwiceGrows ==
  ASSUME NEW c, c.from \in Path, NEW q \in Path, NEW t, Sound(t), NEW u, Sound(u), Within(t, u),
         Twice(c, t, q)
  PROVE  Twice(c, u, q)
<1>1. PICK r \in Path, s \in Path : TwiceBy(c, t, q, r, s)
  BY DEF Twice
<1> DEFINE a == Src(c, r)
           b == Src(c, s)
           d == Dst(q, r)
           e == Dst(q, s)
<1>2. a \in Path /\ b \in Path /\ d \in Path /\ e \in Path
  BY SourcesAre
<1>3. /\ r # s /\ Stat(t, a).error = "none" /\ Stat(t, b).error = "none" /\ Stat(t, d).error = "none"
      /\ \/ /\ Stat(t, d) = Stat(t, e)
            /\ t[Stat(t, d).at].kind = "file" \/ Stat(t, d).at \notin DOMAIN c.tree
         \/ Stat(t, d) = Stat(t, b) /\ t[Stat(t, d).at].kind = "file"
  BY <1>1 DEF TwiceBy
<1> HIDE DEF a, b, d, e
<1>4. /\ Stat(u, a) = Stat(t, a) /\ Stat(u, b) = Stat(t, b) /\ Stat(u, d) = Stat(t, d)
      /\ u[Stat(t, d).at].kind = t[Stat(t, d).at].kind
      /\ Stat(t, d) = Stat(t, e) => Stat(u, e) = Stat(t, e)
  BY <1>2, <1>3, SeenGrows
<1>5. TwiceBy(c, u, q, r, s)
  BY <1>3, <1>4 DEF TwiceBy, a, b, d, e
<1> QED BY <1>5 DEF Twice

LEMMA OverlaidParts ==
  ASSUME NEW c, c.from \in Path, NEW q \in Path, NEW t, Sound(t), NEW u, Overlaid(c, t, q),
         \A p \in Path : Stat(t, p).error = "none" /\ t[Stat(t, p).at].kind = "file" =>
           Stat(u, p) = Stat(t, p) /\ u[Stat(t, p).at].kind = "file"
  PROVE  Overlaid(c, u, q)
<1>1. PICK r \in Path, s \in Path : OverlaidBy(c, t, q, r, s)
  BY DEF Overlaid
<1> DEFINE d == Dst(q, r)
           e == Dst(q, s)
<1>2. d \in Path /\ e \in Path /\ Src(c, r) \in Path /\ Src(c, s) \in Path
  BY SourcesAre
<1>3. /\ r # s
      /\ \A x \in {r, s} : /\ Stat(t, Src(c, x)).error = "none"
                           /\ t[Stat(t, Src(c, x)).at].kind = "file"
      /\ Stat(t, d).error = "none" /\ Stat(t, d) = Stat(t, e) /\ t[Stat(t, d).at].kind = "file"
  BY <1>1 DEF OverlaidBy
<1> HIDE DEF d, e
<1>4. Stat(u, d) = Stat(t, d) /\ Stat(u, e) = Stat(t, e) /\ u[Stat(t, d).at].kind = "file"
  BY <1>2, <1>3
<1>5. \A x \in {r, s} : Stat(u, Src(c, x)).error = "none" /\ u[Stat(u, Src(c, x)).at].kind = "file"
  BY <1>2, <1>3
<1>6. OverlaidBy(c, u, q, r, s)
  BY <1>3, <1>4, <1>5 DEF OverlaidBy, d, e
<1> QED BY <1>6 DEF Overlaid

LEMMA OverlaidGrows ==
  ASSUME NEW c, c.from \in Path, NEW q \in Path, NEW t, Sound(t), NEW u, Sound(u), Within(t, u),
         Overlaid(c, t, q)
  PROVE  Overlaid(c, u, q)
<1>1. \A p \in Path : Stat(t, p).error = "none" /\ t[Stat(t, p).at].kind = "file" =>
        Stat(u, p) = Stat(t, p) /\ u[Stat(t, p).at].kind = "file"
  BY SeenGrows
<1> QED BY <1>1, OverlaidParts

(* A directory goes that is empty. *)
LEMMA OverlaidStays ==
  ASSUME NEW c, c.from \in Path, NEW q \in Path, NEW t, Sound(t), NEW u, Sound(u),
         NEW x \in DOMAIN t, x # <<>>, t[x].kind = "dir", Entries(t, x) = {}, Less(t, u, x),
         Overlaid(c, t, q)
  PROVE  Overlaid(c, u, q)
<1>1. ASSUME NEW p \in Path, Stat(t, p).error = "none", t[Stat(t, p).at].kind = "file"
      PROVE  Stat(u, p) = Stat(t, p) /\ u[Stat(t, p).at].kind = "file"
  <2>1. Stat(t, p).at # x /\ Stat(t, p).at \in DOMAIN t
    BY <1>1, StatFound
  <2>2. Stat(u, p) = Stat(t, p)
    BY <1>1, <2>1, StatStays
  <2> QED BY <1>1, <2>1, <2>2 DEF Less
<1> QED BY <1>1, OverlaidParts

LEMMA PastsGrow ==
  ASSUME NEW c, c.from \in Path, NEW q \in Path, NEW t, Sound(t), NEW u, Sound(u), Within(t, u),
         NEW K, NEW M, M \cap Path \subseteq K, NEW x, Pasts(c, t, K, x, q), NEW y,
         \A p \in DOMAIN u \ DOMAIN c.tree :
           p \in DOMAIN t \ x \/ p \in y \/ Past(c, u, M, q, p)
  PROVE  Pasts(c, u, M, y, q)
<1> SUFFICES ASSUME NEW p \in DOMAIN u \ DOMAIN c.tree, p \in DOMAIN t \ x PROVE Past(c, u, M, q, p)
  BY DEF Pasts
<1>1. PICK r \in Path : PastBy(c, t, K, q, p, r)
  BY DEF Pasts, Past
<1> DEFINE a == Src(c, r)
           d == Dst(q, r)
<1>2. a \in Path /\ d \in Path
  BY SourcesAre
<1>3. /\ Stat(t, d) = Found(p) /\ a \notin K /\ Stat(t, a).error = "none"
      /\ t[Stat(t, a).at].kind = t[p].kind
  BY <1>1 DEF PastBy
<1> HIDE DEF a, d
<1>4. Stat(t, d).error = "none" /\ Stat(t, d).at = p
  BY <1>3, Errors
<1>5. Stat(u, d) = Found(p) /\ u[p].kind = t[p].kind
  BY <1>2, <1>3, <1>4, SeenGrows
<1>6. Stat(u, a) = Stat(t, a) /\ u[Stat(t, a).at].kind = t[Stat(t, a).at].kind
  BY <1>2, <1>3, SeenGrows
<1>7. PastBy(c, u, M, q, p, r)
  BY <1>2, <1>3, <1>5, <1>6 DEF PastBy, a, d
<1> QED BY <1>7 DEF Past

LEMMA LostGrows ==
  ASSUME NEW c, c.from \in Path, NEW q \in Path, NEW t, Sound(t), NEW u, Sound(u), Within(t, u),
         NEW r \in Path, Lost(c, t, q, r)
  PROVE  Lost(c, u, q, r)
<1>1. Dst(q, r) \in Path /\ HasDirectoryAttribute(t, Dst(q, r))
  BY SourcesAre DEF Lost
<1>2. HasDirectoryAttribute(u, Dst(q, r))
  BY <1>1, AttributeGrows
<1> QED BY <1>2 DEF Lost

LEMMA EqualGrows ==
  ASSUME NEW c, c.from \in Path, NEW q \in Path, NEW t, Sound(t), NEW u, Sound(u), Within(t, u),
         NEW P, NEW R, NEW r \in Path, Equal(c, t, P, q, r),
         LET p == Stat(t, Dst(q, r)).at
         IN  /\ t[p].kind = "file" => u[p].data = t[p].data
             /\ c.backend = "linux" /\ p \notin DOMAIN c.tree =>
                  p \in R \/ (p \notin P /\ u[p].mode = t[p].mode)
  PROVE  Equal(c, u, R, q, r)
<1> DEFINE d == Dst(q, r)
           p == Stat(t, d).at
           y == c.tree[Stat(c.tree, Src(c, r)).at]
           m == IF y.kind = "file" THEN Left(c, y.mode) ELSE y.mode
<1>1. d \in Path
  BY SourcesAre
<1>2. /\ Stat(t, d).error = "none" /\ t[p].kind = y.kind /\ (y.kind = "file" => t[p].data = y.data)
      /\ c.backend = "linux" /\ p \notin DOMAIN c.tree => p \in P \/ t[p].mode = m
  BY DEF Equal
<1>3. /\ t[p].kind = "file" => u[p].data = t[p].data
      /\ c.backend = "linux" /\ p \notin DOMAIN c.tree =>
                  p \in R \/ (p \notin P /\ u[p].mode = t[p].mode)
  OBVIOUS
<1> HIDE DEF d, y, m
<1>4. Stat(u, d) = Stat(t, d) /\ u[p].kind = t[p].kind
  BY <1>1, <1>2, SeenGrows
<1> HIDE DEF p
<1>5. Stat(u, d).at = p /\ Stat(u, d).error = "none"
  BY <1>2, <1>4 DEF p
<1>6. /\ u[p].kind = y.kind /\ (y.kind = "file" => u[p].data = y.data)
      /\ c.backend = "linux" /\ p \notin DOMAIN c.tree => p \in R \/ u[p].mode = m
  BY <1>2, <1>3, <1>4
<1> QED BY <1>5, <1>6 DEF Equal, d, y, m

-----------------------------------------------------------------------------
Grown(c, t, q) ==
  /\ c.from \in Path /\ q \in Path /\ Sound(c.tree) /\ Sound(t) /\ Within(c.tree, t)
  /\ \A p \in DOMAIN c.tree : /\ t[p].kind = "file" /\ c.backend = "linux" =>
                                   t[p].mode = c.tree[p].mode
                              /\ t[p].kind # "file" => t[p] = c.tree[p]

(* The callee's paths are those of one name below the source. *)
LEMMA NamedBy ==
  ASSUME NEW c, NEW q, NEW a, Beneath(c, q, a)
  PROVE  \E r \in Path : a.from = Src(c, r) /\ a.to = Dst(q, r)
<1>1. \A r : Src(c, r) = c.from \o r /\ Dst(q, r) = q \o r
  BY DEF Src, Dst
<1>2. \E r \in Path : a.from = c.from \o r /\ a.to = q \o r
  BY DEF Beneath
<1>3. \E r \in Path : a.from = Src(c, r) /\ a.to = Dst(q, r)
  BY <1>1, <1>2
<1> QED BY <1>3

LEMMA SourceIs ==
  ASSUME NEW c, NEW t, NEW q, Grown(c, t, q), NEW x \in Path, Stat(c.tree, x).error = "none"
  PROVE  /\ Stat(t, x) = Stat(c.tree, x) /\ Stat(c.tree, x).at \in DOMAIN c.tree
         /\ Stat(c.tree, x).at \in DOMAIN t
         /\ t[Stat(c.tree, x).at].kind = c.tree[Stat(c.tree, x).at].kind
<1> DEFINE u == c.tree
<1>1. Sound(u) /\ Sound(t) /\ Within(u, t) /\ Stat(u, x).error = "none"
  BY DEF Grown
<1> HIDE DEF u
<1>2. /\ Stat(t, x) = Stat(u, x) /\ Stat(u, x).at \in DOMAIN u /\ Stat(u, x).at \in DOMAIN t
      /\ t[Stat(u, x).at].kind = u[Stat(u, x).at].kind
  BY <1>1, SeenGrows
<1> QED BY <1>2 DEF u

LEMMA TwoNamesThere ==
  ASSUME NEW c, NEW t, NEW q, NEW r \in Path, NEW s \in Path, r # s,
         Stat(t, Src(c, r)).error = "none", Stat(t, Src(c, s)).error = "none",
         NEW p, Stat(t, Dst(q, r)) = Found(p), Stat(t, Dst(q, s)) = Found(p),
         t[p].kind = "file" \/ p \notin DOMAIN c.tree
  PROVE  Twice(c, t, q)
<1>1. Stat(t, Dst(q, r)).error = "none" /\ Stat(t, Dst(q, r)).at = p
  BY Errors
<1>2. TwiceBy(c, t, q, r, s)
  BY <1>1 DEF TwiceBy
<1> QED BY <1>2 DEF Twice

(* Of two names of one new place, one has been copied and one is to come. *)
LEMMA PastIsTwice ==
  ASSUME NEW c, NEW t, NEW q, NEW K, NEW p, Past(c, t, K, q, p), p \notin DOMAIN c.tree,
         NEW r \in Path, Src(c, r) \in K, Stat(t, Src(c, r)).error = "none", Stat(t, Dst(q, r)) = Found(p)
  PROVE  Twice(c, t, q)
<1>1. PICK s \in Path : PastBy(c, t, K, q, p, s)
  BY DEF Past
<1>2. s # r /\ Stat(t, Src(c, s)).error = "none" /\ Stat(t, Dst(q, s)) = Found(p)
  BY <1>1 DEF PastBy
<1> QED BY <1>2, TwoNamesThere

(* A frame's own source stays what it is, and so does what it listed. *)
LEMMA LookedGrows ==
  ASSUME NEW c, NEW t, NEW u, NEW q, Grown(c, t, q), Grown(c, u, q), Within(t, u),
         NEW s \in Seq(Frames), Looked(c, t, s)
  PROVE  Looked(c, u, s)
<1> SUFFICES ASSUME NEW i \in DOMAIN s
             PROVE  Stat(u, s[i].from) = Found(s[i].at) /\ Entries(c.tree, s[i].at) \subseteq s[i].listed
  BY DEF Looked
<1> DEFINE x == s[i].from
           y == s[i].at
<1>1. x \in Path
  <2>1. s[i] \in Frames
    OBVIOUS
  <2> QED BY <2>1 DEF Frames
<1>2. Stat(t, x) = Found(y) /\ Entries(c.tree, y) \subseteq s[i].listed
  BY DEF Looked
<1> HIDE DEF x, y
<1>3. Sound(t) /\ Sound(u) /\ Stat(t, x).error = "none"
  BY <1>2, Errors DEF Grown
<1>4. Stat(u, x) = Found(y)
  BY <1>1, <1>2, <1>3, StatGrows
<1> QED BY <1>2, <1>4 DEF x, y

LEMMA LookedUpTo ==
  ASSUME NEW c, NEW t, NEW s, NEW z, UpToResult(s, z), Looked(c, t, s)
  PROVE  Looked(c, t, z)
<1>1. /\ DOMAIN z = DOMAIN s
      /\ \A i \in DOMAIN s : z[i].from = s[i].from /\ z[i].at = s[i].at /\ z[i].listed = s[i].listed
  BY DEF UpToResult
<1> QED BY <1>1 DEF Looked

(* A name that had been come past, and whose copy is as it was.            *)
Spared(c, t, u, q, K, P, R, r) ==
  /\ Src(c, r) \notin K
  /\ Stat(t, Dst(q, r)).error = "none" =>
       LET p == Stat(t, Dst(q, r)).at
       IN  p \in DOMAIN t => u[p] = t[p] /\ (p \in P => p \in R)
Kept(c, t, u, q, K, M, P, R) ==
  \A r \in Path : Stat(c.tree, Src(c, r)).error = "none" /\ Src(c, r) \notin M =>
    Twice(c, u, q) \/ Faithful(c, u, R, q, r) \/ Spared(c, t, u, q, K, P, R, r)

LEMMA GotGrows ==
  ASSUME NEW c, NEW t, NEW u, NEW q, Grown(c, t, q), Grown(c, u, q), Within(t, u),
         NEW K, NEW M, NEW P, NEW R, Twice(c, t, q) \/ Got(c, t, K, P, q),
         Kept(c, t, u, q, K, M, P, R)
  PROVE  Twice(c, u, q) \/ Got(c, u, M, R, q)
<1>0. c.from \in Path /\ q \in Path /\ Sound(t) /\ Sound(u)
  BY DEF Grown
<1>1. CASE Twice(c, t, q)
  BY <1>0, <1>1, TwiceGrows
<1>2. CASE Got(c, t, K, P, q)
  <2> SUFFICES ASSUME ~Twice(c, u, q), NEW r \in Path,
                      Stat(c.tree, Src(c, r)).error = "none", Src(c, r) \notin M
               PROVE  Faithful(c, u, R, q, r)
    BY DEF Got
  <2> SUFFICES ASSUME ~Faithful(c, u, R, q, r) PROVE FALSE
    OBVIOUS
  <2> DEFINE d == Dst(q, r)
             p == Stat(t, d).at
  <2>0. ~Lost(c, t, q, r)
    BY <1>0, LostGrows DEF Grown, Faithful
  <2>1. /\ Src(c, r) \notin K
        /\ Stat(t, d).error = "none" /\ p \in DOMAIN t => u[p] = t[p] /\ (p \in P => p \in R)
    BY DEF Kept, Spared
  <2>2. Equal(c, t, P, q, r)
    BY <1>2, <2>0, <2>1 DEF Got, Faithful
  <2>3. Stat(t, d).error = "none"
    BY <2>2 DEF Equal
  <2>4. d \in Path
    BY <1>0, SourcesAre
  <2> HIDE DEF d
  <2>5. p \in DOMAIN t
    BY <1>0, <2>3, <2>4, StatFound
  <2>6. u[p] = t[p] /\ (p \in P => p \in R)
    BY <2>1, <2>3, <2>5
  <2>7. /\ t[p].kind = "file" => u[p].data = t[p].data
        /\ c.backend = "linux" /\ p \notin DOMAIN c.tree =>
             p \in R \/ (p \notin P /\ u[p].mode = t[p].mode)
    BY <2>6
  <2>8. Equal(c, u, R, q, r)
    BY <1>0, <2>2, <2>7, EqualGrows DEF d
  <2> QED BY <2>8 DEF Faithful
<1> QED BY <1>1, <1>2

-----------------------------------------------------------------------------
(* A directory is entered.                                                 *)
Entering(c, t, u, q, a, f) ==
  /\ Grown(c, t, q) /\ Grown(c, u, q) /\ Within(t, u) /\ Beneath(c, q, a)
  /\ f.from = a.from /\ f.seen = {} /\ a.from \in Path
  /\ Stat(t, a.from) = Found(f.at) /\ t[f.at].kind = "dir"
  /\ Entries(c.tree, f.at) \subseteq f.listed
  /\ Stat(u, a.to) = Found(f.place) /\ u[f.place].kind = "dir"
  /\ \A p \in DOMAIN t : u[p] = t[p]
  /\ DOMAIN u \subseteq DOMAIN t \cup {f.place}
  /\ f.created \/ u = t

LEMMA PendingPushed ==
  ASSUME NEW s \in Seq(Frames), NEW f \in Frames
  PROVE  /\ Doomed(s, {}) \subseteq Doomed(Append(s, f), {})
         /\ f.created => f.place \in Doomed(Append(s, f), {})
<1> DEFINE z == Append(s, f)
<1>1. /\ z \in Seq(Frames) /\ Len(s) + 1 \in DOMAIN z /\ z[Len(s) + 1] = f
      /\ \A i \in DOMAIN s : i \in DOMAIN z /\ z[i] = s[i]
  OBVIOUS
<1> HIDE DEF z
<1>2. Doomed(s, {}) \subseteq Doomed(z, {})
  BY <1>1 DEF Doomed
<1>3. f.created => f.place \in Doomed(z, {})
  BY <1>1 DEF Doomed
<1> QED BY <1>2, <1>3 DEF z

LEMMA LookedPushed ==
  ASSUME NEW c, NEW t, NEW s \in Seq(Frames), NEW f \in Frames, Looked(c, t, s),
         Stat(t, f.from) = Found(f.at), Entries(c.tree, f.at) \subseteq f.listed
  PROVE  Looked(c, t, Append(s, f))
<1> DEFINE z == Append(s, f)
<1>1. /\ \A i \in DOMAIN z : i = Len(s) + 1 \/ i \in DOMAIN s
      /\ z[Len(s) + 1] = f /\ \A i \in DOMAIN s : z[i] = s[i]
  OBVIOUS
<1> HIDE DEF z
<1>2. Looked(c, t, z)
  BY <1>1 DEF Looked
<1> QED BY <1>2 DEF z

LEMMA EnteredIsThere ==
  ASSUME NEW c, NEW t, NEW u, NEW q, NEW a, NEW f, Entering(c, t, u, q, a, f),
         NEW K, NEW M, M \cap Path \subseteq K, a.from \in K, a.from \notin M,
         Pasts(c, t, K, {}, q)
  PROVE  /\ Pasts(c, u, M, {}, q)
         /\ \A R : (f.created => f.place \in R) =>
              \A r \in Path : Src(c, r) = a.from /\ Stat(c.tree, a.from).error = "none" =>
                Twice(c, u, q) \/ Faithful(c, u, R, q, r)
<1> DEFINE p == f.place
<1>1. /\ Grown(c, t, q) /\ Grown(c, u, q) /\ Within(t, u) /\ Beneath(c, q, a) /\ a.from \in Path
      /\ Stat(t, a.from) = Found(f.at) /\ t[f.at].kind = "dir"
      /\ Stat(u, a.to) = Found(p) /\ u[p].kind = "dir"
      /\ \A x \in DOMAIN t : u[x] = t[x]
      /\ DOMAIN u \subseteq DOMAIN t \cup {p} /\ (f.created \/ u = t)
  BY DEF Entering
<1> HIDE DEF p
<1>2. c.from \in Path /\ q \in Path /\ Sound(t) /\ Sound(u)
  BY <1>1 DEF Grown
<1>3. PICK o \in Path : a.from = Src(c, o) /\ a.to = Dst(q, o)
  BY <1>1, NamedBy
<1>4. Stat(t, a.from).error = "none" /\ Stat(t, a.from).at = f.at
  BY <1>1, Errors
<1>5. Stat(u, a.from).error = "none" /\ u[Stat(u, a.from).at].kind = "dir"
  BY <1>1, <1>2, <1>4, SeenGrows
<1>6. PastBy(c, u, M, q, p, o)
  BY <1>1, <1>3, <1>5 DEF PastBy
<1>7. Past(c, u, M, q, p)
  BY <1>6 DEF Past
<1>8. Pasts(c, u, M, {}, q)
  <2>1. \A x \in DOMAIN u \ DOMAIN c.tree : x \in DOMAIN t \ {} \/ x \in {} \/ Past(c, u, M, q, x)
    BY <1>1, <1>7
  <2> DEFINE e == {}
  <2>2. /\ Pasts(c, t, K, e, q)
        /\ \A x \in DOMAIN u \ DOMAIN c.tree : x \in DOMAIN t \ e \/ x \in e \/ Past(c, u, M, q, x)
    BY <2>1
  <2> HIDE DEF e
  <2>3. Pasts(c, u, M, e, q)
    BY <1>1, <1>2, <2>2, PastsGrow
  <2> QED BY <2>3 DEF e
<1>9. ASSUME NEW R, f.created => p \in R, NEW r \in Path, Src(c, r) = a.from,
             Stat(c.tree, a.from).error = "none", ~Twice(c, u, q)
      PROVE  Faithful(c, u, R, q, r)
  <2>1. r = o
    BY <1>2, <1>3, <1>9, SourcesAre
  <2>2. /\ Stat(t, a.from) = Stat(c.tree, a.from)
        /\ t[Stat(c.tree, a.from).at].kind = c.tree[Stat(c.tree, a.from).at].kind
    BY <1>1, <1>9, SourceIs
  <2>3. c.tree[Stat(c.tree, a.from).at].kind = "dir"
    BY <1>1, <1>4, <2>2
  <2>4. Stat(u, Dst(q, r)).error = "none" /\ Stat(u, Dst(q, r)).at = p
    BY <1>1, <1>3, <2>1, Errors
  <2>5. p \notin DOMAIN c.tree => p \in R
    <3> SUFFICES ASSUME p \notin DOMAIN c.tree, ~f.created PROVE FALSE
      BY <1>9
    <3>1. u = t /\ p \in DOMAIN t
      <4>1. a.to \in Path
        BY <1>2, <1>3, SourcesAre
      <4>2. Stat(u, a.to).error = "none" /\ Stat(u, a.to).at = p
        BY <1>1, Errors
      <4> QED BY <1>1, <1>2, <4>1, <4>2, StatFound
    <3>2. Past(c, t, K, q, p)
      BY <3>1 DEF Pasts
    <3>3. Twice(c, t, q)
      BY <1>1, <1>3, <1>4, <3>1, <3>2, PastIsTwice
    <3> QED BY <1>9, <3>1, <3>3
  <2> QED BY <1>1, <1>3, <2>1, <2>3, <2>4, <2>5 DEF Faithful, Equal
<1> QED BY <1>8, <1>9 DEF p

LEMMA WholeEnters ==
  ASSUME NEW c, NEW t, NEW u, NEW q, NEW a, NEW f \in Frames, Entering(c, t, u, q, a, f),
         NEW s \in Seq(Frames), NEW w, NEW m, WholeIs(c, t, s, a, w, "enter", m, q), NEW b, NEW v
  PROVE  WholeIs(c, u, Append(s, f), b, v, "read", m, q)
<1> DEFINE z == Append(s, f)
           K == Comings(s, a, "enter")
           M == Comings(z, b, "read")
           P == Doomed(s, {})
           R == Doomed(z, {})
<1>1. /\ Grown(c, t, q) /\ Grown(c, u, q) /\ Within(t, u) /\ a.from \in Path
      /\ Stat(t, a.from) = Found(f.at) /\ Entries(c.tree, f.at) \subseteq f.listed
      /\ f.from = a.from /\ f.seen = {} /\ u[f.place].kind = "dir"
      /\ \A x \in DOMAIN t : u[x] = t[x]
      /\ DOMAIN u \subseteq DOMAIN t \cup {f.place}
  BY DEF Entering
<1>2. /\ InLine(s, a, "enter") /\ Clean(t, {}) /\ Pasts(c, t, K, {}, q) /\ Looked(c, t, s)
      /\ ~m => Twice(c, t, q) \/ Got(c, t, K, P, q)
  BY DEF WholeIs, Unfinished, Half
<1>3. /\ InLine(z, b, "read") /\ a.from \notin M /\ a.from \in K /\ M \cap Path \subseteq K
      /\ \A x \in Path : x \in K => x \in M \/ x = a.from
  <2>1. /\ InLine(z, b, "read") /\ ~Coming(z, b, "read", a.from)
        /\ \A x \in Path : Coming(z, b, "read", x) => Coming(s, a, "enter", x)
        /\ \A x \in Path : Coming(s, a, "enter", x) => Coming(z, b, "read", x) \/ x = a.from
    BY <1>1, <1>2, LineEnters
  <2>2. Coming(s, a, "enter", a.from)
    BY <1>1, PrefixChain DEF Coming
  <2> HIDE DEF z
  <2> QED BY <1>1, <2>1, <2>2 DEF Comings
<1>4. P \subseteq R /\ (f.created => f.place \in R)
  BY PendingPushed
<1>5. Looked(c, u, z)
  <2>1. Looked(c, u, s)
    BY <1>1, <1>2, LookedGrows
  <2>2. Stat(u, f.from) = Found(f.at)
    <3>1. Stat(t, f.from).error = "none" /\ f.from \in Path /\ Sound(t) /\ Sound(u)
      BY <1>1, Errors DEF Grown
    <3> QED BY <1>1, <3>1, StatGrows
  <2> QED BY <1>1, <2>1, <2>2, LookedPushed
<1> HIDE DEF z, K, M, P, R
<1>6. /\ Pasts(c, u, M, {}, q)
      /\ \A r \in Path : Src(c, r) = a.from /\ Stat(c.tree, a.from).error = "none" =>
           Twice(c, u, q) \/ Faithful(c, u, R, q, r)
  BY <1>2, <1>3, <1>4, EnteredIsThere
<1>7. Clean(u, {})
  BY <1>1, <1>2 DEF Clean
<1>8. ASSUME ~m PROVE Twice(c, u, q) \/ Got(c, u, M, R, q)
  <2>1. ASSUME NEW r \in Path, Stat(c.tree, Src(c, r)).error = "none", Src(c, r) \notin M
        PROVE  Twice(c, u, q) \/ Faithful(c, u, R, q, r) \/ Spared(c, t, u, q, K, P, R, r)
    <3>1. Src(c, r) \in Path
      BY <1>1, SourcesAre DEF Grown
    <3>2. CASE Src(c, r) \in K
      BY <1>3, <1>6, <2>1, <3>1, <3>2
    <3>3. CASE Src(c, r) \notin K
      BY <1>1, <1>4, <3>3 DEF Spared
    <3> QED BY <3>2, <3>3
  <2>2. Kept(c, t, u, q, K, M, P, R)
    BY <2>1 DEF Kept
  <2> QED BY <1>1, <1>2, <1>8, <2>2, GotGrows
<1>9. InLine(z, b, "read") /\ Unfinished(v, "read") = {} /\ Half(v, "read") = {}
  BY <1>3 DEF Unfinished, Half
<1> QED BY <1>5, <1>6, <1>7, <1>8, <1>9 DEF WholeIs, z, M, R

-----------------------------------------------------------------------------
(* The loop over the entries of a directory.                               *)
SameOpen(f, g) ==
  /\ f.from = g.from /\ f.to = g.to /\ f.at = g.at /\ f.place = g.place
  /\ f.created = g.created /\ f.listed = g.listed

LEMMA LookedRetopped ==
  ASSUME NEW c, NEW t, NEW s \in Seq(Frames), s # <<>>, NEW f \in Frames, SameOpen(f, Last(s)),
         Looked(c, t, s)
  PROVE  /\ Looked(c, t, Append(Front(s), f))
         /\ Doomed(Append(Front(s), f), {}) = Doomed(s, {})
         /\ Last(Append(Front(s), f)) = f /\ Append(Front(s), f) # <<>>
<1> DEFINE z == Append(Front(s), f)
<1>1. /\ Front(s) \in Seq(Frames) /\ Len(Front(s)) = Len(s) - 1 /\ Last(s) = s[Len(s)]
      /\ Len(s) \in Nat \ {0} /\ \A i \in 1 .. Len(s) - 1 : Front(s)[i] = s[i]
  BY Stacks
<1>2. DOMAIN z = DOMAIN s /\ z[Len(s)] = f /\ \A i \in 1 .. Len(s) - 1 : z[i] = s[i]
  BY <1>1
<1>3. SameCall(f, Last(s))
  BY DEF SameOpen, SameCall
<1>4. SameCalls(s, z) /\ z # <<>> /\ Last(z) = f
  BY <1>3, CallsRetopped
<1>5. Doomed(z, {}) = Doomed(s, {})
  <2> HIDE DEF z
  <2> QED BY <1>4, CallsCarry
<1>6. \A i \in DOMAIN s : z[i].from = s[i].from /\ z[i].at = s[i].at /\ z[i].listed = s[i].listed
  <2> HIDE DEF z
  <2> TAKE i \in DOMAIN s
  <2>1. i \in 1 .. Len(s)
    OBVIOUS
  <2>2. CASE i = Len(s)
    BY <1>1, <1>2, <2>2 DEF SameOpen
  <2>3. CASE i # Len(s)
    BY <1>1, <1>2, <2>1, <2>3
  <2> QED BY <2>2, <2>3
<1>7. Looked(c, t, z)
  <2> HIDE DEF z
  <2> QED BY <1>2, <1>6 DEF Looked
<1> QED BY <1>4, <1>5, <1>7

LEMMA PastsLess ==
  ASSUME NEW c, c.from \in Path, NEW t, NEW q \in Path, NEW K, NEW M, M \cap Path \subseteq K, NEW x,
         Pasts(c, t, K, x, q)
  PROVE  Pasts(c, t, M, x, q)
<1> SUFFICES ASSUME NEW p \in DOMAIN t \ DOMAIN c.tree, p \notin x PROVE Past(c, t, M, q, p)
  BY DEF Pasts
<1>1. PICK r \in Path : PastBy(c, t, K, q, p, r)
  BY DEF Pasts, Past
<1>2. Src(c, r) \in Path
  BY SourcesAre
<1>3. PastBy(c, t, M, q, p, r)
  BY <1>1, <1>2 DEF PastBy
<1> QED BY <1>3 DEF Past

(* An entry is called for. *)
Reads(s, f, n, b, ph) ==
  /\ s # <<>> /\ SameOpen(f, Last(s)) /\ n \notin Last(s).seen
  /\ f.seen = Last(s).seen \cup {n} /\ b.from = Append(f.from, n)
  /\ ph \in {"enter", "file"}

LEMMA WholeReads ==
  ASSUME NEW c, c.from \in Path, NEW t, NEW q \in Path, NEW s \in Seq(Frames),
         NEW f \in Frames, NEW n \in Name, NEW a, NEW b, NEW ph, Reads(s, f, n, b, ph),
         NEW w, NEW m, WholeIs(c, t, s, a, w, "read", m, q)
  PROVE  WholeIs(c, t, Append(Front(s), f), b, w, ph, m, q)
<1>0. /\ s # <<>> /\ SameOpen(f, Last(s)) /\ n \notin Last(s).seen
      /\ f.seen = Last(s).seen \cup {n} /\ b.from = Append(f.from, n)
      /\ ph \in {"enter", "file"}
  BY DEF Reads
<1> DEFINE z == Append(Front(s), f)
           K == Comings(s, a, "read")
           M == Comings(z, b, ph)
<1>1. /\ InLine(s, a, "read") /\ Clean(t, {}) /\ Pasts(c, t, K, {}, q) /\ Looked(c, t, s)
      /\ ~m => Twice(c, t, q) \/ Got(c, t, K, Doomed(s, {}), q)
  BY DEF WholeIs, Unfinished, Half
<1>2. f.from = Last(s).from
  BY <1>0 DEF SameOpen
<1>3. /\ InLine(z, b, ph)
      /\ \A x \in Path : Coming(z, b, ph, x) => Coming(s, a, "read", x)
      /\ \A x \in Path : Coming(s, a, "read", x) => Coming(z, b, ph, x)
  <2>1. ph \in {"enter", "file", "close"} /\ ph # "close" /\ Last(s).seen \subseteq f.seen
    BY <1>0
  <2> HIDE DEF K, M
  <2> QED BY ONLY s \in Seq(Frames), f \in Frames, n \in Name, <1>0, <1>1, <1>2, <2>1, LineReads
<1>4. Looked(c, t, z) /\ Doomed(z, {}) = Doomed(s, {}) /\ z # <<>>
  BY <1>0, <1>1, LookedRetopped
<1> HIDE DEF z
<1>5. M = K
  BY <1>3 DEF Comings
<1>6. ph # "done" /\ ph # "write" /\ ph # "close" /\ Unfinished(w, ph) = {} /\ Half(w, ph) = {}
  BY <1>0 DEF Unfinished, Half
<1>7. WholeIs(c, t, z, b, w, ph, m, q)
  <2> HIDE DEF K
  <2>1. Pasts(c, t, M, {}, q) /\ (~m => Twice(c, t, q) \/ Got(c, t, M, Doomed(z, {}), q))
    BY <1>1, <1>4, <1>5
  <2> QED BY <1>1, <1>3, <1>4, <1>6, <2>1 DEF WholeIs
<1> QED BY <1>7 DEF z

(* The loop is left: after the last entry, or when one is missed. *)
LEMMA WholeLeaves ==
  ASSUME NEW c, c.from \in Path, NEW t, NEW q \in Path, NEW s \in Seq(Frames), s # <<>>,
         NEW f \in Frames, SameOpen(f, Last(s)), Last(s).seen \subseteq f.seen,
         NEW a, NEW b, NEW w, NEW m, WholeIs(c, t, s, a, w, "read", m, q),
         NEW k, ~k => ~m /\ f.seen = Last(s).seen /\ f.listed \subseteq f.seen
  PROVE  WholeIs(c, t, Append(Front(s), f), b, w, "close", k, q)
<1> DEFINE z == Append(Front(s), f)
           K == Comings(s, a, "read")
           M == Comings(z, b, "close")
<1>1. /\ InLine(s, a, "read") /\ Clean(t, {}) /\ Pasts(c, t, K, {}, q) /\ Looked(c, t, s)
      /\ ~m => Twice(c, t, q) \/ Got(c, t, K, Doomed(s, {}), q)
  BY DEF WholeIs, Unfinished, Half
<1>2. f.from = Last(s).from
  BY DEF SameOpen
<1>4. InLine(z, b, "close") /\ \A x \in Path : Coming(z, b, "close", x) => Coming(s, a, "read", x)
  BY <1>1, <1>2, LineReads
<1>5. /\ Looked(c, t, z) /\ Doomed(z, {}) = Doomed(s, {}) /\ z # <<>>
      /\ Last(z) = f
  BY <1>1, LookedRetopped
<1>6. M \cap Path \subseteq K
  BY <1>4 DEF Comings
<1>7. Unfinished(w, "close") = {} /\ Half(w, "close") = {}
  BY DEF Unfinished, Half
<1>8. Pasts(c, t, M, {}, q)
  <2> DEFINE e == {}
  <2> HIDE DEF K, M, e
  <2>1. Pasts(c, t, K, e, q)
    BY <1>1 DEF e
  <2>2. Pasts(c, t, M, e, q)
    BY <1>6, <2>1, PastsLess
  <2> QED BY <2>2 DEF e
<1>9. ASSUME ~k PROVE Last(z).listed \subseteq Last(z).seen /\ (Twice(c, t, q) \/ Got(c, t, M, Doomed(z, {}), q))
  <2>1. M = K
    <3>1. \A i \in DOMAIN s : z[i].from = s[i].from /\ z[i].seen = s[i].seen
      <4>1. /\ Front(s) \in Seq(Frames) /\ Len(Front(s)) = Len(s) - 1 /\ Last(s) = s[Len(s)]
            /\ Len(s) \in Nat \ {0} /\ \A i \in 1 .. Len(s) - 1 : Front(s)[i] = s[i]
        BY Stacks
      <4>2. DOMAIN z = DOMAIN s /\ z[Len(s)] = f /\ \A i \in 1 .. Len(s) - 1 : z[i] = s[i]
        BY <4>1
      <4> HIDE DEF z
      <4> TAKE i \in DOMAIN s
      <4>3. CASE i = Len(s)
        BY <1>2, <1>9, <4>1, <4>2, <4>3
      <4>4. CASE i # Len(s)
        BY <4>1, <4>2, <4>4
      <4> QED BY <4>3, <4>4
    <3>2. \A x \in Path : Coming(s, a, "read", x) => Coming(z, b, "close", x)
      <4>1. DOMAIN z = DOMAIN s
        BY Stacks
      <4> HIDE DEF z
      <4> QED BY <3>1, <4>1 DEF Coming
    <3> HIDE DEF z
    <3> QED BY <1>4, <3>2 DEF Comings
  <2> HIDE DEF z, K, M
  <2> QED BY <1>1, <1>5, <1>9, <2>1
<1>10. WholeIs(c, t, z, b, w, "close", k, q)
  <2> HIDE DEF z, K
  <2> QED BY <1>1, <1>4, <1>5, <1>7, <1>8, <1>9 DEF WholeIs
<1> QED BY <1>10 DEF z

(* Whatever fails, nothing is torn before. *)
LEMMA FailedFrom ==
  ASSUME NEW c, NEW t, Clean(t, {}), NEW q PROVE FailedIs(c, t, q)
<1> QED BY DEF FailedIs, Clean

-----------------------------------------------------------------------------
(* A file is opened.                                                       *)
Opening(c, t, u, q, a, v) ==
  /\ Grown(c, t, q) /\ Grown(c, u, q) /\ Within(t, u) /\ Beneath(c, q, a)
  /\ a.from \in Path /\ a.to \in Path
  /\ Stat(t, a.from) = Found(v.source) /\ t[v.source].kind = "file"
  /\ Stat(u, a.to) = Found(v.place) /\ u[v.place].kind = "file" /\ v.place # v.source
  /\ DOMAIN u \subseteq DOMAIN t \cup {v.place}
  /\ \A x \in DOMAIN t : x # v.place => u[x] = t[x]
  /\ IF v.created
     THEN /\ v.place \notin DOMAIN t
          /\ c.backend = "linux" => u[v.place].mode = Left(c, t[v.source].mode)
     ELSE Stat(t, a.to) = Found(v.place) /\ t[v.place].kind = "file"

(* What is written over and was made by the copy has a second name.        *)
LEMMA OverNew ==
  ASSUME NEW c, NEW t, NEW u, NEW q, NEW a, NEW v, Opening(c, t, u, q, a, v), ~v.created,
         v.place \notin DOMAIN c.tree, NEW K, a.from \in K, Pasts(c, t, K, {}, q)
  PROVE  Overlaid(c, u, q)
<1> DEFINE p == v.place
           y == v.source
<1>1. /\ Grown(c, t, q) /\ Grown(c, u, q) /\ Within(t, u) /\ Beneath(c, q, a)
      /\ a.from \in Path /\ a.to \in Path
      /\ Stat(t, a.from) = Found(y) /\ t[y].kind = "file"
      /\ Stat(t, a.to) = Found(p) /\ t[p].kind = "file" /\ p \notin DOMAIN c.tree
  BY DEF Opening
<1> HIDE DEF p, y
<1>2. c.from \in Path /\ q \in Path /\ Sound(t) /\ Sound(u)
  BY <1>1 DEF Grown
<1>3. Stat(t, a.from).error = "none" /\ Stat(t, a.from).at = y
      /\ Stat(t, a.to).error = "none" /\ Stat(t, a.to).at = p
  BY <1>1, Errors
<1>4. p \in DOMAIN t
  BY <1>1, <1>2, <1>3, StatFound
<1>5. Past(c, t, K, q, p)
  BY <1>1, <1>4 DEF Pasts
<1>6. PICK r \in Path : PastBy(c, t, K, q, p, r)
  BY <1>5 DEF Past
<1>7. PICK o \in Path : a.from = Src(c, o) /\ a.to = Dst(q, o)
  BY <1>1, NamedBy
<1>8. /\ Stat(t, Dst(q, r)) = Found(p) /\ Stat(t, Src(c, r)).error = "none"
      /\ t[Stat(t, Src(c, r)).at].kind = "file" /\ r # o
  BY <1>1, <1>6, <1>7 DEF PastBy
<1>9. OverlaidBy(c, t, q, o, r)
  BY <1>1, <1>3, <1>7, <1>8 DEF OverlaidBy
<1>10. Overlaid(c, t, q)
  BY <1>9 DEF Overlaid
<1> QED BY <1>1, <1>2, <1>10, OverlaidGrows

LEMMA OverlaidIsTwice ==
  ASSUME NEW c, NEW t, NEW q, Overlaid(c, t, q) PROVE Twice(c, t, q)
<1>1. PICK r \in Path, s \in Path : OverlaidBy(c, t, q, r, s)
  BY DEF Overlaid
<1>2. TwiceBy(c, t, q, r, s)
  BY <1>1 DEF OverlaidBy, TwiceBy
<1> QED BY <1>2 DEF Twice

(* The name of a file under which another copy lies is a second one.       *)
LEMMA SecondName ==
  ASSUME NEW c, NEW t, NEW q, Grown(c, t, q), NEW r \in Path, Stat(c.tree, Src(c, r)).error = "none",
         NEW o \in Path, r # o, Stat(t, Src(c, o)).error = "none",
         NEW p, Stat(t, Dst(q, r)) = Found(p), Stat(t, Dst(q, o)) = Found(p),
         t[p].kind = "file" \/ p \notin DOMAIN c.tree
  PROVE  Twice(c, t, q)
<1>1. Src(c, r) \in Path
  BY SourcesAre DEF Grown
<1>2. Stat(t, Src(c, r)).error = "none"
  BY <1>1, SourceIs
<1> QED BY <1>2, TwoNamesThere

LEMMA OpenedKept ==
  ASSUME NEW c, NEW t, NEW u, NEW q, NEW a, NEW v, Opening(c, t, u, q, a, v),
         NEW K, a.from \in K, NEW P
  PROVE  Kept(c, t, u, q, K, K, P, P)
<1> DEFINE p == v.place
           y == v.source
<1>1. /\ Grown(c, t, q) /\ Grown(c, u, q) /\ Within(t, u) /\ Beneath(c, q, a)
      /\ a.from \in Path /\ a.to \in Path
      /\ Stat(t, a.from) = Found(y) /\ t[y].kind = "file"
      /\ \A x \in DOMAIN t : x # p => u[x] = t[x]
      /\ IF v.created THEN p \notin DOMAIN t
         ELSE Stat(t, a.to) = Found(p) /\ t[p].kind = "file"
  BY DEF Opening
<1> HIDE DEF p, y
<1>2. c.from \in Path /\ q \in Path /\ Sound(t) /\ Sound(u)
  BY <1>1 DEF Grown
<1>3. PICK o \in Path : a.from = Src(c, o) /\ a.to = Dst(q, o)
  BY <1>1, NamedBy
<1>4. Stat(t, a.from).error = "none"
  BY <1>1, Errors
<1>5. ASSUME NEW r \in Path, Stat(c.tree, Src(c, r)).error = "none", Src(c, r) \notin K
      PROVE  Twice(c, u, q) \/ Spared(c, t, u, q, K, P, P, r)
  <2>1. r # o
    BY <1>3, <1>5
  <2> DEFINE x == Stat(t, Dst(q, r)).at
  <2>2. CASE Stat(t, Dst(q, r)).error = "none" /\ x = p /\ p \in DOMAIN t
    <3>1. Dst(q, r) \in Path
      BY <1>2, SourcesAre
    <3>2. Stat(t, Dst(q, r)) = Found(p)
      BY <1>2, <2>2, <3>1, StatFound
    <3>3. Twice(c, t, q)
      BY <1>1, <1>3, <1>4, <1>5, <2>1, <2>2, <3>2, SecondName
    <3> QED BY <1>1, <1>2, <3>3, TwiceGrows
  <2>3. CASE ~(Stat(t, Dst(q, r)).error = "none" /\ x = p /\ p \in DOMAIN t)
    BY <1>1, <1>5, <2>3 DEF Spared
  <2> QED BY <2>2, <2>3
<1> QED BY <1>5 DEF Kept

LEMMA WholeOpens ==
  ASSUME NEW c, NEW t, NEW u, NEW q, NEW a, NEW v, Opening(c, t, u, q, a, v),
         NEW s \in Seq(Frames), NEW w, NEW m, WholeIs(c, t, s, a, w, "file", m, q)
  PROVE  WholeIs(c, u, s, a, v, "write", m, q)
<1> DEFINE K == Comings(s, a, "file")
           P == Doomed(s, {})
           e == {}
<1>1. /\ InLine(s, a, "file") /\ Clean(t, {}) /\ Pasts(c, t, K, {}, q) /\ Looked(c, t, s)
      /\ ~m => Twice(c, t, q) \/ Got(c, t, K, P, q)
  BY DEF WholeIs, Unfinished, Half
<1>2. /\ Grown(c, t, q) /\ Grown(c, u, q) /\ Within(t, u) /\ a.from \in Path /\ a.to \in Path
      /\ c.from \in Path /\ q \in Path /\ Sound(t) /\ Sound(u)
      /\ Stat(t, a.from) = Found(v.source) /\ t[v.source].kind = "file"
      /\ Stat(u, a.to) = Found(v.place) /\ v.place # v.source
      /\ DOMAIN u \subseteq DOMAIN t \cup {v.place}
      /\ \A x \in DOMAIN t : x # v.place => u[x] = t[x]
      /\ v.created => /\ v.place \notin DOMAIN t
                      /\ c.backend = "linux" => u[v.place].mode = Left(c, t[v.source].mode)
      /\ ~v.created => Stat(t, a.to) = Found(v.place)
      /\ Beneath(c, q, a)
  BY DEF Opening, Grown
<1>3. /\ InLine(s, a, "write") /\ Comings(s, a, "write") = K /\ a.from \in K
      /\ Unfinished(v, "write") = {v.place} /\ Half(v, "write") = IF v.created THEN {v.place} ELSE {}
  <2>1. InLine(s, a, "write")
    BY <1>1 DEF InLine
  <2>2. Coming(s, a, "file", a.from)
    BY <1>2, PrefixChain DEF Coming
  <2>3. \A x : Coming(s, a, "write", x) <=> Coming(s, a, "file", x)
    BY DEF Coming
  <2>4. Comings(s, a, "write") = K
    BY <2>3 DEF Comings
  <2>5. a.from \in K
    BY <1>2, <2>2 DEF Comings
  <2> QED BY <2>1, <2>4, <2>5 DEF Unfinished, Half
<1> HIDE DEF K, P, e
<1>4. v.source \in DOMAIN t /\ Stat(t, a.from).error = "none"
  <2>1. Stat(t, a.from).error = "none" /\ Stat(t, a.from).at = v.source
    BY <1>2, Errors
  <2> QED BY <1>2, <2>1, StatFound
<1>5. Writes(c, u, a, v, q)
  <2>1. Stat(u, a.from) = Found(v.source)
    BY <1>2, <1>4, SeenGrows
  <2>2. v.created /\ c.backend = "linux" => u[v.place].mode = Left(c, u[v.source].mode)
    BY <1>2, <1>4
  <2>3. ~v.created /\ v.place \notin DOMAIN c.tree => Overlaid(c, u, q)
    BY <1>1, <1>3, OverNew
  <2> QED BY <1>2, <2>1, <2>2, <2>3 DEF Writes
<1>6. Clean(u, {v.place})
  BY <1>1, <1>2 DEF Clean
<1>7. Pasts(c, u, K, Half(v, "write"), q)
  <2> DEFINE h == Half(v, "write")
  <2>1. \A x \in DOMAIN u \ DOMAIN c.tree : x \in DOMAIN t \ e \/ x \in h \/ Past(c, u, K, q, x)
    <3>1. ~v.created => v.place \in DOMAIN t
      <4>1. ~v.created => Stat(t, a.to).error = "none" /\ Stat(t, a.to).at = v.place
        BY <1>2, Errors
      <4> QED BY <1>2, <4>1, StatFound
    <3> QED BY <1>2, <1>3, <3>1 DEF e
  <2>2. Pasts(c, t, K, e, q) /\ K \cap Path \subseteq K
    BY <1>1 DEF e
  <2> HIDE DEF h
  <2>3. Pasts(c, u, K, h, q)
    BY <1>2, <2>1, <2>2, PastsGrow
  <2> QED BY <2>3 DEF h
<1>8. Looked(c, u, s)
  BY <1>1, <1>2, LookedGrows
<1>9. ASSUME ~m PROVE Twice(c, u, q) \/ Got(c, u, K, P, q)
  <2>1. Kept(c, t, u, q, K, K, P, P)
    BY <1>3, OpenedKept
  <2> QED BY <1>1, <1>2, <1>9, <2>1, GotGrows
<1> QED BY <1>3, <1>5, <1>6, <1>7, <1>8, <1>9 DEF WholeIs, P

-----------------------------------------------------------------------------
(* The file has been written.                                              *)
Wrote(c, t, u, q, a, w) ==
  /\ Grown(c, t, q) /\ Grown(c, u, q) /\ Within(t, u) /\ Beneath(c, q, a)
  /\ a.from \in Path /\ a.to \in Path
  /\ w.place \in DOMAIN t /\ t[w.place].kind = "file"
  /\ w.source \in DOMAIN t /\ t[w.source].kind = "file"
  /\ DOMAIN u = DOMAIN t /\ \A x \in DOMAIN t : x # w.place => u[x] = t[x]
  /\ u[w.place].kind = "file" /\ (c.backend = "linux" => u[w.place].mode = t[w.place].mode)
  /\ u[w.place].data = t[w.source].data

(* A source that is not what it was is what another name was copied to.    *)
LEMMA SourceChanged ==
  ASSUME NEW c, NEW t, NEW q, Grown(c, t, q), NEW o \in Path,
         NEW y \in DOMAIN t, Stat(t, Src(c, o)) = Found(y), t[y].kind = "file",
         Stat(t, Dst(q, o)) # Found(y), NEW D, AllMated(c, t, q, D), New(c, t, y)
  PROVE  Twice(c, t, q)
<1>1. Mated(c, t, q, D, y)
  BY DEF AllMated
<1>2. PICK z \in DOMAIN t : Mate(c, t, q, y, z)
  BY <1>1 DEF Mated
<1>3. PICK r \in Path : Stat(t, q \o r) = Found(y) /\ Stat(t, c.from \o r) = Found(z)
  BY <1>2 DEF Mate
<1>4. /\ Stat(t, Dst(q, r)) = Found(y) /\ Stat(t, Src(c, r)).error = "none"
      /\ Stat(t, Dst(q, r)).error = "none" /\ Stat(t, Src(c, o)).error = "none"
      /\ Stat(t, Dst(q, r)).at = y
  BY <1>3, Errors DEF Src, Dst
<1>5. r # o
  BY <1>4
<1>6. TwiceBy(c, t, q, r, o)
  BY <1>4, <1>5 DEF TwiceBy
<1> QED BY <1>6 DEF Twice

(* The copy is as its source. *)
LEMMA WrittenIsFaithful ==
  ASSUME NEW c, NEW t, NEW u, NEW q, NEW a, NEW w, Wrote(c, t, u, q, a, w), Writes(c, t, a, w, q),
         NEW D, AllMated(c, t, q, D), NEW o \in Path, Src(c, o) = a.from, Dst(q, o) = a.to,
         Stat(c.tree, a.from).error = "none", NEW P
  PROVE  Twice(c, u, q) \/ Faithful(c, u, P, q, o)
<1> DEFINE p == w.place
           y == w.source
           f == a.from
           d == a.to
<1>1. /\ Grown(c, t, q) /\ Grown(c, u, q) /\ Within(t, u) /\ f \in Path /\ d \in Path
      /\ p \in DOMAIN t /\ t[p].kind = "file" /\ y \in DOMAIN t /\ t[y].kind = "file"
      /\ u[p].kind = "file" /\ u[p].data = t[y].data
      /\ c.backend = "linux" => u[p].mode = t[p].mode
      /\ \A x \in DOMAIN t : x # p => u[x] = t[x]
  BY DEF Wrote
<1>2. /\ Stat(t, d) = Found(p) /\ Stat(t, f) = Found(y) /\ p # y
      /\ c.backend = "linux" /\ p \notin DOMAIN c.tree =>
           t[p].mode = Left(c, t[y].mode) \/ Overlaid(c, t, q)
  BY DEF Writes
<1> HIDE DEF p, y, f, d
<1>3. /\ Stat(t, d).error = "none" /\ Stat(t, d).at = p
      /\ Stat(t, f).error = "none" /\ Stat(t, f).at = y
  BY <1>2, Errors
<1>4. Src(c, o) = f /\ Dst(q, o) = d /\ Stat(c.tree, f).error = "none"
  BY DEF f, d
<1>5. c.from \in Path /\ q \in Path /\ Sound(t) /\ Sound(u)
  BY <1>1 DEF Grown
<1>6. Stat(c.tree, f) = Stat(t, f) /\ y \in DOMAIN c.tree
  BY <1>1, <1>3, <1>4, SourceIs
<1>7. Stat(u, d) = Found(p)
  BY <1>1, <1>2, <1>3, <1>5, SeenGrows
<1>8. c.tree[y].kind = "file" /\ (c.backend = "linux" => t[y].mode = c.tree[y].mode)
  <2>1. t[y].kind = c.tree[y].kind
    BY <1>1, <1>3, <1>4, <1>6, SourceIs
  <2> QED BY <1>1, <1>6, <2>1 DEF Grown
<1>9. CASE Overlaid(c, t, q)
  <2>1. Twice(c, t, q)
    BY <1>9, OverlaidIsTwice
  <2> QED BY <1>1, <1>5, <2>1, TwiceGrows
<1>10. CASE New(c, t, y)
  <2>1. Stat(t, d) # Found(y)
    BY <1>2, <1>3, Errors
  <2>2. Twice(c, t, q)
    BY <1>1, <1>2, <1>4, <1>10, <2>1, SourceChanged
  <2> QED BY <1>1, <1>5, <2>2, TwiceGrows
<1>11. CASE ~Overlaid(c, t, q) /\ ~New(c, t, y)
  <2>1. t[y] = c.tree[y]
    BY <1>1, <1>6, <1>11 DEF New
  <2>2. Stat(u, Dst(q, o)).error = "none" /\ Stat(u, Dst(q, o)).at = p
    BY <1>4, <1>7, Errors
  <2>3. Stat(c.tree, Src(c, o)).at = y
    BY <1>3, <1>4, <1>6
  <2>4. c.backend = "linux" /\ p \notin DOMAIN c.tree => u[p].mode = Left(c, c.tree[y].mode)
    BY <1>1, <1>2, <1>8, <1>11
  <2>5. u[p].data = c.tree[y].data /\ u[p].kind = c.tree[y].kind
    BY <1>1, <1>8, <2>1
  <2> QED BY <1>8, <2>2, <2>3, <2>4, <2>5 DEF Faithful, Equal
<1> QED BY <1>9, <1>10, <1>11

(* Below a file there is nothing. *)
LEMMA BelowFile ==
  ASSUME NEW c, NEW t, NEW q, Grown(c, t, q), NEW f \in Path, NEW y, Stat(t, f) = Found(y), t[y].kind = "file",
         NEW x \in Path, IsPrefix(f, x), Stat(c.tree, x).error = "none"
  PROVE  x = f
<1> SUFFICES ASSUME x # f PROVE FALSE
  OBVIOUS
<1>1. PICK n \in Name : IsPrefix(Append(f, n), x)
  BY BelowEntry
<1>2. Sound(c.tree)
  BY DEF Grown
<1>3. Stat(c.tree, f).error = "none" /\ c.tree[Stat(c.tree, f).at].kind = "dir"
  BY <1>1, <1>2, StatOnTheWay
<1>4. Stat(t, f) = Stat(c.tree, f) /\ t[Stat(c.tree, f).at].kind = "dir"
  BY <1>3, SourceIs
<1>5. Stat(c.tree, f).at = y
  BY <1>4, Errors
<1> QED BY <1>4, <1>5

LEMMA WroteKept ==
  ASSUME NEW c, NEW t, NEW u, NEW q, NEW a, NEW w, Wrote(c, t, u, q, a, w), Writes(c, t, a, w, q),
         NEW D, AllMated(c, t, q, D),
         NEW K, NEW M, a.from \in K, \A x \in Path : x \in K => x \in M \/ IsPrefix(a.from, x), NEW P
  PROVE  Kept(c, t, u, q, K, M, P, P)
<1> DEFINE p == w.place
           y == w.source
           f == a.from
           d == a.to
<1>1. /\ Grown(c, t, q) /\ Grown(c, u, q) /\ Within(t, u) /\ f \in Path /\ d \in Path
      /\ Beneath(c, q, a) /\ t[p].kind = "file" /\ t[y].kind = "file"
      /\ \A x \in DOMAIN t : x # p => u[x] = t[x]
  BY DEF Wrote
<1>2. Stat(t, d) = Found(p) /\ Stat(t, f) = Found(y)
  BY DEF Writes
<1>3. PICK o \in Path : f = Src(c, o) /\ d = Dst(q, o)
  BY <1>1, NamedBy
<1>4. f \in K /\ \A x \in Path : x \in K => x \in M \/ IsPrefix(f, x)
  OBVIOUS
<1>5. Stat(c.tree, f).error = "none" => Twice(c, u, q) \/ Faithful(c, u, P, q, o)
  BY <1>3, WrittenIsFaithful
<1> HIDE DEF p, y, f, d
<1>6. c.from \in Path /\ q \in Path /\ Sound(t) /\ Sound(u)
  BY <1>1 DEF Grown
<1>7. Stat(t, f).error = "none"
  BY <1>2, Errors
<1>8. ASSUME NEW r \in Path, Stat(c.tree, Src(c, r)).error = "none", Src(c, r) \notin M
      PROVE  Twice(c, u, q) \/ Faithful(c, u, P, q, r) \/ Spared(c, t, u, q, K, P, P, r)
  <2>1. Src(c, r) \in Path /\ Dst(q, r) \in Path
    BY <1>6, SourcesAre
  <2>2. CASE Src(c, r) = f
    <3>1. r = o
      BY <1>3, <1>6, <2>2, SourcesAre
    <3> QED BY <1>3, <1>5, <1>8, <3>1
  <2>3. CASE Src(c, r) # f
    <3>1. Src(c, r) \notin K
      <4> SUFFICES ASSUME Src(c, r) \in K PROVE FALSE
        OBVIOUS
      <4>1. IsPrefix(f, Src(c, r))
        BY <1>4, <1>8, <2>1
      <4> QED BY <1>1, <1>2, <1>8, <2>1, <2>3, <4>1, BelowFile
    <3>2. r # o
      BY <1>3, <2>3
    <3>3. CASE Stat(t, Dst(q, r)) = Found(p)
      <4>1. Twice(c, t, q)
        BY <1>1, <1>2, <1>3, <1>7, <1>8, <3>2, <3>3, SecondName
      <4> QED BY <1>1, <1>6, <4>1, TwiceGrows
    <3>4. CASE Stat(t, Dst(q, r)) # Found(p)
      <4>1. Stat(t, Dst(q, r)).error = "none" => Stat(t, Dst(q, r)).at # p
        BY <1>6, <2>1, <3>4, StatFound
      <4> QED BY <1>1, <3>1, <4>1 DEF Spared
    <3> QED BY <3>3, <3>4
  <2> QED BY <2>2, <2>3
<1> QED BY <1>8 DEF Kept

LEMMA WholeWrites ==
  ASSUME NEW c, NEW t, NEW u, NEW q, NEW a, NEW w, Wrote(c, t, u, q, a, w), NEW D, AllMated(c, t, q, D),
         NEW s \in Seq(Frames), NEW m, WholeIs(c, t, s, a, w, "write", m, q),
         NEW k \in {"read", "done"}, k = "done" => s = <<>>, NEW b, NEW v
  PROVE  WholeIs(c, u, s, b, v, k, m, q)
<1> DEFINE K == Comings(s, a, "write")
           M == Comings(s, b, k)
           P == Doomed(s, {})
           p == w.place
           y == w.source
           h == Half(w, "write")
           e == {}
<1>1. /\ InLine(s, a, "write") /\ Clean(t, {p}) /\ Writes(c, t, a, w, q)
      /\ Pasts(c, t, K, h, q) /\ Looked(c, t, s)
      /\ ~m => Twice(c, t, q) \/ Got(c, t, K, P, q)
  BY DEF WholeIs, Unfinished
<1>2. /\ Grown(c, t, q) /\ Grown(c, u, q) /\ Within(t, u) /\ a.from \in Path /\ a.to \in Path
      /\ c.from \in Path /\ q \in Path /\ Sound(t) /\ Sound(u) /\ Beneath(c, q, a)
      /\ p \in DOMAIN t /\ t[p].kind = "file" /\ y \in DOMAIN t /\ t[y].kind = "file"
      /\ DOMAIN u = DOMAIN t /\ \A x \in DOMAIN t : x # p => u[x] = t[x]
      /\ u[p].kind = "file" /\ u[p].data = t[y].data
  BY DEF Wrote, Grown
<1>3. /\ Stat(t, a.to) = Found(p) /\ Stat(t, a.from) = Found(y) /\ p # y
  BY <1>1 DEF Writes
<1>4. /\ InLine(s, b, k) /\ a.from \notin M /\ a.from \in K /\ M \cap Path \subseteq K
      /\ \A x \in Path : x \in K => x \in M \/ IsPrefix(a.from, x)
  <2>1. /\ InLine(s, b, k) /\ ~Coming(s, b, k, a.from)
        /\ \A x : Coming(s, b, k, x) => Coming(s, a, "write", x)
        /\ \A x : Coming(s, a, "write", x) => Coming(s, b, k, x) \/ IsPrefix(a.from, x)
    BY <1>1, <1>2, LineReturns
  <2>2. Coming(s, a, "write", a.from)
    BY <1>2, PrefixChain DEF Coming
  <2> QED BY <1>2, <2>1, <2>2 DEF Comings
<1>5. k # "write" /\ k # "close" /\ Unfinished(v, k) = {} /\ Half(v, k) = {} /\ h \subseteq {p}
  BY DEF Unfinished, Half
<1> HIDE DEF K, M, P, h, e, p, y
<1>6. Clean(u, {})
  BY <1>1, <1>2, <1>3 DEF Clean
<1>7. Looked(c, u, s)
  BY <1>1, <1>2, LookedGrows
<1>8. Pasts(c, u, M, {}, q)
  <2>1. PICK o \in Path : a.from = Src(c, o) /\ a.to = Dst(q, o)
    BY <1>2, NamedBy
  <2>2. /\ Stat(t, a.to).error = "none" /\ Stat(t, a.to).at = p
        /\ Stat(t, a.from).error = "none" /\ Stat(t, a.from).at = y
    BY <1>3, Errors
  <2>3. Stat(u, a.to) = Found(p) /\ Stat(u, a.from).error = "none" /\ u[Stat(u, a.from).at].kind = "file"
    BY <1>2, <1>3, <2>2, SeenGrows
  <2>4. PastBy(c, u, M, q, p, o)
    BY <1>2, <1>4, <2>1, <2>3 DEF PastBy
  <2>5. Past(c, u, M, q, p)
    BY <2>4 DEF Past
  <2>6. \A x \in DOMAIN u \ DOMAIN c.tree : x \in DOMAIN t \ h \/ x \in e \/ Past(c, u, M, q, x)
    BY <1>2, <1>5, <2>5
  <2>7. Pasts(c, u, M, e, q)
    BY <1>1, <1>2, <1>4, <2>6, PastsGrow
  <2> QED BY <2>7 DEF e
<1>9. ASSUME ~m PROVE Twice(c, u, q) \/ Got(c, u, M, P, q)
  <2>1. Kept(c, t, u, q, K, M, P, P)
    BY <1>1, <1>4, WroteKept
  <2> QED BY <1>1, <1>2, <1>9, <2>1, GotGrows
<1> QED BY <1>4, <1>5, <1>6, <1>7, <1>8, <1>9 DEF WholeIs, M, P

-----------------------------------------------------------------------------
(* A directory has been copied.                                            *)
Closing(c, t, u, q, f) ==
  /\ Grown(c, t, q) /\ Grown(c, u, q) /\ Within(t, u) /\ Beneath(c, q, f)
  /\ Stat(t, f.to) = Found(f.place) /\ f.place \in DOMAIN t /\ t[f.place].kind = "dir"
  /\ f.at \in DOMAIN t /\ t[f.at].kind = "dir"
  /\ f.created => f.place \notin DOMAIN c.tree
  /\ DOMAIN u = DOMAIN t /\ \A x \in DOMAIN t : x # f.place \/ ~f.created => u[x] = t[x]
  /\ f.created => /\ u[f.place].kind = "dir"
                  /\ c.backend = "linux" => u[f.place].mode = t[f.at].mode

(* What of it has not been seen is not below the source.                   *)
LEMMA AllSeen ==
  ASSUME NEW c, NEW t, NEW q, Grown(c, t, q), NEW f \in Frames, Stat(t, f.from) = Found(f.at),
         Entries(c.tree, f.at) \subseteq f.listed, f.listed \subseteq f.seen,
         NEW x \in Path, Stat(c.tree, x).error = "none",
         NEW n \in Name \ f.seen, IsPrefix(Append(f.from, n), x)
  PROVE  FALSE
<1>1. f.from \in Path
  BY DEF Frames
<1>2. Sound(c.tree)
  BY DEF Grown
<1>3. Stat(c.tree, f.from).error = "none" /\ n \in Entries(c.tree, Stat(c.tree, f.from).at)
  BY <1>1, <1>2, StatOnTheWay
<1>4. Stat(t, f.from) = Stat(c.tree, f.from)
  BY <1>1, <1>3, SourceIs
<1>5. Stat(c.tree, f.from).at = f.at
  BY <1>4, Errors
<1> QED BY <1>3, <1>5

(* The directory has the permissions of its source. *)
LEMMA ClosedIsFaithful ==
  ASSUME NEW c, NEW t, NEW u, NEW q, NEW f \in Frames, Closing(c, t, u, q, f), f.created,
         Stat(t, f.from) = Found(f.at),
         NEW o \in Path, Src(c, o) = f.from, Dst(q, o) = f.to, Stat(c.tree, f.from).error = "none",
         NEW P, Faithful(c, t, P, q, o), NEW R
  PROVE  Equal(c, u, R, q, o)
<1> DEFINE p == f.place
           y == c.tree[Stat(c.tree, f.from).at]
           d == f.to
<1>1. /\ Grown(c, t, q) /\ Grown(c, u, q) /\ Within(t, u)
      /\ Stat(t, d) = Found(p) /\ p \in DOMAIN t /\ t[p].kind = "dir"
      /\ f.at \in DOMAIN t /\ t[f.at].kind = "dir"
      /\ u[p].kind = "dir" /\ (c.backend = "linux" => u[p].mode = t[f.at].mode)
  BY DEF Closing
<1>2. d \in Path /\ f.from \in Path
  BY DEF Frames
<1>3. c.from \in Path /\ q \in Path /\ Sound(t) /\ Sound(u)
  BY <1>1 DEF Grown
<1>4. Stat(c.tree, f.from) = Found(f.at) /\ f.at \in DOMAIN c.tree
  <2>1. Stat(t, f.from) = Stat(c.tree, f.from) /\ Stat(c.tree, f.from).at \in DOMAIN c.tree
    BY <1>1, <1>2, SourceIs
  <2>2. Stat(c.tree, f.from).at = f.at
    BY <2>1, Errors
  <2> QED BY <2>1, <2>2
<1>5. t[f.at] = c.tree[f.at]
  <2>1. t[f.at].kind # "file"
    BY <1>1
  <2> QED BY <1>1, <1>4, <2>1 DEF Grown
<1>6. y = t[f.at]
  BY <1>4, <1>5, Errors
<1> HIDE DEF p, y, d
<1>7. Stat(t, d).error = "none" /\ Stat(t, d).at = p
  BY <1>1, Errors
<1>8. Stat(u, d).error = "none" /\ Stat(u, d).at = p
  BY <1>1, <1>2, <1>3, <1>7, SeenGrows
<1>9. /\ u[p].kind = y.kind /\ y.kind # "file"
      /\ c.backend = "linux" => u[p].mode = y.mode
  BY <1>1, <1>6
<1> QED BY <1>8, <1>9 DEF Equal, y, d

LEMMA ClosedKept ==
  ASSUME NEW c, NEW t, NEW u, NEW q, NEW f \in Frames, Closing(c, t, u, q, f),
         Stat(t, f.from) = Found(f.at), Entries(c.tree, f.at) \subseteq f.listed,
         f.listed \subseteq f.seen, NEW K, NEW M,
         \A x \in Path : x \in K => \/ x \in M
                                    \/ \E n \in Name \ f.seen : IsPrefix(Append(f.from, n), x),
         NEW P, NEW R, \A x \in P : x \in R \/ (f.created /\ x = f.place),
         Got(c, t, K, P, q)
  PROVE  Kept(c, t, u, q, K, M, P, R)
<1> DEFINE p == f.place
           d == f.to
<1>1. /\ Grown(c, t, q) /\ Grown(c, u, q) /\ Within(t, u) /\ Beneath(c, q, f)
      /\ Stat(t, d) = Found(p) /\ t[p].kind = "dir"
      /\ f.created => p \notin DOMAIN c.tree
      /\ \A x \in DOMAIN t : x # p \/ ~f.created => u[x] = t[x]
      /\ \A x \in P : x \in R \/ (f.created /\ x = p)
  BY DEF Closing
<1>2. PICK o \in Path : f.from = Src(c, o) /\ d = Dst(q, o)
  BY <1>1, NamedBy
<1>3. c.from \in Path /\ q \in Path /\ Sound(t) /\ Sound(u)
  BY <1>1 DEF Grown
<1>4. Stat(t, f.from).error = "none"
  BY Errors
<1>5. ASSUME NEW r \in Path, Stat(c.tree, Src(c, r)).error = "none", Src(c, r) \notin M
      PROVE  Twice(c, u, q) \/ Faithful(c, u, R, q, r) \/ Spared(c, t, u, q, K, P, R, r)
  <2>1. Src(c, r) \in Path /\ Dst(q, r) \in Path
    BY <1>3, SourcesAre
  <2>2. Src(c, r) \notin K
    <3> SUFFICES ASSUME Src(c, r) \in K PROVE FALSE
      OBVIOUS
    <3>1. PICK n \in Name \ f.seen : IsPrefix(Append(f.from, n), Src(c, r))
      BY <1>5, <2>1
    <3> QED BY <1>1, <1>5, <2>1, <3>1, AllSeen
  <2>3. CASE f.created /\ Stat(t, Dst(q, r)) = Found(p)
    <3>1. CASE r = o
      <4>1. Faithful(c, t, P, q, o)
        BY <1>5, <2>2, <3>1 DEF Got
      <4>2. Faithful(c, u, R, q, o)
        BY <1>2, <1>5, <2>3, <3>1, <4>1, ClosedIsFaithful DEF Faithful
      <4> QED BY <3>1, <4>2
    <3>2. CASE r # o
      <4>1. p \notin DOMAIN c.tree /\ Stat(t, Dst(q, o)) = Found(p) /\ Stat(t, Src(c, o)).error = "none"
        BY <1>1, <1>2, <1>4, <2>3
      <4> HIDE DEF p, d
      <4>2. Twice(c, t, q)
        BY <1>1, <1>5, <2>3, <3>2, <4>1, SecondName
      <4> QED BY <1>1, <1>3, <4>2, TwiceGrows
    <3> QED BY <3>1, <3>2
  <2>4. CASE ~(f.created /\ Stat(t, Dst(q, r)) = Found(p))
    <3> HIDE DEF p, d
    <3>1. Stat(t, Dst(q, r)).error = "none" => ~f.created \/ Stat(t, Dst(q, r)).at # p
      BY <1>3, <2>1, <2>4, StatFound
    <3> QED BY <1>1, <2>2, <3>1 DEF Spared
  <2> QED BY <2>3, <2>4
<1> QED BY <1>5 DEF Kept

LEMMA DoomedFront ==
  ASSUME NEW s \in Seq(Frames), s # <<>>
  PROVE  \A x \in Doomed(s, {}) : x \in Doomed(Front(s), {}) \/ (Last(s).created /\ x = Last(s).place)
<1>1. /\ Last(s) = s[Len(s)] /\ Front(s) \in Seq(Frames) /\ Len(s) \in Nat \ {0}
      /\ Len(Front(s)) = Len(s) - 1 /\ \A i \in 1 .. Len(s) - 1 : Front(s)[i] = s[i]
  BY Stacks
<1> DEFINE z == Front(s)
<1>2. DOMAIN z = 1 .. Len(s) - 1 /\ DOMAIN s = 1 .. Len(s)
  BY <1>1
<1> HIDE DEF z
<1> SUFFICES ASSUME NEW x \in Doomed(s, {}) PROVE x \in Doomed(z, {}) \/ (Last(s).created /\ x = Last(s).place)
  BY DEF z
<1>3. PICK i \in DOMAIN s : s[i].created /\ x = s[i].place
  BY DEF Doomed
<1>4. CASE i = Len(s)
  BY <1>1, <1>3, <1>4
<1>5. CASE i # Len(s)
  <2>1. i \in DOMAIN z /\ z[i] = s[i]
    BY <1>1, <1>2, <1>5 DEF z
  <2> QED BY <1>3, <2>1 DEF Doomed
<1> QED BY <1>4, <1>5

LEMMA LookedFront ==
  ASSUME NEW c, NEW t, NEW s \in Seq(Frames), s # <<>>, Looked(c, t, s)
  PROVE  /\ Looked(c, t, Front(s))
         /\ Stat(t, Last(s).from) = Found(Last(s).at) /\ Entries(c.tree, Last(s).at) \subseteq Last(s).listed
<1>1. /\ Last(s) = s[Len(s)] /\ Front(s) \in Seq(Frames) /\ Len(s) \in Nat \ {0}
      /\ Len(Front(s)) = Len(s) - 1 /\ \A i \in 1 .. Len(s) - 1 : Front(s)[i] = s[i]
  BY Stacks
<1> DEFINE z == Front(s)
<1>2. DOMAIN z = 1 .. Len(s) - 1 /\ DOMAIN s = 1 .. Len(s) /\ \A i \in DOMAIN z : i \in DOMAIN s /\ z[i] = s[i]
  BY <1>1
<1> HIDE DEF z
<1>3. Looked(c, t, z)
  BY <1>2 DEF Looked
<1>4. Len(s) \in DOMAIN s
  BY <1>1
<1> QED BY <1>1, <1>3, <1>4 DEF Looked, z

LEMMA WholeCloses ==
  ASSUME NEW c, NEW t, NEW u, NEW q, NEW s \in Seq(Frames), s # <<>>, Closing(c, t, u, q, Last(s)),
         NEW a, NEW w, NEW m, WholeIs(c, t, s, a, w, "close", m, q),
         NEW k \in {"read", "done"}, k = "done" => Front(s) = <<>>, NEW b
  PROVE  WholeIs(c, u, Front(s), b, w, k, m, q)
<1> DEFINE f == Last(s)
           z == Front(s)
           K == Comings(s, a, "close")
           M == Comings(z, b, k)
           P == Doomed(s, {})
           R == Doomed(z, {})
           e == {}
<1>1. /\ InLine(s, a, "close") /\ Clean(t, {}) /\ Pasts(c, t, K, {}, q) /\ Looked(c, t, s)
      /\ ~m => /\ f.listed \subseteq f.seen
               /\ Twice(c, t, q) \/ Got(c, t, K, P, q)
  BY DEF WholeIs, Unfinished, Half
<1>2. /\ Closing(c, t, u, q, f) /\ Grown(c, t, q) /\ Grown(c, u, q) /\ Within(t, u)
      /\ c.from \in Path /\ q \in Path /\ Sound(t) /\ Sound(u)
      /\ DOMAIN u = DOMAIN t /\ \A x \in DOMAIN t : u[x] = t[x] \/ u[x].kind = "dir"
  BY DEF Closing, Grown
<1>3. f \in Frames /\ z \in Seq(Frames)
  BY Stacks
<1>4. /\ InLine(z, b, k) /\ M \cap Path \subseteq K
      /\ \A x \in Path : x \in K => x \in M \/ \E n \in Name \ f.seen : IsPrefix(Append(f.from, n), x)
  <2>1. /\ InLine(z, b, k)
        /\ \A x : Coming(z, b, k, x) => Coming(s, a, "close", x)
        /\ \A x : Coming(s, a, "close", x) =>
              Coming(z, b, k, x) \/ \E n \in Name \ f.seen : IsPrefix(Append(f.from, n), x)
    BY <1>1, LineCloses
  <2> HIDE DEF z, f
  <2> QED BY <2>1 DEF Comings
<1>5. k # "write" /\ k # "close" /\ Unfinished(w, k) = {} /\ Half(w, k) = {}
  BY DEF Unfinished, Half
<1>6. Looked(c, t, z) /\ Stat(t, f.from) = Found(f.at) /\ Entries(c.tree, f.at) \subseteq f.listed
  BY <1>1, LookedFront
<1>7. \A x \in P : x \in R \/ (f.created /\ x = f.place)
  BY DoomedFront
<1>8. k = "done" => z = <<>>
  OBVIOUS
<1> HIDE DEF f, z, K, M, P, R, e
<1>9. Clean(u, {})
  BY <1>1, <1>2 DEF Clean
<1>10. Looked(c, u, z)
  BY <1>2, <1>3, <1>6, LookedGrows
<1>11. Pasts(c, u, M, {}, q)
  <2>1. \A x \in DOMAIN u \ DOMAIN c.tree : x \in DOMAIN t \ e \/ x \in e \/ Past(c, u, M, q, x)
    BY <1>2 DEF e
  <2>2. Pasts(c, t, K, e, q)
    BY <1>1 DEF e
  <2>3. Pasts(c, u, M, e, q)
    BY <1>2, <1>4, <2>1, <2>2, PastsGrow
  <2> QED BY <2>3 DEF e
<1>12. ASSUME ~m PROVE Twice(c, u, q) \/ Got(c, u, M, R, q)
  <2>1. CASE Twice(c, t, q)
    BY <1>2, <2>1, TwiceGrows
  <2>2. CASE Got(c, t, K, P, q)
    <3>1. Kept(c, t, u, q, K, M, P, R)
      BY <1>1, <1>2, <1>3, <1>4, <1>6, <1>7, <1>12, <2>2, ClosedKept
    <3> QED BY <1>2, <2>2, <3>1, GotGrows
  <2> QED BY <1>1, <1>12, <2>1, <2>2
<1>13. WholeIs(c, u, z, b, w, k, m, q)
  BY <1>4, <1>5, <1>8, <1>9, <1>10, <1>11, <1>12 DEF WholeIs, M, R
<1> QED BY <1>13 DEF z

-----------------------------------------------------------------------------
(* The steps of the copy.                                                  *)
LEMMA OneDestination ==
  ASSUME NEW t, NEW p \in Destination(t), NEW r \in Destination(t) PROVE p = r
<1> QED BY DEF Destination

LEMMA GrownNow ==
  ASSUME CopyInv, NEW q \in Destination(req.tree)
  PROVE  Grown(req, fs, q)
<1>1. /\ Sound(req.tree) /\ Sound(fs) /\ Within(req.tree, fs) /\ req.from \in Path /\ q \in Path
  BY Given, Destinations DEF CopyInv
<1>2. KeptIn(fs)
  BY Taken
<1> QED BY <1>1, <1>2 DEF Grown, KeptIn, Linux

LEMMA GrownNext ==
  ASSUME CopyInv, CopyInv', req' = req, NEW q \in Destination(req.tree)
  PROVE  Grown(req, fs', q) /\ Sound(fs')
<1>1. /\ Sound(req.tree) /\ req.from \in Path /\ q \in Path
  BY Given, Destinations DEF CopyInv
<1>2. TreeOK(fs')
  BY DEF CopyInv, TypeOK, TreeOK
<1>3. KeptIn(fs')
  BY DEF CopyInv, PriorStays, KeptIn, Linux
<1>4. Sound(fs')
  BY <1>1, <1>2, <1>3 DEF Sound, KeptIn
<1>5. Within(req.tree, fs')
  BY <1>3 DEF Within, KeptIn
<1> QED BY <1>1, <1>3, <1>4, <1>5 DEF Grown, KeptIn, Linux

LEMMA WholeAssembled ==
  ASSUME req' = req, NEW q \in Destination(req.tree), pc' # "request",
         WholeAt(req, fs', stack', args', writing', pc', ret', missed', q)
  PROVE  WholeInv'
<1>1. q \in Destination(req.tree)'
  BY DEF Destination, IsDirectory, Linux, Probe, Missing, Windows
<1> QED BY <1>1 DEF WholeInv

(* A call has returned that failed, or one that did not.                   *)
LEMMA WholeFails ==
  ASSUME NEW s \in Seq(Frames), Return(s, -1), req' = req, NEW q \in Destination(req.tree),
         FailedIs(req, fs', q)
  PROVE  WholeInv'
<1>1. Fails(stack', pc', ret') /\ pc' # "request"
  <2>1. CASE s = <<>>
    BY <2>1 DEF Return, Fails
  <2>2. CASE s # <<>>
    <3> DEFINE f == [Last(s) EXCEPT !.result = -1]
    <3>1. Last(s) \in Frames
      BY <2>2, Stacks
    <3>2. f \in Frames /\ SameCall(f, Last(s)) /\ f.result = -1
      BY <3>1 DEF Frames, SameCall
    <3>3. stack' = Append(Front(s), f) /\ pc' = "close"
      BY <2>2 DEF Return
    <3> HIDE DEF f
    <3>4. Last(stack') = f
      BY <2>2, <3>2, <3>3, CallsRetopped
    <3> QED BY <3>2, <3>3, <3>4 DEF Fails
  <2> QED BY <2>1, <2>2
<1>2. WholeAt(req, fs', stack', args', writing', pc', ret', missed', q)
  BY <1>1 DEF WholeAt
<1> QED BY <1>1, <1>2, WholeAssembled

LEMMA ReturnedUpTo ==
  ASSUME NEW s \in Seq(Frames), Return(s, 0)
  PROVE  /\ pc' \in {"read", "done"} /\ (pc' = "done" => s = <<>> /\ stack' = <<>>) /\ ret' = 0
         /\ UpToResult(s, stack') /\ SameCalls(s, stack') /\ stack' \in Seq(Frames)
<1>1. SameCalls(s, stack') /\ stack' \in Seq(Frames)
  BY CallsReturned, Returned
<1>2. CASE s = <<>>
  BY <1>1, <1>2 DEF Return, UpToResult
<1>3. CASE s # <<>>
  <2> DEFINE f == [Last(s) EXCEPT !.result = 0]
             z == Append(Front(s), f)
  <2>1. /\ Last(s) \in Frames /\ Last(s) = s[Len(s)] /\ Front(s) \in Seq(Frames)
        /\ Len(s) \in Nat \ {0} /\ Len(Front(s)) = Len(s) - 1
        /\ \A i \in 1 .. Len(s) - 1 : Front(s)[i] = s[i]
    BY <1>3, Stacks
  <2>2. /\ f.from = Last(s).from /\ f.to = Last(s).to /\ f.at = Last(s).at
        /\ f.place = Last(s).place /\ f.created = Last(s).created
        /\ f.listed = Last(s).listed /\ f.seen = Last(s).seen /\ f \in Frames
    BY <2>1 DEF Frames
  <2>3. stack' = z /\ pc' = "read" /\ ret' = 0
    BY <1>3 DEF Return
  <2>4. DOMAIN z = DOMAIN s /\ z[Len(s)] = f /\ \A i \in 1 .. Len(s) - 1 : z[i] = s[i]
    BY <2>1
  <2> HIDE DEF f, z
  <2>5. UpToResult(s, z)
    <3> SUFFICES ASSUME NEW i \in DOMAIN s
                 PROVE  /\ z[i].from = s[i].from /\ z[i].to = s[i].to /\ z[i].at = s[i].at
                        /\ z[i].place = s[i].place /\ z[i].created = s[i].created
                        /\ z[i].listed = s[i].listed /\ z[i].seen = s[i].seen
      BY <2>4 DEF UpToResult
    <3>1. CASE i = Len(s)
      BY <2>1, <2>2, <2>4, <3>1
    <3>2. CASE i # Len(s)
      <4>1. i \in 1 .. Len(s) - 1
        BY <2>1, <3>2
      <4> QED BY <2>4, <4>1
    <3> QED BY <3>1, <3>2
  <2> QED BY <1>1, <1>3, <2>3, <2>5
<1> QED BY <1>2, <1>3

LEMMA WholeUpTo ==
  ASSUME NEW c, NEW t, NEW s, NEW z, UpToResult(s, z), SameCalls(s, z),
         NEW a, NEW w, NEW k \in {"read", "done"}, k = "done" => z = <<>>, NEW m, NEW q,
         WholeIs(c, t, s, a, w, k, m, q)
  PROVE  WholeIs(c, t, z, a, w, k, m, q)
<1>1. InLine(z, a, k)
  BY LineCarries DEF WholeIs
<1>2. Comings(z, a, k) = Comings(s, a, k)
  BY LineCarries DEF Comings
<1>3. Looked(c, t, z)
  BY LookedUpTo DEF WholeIs
<1>4. Doomed(z, {}) = Doomed(s, {})
  BY CallsCarry
<1> QED BY <1>1, <1>2, <1>3, <1>4 DEF WholeIs

LEMMA WholeReturns ==
  ASSUME NEW s \in Seq(Frames), Return(s, 0), req' = req, NEW q \in Destination(req.tree),
         \A k \in {"read", "done"} : (k = "done" => s = <<>>) =>
           WholeIs(req, fs', s, args', writing', k, missed', q)
  PROVE  WholeInv'
<1>1. /\ pc' \in {"read", "done"} /\ (pc' = "done" => s = <<>> /\ stack' = <<>>) /\ ret' = 0
      /\ UpToResult(s, stack') /\ SameCalls(s, stack')
  BY ReturnedUpTo
<1>2. WholeIs(req, fs', s, args', writing', pc', missed', q)
  BY <1>1
<1>3. WholeIs(req, fs', stack', args', writing', pc', missed', q)
  <2> DEFINE z == stack'
             k == pc'
             a == args'
             w == writing'
             m == missed'
             t == fs'
             c == req
  <2>1. /\ UpToResult(s, z) /\ SameCalls(s, z) /\ k \in {"read", "done"} /\ (k = "done" => z = <<>>)
        /\ WholeIs(c, t, s, a, w, k, m, q)
    BY <1>1, <1>2
  <2> HIDE DEF z, k, a, w, m, t, c
  <2>2. WholeIs(c, t, z, a, w, k, m, q)
    BY ONLY <2>1, WholeUpTo
  <2> QED BY <2>2 DEF z, k, a, w, m, t, c
<1>4. ~Fails(stack', pc', ret') /\ pc' # "request"
  BY <1>1 DEF Fails
<1>5. WholeAt(req, fs', stack', args', writing', pc', ret', missed', q)
  BY <1>3, <1>4 DEF WholeAt
<1> QED BY <1>4, <1>5, WholeAssembled

-----------------------------------------------------------------------------
(* In the beginning all is to come.                                        *)
LEMMA WholeBegins ==
  ASSUME NEW c \in Requests, NEW q \in Path, NEW a, a.from = c.from, NEW ph \in {"enter", "file"},
         NEW w, NEW m
  PROVE  WholeIs(c, c.tree, <<>>, a, w, ph, m, q)
<1>1. InLine(<<>>, a, ph) /\ Looked(c, c.tree, <<>>)
  BY DEF InLine, Looked
<1>2. Clean(c.tree, {})
  BY WholeAssumption DEF Clean
<1>3. Pasts(c, c.tree, Comings(<<>>, a, ph), {}, q)
  BY DEF Pasts
<1>4. Got(c, c.tree, Comings(<<>>, a, ph), Doomed(<<>>, {}), q)
  <2>1. c.from \in Path
    BY Trees
  <2>2. \A r \in Path : Src(c, r) \in Comings(<<>>, a, ph)
    BY <2>1, SourcesAre DEF Comings, Coming
  <2> QED BY <2>2 DEF Got
<1>5. ph # "write" /\ ph # "close" /\ ph # "done" /\ Unfinished(w, ph) = {} /\ Half(w, ph) = {}
  BY DEF Unfinished, Half
<1> QED BY <1>1, <1>2, <1>3, <1>4, <1>5 DEF WholeIs

LEMMA WholeRequest ==
  ASSUME CopyInv, fs = req.tree, stack = <<>>, CopyDir \/ CopyFile \/ RefuseCopy
  PROVE  WholeInv'
<1>1. CASE CopyDir \/ CopyFile
  <2>1. PICK q \in Destination(req.tree) : args' = [from |-> req.from, to |-> q]
    BY <1>1 DEF CopyDir, CopyFile
  <2>2. UNCHANGED <<req, fs, stack>> /\ pc' \in {"enter", "file"}
    BY <1>1 DEF CopyDir, CopyFile
  <2>3. req \in Requests /\ q \in Path
    BY Destinations DEF CopyInv, TypeOK
  <2>4. WholeIs(req, req.tree, <<>>, args', writing', pc', missed', q)
    <3>1. args'.from = req.from
      BY <2>1
    <3> QED BY <2>2, <2>3, <3>1, WholeBegins
  <2>5. ~Fails(stack', pc', ret') /\ pc' # "request"
    BY <2>2 DEF Fails
  <2>6. WholeAt(req, fs', stack', args', writing', pc', ret', missed', q)
    BY <2>2, <2>4, <2>5 DEF WholeAt
  <2> QED BY <2>2, <2>5, <2>6, WholeAssembled
<1>2. CASE RefuseCopy
  BY <1>2 DEF RefuseCopy, Return, WholeInv
<1> QED BY <1>1, <1>2

-----------------------------------------------------------------------------
LEMMA EntriesGrowing ==
  ASSUME NEW t, Sound(t), NEW u, Sound(u), Within(t, u), NEW d \in Path
  PROVE  Entries(t, d) \subseteq Entries(u, d)
<1> SUFFICES ASSUME NEW n \in Entries(t, d) PROVE n \in Entries(u, d)
  OBVIOUS
<1>1. n \in Name /\ Append(d, n) \in DOMAIN t
  BY EntriesAre
<1>2. Append(d, n) \in DOMAIN u
  BY <1>1 DEF Within
<1> QED BY <1>1, <1>2, EntriesAre

(* The frame of a directory that is entered. *)
LEMMA FrameIs ==
  ASSUME CopyInv, Opens(fs), NEW t, Sound(t), Within(req.tree, t),
         NEW place \in Path, NEW created \in BOOLEAN, NEW result \in {-1, 0},
         NEW f, f = Frame(t, place, created, result)
  PROVE  /\ f \in Frames /\ f.from = args.from /\ f.to = args.to /\ f.seen = {}
         /\ f.place = place /\ f.created = created /\ f.result = result
         /\ Stat(fs, args.from) = Found(f.at) /\ fs[f.at].kind = "dir"
         /\ Entries(req.tree, f.at) \subseteq f.listed
<1>1. DOMAIN t \subseteq Path
  BY DEF Sound, TreeOK
<1>2. f \in Frames /\ f.at \in DOMAIN fs /\ fs[f.at].kind = "dir" /\ f.place = place /\ f.created = created
  BY <1>1, Framed
<1>3. /\ f.from = args.from /\ f.to = args.to /\ f.seen = {} /\ f.result = result
      /\ f.at = Stat(fs, args.from).at /\ f.listed = Entries(t, f.at)
  BY DEF Frame
<1>4. Stat(fs, args.from) = Found(f.at)
  <2>1. Stat(fs, args.from).error = "none" /\ args.from \in Path /\ Sound(fs)
    BY Taken, Given DEF Opens, Is
  <2>2. Stat(fs, args.from) = Found(Stat(fs, args.from).at)
    BY <2>1, StatFound
  <2> QED BY <1>3, <2>2
<1>5. f.at \in Path /\ Sound(req.tree)
  BY <1>2, Given DEF Frames
<1>6. Entries(req.tree, f.at) \subseteq Entries(t, f.at)
  BY <1>5, EntriesGrowing
<1> QED BY <1>2, <1>3, <1>4, <1>6

LEMMA WholeEntersWith ==
  ASSUME CopyInv, CopyInv', req' = req, pc = "enter", Opens(fs), NEW q \in Destination(req.tree),
         NamedIs(req, fs, stack, args, writing, pc, q),
         WholeIs(req, fs, stack, args, writing, pc, missed, q),
         Within(fs, fs'), \A x \in DOMAIN fs : fs'[x] = fs[x],
         NEW t \in {fs, fs'}, NEW place \in Path, NEW created \in BOOLEAN, NEW result \in {-1, 0},
         Stat(fs', args.to) = Found(place), fs'[place].kind = "dir",
         DOMAIN fs' \subseteq DOMAIN fs \cup {place}, created \/ fs' = fs,
         stack' = Append(stack, Frame(t, place, created, result)), missed' = missed,
         pc' = "read" \/ (pc' = "close" /\ result = -1)
  PROVE  WholeInv'
<1> DEFINE f == Frame(t, place, created, result)
<1>1. /\ Grown(req, fs, q) /\ Grown(req, fs', q) /\ Sound(fs) /\ Sound(fs')
      /\ Within(req.tree, fs) /\ Within(req.tree, fs') /\ stack \in Seq(Frames)
  <2>1. Within(req.tree, fs')
    BY GrownNext DEF Grown
  <2> QED BY <2>1, GrownNow, GrownNext, Given, Taken
<1>2. /\ f \in Frames /\ f.from = args.from /\ f.to = args.to /\ f.seen = {}
      /\ f.place = place /\ f.created = created /\ f.result = result
      /\ Stat(fs, args.from) = Found(f.at) /\ fs[f.at].kind = "dir"
      /\ Entries(req.tree, f.at) \subseteq f.listed
  <2> DEFINE g == f
  <2>1. g = f /\ Sound(t) /\ Within(req.tree, t)
    BY <1>1
  <2> HIDE DEF g
  <2> QED BY <2>1, FrameIs
<1> HIDE DEF f
<1>3. Beneath(req, q, args) /\ args.from \in Path
  <2>1. NextOf(req, stack, args, q) /\ Mates(req, stack, q)
    BY DEF NamedIs
  <2> QED BY <2>1, NamedNext, Taken
<1>4. Entering(req, fs, fs', q, args, f)
  BY <1>1, <1>2, <1>3 DEF Entering
<1>5. stack' = Append(stack, f)
  BY DEF f
<1>6. WholeIs(req, fs', Append(stack, f), args', writing', "read", missed', q)
  <2> DEFINE c == req
             l == fs
             u == fs'
             s == stack
             a == args
             w == writing
             m == missed
  <2>1. Entering(c, l, u, q, a, f) /\ WholeIs(c, l, s, a, w, "enter", m, q) /\ s \in Seq(Frames)
    BY <1>1, <1>4
  <2> HIDE DEF c, l, u, s, a, w, m
  <2>2. \A b, v : WholeIs(c, u, Append(s, f), b, v, "read", m, q)
    BY <1>2, <2>1, WholeEnters
  <2> QED BY <2>2 DEF c, u, s, m
<1>7. CASE pc' = "read"
  <2>1. ~Fails(stack', pc', ret')
    BY <1>7 DEF Fails
  <2>2. WholeAt(req, fs', stack', args', writing', pc', ret', missed', q)
    BY <1>5, <1>6, <1>7, <2>1 DEF WholeAt
  <2> QED BY <1>7, <2>2, WholeAssembled
<1>8. CASE pc' = "close" /\ result = -1
  <2>1. Clean(fs', {})
    BY <1>6 DEF WholeIs, Unfinished
  <2>2. FailedIs(req, fs', q)
    BY <2>1, FailedFrom
  <2>3. Last(stack') = f
    <3> DEFINE s == stack
               z == stack'
    <3>1. s \in Seq(Frames) /\ z = Append(s, f)
      BY <1>1, <1>5
    <3> HIDE DEF s, z
    <3>2. z \in Seq(Frames) /\ z # <<>> /\ Len(z) = Len(s) + 1 /\ z[Len(s) + 1] = f
      BY <1>2, <3>1
    <3>3. Last(z) = z[Len(z)]
      BY <3>2, Stacks
    <3> QED BY <3>2, <3>3 DEF z
  <2>4. Fails(stack', pc', ret')
    BY <1>2, <1>8, <2>3 DEF Fails
  <2>5. WholeAt(req, fs', stack', args', writing', pc', ret', missed', q)
    BY <2>2, <2>4 DEF WholeAt
  <2> QED BY <1>8, <2>5, WholeAssembled
<1> QED BY <1>7, <1>8

(* An empty directory goes nowhere.                                        *)
Leaving(c, t, q, a, y) ==
  /\ Grown(c, t, q) /\ Beneath(c, q, a) /\ a.from \in Path
  /\ c.backend = "windows" /\ HasDirectoryAttribute(t, a.to)
  /\ Stat(t, a.from) = Found(y) /\ t[y].kind = "dir" /\ Entries(t, y) = {}

LEMMA WholeNowhere ==
  ASSUME NEW c, NEW t, NEW q, NEW a, NEW y, Leaving(c, t, q, a, y),
         NEW s \in Seq(Frames), NEW w, NEW m, WholeIs(c, t, s, a, w, "enter", m, q),
         NEW k \in {"read", "done"}, k = "done" => s = <<>>, NEW b, NEW v
  PROVE  WholeIs(c, t, s, b, v, k, m, q)
<1> DEFINE K == Comings(s, a, "enter")
           M == Comings(s, b, k)
           P == Doomed(s, {})
           f == a.from
<1>1. /\ InLine(s, a, "enter") /\ Clean(t, {}) /\ Pasts(c, t, K, {}, q) /\ Looked(c, t, s)
      /\ ~m => Twice(c, t, q) \/ Got(c, t, K, P, q)
  BY DEF WholeIs, Unfinished, Half
<1>0. /\ Grown(c, t, q) /\ Beneath(c, q, a) /\ f \in Path
      /\ Stat(t, f) = Found(y) /\ t[y].kind = "dir" /\ Entries(t, y) = {}
  BY DEF Leaving
<1>2. /\ InLine(s, b, k) /\ M \subseteq K
      /\ \A x \in Path : x \in K => x \in M \/ IsPrefix(f, x)
  <2>1. InLine(s, b, k)
    BY <1>1 DEF InLine
  <2>2. \A x : Coming(s, b, k, x) => Coming(s, a, "enter", x)
    BY DEF Coming
  <2>3. \A x : Coming(s, a, "enter", x) => Coming(s, b, k, x) \/ IsPrefix(a.from, x)
    BY DEF Coming
  <2> QED BY <2>1, <2>2, <2>3 DEF Comings
<1>3. PICK o \in Path : f = Src(c, o) /\ a.to = Dst(q, o)
  BY <1>0, NamedBy
<1>4. /\ c.from \in Path /\ q \in Path /\ Sound(t) /\ Sound(c.tree) /\ Within(c.tree, t)
  BY <1>0 DEF Grown
<1>5. k # "write" /\ k # "close" /\ Unfinished(v, k) = {} /\ Half(v, k) = {}
  BY DEF Unfinished, Half
<1> HIDE DEF K, M, P, f
<1>6. Pasts(c, t, M, {}, q)
  BY <1>1, <1>2 DEF Pasts, Past, PastBy
<1>7. ASSUME NEW r \in Path, Stat(c.tree, Src(c, r)).error = "none", Src(c, r) \notin M,
             Got(c, t, K, P, q)
      PROVE  Faithful(c, t, P, q, r)
  <2> DEFINE x == Src(c, r)
  <2>1. x \in Path
    BY <1>4, SourcesAre
  <2>2. CASE x \notin K
    BY <1>7, <2>2 DEF Got
  <2>3. CASE x = f
    <3>1. r = o
      BY <1>3, <1>4, <2>3, SourcesAre
    <3>2. /\ t[Stat(c.tree, x).at].kind = c.tree[Stat(c.tree, x).at].kind
          /\ Stat(t, x) = Stat(c.tree, x)
      BY <1>0, <1>7, <2>1, SourceIs
    <3>3. Stat(c.tree, x).at = y
      BY <1>0, <2>3, <3>2, Errors
    <3>4. c.tree[Stat(c.tree, x).at].kind = "dir"
      BY <1>0, <3>2, <3>3
    <3> QED BY <1>3, <3>1, <3>4 DEF Faithful, Lost, Leaving
  <2>4. CASE x \in K /\ x # f
    <3>1. IsPrefix(f, x)
      BY <1>2, <1>7, <2>1, <2>4
    <3>2. PICK n \in Name : IsPrefix(Append(f, n), x)
      BY <1>0, <2>1, <2>4, <3>1, BelowEntry
    <3>3. Stat(c.tree, f).error = "none" /\ n \in Entries(c.tree, Stat(c.tree, f).at)
      BY <1>0, <1>4, <1>7, <2>1, <3>2, StatOnTheWay
    <3>4. Stat(t, f) = Stat(c.tree, f) /\ Stat(c.tree, f).at \in DOMAIN t
      BY <1>0, <3>3, SourceIs
    <3>5. Stat(c.tree, f).at = y
      BY <1>0, <3>4, Errors
    <3>7. y \in Path
      BY <1>4, <3>4, <3>5 DEF Sound, TreeOK
    <3>6. Entries(c.tree, y) \subseteq Entries(t, y)
      <4> DEFINE u == c.tree
      <4>1. Sound(u) /\ Within(u, t)
        BY <1>4
      <4> HIDE DEF u
      <4>2. Entries(u, y) \subseteq Entries(t, y)
        BY <1>4, <3>7, <4>1, EntriesGrowing
      <4> QED BY <4>2 DEF u
    <3> QED BY <1>0, <3>3, <3>5, <3>6
  <2> QED BY <2>2, <2>3, <2>4
<1>8. ~m => Twice(c, t, q) \/ Got(c, t, M, P, q)
  BY <1>1, <1>7 DEF Got
<1> QED BY <1>1, <1>2, <1>5, <1>6, <1>8 DEF WholeIs, M, P

LEMMA WholeEntersNowhere ==
  ASSUME CopyInv, CopyInv', EnterNowhere, NEW q \in Destination(req.tree),
         NamedIs(req, fs, stack, args, writing, pc, q),
         WholeIs(req, fs, stack, args, writing, pc, missed, q)
  PROVE  WholeInv'
<1> DEFINE y == Stat(fs, args.from).at
<1>0. stack \in Seq(Frames) /\ args.from \in Path /\ Sound(fs)
  BY Given, Taken
<1>1. /\ pc = "enter" /\ req' = req /\ fs' = fs /\ missed' = missed
      /\ Is(fs, Stat(fs, args.from), "dir") /\ Windows /\ HasDirectoryAttribute(fs, args.to)
      /\ Return(stack, IF Entries(fs, y) = {} THEN 0 ELSE -1)
  BY DEF EnterNowhere, Opens, Nowhere
<1>2. CASE Return(stack, -1)
  <2>1. Clean(fs, {})
    BY <1>1 DEF WholeIs, Unfinished
  <2>2. FailedIs(req, fs', q)
    BY <1>1, <2>1, FailedFrom
  <2> QED BY <1>0, <1>1, <1>2, <2>2, WholeFails
<1>3. CASE Entries(fs, y) = {} /\ Return(stack, 0)
  <2>1. Beneath(req, q, args)
    <3>1. NextOf(req, stack, args, q) /\ Mates(req, stack, q)
      BY <1>1 DEF NamedIs
    <3> QED BY <1>0, <3>1, NamedNext
  <2>2. Grown(req, fs, q) /\ req.backend = "windows"
    BY <1>1, GrownNow DEF Windows
  <2>3. Stat(fs, args.from) = Found(y) /\ fs[y].kind = "dir"
    <3>1. Stat(fs, args.from).error = "none" /\ fs[y].kind = "dir"
      BY <1>1 DEF Is
    <3>2. Stat(fs, args.from) = Found(y)
      BY <1>0, <3>1, StatFound
    <3> QED BY <3>1, <3>2
  <2>4. ASSUME NEW k \in {"read", "done"}, k = "done" => stack = <<>>
        PROVE  WholeIs(req, fs', stack, args', writing', k, missed', q)
    <3> DEFINE c == req
               t == fs
               s == stack
               a == args
               w == writing
               m == missed
               b == args'
               v == writing'
    <3>1. /\ Leaving(c, t, q, a, y)
          /\ s \in Seq(Frames) /\ WholeIs(c, t, s, a, w, "enter", m, q)
          /\ k \in {"read", "done"} /\ (k = "done" => s = <<>>)
      BY <1>0, <1>1, <1>3, <2>1, <2>2, <2>3, <2>4 DEF Leaving
    <3> HIDE DEF c, t, s, a, w, m, b, v, y
    <3>2. WholeIs(c, t, s, b, v, k, m, q)
      BY ONLY <3>1, WholeNowhere
    <3> QED BY <1>1, <3>2 DEF c, t, s, a, m, b, v
  <2> QED BY <1>0, <1>1, <1>3, <2>4, WholeReturns
<1> QED BY <1>1, <1>2, <1>3

LEMMA WholeEnter ==
  ASSUME CopyInv, CopyInv',
         EnterExisting \/ EnterNew \/ EnterNewFails \/ EnterNowhere \/ EnterFails,
         NEW q \in Destination(req.tree), NamedIs(req, fs, stack, args, writing, pc, q),
         WholeIs(req, fs, stack, args, writing, pc, missed, q)
  PROVE  WholeInv'
<1>0. Sound(fs) /\ args.to \in Path /\ stack \in Seq(Frames)
  BY Given, Taken
<1>1. CASE EnterExisting
  <2> DEFINE place == Stat(fs, args.to).at
             result == IF Linux THEN -1 ELSE 0
  <2>1. /\ pc = "enter" /\ Opens(fs) /\ req' = req /\ fs' = fs /\ missed' = missed /\ pc' = "read"
        /\ stack' = Append(stack, Frame(fs, place, FALSE, result))
        /\ Is(fs, Stat(fs, args.to), "dir") /\ result \in {-1, 0}
    BY <1>1 DEF EnterExisting
  <2>2. Stat(fs, args.to).error = "none" /\ fs[place].kind = "dir"
    BY <2>1 DEF Is
  <2>3. Stat(fs, args.to) = Found(place) /\ place \in Path
    BY <1>0, <2>2, StatFound
  <2>4. Within(fs, fs')
    BY <2>1 DEF Within
  <2> HIDE DEF place, result
  <2> QED BY <2>1, <2>2, <2>3, <2>4, WholeEntersWith
<1>2. CASE EnterNew \/ EnterNewFails
  <2>1. pc = "enter" /\ Opens(fs) /\ req' = req /\ missed' = missed
    BY <1>2 DEF EnterNew, EnterNewFails
  <2>2. PICK p \in Makeable(fs), m \in {"open", "rw", "ro"}, t \in {fs, fs'}, result \in {-1, 0} :
          /\ fs' = With(fs, p, Dir(m)) /\ stack' = Append(stack, Frame(t, p, TRUE, result))
          /\ pc' = "read" \/ (pc' = "close" /\ result = -1)
    BY <1>2 DEF EnterNew, EnterNewFails, Masked
  <2>3. p \in NewPlace(fs, args.to, Writable)
    BY DEF Makeable
  <2>4. /\ p \in Path /\ p \notin DOMAIN fs
        /\ Stat(fs', args.to) = Found(p) /\ Dir(m) \in Node /\ Dir(m).kind = "dir"
    <3> DEFINE node == Dir(m)
               l == fs
               modes == Writable
               name == args.to
    <3>1. node \in Node /\ node.kind = "dir"
      BY Nodes
    <3>2. Sound(l) /\ p \in NewPlace(l, name, modes) /\ name \in Path
      BY <1>0, <2>3
    <3> HIDE DEF l, node, modes, name
    <3>3. p \in Path /\ p \notin DOMAIN l /\ Stat(With(l, p, node), name) = Found(p)
      BY <3>1, <3>2, NewIsThere
    <3> QED BY <2>2, <3>1, <3>3 DEF l, node, name
  <2>5. Within(fs, fs') /\ More(fs, fs', p, Dir(m))
    <3> DEFINE node == Dir(m)
               l == fs
               u == fs'
    <3>1. Sound(l) /\ p \notin DOMAIN l /\ node \in Node /\ u = With(l, p, node)
      BY <1>0, <2>2, <2>4
    <3> HIDE DEF l, u, node
    <3>2. Within(l, u) /\ More(l, u, p, node)
      BY <2>4, <3>1, WithIs
    <3> QED BY <3>2 DEF l, u, node
  <2>6. /\ \A x \in DOMAIN fs : fs'[x] = fs[x]
        /\ DOMAIN fs' \subseteq DOMAIN fs \cup {p} /\ fs'[p].kind = "dir"
    BY <2>4, <2>5 DEF More
  <2> QED BY <2>1, <2>2, <2>4, <2>5, <2>6, WholeEntersWith
<1>3. CASE EnterFails
  <2>1. pc = "enter" /\ Return(stack, -1) /\ req' = req /\ fs' = fs
    BY <1>3 DEF EnterFails
  <2>2. Clean(fs, {})
    BY <2>1 DEF WholeIs, Unfinished
  <2>3. FailedIs(req, fs', q)
    BY <2>1, <2>2, FailedFrom
  <2> QED BY <1>0, <2>1, <2>3, WholeFails
<1> QED BY <1>1, <1>2, <1>3, WholeEntersNowhere

-----------------------------------------------------------------------------
(* The innermost frame has changed, and the loop is left or an entry is    *)
(* called for.                                                             *)
LEMMA WholeRetops ==
  ASSUME CopyInv, pc = "read", NEW q \in Destination(req.tree),
         WholeIs(req, fs, stack, args, writing, pc, missed, q),
         NEW f \in Frames, SetTop(f), req' = req, fs' = fs, pc' \in {"enter", "file", "close"},
         pc' = "close" => \/ f.result = -1
                          \/ WholeIs(req, fs, Append(Front(stack), f), args', writing', "close", missed', q),
         pc' # "close" => WholeIs(req, fs, Append(Front(stack), f), args', writing', pc', missed', q)
  PROVE  WholeInv'
<1>1. stack # <<>> /\ stack \in Seq(Frames) /\ stack' = Append(Front(stack), f)
  BY TopFrame, Taken DEF SetTop
<1>2. Last(stack') = f
  <2> DEFINE s == stack
             z == stack'
  <2>1. s # <<>> /\ s \in Seq(Frames) /\ z = Append(Front(s), f)
    BY <1>1
  <2> HIDE DEF s, z
  <2>2. Front(s) \in Seq(Frames)
    BY <2>1, Stacks
  <2> DEFINE x == Front(s)
  <2>3. x \in Seq(Frames) /\ z = Append(x, f)
    BY <2>1, <2>2
  <2> HIDE DEF x
  <2>4. z \in Seq(Frames) /\ z # <<>> /\ Len(z) = Len(x) + 1 /\ z[Len(x) + 1] = f
    BY <2>3
  <2>5. Last(z) = z[Len(z)]
    BY <2>4, Stacks
  <2> QED BY <2>4, <2>5 DEF z
<1>3. CASE pc' = "close" /\ f.result = -1
  <2>1. Clean(fs, {})
    BY DEF WholeIs, Unfinished
  <2>2. FailedIs(req, fs', q)
    BY <2>1, FailedFrom
  <2>3. Fails(stack', pc', ret')
    BY <1>2, <1>3 DEF Fails
  <2>4. WholeAt(req, fs', stack', args', writing', pc', ret', missed', q)
    BY <2>2, <2>3 DEF WholeAt
  <2> QED BY <1>3, <2>4, WholeAssembled
<1>4. CASE ~(pc' = "close" /\ f.result = -1)
  <2>1. WholeIs(req, fs', stack', args', writing', pc', missed', q)
    BY <1>1, <1>4
  <2>2. ~Fails(stack', pc', ret')
    BY <1>2, <1>4 DEF Fails
  <2>3. WholeAt(req, fs', stack', args', writing', pc', ret', missed', q)
    BY <2>1, <2>2 DEF WholeAt
  <2>4. pc' # "request"
    OBVIOUS
  <2> QED BY <2>3, <2>4, WholeAssembled
<1> QED BY <1>3, <1>4

LEMMA WholeRead ==
  ASSUME CopyInv, NEW n \in Name,
         \/ ReadDirectory(n) \/ ReadFile(n) \/ ReadOther(n) \/ ReadUnreachable(n)
         \/ ReadFails \/ EndOfDirectory,
         NEW q \in Destination(req.tree), WholeIs(req, fs, stack, args, writing, pc, missed, q)
  PROVE  WholeInv'
<1>0. pc = "read"
  BY DEF ReadDirectory, ReadFile, ReadOther, ReadUnreachable, ReadFails, EndOfDirectory
<1>1. /\ Top \in Frames /\ Top.result \in {-1, 0} /\ stack # <<>> /\ stack \in Seq(Frames)
      /\ Top = Last(stack) /\ req.from \in Path /\ q \in Path
  BY <1>0, TopFrame, Taken, Given, Destinations DEF Top, CopyInv
<1>2. \A r \in {-1, 0} : \A f \in {Top, Seen(n)} :
        LET g == [f EXCEPT !.result = r]
        IN  /\ g \in Frames /\ SameOpen(g, Top) /\ g.result = r /\ g.seen = f.seen
            /\ Top.seen \subseteq g.seen
  BY <1>1 DEF Seen, Frames, SameOpen
<1>3. /\ Seen(n) \in Frames /\ SameOpen(Seen(n), Top) /\ Seen(n).result = Top.result
      /\ Seen(n).seen = Top.seen \cup {n} /\ Seen(n).from = Top.from
  BY <1>1 DEF Seen, Frames, SameOpen
<1> DEFINE c == req
           t == fs
           s == stack
           a == args
           w == writing
           m == missed
           top == Top
<1>4. /\ c.from \in Path /\ q \in Path /\ s \in Seq(Frames) /\ s # <<>> /\ top = Last(s)
      /\ WholeIs(c, t, s, a, w, "read", m, q)
  BY <1>0, <1>1
<1>5. ASSUME ReadDirectory(n) \/ ReadFile(n) PROVE WholeInv'
  <2>1. /\ SetTop(Seen(n)) /\ req' = req /\ fs' = fs /\ missed' = missed /\ writing' = writing
        /\ pc' \in {"enter", "file"} /\ n \notin Top.seen
        /\ args' = [from |-> Append(Top.from, n), to |-> Append(Top.to, n)]
    BY <1>5 DEF ReadDirectory, ReadFile, Call, Child, Unread
  <2> DEFINE f == Seen(n)
             b == args'
             k == pc'
  <2>2. /\ f \in Frames /\ SameOpen(f, Last(s)) /\ n \notin Last(s).seen
        /\ f.seen = Last(s).seen \cup {n} /\ b.from = Append(f.from, n)
        /\ k \in {"enter", "file"}
    BY <1>1, <1>3, <2>1
  <2>3. WholeIs(c, t, Append(Front(s), f), b, w, k, m, q)
    <3>1. Reads(s, f, n, b, k)
      BY <1>4, <2>2 DEF Reads
    <3> HIDE DEF c, t, s, a, w, m, top, f, b, k
    <3> QED BY ONLY n \in Name, <1>4, <2>2, <3>1, WholeReads
  <2>4. /\ f \in Frames /\ SetTop(f) /\ pc' \in {"enter", "file", "close"} /\ pc' # "close"
        /\ WholeIs(req, fs, Append(Front(stack), f), args', writing', pc', missed', q)
    BY <2>1, <2>2, <2>3
  <2> HIDE DEF f
  <2> QED BY <1>0, <2>1, <2>4, WholeRetops
<1>6. ASSUME NEW f \in Frames, SetTop(f), SameOpen(f, Top), Top.seen \subseteq f.seen,
             req' = req, fs' = fs, pc' = "close",
             f.result = -1 \/ missed' \/ (~missed /\ f.seen = Top.seen /\ f.listed \subseteq f.seen)
      PROVE  WholeInv'
  <2> DEFINE b == args'
             v == writing'
             k == missed'
  <2>1. CASE f.result = -1
    BY <1>0, <1>6, <2>1, WholeRetops
  <2>2. CASE f.result # -1
    <3>1. /\ SameOpen(f, Last(s)) /\ Last(s).seen \subseteq f.seen
          /\ ~k => ~m /\ f.seen = Last(s).seen /\ f.listed \subseteq f.seen
      BY <1>1, <1>6, <2>2
    <3>2. WholeIs(c, t, Append(Front(s), f), b, w, "close", k, q)
      <4> HIDE DEF c, t, s, a, w, m, top, b, k
      <4> QED BY ONLY f \in Frames, Top.seen \subseteq f.seen, <1>4, <3>1, WholeLeaves
    <3>3. WholeIs(req, fs, Append(Front(stack), f), args', writing', "close", missed', q)
      BY <3>2 DEF WholeIs, Unfinished, Half
    <3> QED BY <1>0, <1>6, <3>3, WholeRetops
  <2> QED BY <2>1, <2>2
<1>7. CASE ReadOther(n) \/ EndOfDirectory
  <2>1. PICK f \in {Top, Seen(n)}, r \in {-1, 0} :
          /\ SetTop([f EXCEPT !.result = r])
          /\ r = -1 \/ (f = Top /\ Top.listed \subseteq Top.seen)
    BY <1>7 DEF ReadOther, EndOfDirectory
  <2>2. req' = req /\ fs' = fs /\ pc' = "close" /\ missed' = missed
    BY <1>7 DEF ReadOther, EndOfDirectory
  <2> DEFINE g == [f EXCEPT !.result = r]
  <2>3. /\ g \in Frames /\ SameOpen(g, Top) /\ SetTop(g) /\ Top.seen \subseteq g.seen
        /\ g.result = r /\ g.seen = f.seen
    BY <1>2, <2>1
  <2>4. g.result = -1 \/ (g.seen = Top.seen /\ g.listed \subseteq g.seen)
    BY <2>1, <2>3 DEF SameOpen
  <2> HIDE DEF g
  <2>5. missed \in BOOLEAN
    BY Taken
  <2> QED BY <1>6, <2>2, <2>3, <2>4, <2>5
<1>8. CASE ReadUnreachable(n) \/ ReadFails
  <2>1. PICK f \in {Top, Seen(n)} : LeaveLoop(f)
    BY <1>8 DEF ReadUnreachable, ReadFails
  <2>2. f.result = Top.result
    BY <1>3
  <2>3. PICK r \in {-1, 0} : SetTop([f EXCEPT !.result = r]) /\ (r = -1 \/ missed')
    BY <1>1, <2>1, <2>2 DEF LeaveLoop
  <2>4. req' = req /\ fs' = fs /\ pc' = "close"
    BY <2>1 DEF LeaveLoop
  <2> DEFINE g == [f EXCEPT !.result = r]
  <2>5. g \in Frames /\ SameOpen(g, Top) /\ SetTop(g) /\ g.result = r /\ Top.seen \subseteq g.seen
    BY <1>2, <2>3
  <2> HIDE DEF g
  <2> QED BY <1>6, <2>3, <2>4, <2>5
<1> QED BY <1>5, <1>7, <1>8

-----------------------------------------------------------------------------
(* A file is opened, or is not.                                            *)
LEMMA WholeOpensTo ==
  ASSUME CopyInv, CopyInv', req' = req, pc = "file", pc' = "write", missed' = missed,
         UNCHANGED <<stack, args>>, NEW q \in Destination(req.tree),
         WholeIs(req, fs, stack, args, writing, pc, missed, q),
         Opening(req, fs, fs', q, args, writing')
  PROVE  WholeInv'
<1>1. WholeIs(req, fs', stack, args, writing', "write", missed, q)
  <2> DEFINE c == req
             t == fs
             u == fs'
             s == stack
             a == args
             w == writing
             v == writing'
             m == missed
  <2>1. Opening(c, t, u, q, a, v) /\ WholeIs(c, t, s, a, w, "file", m, q) /\ s \in Seq(Frames)
    BY Taken
  <2> HIDE DEF c, t, u, s, a, w, v, m
  <2>2. WholeIs(c, u, s, a, v, "write", m, q)
    BY ONLY <2>1, WholeOpens
  <2> QED BY <2>2 DEF c, u, s, a, v, m
<1>2. ~Fails(stack', pc', ret')
  BY DEF Fails
<1>3. WholeAt(req, fs', stack', args', writing', pc', ret', missed', q)
  BY <1>1, <1>2 DEF WholeAt
<1> QED BY <1>3, WholeAssembled

LEMMA SourceOpened ==
  ASSUME CopyInv, pc = "file", NEW q \in Destination(req.tree),
         NamedIs(req, fs, stack, args, writing, pc, q), Is(fs, Source(fs), "file"),
         NEW y, y = Source(fs).at
  PROVE  /\ Beneath(req, q, args) /\ args.from \in Path /\ args.to \in Path /\ Sound(fs)
         /\ y \in DOMAIN fs /\ fs[y].kind = "file" /\ Stat(fs, args.from) = Found(y)
<1>1. /\ Mates(req, stack, q) /\ Sound(fs) /\ stack \in Seq(Frames) /\ q \in Path /\ req.from \in Path
  BY NamedGiven
<1>2. NextOf(req, stack, args, q) /\ args.from \in Path /\ args.to \in Path
  BY Taken DEF NamedIs
<1>3. Beneath(req, q, args)
  BY <1>1, <1>2, NamedNext
<1>4. /\ y \in DOMAIN fs /\ fs[y].kind = "file" /\ Stat(fs, args.from).error = "none"
      /\ y = Stat(fs, args.from).at
  <2>1. Stat(fs, args.from).error = "none" /\ fs[y].kind = "file" /\ y = Stat(fs, args.from).at
    BY DEF Is, Source
  <2> QED BY <1>1, <1>2, <2>1, StatFound
<1>5. Stat(fs, args.from) = Found(y)
  BY <1>1, <1>2, <1>4, StatFound
<1> QED BY <1>1, <1>2, <1>3, <1>4, <1>5

LEMMA WholeOpensOver ==
  ASSUME CopyInv, CopyInv', OpenOver, NEW q \in Destination(req.tree),
         NamedIs(req, fs, stack, args, writing, pc, q),
         WholeIs(req, fs, stack, args, writing, pc, missed, q)
  PROVE  WholeInv'
<1>1. pc = "file" /\ pc' = "write" /\ UNCHANGED <<req, stack, args, missed>>
  BY DEF OpenOver
<1>2. PICK p \in Overwritten(fs), m \in {"rw", "ro"} :
        /\ fs' = WithFile(fs, p, Torn, m)
        /\ writing' = [place |-> p, created |-> FALSE, source |-> Source(fs).at]
  BY OpenedOver
<1> DEFINE y == Source(fs).at
           u == fs'
           d == Torn
<1>3. Is(fs, Source(fs), "file") /\ y = Source(fs).at
  BY DEF Overwritten
<1> HIDE DEF y
<1>4. /\ Beneath(req, q, args) /\ args.from \in Path /\ args.to \in Path /\ Sound(fs)
      /\ y \in DOMAIN fs /\ fs[y].kind = "file" /\ Stat(fs, args.from) = Found(y)
  BY <1>1, <1>3, SourceOpened
<1>5. /\ p \in DOMAIN fs /\ fs[p].kind = "file" /\ Stat(fs, args.to) = Found(p)
      /\ p # y /\ Stat(fs, args.to).error = "none"
  <2>1. /\ p \in DOMAIN fs /\ fs[p].kind = "file" /\ Stat(fs, args.to).error = "none"
        /\ p = Stat(fs, args.to).at /\ p # y
    BY DEF Overwritten, Is, y
  <2> QED BY <1>4, <2>1, StatFound
<1>6. TreeOK(u) /\ Altered(fs, u, p)
  <2>1. TreeOK(fs) /\ d \in Content \cup {Torn} /\ u = WithFile(fs, p, d, m)
    BY <1>2, Taken
  <2> HIDE DEF d, u
  <2> QED BY <1>5, <2>1, DataChanged
<1>7. Grown(req, fs, q) /\ Grown(req, u, q) /\ Sound(u)
  BY <1>1, GrownNow, GrownNext
<1>8. /\ DOMAIN u = DOMAIN fs /\ u[p].kind = fs[p].kind
      /\ \A x \in DOMAIN fs : x # p => u[x] = fs[x]
  BY <1>5, <1>6 DEF Altered
<1>9. Within(fs, u)
  <2> DEFINE l == fs
  <2>1. Altered(l, u, p) /\ l[p].kind # "link" /\ p \in DOMAIN l
    BY <1>5, <1>6
  <2> HIDE DEF l, u
  <2>2. Within(l, u)
    BY <2>1 DEF Altered, Within
  <2> QED BY <2>2 DEF l
<1>10. Stat(u, args.to) = Found(p)
  <2> DEFINE l == fs
             z == args.to
  <2>1. Sound(l) /\ Sound(u) /\ Within(l, u) /\ z \in Path /\ Stat(l, z) = Found(p) /\ Stat(l, z).error = "none"
    BY <1>4, <1>5, <1>7, <1>9
  <2> HIDE DEF l, u, z
  <2>2. Stat(u, z) = Found(p)
    BY <2>1, SeenGrows
  <2> QED BY <2>2 DEF z
<1>11. writing'.place = p /\ writing'.source = y /\ ~writing'.created
  BY <1>2 DEF y
<1>12. Opening(req, fs, fs', q, args, writing')
  BY <1>4, <1>5, <1>7, <1>8, <1>9, <1>10, <1>11 DEF Opening
<1> QED BY <1>1, <1>12, WholeOpensTo

LEMMA WholeOpensNew ==
  ASSUME CopyInv, CopyInv', OpenNew, NEW q \in Destination(req.tree),
         NamedIs(req, fs, stack, args, writing, pc, q),
         WholeIs(req, fs, stack, args, writing, pc, missed, q)
  PROVE  WholeInv'
<1> DEFINE y == Source(fs).at
           node == File(Torn, Masked(fs[y].mode))
           u == fs'
<1>1. pc = "file" /\ pc' = "write" /\ UNCHANGED <<req, stack, args, missed>>
  BY DEF OpenNew
<1>2. PICK p \in Created(fs) :
        /\ u = With(fs, p, node)
        /\ writing' = [place |-> p, created |-> TRUE, source |-> y]
  BY DEF OpenNew, ModeOf
<1>3. Is(fs, Source(fs), "file") /\ y = Source(fs).at
  BY DEF Created
<1> HIDE DEF y
<1>4. /\ Beneath(req, q, args) /\ args.from \in Path /\ args.to \in Path /\ Sound(fs)
      /\ y \in DOMAIN fs /\ fs[y].kind = "file" /\ Stat(fs, args.from) = Found(y)
  BY <1>1, <1>3, SourceOpened
<1>5. node \in Node /\ node.kind = "file" /\ (req.backend = "linux" => node.mode = Left(req, fs[y].mode))
  <2>1. fs[y].mode \in {"rw", "ro"}
    BY <1>4, Taken DEF TreeOK, Node
  <2>2. Masked(fs[y].mode) \in {"rw", "ro"}
    BY <2>1 DEF Masked
  <2>3. node.mode = Masked(fs[y].mode)
    BY DEF File
  <2>4. req.backend = "linux" => Masked(fs[y].mode) = Left(req, fs[y].mode)
    BY DEF Masked, Linux, Left
  <2> QED BY <2>2, <2>3, <2>4 DEF File, Node
<1> HIDE DEF node
<1>6. p \in Path /\ p \notin DOMAIN fs /\ Stat(u, args.to) = Found(p)
  <2> DEFINE l == fs
             modes == Writable
             name == args.to
  <2>1. Sound(l) /\ p \in NewPlace(l, name, modes) /\ name \in Path /\ u = With(l, p, node)
    BY <1>2, <1>4 DEF Created
  <2> HIDE DEF l, modes, name, u
  <2>2. p \in Path /\ p \notin DOMAIN l /\ Stat(With(l, p, node), name) = Found(p)
    BY <1>5, <2>1, NewIsThere
  <2> QED BY <2>1, <2>2 DEF l, name
<1>7. Within(fs, u) /\ More(fs, u, p, node)
  <2> DEFINE l == fs
  <2>1. Sound(l) /\ p \notin DOMAIN l /\ u = With(l, p, node)
    BY <1>2, <1>4, <1>6
  <2> HIDE DEF l, u
  <2>2. Within(l, u) /\ More(l, u, p, node)
    BY <1>5, <1>6, <2>1, WithIs
  <2> QED BY <2>2 DEF l
<1>8. Grown(req, fs, q) /\ Grown(req, u, q)
  BY <1>1, GrownNow, GrownNext
<1>9. /\ DOMAIN u \subseteq DOMAIN fs \cup {p} /\ u[p] = node
      /\ \A x \in DOMAIN fs : u[x] = fs[x]
  BY <1>6, <1>7 DEF More
<1>10. writing'.place = p /\ writing'.source = y /\ writing'.created /\ p # y
  BY <1>2, <1>4, <1>6
<1>11. Opening(req, fs, fs', q, args, writing')
  BY <1>4, <1>5, <1>6, <1>7, <1>8, <1>9, <1>10 DEF Opening
<1> QED BY <1>1, <1>11, WholeOpensTo

LEMMA WholeOpen ==
  ASSUME CopyInv, CopyInv', OpenOver \/ OpenNew \/ OpenPipe \/ OpenFails, NEW q \in Destination(req.tree),
         NamedIs(req, fs, stack, args, writing, pc, q),
         WholeIs(req, fs, stack, args, writing, pc, missed, q)
  PROVE  WholeInv'
<1>1. CASE OpenPipe \/ OpenFails
  <2>1. pc = "file" /\ Return(stack, -1) /\ req' = req /\ fs' = fs
    BY <1>1 DEF OpenPipe, OpenFails
  <2>2. Clean(fs, {})
    BY <2>1 DEF WholeIs, Unfinished
  <2>3. FailedIs(req, fs', q)
    BY <2>1, <2>2, FailedFrom
  <2>4. stack \in Seq(Frames)
    BY Taken
  <2> QED BY <2>1, <2>3, <2>4, WholeFails
<1> QED BY <1>1, WholeOpensOver, WholeOpensNew

-----------------------------------------------------------------------------
(* The file has been written, or has not. *)
LEMMA DataWritten ==
  ASSUME NEW t, NEW p \in DOMAIN t, NEW d, NEW m, NEW u, u = WithFile(t, p, d, m)
  PROVE  u[p].data = d /\ u[p].mode = m
<1> QED BY DEF WithFile, File

LEMMA WholeWritten ==
  ASSUME CopyInv, CopyInv', Written, NEW q \in Destination(req.tree),
         NamedIs(req, fs, stack, args, writing, pc, q),
         WholeIs(req, fs, stack, args, writing, pc, missed, q)
  PROVE  WholeInv'
<1> DEFINE p == writing.place
           y == writing.source
           d == fs[y].data
           u == fs'
           D == Doomed(stack, Half(writing, pc))
<1>1. /\ pc = "write" /\ req' = req /\ missed' = missed /\ args' = args /\ Return(stack, 0)
  BY DEF Written
<1>2. /\ Sound(fs) /\ stack \in Seq(Frames) /\ args.from \in Path /\ args.to \in Path
      /\ TreeOK(fs)
  BY Given, Taken
<1>3. p \in DOMAIN fs /\ fs[p].kind = "file" /\ y \in DOMAIN fs /\ fs[y].kind = "file"
  BY <1>1, Taken
<1>4. AllMated(req, fs, q, D)
  BY <1>1 DEF NamedIs
<1>5. /\ TreeOK(u) /\ Altered(fs, u, p) /\ u[p].data = d
      /\ req.backend = "linux" => u[p].mode = fs[p].mode
  <2>1. d \in Content \cup {Torn}
    BY <1>2, <1>3 DEF TreeOK, Node
  <2>2. PICK m \in {"rw", "ro"} : u = WithFile(fs, p, d, m) /\ (req.backend = "linux" => m = fs[p].mode)
    BY WrittenOver DEF Linux
  <2> HIDE DEF d, u, p
  <2> QED BY <1>2, <1>3, <2>1, <2>2, DataChanged, DataWritten
<1>6. Grown(req, fs, q) /\ Grown(req, u, q)
  BY <1>1, GrownNow, GrownNext
<1>7. /\ DOMAIN u = DOMAIN fs /\ u[p].kind = "file"
      /\ \A x \in DOMAIN fs : x # p => u[x] = fs[x]
  BY <1>3, <1>5 DEF Altered
<1>8. Within(fs, u)
  <2> DEFINE l == fs
  <2>1. Altered(l, u, p) /\ l[p].kind = "file" /\ p \in DOMAIN l
    BY <1>3, <1>5
  <2> HIDE DEF l, u, p
  <2>2. Within(l, u)
    BY <2>1 DEF Altered, Within
  <2> QED BY <2>2 DEF l
<1>9. Beneath(req, q, args)
  BY <1>1 DEF WholeIs, Writes
<1>10. Wrote(req, fs, fs', q, args, writing)
  BY <1>2, <1>3, <1>5, <1>6, <1>7, <1>8, <1>9 DEF Wrote
<1>11. ASSUME NEW k \in {"read", "done"}, k = "done" => stack = <<>>
       PROVE  WholeIs(req, fs', stack, args', writing', k, missed', q)
  <2> DEFINE c == req
             t == fs
             s == stack
             a == args
             w == writing
             m == missed
             v == writing'
  <2>1. /\ Wrote(c, t, u, q, a, w) /\ AllMated(c, t, q, D) /\ s \in Seq(Frames)
        /\ WholeIs(c, t, s, a, w, "write", m, q) /\ k \in {"read", "done"} /\ (k = "done" => s = <<>>)
    BY <1>1, <1>2, <1>4, <1>10, <1>11
  <2> HIDE DEF c, t, u, s, a, w, m, v, D
  <2>2. WholeIs(c, u, s, a, v, k, m, q)
    BY ONLY <2>1, WholeWrites
  <2> QED BY <1>1, <2>2 DEF c, u, s, a, v, m
<1> QED BY <1>1, <1>2, <1>11, WholeReturns

LEMMA WholeWriteFails ==
  ASSUME CopyInv, WriteFails, NEW q \in Destination(req.tree),
         WholeIs(req, fs, stack, args, writing, pc, missed, q)
  PROVE  WholeInv'
<1> DEFINE p == writing.place
<1>1. /\ pc = "write" /\ req' = req /\ Return(stack, -1)
      /\ \/ writing.created /\ fs' = Without(fs, p)
         \/ (~writing.created \/ Windows) /\ fs' = fs
  BY DEF WriteFails
<1>2. Clean(fs, {p}) /\ Writes(req, fs, args, writing, q)
  BY <1>1 DEF WholeIs, Unfinished
<1>3. FailedIs(req, fs', q)
  <2>1. CASE Windows
    BY <2>1 DEF Windows, FailedIs
  <2>2. CASE writing.created /\ fs' = Without(fs, p)
    <3>1. DOMAIN fs' = DOMAIN fs \ {p} /\ \A x \in DOMAIN fs' : fs'[x] = fs[x]
      BY <2>2 DEF Without
    <3>2. \A x \in DOMAIN fs' : fs'[x].kind = "file" => fs'[x].data # Torn
      BY <1>2, <3>1 DEF Clean
    <3> QED BY <3>2 DEF FailedIs
  <2>3. CASE ~writing.created /\ fs' = fs
    <3>1. CASE p \in DOMAIN req.tree
      BY <1>2, <2>3, <3>1 DEF Clean, FailedIs
    <3>2. CASE p \notin DOMAIN req.tree
      BY <1>2, <2>3, <3>2 DEF Writes, FailedIs
    <3> QED BY <3>1, <3>2
  <2> QED BY <1>1, <2>1, <2>2, <2>3
<1>4. stack \in Seq(Frames)
  BY Taken
<1> QED BY <1>1, <1>3, <1>4, WholeFails

-----------------------------------------------------------------------------
(* The directory that has been copied is closed. *)
LEMMA RestoredIs ==
  ASSUME CopyInv, pc = "close", NEW mode \in {"rw", "ro", "open"}, NEW u, u = Restored(mode)
  PROVE  /\ DOMAIN u = DOMAIN fs /\ u[Top.place].kind = "dir"
         /\ \A x \in DOMAIN fs : x # Top.place \/ ~Top.created => u[x] = fs[x]
         /\ Top.created /\ Linux => u[Top.place].mode = mode
         /\ Within(fs, u)
<1> DEFINE p == Top.place
<1>1. p \in DOMAIN fs /\ fs[p].kind = "dir"
  BY TopFrame
<1>2. Dir(mode).kind = "dir" /\ Dir(mode).mode = mode
  BY DEF Dir
<1> HIDE DEF p
<1>3. \/ u = fs /\ ~(Top.created /\ Linux)
      \/ Top.created /\ u = [fs EXCEPT ![p] = Dir(mode)]
  BY DEF Restored, p
<1>4. /\ DOMAIN u = DOMAIN fs /\ u[p].kind = "dir" /\ \A x \in DOMAIN fs : x # p => u[x] = fs[x]
      /\ ~Top.created => u = fs
      /\ Top.created /\ Linux => u[p].mode = mode
  BY <1>1, <1>2, <1>3
<1>5. Within(fs, u)
  BY <1>1, <1>4 DEF Within
<1> QED BY <1>1, <1>4, <1>5 DEF p

LEMMA WholeClosed ==
  ASSUME CopyInv, CopyInv', CloseDirectory, Top.result = 0, NEW q \in Destination(req.tree),
         NamedIs(req, fs, stack, args, writing, pc, q),
         WholeIs(req, fs, stack, args, writing, pc, missed, q)
  PROVE  WholeInv'
<1> DEFINE mode == fs[Top.at].mode
           u == fs'
<1>1. /\ pc = "close" /\ req' = req /\ missed' = missed /\ writing' = writing
      /\ u = Restored(mode) /\ Return(Front(stack), 0)
  BY DEF CloseDirectory, Cleaned
<1>2. /\ stack # <<>> /\ stack \in Seq(Frames) /\ Top \in Frames
      /\ Top.at \in DOMAIN fs /\ fs[Top.at].kind = "dir"
      /\ Top.place \in DOMAIN fs /\ fs[Top.place].kind = "dir"
      /\ Top.created => Top.place \notin DOMAIN req.tree
  BY <1>1, TopFrame, Taken
<1>3. mode \in {"rw", "ro", "open"}
  BY <1>2, Taken DEF TreeOK, Node
<1>4. /\ DOMAIN u = DOMAIN fs /\ u[Top.place].kind = "dir"
      /\ \A x \in DOMAIN fs : x # Top.place \/ ~Top.created => u[x] = fs[x]
      /\ Top.created /\ Linux => u[Top.place].mode = mode
      /\ Within(fs, u)
  BY <1>1, <1>3, RestoredIs
<1>5. /\ Front(stack) \in Seq(Frames) /\ Len(stack) \in DOMAIN stack /\ Top = stack[Len(stack)]
      /\ Top = Last(stack)
  BY <1>2, Stacks DEF Top
<1>6. Beneath(req, q, Top) /\ Stat(fs, Top.to) = Found(Top.place)
  <2>1. Mates(req, stack, q) /\ Nested(fs, stack)
    BY NamedGiven
  <2> QED BY <1>5, <2>1 DEF Mates, Nested
<1>7. Grown(req, fs, q) /\ Grown(req, u, q)
  BY <1>1, GrownNow, GrownNext
<1>8. Closing(req, fs, fs', q, Last(stack))
  <2> HIDE DEF mode
  <2>1. Closing(req, fs, fs', q, Top)
    BY <1>2, <1>4, <1>6, <1>7 DEF Closing, Linux, mode
  <2> QED BY <1>5, <2>1
<1>9. ASSUME NEW k \in {"read", "done"}, k = "done" => Front(stack) = <<>>
      PROVE  WholeIs(req, fs', Front(stack), args', writing', k, missed', q)
  <2> DEFINE c == req
             t == fs
             s == stack
             a == args
             w == writing
             m == missed
             b == args'
  <2>1. /\ Closing(c, t, u, q, Last(s)) /\ s \in Seq(Frames) /\ s # <<>>
        /\ WholeIs(c, t, s, a, w, "close", m, q) /\ k \in {"read", "done"} /\ (k = "done" => Front(s) = <<>>)
    BY <1>1, <1>2, <1>8, <1>9
  <2> HIDE DEF c, t, u, s, a, w, m, b
  <2>2. WholeIs(c, u, Front(s), b, w, k, m, q)
    BY ONLY <2>1, WholeCloses
  <2> QED BY <1>1, <2>2 DEF c, u, s, b, w, m
<1> QED BY <1>1, <1>5, <1>9, WholeReturns

(* What has failed stays so when the directory gets its permissions back,  *)
(* and when it goes.                                                       *)
LEMMA FailedOn ==
  ASSUME NEW c, c.from \in Path, NEW q \in Path, NEW t, Sound(t), NEW u, Sound(u), Within(t, u),
         DOMAIN u = DOMAIN t, \A x \in DOMAIN t : t[x].kind = "file" => u[x] = t[x],
         FailedIs(c, t, q)
  PROVE  FailedIs(c, u, q)
<1> SUFFICES ASSUME c.backend = "linux" PROVE FailedIs(c, u, q)
  BY DEF FailedIs
<1>1. CASE Overlaid(c, t, q)
  <2>1. Overlaid(c, u, q)
    BY <1>1, OverlaidGrows
  <2> QED BY <2>1 DEF FailedIs
<1>2. CASE \A p \in DOMAIN t \ DOMAIN c.tree : t[p].kind = "file" => t[p].data # Torn
  <2>1. \A p \in DOMAIN u : u[p].kind = "file" => t[p].kind = "file" /\ u[p] = t[p]
    BY DEF Within
  <2> QED BY <1>2, <2>1 DEF FailedIs
<1> QED BY <1>1, <1>2 DEF FailedIs

LEMMA FailedLess ==
  ASSUME NEW c, c.from \in Path, NEW q \in Path, NEW t, Sound(t), NEW u, Sound(u),
         NEW x \in DOMAIN t, x # <<>>, t[x].kind = "dir", Entries(t, x) = {}, Less(t, u, x),
         FailedIs(c, t, q)
  PROVE  FailedIs(c, u, q)
<1> SUFFICES ASSUME c.backend = "linux" PROVE FailedIs(c, u, q)
  BY DEF FailedIs
<1>1. CASE Overlaid(c, t, q)
  <2>1. Overlaid(c, u, q)
    BY <1>1, OverlaidStays
  <2> QED BY <2>1 DEF FailedIs
<1>2. CASE \A p \in DOMAIN t \ DOMAIN c.tree : t[p].kind = "file" => t[p].data # Torn
  BY <1>2 DEF FailedIs, Less
<1> QED BY <1>1, <1>2 DEF FailedIs

LEMMA WholeCloseFails ==
  ASSUME CopyInv, pc = "close", NEW mode \in {"rw", "ro", "open"}, req' = req,
         fs' = Cleaned(Restored(mode), -1), Return(Front(stack), -1),
         NEW q \in Destination(req.tree), NamedIs(req, fs, stack, args, writing, pc, q),
         FailedIs(req, fs, q)
  PROVE  WholeInv'
<1> DEFINE t == Restored(mode)
           p == Top.place
           u == fs'
<1>1. /\ q \in Path /\ req.from \in Path /\ Sound(fs) /\ stack \in Seq(Frames) /\ stack # <<>>
      /\ Top.place \in DOMAIN fs /\ fs[Top.place].kind = "dir"
      /\ Top.created => Top.place \notin DOMAIN req.tree
  BY NamedGiven, TopFrame
<1>2. /\ Sound(t) /\ DOMAIN t = DOMAIN fs /\ t[p].kind = "dir" /\ Within(fs, t)
      /\ \A x \in DOMAIN fs : x # p => t[x] = fs[x]
  <2> DEFINE z == Restored(mode)
  <2>1. z = Restored(mode)
    OBVIOUS
  <2> HIDE DEF z
  <2>2. Sound(z) /\ DOMAIN z = DOMAIN fs /\ z[p].kind = "dir"
    BY <2>1, NamedRestored
  <2>3. Within(fs, z) /\ \A x \in DOMAIN fs : x # p => z[x] = fs[x]
    BY <2>1, RestoredIs
  <2> QED BY <2>1, <2>2, <2>3
<1>3. u = t \/ (Top.created /\ u = Without(t, p) /\ Entries(t, p) = {})
  BY DEF Cleaned
<1> HIDE DEF t
<1>4. FailedIs(req, t, q)
  <2> DEFINE c == req
             l == fs
  <2>1. /\ c.from \in Path /\ Sound(l) /\ Within(l, t) /\ DOMAIN t = DOMAIN l
        /\ \A x \in DOMAIN l : l[x].kind = "file" => t[x] = l[x]
        /\ FailedIs(c, l, q)
    BY <1>1, <1>2
  <2> HIDE DEF c, l
  <2>2. FailedIs(c, t, q)
    BY <1>1, <1>2, <2>1, FailedOn
  <2> QED BY <2>2 DEF c
<1>5. ASSUME Top.created, u = Without(t, p), Entries(t, p) = {} PROVE FailedIs(req, u, q)
  <2>1. p # <<>> /\ p \in Path /\ p \in DOMAIN t
    <3>1. Sound(req.tree)
      BY Given
    <3>2. p \notin DOMAIN req.tree
      BY <1>1, <1>5
    <3> QED BY <1>1, <1>2, <3>1, <3>2 DEF Sound, TreeOK
  <2> HIDE DEF p, u
  <2>2. Sound(u) /\ Less(t, u, p)
    BY <1>2, <1>5, <2>1, WithoutIs
  <2> DEFINE c == req
  <2>3. c.from \in Path /\ FailedIs(c, t, q)
    BY <1>1, <1>4
  <2> HIDE DEF c
  <2>4. FailedIs(c, u, q)
    BY <1>1, <1>2, <1>5, <2>1, <2>2, <2>3, FailedLess
  <2> QED BY <2>4 DEF c
<1>6. FailedIs(req, fs', q)
  BY <1>3, <1>4, <1>5
<1>7. Front(stack) \in Seq(Frames)
  BY <1>1, Stacks
<1> QED BY <1>6, <1>7, WholeFails

LEMMA WholeClose ==
  ASSUME CopyInv, CopyInv', CloseDirectory \/ CloseFails, NEW q \in Destination(req.tree),
         NamedIs(req, fs, stack, args, writing, pc, q),
         WholeAt(req, fs, stack, args, writing, pc, ret, missed, q)
  PROVE  WholeInv'
<1>1. pc = "close" /\ req' = req /\ Top = Last(stack)
  BY DEF CloseDirectory, CloseFails, Top
<1>2. /\ Top.result \in {-1, 0} /\ fs[Top.at].mode \in {"rw", "ro", "open"}
  <2>1. Top.at \in DOMAIN fs /\ fs[Top.at].kind = "dir" /\ Top.result \in {-1, 0}
    BY <1>1, TopFrame
  <2> QED BY <2>1, Taken DEF TreeOK, Node
<1>3. FailedIs(req, fs, q)
  <2>1. CASE Fails(stack, pc, ret)
    BY <2>1 DEF WholeAt
  <2>2. CASE ~Fails(stack, pc, ret)
    <3>1. Clean(fs, {})
      BY <1>1, <2>2 DEF WholeAt, WholeIs, Unfinished
    <3> QED BY <3>1, FailedFrom
  <2> QED BY <2>1, <2>2
<1>4. CASE CloseDirectory /\ Top.result = 0
  <2>1. ~Fails(stack, pc, ret)
    BY <1>1, <1>4 DEF Fails
  <2>2. WholeIs(req, fs, stack, args, writing, pc, missed, q)
    BY <2>1 DEF WholeAt
  <2> QED BY <1>4, <2>2, WholeClosed
<1>5. CASE CloseDirectory /\ Top.result = -1
  <2>1. fs' = Cleaned(Restored(fs[Top.at].mode), -1) /\ Return(Front(stack), -1)
    BY <1>5 DEF CloseDirectory
  <2> QED BY <1>1, <1>2, <1>3, <2>1, WholeCloseFails
<1>6. CASE CloseFails
  <2>1. PICK mode \in {fs[Top.at].mode, "open"} : fs' = Cleaned(Restored(mode), -1)
    BY <1>6 DEF CloseFails
  <2>2. Return(Front(stack), -1) /\ mode \in {"rw", "ro", "open"}
    BY <1>2, <1>6 DEF CloseFails
  <2> QED BY <1>1, <1>3, <2>1, <2>2, WholeCloseFails
<1> QED BY <1>2, <1>4, <1>5, <1>6

-----------------------------------------------------------------------------
LEMMA WholeStep == CopyInv /\ NamedInv /\ WholeInv /\ [Next]_vars => WholeInv'
<1> SUFFICES ASSUME CopyInv, NamedInv, WholeInv, [Next]_vars PROVE WholeInv'
  OBVIOUS
<1>0. req' = req /\ CopyInv'
  <2>1. req' = req
    BY DEF Next, Step, vars, CopyDir, CopyFile, RefuseCopy, EnterExisting, EnterNew,
           EnterNewFails, EnterNowhere, EnterFails, OpenPipe,
         ReadDirectory, ReadFile, ReadOther, ReadUnreachable, ReadFails,
           EndOfDirectory, OpenOver, OpenNew, OpenFails, Written, WriteFails, CloseDirectory,
           CloseFails, Call, LeaveLoop
  <2> QED BY <2>1, CopyStep
<1>1. CASE UNCHANGED vars
  <2>1. UNCHANGED <<req, fs, pc, stack, args, writing, ret, missed>>
    BY <1>1 DEF vars
  <2>2. CASE fs = req.tree /\ stack = <<>> /\ (pc = "request" \/ (pc = "done" /\ ret = -1))
    BY <2>1, <2>2 DEF WholeInv
  <2>3. ASSUME pc # "request", NEW q \in Destination(req.tree),
               WholeAt(req, fs, stack, args, writing, pc, ret, missed, q)
        PROVE  WholeInv'
    <3>1. WholeAt(req, fs', stack', args', writing', pc', ret', missed', q)
      BY <2>1, <2>3
    <3> QED BY <1>0, <2>1, <2>3, <3>1, WholeAssembled
  <2> QED BY <2>2, <2>3 DEF WholeInv
<1>2. CASE CopyDir \/ CopyFile \/ RefuseCopy
  <2>1. pc = "request"
    BY <1>2 DEF CopyDir, CopyFile, RefuseCopy
  <2>2. fs = req.tree /\ stack = <<>>
    BY <2>1 DEF WholeInv
  <2> QED BY <1>2, <2>2, WholeRequest
<1>3. CASE pc \notin {"request", "done"}
  <2>1. PICK q \in Destination(req.tree) : NamedIs(req, fs, stack, args, writing, pc, q)
    BY <1>3 DEF NamedInv
  <2>2. PICK z \in Destination(req.tree) :
          WholeAt(req, fs, stack, args, writing, pc, ret, missed, z)
    BY <1>3 DEF WholeInv
  <2>3. WholeAt(req, fs, stack, args, writing, pc, ret, missed, q)
    <3>1. q = z
      BY OneDestination
    <3> QED BY <2>2, <3>1
  <2>4. pc # "close" => WholeIs(req, fs, stack, args, writing, pc, missed, q)
    BY <1>3, <2>3 DEF WholeAt, Fails
  <2>5. CASE EnterExisting \/ EnterNew \/ EnterNewFails \/ EnterNowhere \/ EnterFails
    <3>1. pc = "enter"
      BY <2>5 DEF EnterExisting, EnterNew, EnterNewFails, EnterNowhere, EnterFails
    <3> QED BY <1>0, <2>1, <2>4, <2>5, <3>1, WholeEnter
  <2>6. ASSUME NEW n \in Name,
               \/ ReadDirectory(n) \/ ReadFile(n) \/ ReadOther(n) \/ ReadUnreachable(n)
               \/ ReadFails \/ EndOfDirectory
        PROVE  WholeInv'
    <3>1. pc = "read"
      BY <2>6 DEF ReadDirectory, ReadFile, ReadOther, ReadUnreachable, ReadFails, EndOfDirectory
    <3> QED BY <2>4, <2>6, <3>1, WholeRead
  <2>7. CASE ReadFails \/ EndOfDirectory
    <3>1. Last(req.from) \in Name
      BY Given, FrontLast
    <3> QED BY <2>6, <2>7, <3>1
  <2>8. CASE OpenOver \/ OpenNew \/ OpenPipe \/ OpenFails
    <3>1. pc = "file"
      BY <2>8 DEF OpenOver, OpenNew, OpenPipe, OpenFails
    <3> QED BY <1>0, <2>1, <2>4, <2>8, <3>1, WholeOpen
  <2>9. CASE Written \/ WriteFails
    <3>1. pc = "write"
      BY <2>9 DEF Written, WriteFails
    <3> QED BY <1>0, <2>1, <2>4, <2>9, <3>1, WholeWritten, WholeWriteFails
  <2>10. CASE CloseDirectory \/ CloseFails
    BY <1>0, <2>1, <2>3, <2>10, WholeClose
  <2> QED BY <1>1, <1>2, <2>5, <2>6, <2>7, <2>8, <2>9, <2>10 DEF Next, Step
<1>4. CASE pc \in {"request", "done"}
  BY <1>1, <1>2, <1>4 DEF Next, Step, EnterExisting, EnterNew, EnterNewFails, EnterNowhere,
     EnterFails, OpenPipe, ReadDirectory, ReadFile, ReadOther, ReadUnreachable, ReadFails,
     EndOfDirectory, OpenOver, OpenNew, OpenFails,
     Written, WriteFails, CloseDirectory, CloseFails
<1> QED BY <1>3, <1>4

-----------------------------------------------------------------------------
(* When the call is over, all is past. *)
LEMMA InRelative ==
  ASSUME NEW t, Sound(t), NEW f \in Path, NEW r \in Path, Stat(t, f \o r).error = "none"
  PROVE  r \in Below(t, f)
<1> DEFINE z == f \o r
<1>1. z \in Path /\ Len(z) = Len(f) + Len(r) /\ Len(f) \in Nat /\ Len(r) \in Nat
  BY PrefixOfConcat DEF Path
<1>2. Stat(t, z).error = "none"
  OBVIOUS
<1> HIDE DEF z
<1>3. Len(z) <= MaxPath
  BY <1>1, <1>2, StatFound
<1>4. Len(r) \in 0 .. MaxPath
  BY <1>1, <1>3, Limits
<1>5. r \in [1 .. Len(r) -> Name]
  BY DEF Path
<1>6. r \in Relative
  BY <1>4, <1>5 DEF Relative
<1> QED BY <1>2, <1>6 DEF Below, z

LEMMA TwiceMeans ==
  ASSUME CopyInv, NEW q \in Destination(req.tree), Twice(req, fs, q) PROVE TwoNames
<1>1. PICK r \in Path, s \in Path : TwiceBy(req, fs, q, r, s)
  BY DEF Twice
<1>2. Sound(fs) /\ req.from \in Path /\ q \in Path
  BY Given, Destinations DEF CopyInv, TypeOK
<1>3. /\ r # s /\ Stat(fs, req.from \o r).error = "none" /\ Stat(fs, req.from \o s).error = "none"
      /\ Stat(fs, q \o r).error = "none"
      /\ \/ /\ Stat(fs, q \o r) = Stat(fs, q \o s)
            /\ \/ fs[Stat(fs, q \o r).at].kind = "file"
               \/ Stat(fs, q \o r).at \notin DOMAIN req.tree
         \/ /\ Stat(fs, q \o r) = Stat(fs, req.from \o s)
            /\ fs[Stat(fs, q \o r).at].kind = "file"
  BY <1>1 DEF TwiceBy, Src, Dst
<1>4. r \in Below(fs, req.from) /\ s \in Below(fs, req.from)
  BY <1>2, <1>3, InRelative
<1>5. Stat(fs, q \o r).at \in DOMAIN fs
  <2> DEFINE d == q \o r
  <2>1. d \in Path /\ Stat(fs, d).error = "none"
    BY <1>2, <1>3, PrefixOfConcat
  <2> HIDE DEF d
  <2>2. Stat(fs, d).at \in DOMAIN fs
    BY <1>2, <2>1, StatFound
  <2> QED BY <2>2 DEF d
<1>6. fs[Stat(fs, q \o r).at].kind = "file" => IsOf("file", Stat(fs, q \o r).at)
  BY <1>5 DEF IsOf
<1> QED BY <1>3, <1>4, <1>6 DEF TwoNames

LEMMA DoneMeans ==
  ASSUME CopyInv, pc = "done", NEW q \in Destination(req.tree),
         WholeIs(req, fs, stack, args, writing, pc, missed, q)
  PROVE  /\ Clean(fs, {})
         /\ ~missed => Twice(req, fs, q) \/ Complete
<1>1. /\ stack = <<>> /\ Clean(fs, {})
      /\ ~missed => Twice(req, fs, q) \/ Got(req, fs, Comings(stack, args, pc), Doomed(stack, {}), q)
  BY DEF WholeIs, Unfinished
<1>2. Comings(stack, args, pc) = {} /\ Doomed(stack, {}) = {}
  BY <1>1 DEF Comings, Coming, Doomed
<1>3. ASSUME Got(req, fs, {}, {}, q) PROVE Complete
  <2>1. ASSUME NEW r \in Below(req.tree, req.from) PROVE SameAt(req.from \o r, q \o r)
    <3>1. r \in Path /\ Stat(req.tree, Src(req, r)).error = "none"
      BY Limits DEF Below, Relative, Src, Path
    <3>2. Faithful(req, fs, {}, q, r)
      BY <1>3, <3>1 DEF Got
    <3> QED BY <3>2 DEF Faithful, Equal, Lost, Left, SameAt, SameNode, Masked, Src, Dst, Linux, Windows
  <2> QED BY <2>1 DEF Complete
<1> QED BY <1>1, <1>2, <1>3

LEMMA WholeMeans == CopyInv /\ WholeInv => CompleteUnlessMissed /\ NothingHalf
<1> SUFFICES ASSUME CopyInv, WholeInv, pc = "done" PROVE CompleteUnlessMissed /\ NothingHalf
  BY DEF CompleteUnlessMissed, NothingHalf
<1>1. CASE fs = req.tree /\ ret = -1
  BY <1>1 DEF CompleteUnlessMissed, NothingHalf
<1>2. ASSUME NEW q \in Destination(req.tree),
             WholeAt(req, fs, stack, args, writing, pc, ret, missed, q)
      PROVE  CompleteUnlessMissed /\ NothingHalf
  <2>1. CASE ret = -1
    <3>1. FailedIs(req, fs, q)
      BY <1>2, <2>1 DEF WholeAt, Fails
    <3>2. Overlaid(req, fs, q) => TwoNames
      BY OverlaidIsTwice, TwiceMeans
    <3> QED BY <2>1, <3>1, <3>2 DEF CompleteUnlessMissed, NothingHalf, FailedIs, Linux
  <2>2. CASE ret # -1
    <3>1. WholeIs(req, fs, stack, args, writing, pc, missed, q)
      BY <1>2, <2>2 DEF WholeAt, Fails
    <3>2. Clean(fs, {}) /\ (~missed => Twice(req, fs, q) \/ Complete)
      BY <3>1, DoneMeans
    <3> QED BY <3>2, TwiceMeans DEF CompleteUnlessMissed, NothingHalf, Clean
  <2> QED BY <2>1, <2>2
<1> QED BY <1>1, <1>2 DEF WholeInv

(***************************************************************************)
(* Whatever is copied over whichever tree: success means complete, nothing *)
(* that was created stays half written, and whatever changed is the        *)
(* counterpart of something below the source (oslinux.c:180-368,           *)
(* oswindows.c:447-520).                                                   *)
(***************************************************************************)
THEOREM CopiesByThemselves ==
  Spec => [](CompleteUnlessMissed /\ NothingHalf /\ OnlyCounterparts)
<1>1. Init => NamedInv /\ WholeInv
  BY DEF Init, NamedInv, WholeInv
<1>2. CopyInv /\ NamedInv /\ WholeInv => CompleteUnlessMissed /\ NothingHalf /\ OnlyCounterparts
  BY WholeMeans, NamedMeans
<1> QED BY <1>1, <1>2, CopyInit, CopyStep, NamedStep, WholeStep, PTL DEF Spec
=============================================================================
