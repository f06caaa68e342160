------------------------------ MODULE FileProofs ------------------------------
(***************************************************************************)
(* The file commands, for every tree, every links and every failures, with *)
(* both back ends and whatever other processes do.  rm, mkdir and touch    *)
(* leave alone what they do not name; a command that reports success has   *)
(* done what it says, touch -t keeps the date, and rm -rf fails only for a *)
(* cause outside of what it did.  What CopyTreeProofs says of copies holds *)
(* of those among the other commands.                                      *)
(***************************************************************************)
EXTENDS FileCommands, CopyTreeProofs
-----------------------------------------------------------------------------
(***************************************************************************)
(* The other commands.                                                     *)
(***************************************************************************)
RmFrames == [path : Path, todo : SUBSET Name]

Shape ==
  /\ req \in Requests /\ ~Copying
  /\ pc \in {"request", "done"} /\ (pc = "done" => at = "idle")
  /\ stack = <<>> /\ path \in Path /\ frames \in Seq(RmFrames)
  /\ Sound(fs) /\ Shaped(fs)
  /\ at = "unlink" => ~Is(fs, Lstat(fs, path), "dir")

LEMMA Removing ==
  ASSUME NEW t, Sound(t), Shaped(t), NEW p \in DOMAIN t, p # <<>>,
         t[p].kind # "dir" \/ Entries(t, p) = {}, NEW u, u = Without(t, p)
  PROVE  /\ Sound(u) /\ Shaped(u) /\ Within(u, t) /\ Less(t, u, p)
         /\ Follows(u, t)
<1>1. p \in Path
  BY DEF Sound, TreeOK
<1>2. /\ Sound(u) /\ Within(u, t) /\ Less(t, u, p) /\ Shaped(u)
  BY <1>1, WithoutIs
<1> QED BY <1>2 DEF Less, Follows

LEMMA Deleting ==
  ASSUME Shape, at = "unlink", NEW p \in Deleted(fs)
  PROVE  /\ p = Lstat(fs, path).at /\ Lstat(fs, path).error = "none"
         /\ p \in DOMAIN fs /\ p # <<>> /\ fs[p].kind # "dir"
<1>1. p = Lstat(fs, path).at /\ Lstat(fs, path).error = "none"
  BY DEF Deleted
<1>2. p \in DOMAIN fs
  BY <1>1, LstatFound DEF Shape
<1>3. fs[p].kind # "dir"
  BY <1>1, <1>2 DEF Shape, Is
<1> QED BY <1>1, <1>2, <1>3 DEF Shape, Shaped

LEMMA DeletingDir ==
  ASSUME Shape, NEW p \in DeletedDir(fs)
  PROVE  /\ p = Lstat(fs, path).at /\ Lstat(fs, path).error = "none"
         /\ p \in DOMAIN fs /\ p # <<>> /\ Entries(fs, p) = {}
<1>1. p = Lstat(fs, path).at /\ Lstat(fs, path).error = "none" /\ p # <<>> /\ Entries(fs, p) = {}
  BY DEF DeletedDir, HasDirectoryAttribute, Is
<1> QED BY <1>1, LstatFound DEF Shape

(* Other processes make files and remove what has nothing below it. *)
LEMMA Others ==
  ASSUME Shape, OthersCreate \/ OthersRemove
  PROVE  \E p \in Path :
           /\ p # <<>> /\ theirs' = theirs \cup {p}
           /\ \/ p \notin DOMAIN fs /\ Within(fs, fs') /\ More(fs, fs', p, File(Empty, "rw"))
              \/ p \in DOMAIN fs /\ Within(fs', fs) /\ Less(fs, fs', p)
           /\ Sound(fs') /\ Shaped(fs') /\ Follows(fs', fs)
<1>1. CASE OthersCreate
  <2>1. PICK d \in DOMAIN fs, n \in Name :
          /\ fs[d].kind = "dir" /\ Append(d, n) \notin DOMAIN fs
          /\ fs' = With(fs, Append(d, n), File(Empty, "rw"))
          /\ theirs' = theirs \cup {Append(d, n)}
    BY <1>1 DEF OthersCreate
  <2> DEFINE p == Append(d, n)
             node == File(Empty, "rw")
  <2>2. p \in Path /\ p # <<>> /\ Front(p) = d
    BY <2>1, EntryOf DEF Shape, Sound, TreeOK
  <2>3. node \in Node /\ node.kind = "file"
    BY CommandsAssumption, Nodes
  <2>4. p \notin DOMAIN fs /\ fs' = With(fs, p, node) /\ Sound(fs) /\ Shaped(fs)
        /\ Front(p) \in DOMAIN fs /\ fs[Front(p)].kind = "dir"
    BY <2>1, <2>2 DEF Shape
  <2>5. theirs' = theirs \cup {p} /\ node = File(Empty, "rw")
    BY <2>1
  <2> HIDE DEF p, node
  <2>6. Sound(fs') /\ Within(fs, fs') /\ More(fs, fs', p, node) /\ Shaped(fs')
    BY <2>2, <2>3, <2>4, WithIs
  <2>7. Follows(fs', fs)
    BY <2>3, <2>6 DEF More, Follows
  <2> QED BY <2>2, <2>4, <2>5, <2>6, <2>7
<1>2. CASE OthersRemove
  <2>1. PICK p \in DOMAIN fs \ {<<>>} :
          /\ Entries(fs, p) = {} /\ fs' = Without(fs, p)
          /\ theirs' = theirs \cup {p}
    BY <1>2 DEF OthersRemove
  <2>2. Sound(fs') /\ Shaped(fs') /\ Within(fs', fs) /\ Less(fs, fs', p) /\ Follows(fs', fs)
    BY <2>1, Removing DEF Shape
  <2>3. p \in Path
    BY DEF Shape, Sound, TreeOK
  <2> QED BY <2>1, <2>2, <2>3
<1> QED BY <1>1, <1>2

(* What looked like no directory does not become one. *)
LEMMA StillNone ==
  ASSUME NEW t, Sound(t), NEW u, Sound(u), Follows(u, t), NEW p \in Path,
         ~Is(t, Lstat(t, p), "dir")
  PROVE  ~Is(u, Lstat(u, p), "dir")
<1> SUFFICES ASSUME Is(u, Lstat(u, p), "dir") PROVE FALSE
  OBVIOUS
<1>1. Lstat(u, p).error = "none" /\ Lstat(u, p).at \in DOMAIN u /\ u[Lstat(u, p).at].kind = "dir"
  BY DEF Is
<1>2. Lstat(u, p).at \in DOMAIN t /\ t[Lstat(u, p).at].kind = "dir"
  BY <1>1 DEF Follows
<1>3. Lstat(t, p) = Lstat(u, p)
  BY <1>1, <1>2, LstatSame
<1> QED BY <1>1, <1>2, <1>3 DEF Is

-----------------------------------------------------------------------------
(***************************************************************************)
(* rm.  Every directory it has gone into is one of the tree below its      *)
(* operand, under the name that leads there from the operand.              *)
(***************************************************************************)
Operand(c) == Lstat(c.tree, c.from).at
Inside(c, p) == Lstat(c.tree, c.from).error = "none" /\ IsPrefix(Operand(c), p)
GoodDir(c, p) ==
  \E r \in Path : /\ p = c.from \o r /\ Lstat(c.tree, p) = Found(Operand(c) \o r)
                  /\ c.tree[Operand(c) \o r].kind = "dir"
Trail(c, s) ==
  /\ \A i \in DOMAIN s : GoodDir(c, s[i].path)
  /\ s # <<>> => s[1].path = c.from
OnTrail(c, s, p) ==
  IF s = <<>> THEN p = c.from ELSE \E n \in Name : p = Append(Last(s).path, n)

LEMMA TopOfTrail ==
  ASSUME NEW c \in Requests, NEW s \in Seq(RmFrames), s # <<>>, Trail(c, s)
  PROVE  /\ Last(s) \in RmFrames /\ GoodDir(c, Last(s).path) /\ Last(s).path \in Path
         /\ Lstat(c.tree, c.from).error = "none"
<1>1. Last(s) \in RmFrames /\ Last(s) = s[Len(s)] /\ Len(s) \in Nat \ {0}
  BY Stacks
<1>2. Len(s) \in DOMAIN s /\ 1 \in DOMAIN s
  BY <1>1
<1>3. GoodDir(c, Last(s).path) /\ GoodDir(c, c.from)
  BY <1>1, <1>2 DEF Trail
<1>4. Lstat(c.tree, c.from).error = "none"
  BY <1>3, Errors DEF GoodDir
<1> QED BY <1>1, <1>3, <1>4 DEF RmFrames

LEMMA NextGood ==
  ASSUME NEW c \in Requests, NEW s \in Seq(RmFrames), Trail(c, s), NEW p, OnTrail(c, s, p),
         Lstat(c.tree, p).error = "none"
  PROVE  /\ \E r \in Path : p = c.from \o r /\ Lstat(c.tree, p) = Found(Operand(c) \o r)
         /\ Inside(c, Lstat(c.tree, p).at)
<1> DEFINE t == c.tree
           b == c.from
<1>0. Sound(t) /\ b \in Path
  BY Trees
<1>1. CASE s = <<>>
  <2>1. p = b /\ Lstat(t, b).error = "none"
    BY <1>1 DEF OnTrail
  <2>2. Operand(c) \in Path /\ Lstat(t, b) = Found(Operand(c))
    BY <1>0, <2>1, LstatFound DEF Operand
  <2> DEFINE r == <<>>
  <2>3. r \in Path /\ b \o r = b /\ Operand(c) \o r = Operand(c)
    BY <1>0, <2>2 DEF Path
  <2>4. IsPrefix(Operand(c), Operand(c)) /\ Lstat(t, b).at = Operand(c)
    BY <2>2, PrefixChain DEF Operand
  <2> HIDE DEF r
  <2> QED BY <2>1, <2>2, <2>3, <2>4 DEF Inside
<1>2. CASE s # <<>>
  <2>1. PICK n \in Name : p = Append(Last(s).path, n)
    BY <1>2 DEF OnTrail
  <2> DEFINE d == Last(s).path
  <2>2. GoodDir(c, d) /\ d \in Path /\ Lstat(t, b).error = "none"
    BY <1>2, TopOfTrail
  <2>3. PICK r \in Path : d = b \o r /\ Lstat(t, d) = Found(Operand(c) \o r) /\ t[Operand(c) \o r].kind = "dir"
    BY <2>2 DEF GoodDir
  <2>4. Operand(c) \in Path
    BY <1>0, <2>2, LstatFound DEF Operand
  <2> DEFINE e == Operand(c) \o r
             q == Append(r, n)
  <2>5. /\ q \in Path /\ Append(d, n) = b \o q /\ Append(e, n) = Operand(c) \o q
        /\ IsPrefix(Operand(c), Operand(c) \o q)
    <3>1. /\ r \in Seq(Name) /\ <<n>> \in Path /\ q = r \o <<n>> /\ q \in Path
          /\ d \in Seq(Name) /\ e \in Seq(Name)
      BY <2>2, <2>4, AppendIsConcat DEF Path
    <3>2. Append(d, n) = d \o <<n>> /\ Append(e, n) = e \o <<n>>
      BY <3>1, AppendIsConcat
    <3>3. b \o (r \o <<n>>) = (b \o r) \o <<n>> /\ Operand(c) \o (r \o <<n>>) = (Operand(c) \o r) \o <<n>>
      <4> DEFINE x == <<n>>
                 o == Operand(c)
      <4>1. x \in Path /\ o \in Path /\ b \in Path
        BY <1>0, <2>4, <3>1
      <4> HIDE DEF x, o, b
      <4>2. b \o (r \o x) = (b \o r) \o x
        BY <4>1, Regrouped
      <4>3. o \o (r \o x) = (o \o r) \o x
        BY <4>1, Regrouped
      <4> QED BY <4>2, <4>3 DEF x, o, b
    <3> HIDE DEF q, d
    <3>4. IsPrefix(Operand(c), Operand(c) \o q)
      BY <2>4, <3>1, PrefixOfConcat
    <3> QED BY <2>3, <3>1, <3>2, <3>3, <3>4
  <2>6. Lstat(t, Append(d, n)) = Found(Append(e, n))
    <3>1. Lstat(t, d).error = "none" /\ Lstat(t, d).at = e
      BY <2>3, Errors
    <3>2. Lstat(t, Append(d, n)).error = "none"
      BY <2>1
    <3> HIDE DEF d, e, t
    <3> QED BY <1>0, <2>2, <2>3, <3>1, <3>2, LstatNext DEF e
  <2>7. Lstat(t, p) = Found(Operand(c) \o q) /\ p = b \o q
    BY <2>1, <2>5, <2>6
  <2>8. Lstat(t, p).at = Operand(c) \o q
    BY <2>7, Errors
  <2> HIDE DEF q
  <2> QED BY <2>2, <2>5, <2>7, <2>8 DEF Inside
<1> QED BY <1>1, <1>2

RmKept(c, t, x) ==
  /\ \A p \in DOMAIN t : p \in x \/ (p \in DOMAIN c.tree /\ t[p] = c.tree[p])
  /\ Follows(t, c.tree)
  /\ \A p \in DOMAIN c.tree \ DOMAIN t : p \in x \/ Inside(c, p)
RmGone(c, t, x, m) ==
  (\E p \in DOMAIN t : Inside(c, p)) =>
    Operand(c) \in m \/ (x # {} /\ Lstat(t, c.from).error # "none")
RmWhere(c, s, p, a) ==
  /\ Trail(c, s)
  /\ a \in {"look", "unlink", "list"} => OnTrail(c, s, p)
  /\ a = "list" => /\ Lstat(c.tree, p).error = "none"
                   /\ c.tree[Lstat(c.tree, p).at].kind = "dir"
  /\ a \in {"next", "rmdir"} => s # <<>>
  /\ a = "rmdir" => p = Last(s).path
RmIs(c, t, x, s, p, a, k, v, m) ==
  /\ a \in {"idle", "look", "unlink", "list", "next", "rmdir"}
  /\ RmWhere(c, s, p, a) /\ RmKept(c, t, x)
  /\ a = "idle" /\ k = "request" => s = <<>>
  /\ x = {} /\ s = <<>> /\ (a \in {"look", "unlink", "list"} \/ (a = "idle" /\ k = "request")) =>
       t = c.tree
  /\ k = "done" /\ v = 0 => RmGone(c, t, x, m)
RmInv == RmIs(req, fs, theirs, frames, path, at, pc, ret, missing)

LEMMA RmReturns ==
  ASSUME Shape, req' = req, stack' = stack, path' = path,
         NEW s \in Seq(RmFrames), Trail(req, s), NEW v, Back(s, v), pc = "request",
         Sound(fs'), Shaped(fs'), RmKept(req, fs', theirs'),
         s = <<>> /\ v = 0 => RmGone(req, fs', theirs', missing')
  PROVE  Shape' /\ RmInv'
<1>1. /\ frames' = s
      /\ \/ pc' = "done" /\ ret' = v /\ at' = "idle" /\ (s = <<>> \/ v # 0)
         \/ pc' = pc /\ at' = "next" /\ s # <<>>
  BY DEF Back, Finish, Go
<1>2. Shape'
  BY <1>1 DEF Shape, Copying, CopyCalls
<1>3. RmWhere(req, frames', path', at')
  BY <1>1 DEF RmWhere
<1>4. RmIs(req, fs', theirs', frames', path', at', pc', ret', missing')
  BY <1>1, <1>3 DEF RmIs
<1> QED BY <1>2, <1>4 DEF RmInv

LEMMA RmFails ==
  ASSUME Shape, RmInv, req' = req, stack' = stack, path' = path, fs' = fs, theirs' = theirs,
         frames' = frames, Finish(-1)
  PROVE  Shape' /\ RmInv'
<1>1. pc' = "done" /\ ret' = -1 /\ at' = "idle"
  BY DEF Finish
<1>2. Shape'
  BY <1>1 DEF Shape, Copying, CopyCalls
<1>3. RmWhere(req, frames', path', at')
  BY <1>1 DEF RmWhere, RmInv, RmIs
<1>4. RmIs(req, fs', theirs', frames', path', at', pc', ret', missing')
  BY <1>1, <1>3 DEF RmIs, RmInv
<1> QED BY <1>2, <1>4 DEF RmInv

(* Another call of the same kind in the same tree. *)
LEMMA RmGoes ==
  ASSUME Shape, RmInv, req' = req, stack' = stack, fs' = fs, theirs' = theirs,
         NEW a, Go(a), pc = "request", a \in {"look", "unlink", "list", "next", "rmdir"},
         path' \in Path, frames' \in Seq(RmFrames), RmWhere(req, frames', path', a),
         theirs = {} /\ frames' = <<>> => fs = req.tree,
         a = "unlink" => ~Is(fs, Lstat(fs, path'), "dir")
  PROVE  Shape' /\ RmInv'
<1>1. pc' = pc /\ ret' = ret /\ at' = a
  BY DEF Go
<1>2. Shape'
  BY <1>1 DEF Shape, Copying, CopyCalls
<1>3. RmIs(req, fs', theirs', frames', path', at', pc', ret', missing')
  BY <1>1 DEF RmIs, RmInv
<1> QED BY <1>2, <1>3 DEF RmInv

(* What rm removes is below its operand. *)
LEMMA RmRemoves ==
  ASSUME Shape, RmInv, NEW p \in DOMAIN fs, p = Lstat(fs, path).at,
         Lstat(fs, path).error = "none",
         at \in {"look", "unlink", "list", "rmdir"}
  PROVE  p \in DOMAIN req.tree => /\ Inside(req, p) /\ Lstat(req.tree, path) = Found(p)
                                  /\ \E r \in Path : path = req.from \o r /\ p = Operand(req) \o r
<1> SUFFICES ASSUME p \in DOMAIN req.tree
             PROVE  /\ Inside(req, p) /\ Lstat(req.tree, path) = Found(p)
                    /\ \E r \in Path : path = req.from \o r /\ p = Operand(req) \o r
  OBVIOUS
<1>1. Lstat(req.tree, path) = Lstat(fs, path)
  <2>1. Sound(fs) /\ Sound(req.tree) /\ path \in Path /\ Follows(fs, req.tree)
    BY Trees DEF Shape, RmInv, RmIs, RmKept
  <2> QED BY <2>1, LstatSame
<1>2. Lstat(req.tree, path).error = "none" /\ Lstat(req.tree, path) = Found(p)
      /\ Lstat(req.tree, path).at = p
  <2>1. Lstat(fs, path) = Found(p)
    BY LstatFound DEF Shape
  <2> QED BY <1>1, <2>1
<1>3. req \in Requests /\ Trail(req, frames) /\ frames \in Seq(RmFrames)
  BY DEF Shape, RmInv, RmIs, RmWhere
<1>4. CASE at \in {"look", "unlink", "list"}
  <2>1. OnTrail(req, frames, path)
    BY <1>4 DEF RmInv, RmIs, RmWhere
  <2>2. /\ \E r \in Path : path = req.from \o r /\ Lstat(req.tree, path) = Found(Operand(req) \o r)
        /\ Inside(req, Lstat(req.tree, path).at)
    BY <1>2, <1>3, <2>1, NextGood
  <2> QED BY <1>2, <2>2, Errors
<1>5. CASE at = "rmdir"
  <2>1. path = Last(frames).path /\ frames # <<>>
    BY <1>5 DEF RmInv, RmIs, RmWhere
  <2>2. GoodDir(req, path) /\ Lstat(req.tree, req.from).error = "none"
    BY <1>3, <2>1, TopOfTrail
  <2>3. PICK r \in Path : path = req.from \o r /\ Lstat(req.tree, path) = Found(Operand(req) \o r)
    BY <2>2 DEF GoodDir
  <2>4. p = Operand(req) \o r
    BY <1>2, <2>3, Errors
  <2>5. Operand(req) \in Path
    BY <1>3, <2>2, Trees, LstatFound DEF Operand
  <2>6. IsPrefix(Operand(req), p)
    BY <2>4, <2>5, PrefixOfConcat
  <2> QED BY <1>2, <2>2, <2>3, <2>4, <2>6 DEF Inside
<1> QED BY <1>4, <1>5

LEMMA KeptLess ==
  ASSUME NEW c, NEW t, NEW x, RmKept(c, t, x), NEW u, NEW p, Less(t, u, p), NEW y, x \subseteq y,
         p \in y \/ (p \in DOMAIN c.tree => Inside(c, p))
  PROVE  RmKept(c, u, y)
<1> DEFINE g == c.tree
<1>1. /\ \A q \in DOMAIN t : q \in x \/ (q \in DOMAIN g /\ t[q] = g[q])
      /\ \A q \in DOMAIN t : t[q].kind \in {"dir", "link"} => q \in DOMAIN g /\ g[q] = t[q]
      /\ \A q \in DOMAIN g \ DOMAIN t : q \in x \/ Inside(c, q)
  BY DEF RmKept, Follows
<1>2. p \in y \/ (p \in DOMAIN g => Inside(c, p))
  OBVIOUS
<1> HIDE DEF g
<1>3. DOMAIN u = DOMAIN t \ {p} /\ \A q \in DOMAIN u : q \in DOMAIN t /\ u[q] = t[q]
  BY DEF Less
<1>4. \A q \in DOMAIN u : q \in y \/ (q \in DOMAIN g /\ u[q] = g[q])
  BY <1>1, <1>3
<1>5. Follows(u, g)
  BY <1>1, <1>3 DEF Follows
<1>6. \A q \in DOMAIN g \ DOMAIN u : q \in y \/ Inside(c, q)
  BY <1>1, <1>2, <1>3
<1> QED BY <1>4, <1>5, <1>6 DEF RmKept, g

LEMMA KeptMore ==
  ASSUME NEW c, NEW t, NEW x, RmKept(c, t, x), NEW u, NEW p, NEW node, node.kind = "file",
         More(t, u, p, node), p \notin DOMAIN t
  PROVE  RmKept(c, u, x \cup {p})
<1> DEFINE g == c.tree
           y == x \cup {p}
<1>1. /\ \A q \in DOMAIN t : q \in x \/ (q \in DOMAIN g /\ t[q] = g[q])
      /\ \A q \in DOMAIN t : t[q].kind \in {"dir", "link"} => q \in DOMAIN g /\ g[q] = t[q]
      /\ \A q \in DOMAIN g \ DOMAIN t : q \in x \/ Inside(c, q)
  BY DEF RmKept, Follows
<1> HIDE DEF g
<1>3. DOMAIN u = DOMAIN t \cup {p} /\ u[p] = node /\ \A q \in DOMAIN t : u[q] = t[q]
  BY DEF More
<1>4. \A q \in DOMAIN u : q \in y \/ (q \in DOMAIN g /\ u[q] = g[q])
  BY <1>1, <1>3
<1>5. Follows(u, g)
  BY <1>1, <1>3 DEF Follows
<1>6. \A q \in DOMAIN g \ DOMAIN u : q \in y \/ Inside(c, q)
  BY <1>1, <1>3
<1> QED BY <1>4, <1>5, <1>6 DEF RmKept, g

LEMMA RmOthers ==
  ASSUME Shape, RmInv, pc = "request", at # "idle", OthersCreate \/ OthersRemove
  PROVE  Shape' /\ RmInv'
<1>1. PICK p \in Path :
        /\ p # <<>> /\ theirs' = theirs \cup {p}
        /\ \/ p \notin DOMAIN fs /\ Within(fs, fs') /\ More(fs, fs', p, File(Empty, "rw"))
           \/ p \in DOMAIN fs /\ Within(fs', fs) /\ Less(fs, fs', p)
        /\ Sound(fs') /\ Shaped(fs') /\ Follows(fs', fs)
  BY Others
<1>2. UNCHANGED <<req, stack, path, frames, at, pc, ret, missing>>
  BY DEF OthersCreate, OthersRemove, copied
<1>3. RmKept(req, fs', theirs')
  <2>1. RmKept(req, fs, theirs) /\ theirs \subseteq theirs' /\ p \in theirs'
    BY <1>1 DEF RmInv, RmIs
  <2>2. CASE p \notin DOMAIN fs /\ More(fs, fs', p, File(Empty, "rw"))
    <3> DEFINE node == File(Empty, "rw")
    <3>1. node.kind = "file"
      BY CommandsAssumption, Nodes
    <3> HIDE DEF node
    <3>2. RmKept(req, fs', theirs \cup {p})
      BY <2>1, <2>2, <3>1, KeptMore DEF node
    <3> QED BY <1>1, <3>2
  <2>3. CASE Less(fs, fs', p)
    BY <2>1, <2>3, KeptLess
  <2> QED BY <1>1, <2>2, <2>3
<1>4. at = "unlink" => ~Is(fs', Lstat(fs', path), "dir")
  <2>1. Sound(fs) /\ path \in Path /\ (at = "unlink" => ~Is(fs, Lstat(fs, path), "dir"))
    BY DEF Shape
  <2> QED BY <1>1, <2>1, StillNone
<1>5. Shape'
  BY <1>1, <1>2, <1>4 DEF Shape, Copying, CopyCalls
<1>6. theirs' # {}
  BY <1>1
<1>7. RmIs(req, fs', theirs', frames', path', at', pc', ret', missing')
  BY <1>2, <1>3, <1>6 DEF RmIs, RmInv
<1> QED BY <1>2, <1>5, <1>7 DEF RmInv

SamePaths(s, q) ==
  DOMAIN q = DOMAIN s /\ \A i \in DOMAIN s : q[i].path = s[i].path

LEMMA Trimmed ==
  ASSUME NEW s \in Seq(RmFrames), s # <<>>, NEW n, NEW q,
         q = [s EXCEPT ![Len(s)].todo = @ \ {n}]
  PROVE  /\ q \in Seq(RmFrames) /\ q # <<>> /\ SamePaths(s, q)
         /\ Last(q).path = Last(s).path /\ Last(q).todo = Last(s).todo \ {n}
<1>1. Len(s) \in Nat \ {0} /\ s[Len(s)] \in RmFrames /\ Last(s) = s[Len(s)]
  BY Stacks
<1> DEFINE f == [s[Len(s)] EXCEPT !.todo = @ \ {n}]
<1>2. f \in RmFrames /\ f.path = s[Len(s)].path /\ f.todo = s[Len(s)].todo \ {n}
  BY <1>1 DEF RmFrames
<1>3. q = [s EXCEPT ![Len(s)] = f]
  OBVIOUS
<1> HIDE DEF f
<1>4. q \in Seq(RmFrames) /\ Len(q) = Len(s) /\ DOMAIN q = DOMAIN s
      /\ \A i \in DOMAIN s : q[i] = IF i = Len(s) THEN f ELSE s[i]
  <2>1. DOMAIN s = 1 .. Len(s) /\ \A i \in 1 .. Len(s) : s[i] \in RmFrames
    OBVIOUS
  <2>2. DOMAIN q = DOMAIN s /\ \A i \in DOMAIN s : q[i] = IF i = Len(s) THEN f ELSE s[i]
    BY <1>3
  <2>3. q = [i \in 1 .. Len(s) |-> q[i]]
    BY <1>3, <2>1
  <2>4. \A i \in 1 .. Len(s) : q[i] \in RmFrames
    BY <1>2, <2>1, <2>2
  <2> DEFINE m == Len(s)
  <2>5. m \in Nat /\ q \in [1 .. m -> RmFrames]
    BY <1>1, <2>1, <2>3, <2>4
  <2> HIDE DEF m
  <2>6. q \in Seq(RmFrames) /\ Len(q) = m
    BY <2>5, SeqDef
  <2> QED BY <2>2, <2>6 DEF m
<1>5. q # <<>>
  BY <1>1, <1>4
<1>6. Last(q) = q[Len(q)]
  BY <1>4, <1>5, Stacks
<1>7. q[Len(q)] = f
  BY <1>1, <1>4
<1>8. \A i \in DOMAIN s : q[i].path = s[i].path
  BY <1>2, <1>4
<1> QED BY <1>1, <1>2, <1>4, <1>5, <1>6, <1>7, <1>8 DEF SamePaths

LEMMA NoCopies ==
  ASSUME Shape PROVE ~Next /\ req.call \notin CopyCalls
<1>1. req.call \notin CopyCalls /\ pc \in {"request", "done"}
  BY DEF Shape, Copying
<1> QED BY <1>1 DEF Next, CopyDir, CopyFile, RefuseCopy, CopiesDirectory, CopiesFile, Copying, CopyCalls,
     EnterExisting, EnterNew, EnterNewFails, EnterFails, ReadDirectory, ReadFile, ReadOther,
     ReadUnreachable, ReadFails, EndOfDirectory, OpenOver, OpenNew, OpenFails, Written, WriteFails,
     CloseDirectory, CloseFails, Step, EnterNowhere, OpenPipe

LEMMA TypeOf ==
  ASSUME NEW t, NEW p
  PROVE  /\ PathType(t, p) = "missing" <=> Lstat(t, p).error # "none"
         /\ PathType(t, p) = "directory" <=> Is(t, Lstat(t, p), "dir")
         /\ PathType(t, p) = "file" <=> Is(t, Lstat(t, p), "file")
  BY DEF PathType, Is

LEMMA RmLookMissing ==
  ASSUME Shape, RmInv, req.call = "rm", pc = "request", LookMissing
  PROVE  Shape' /\ RmInv'
<1> DEFINE v == IF Option("f") THEN 0 ELSE -1
<1>1. /\ at = "look" /\ Back(frames, v)
      /\ UNCHANGED <<req, stack, fs, path, theirs>>
      /\ \/ PathType(fs, path) = "missing" /\ missing' = missing
         \/ PathType(fs, path) # "missing" /\ missing' = missing \cup {Lstat(fs, path).at}
  BY DEF LookMissing, copied
<1>2. /\ frames \in Seq(RmFrames) /\ Trail(req, frames) /\ RmKept(req, fs, theirs)
      /\ OnTrail(req, frames, path) /\ req \in Requests /\ Sound(fs) /\ Shaped(fs)
      /\ (frames = <<>> /\ theirs = {} => fs = req.tree)
  BY <1>1 DEF Shape, RmInv, RmIs, RmWhere
<1>3. ASSUME frames = <<>>, NEW p \in DOMAIN fs, Inside(req, p)
      PROVE  Operand(req) \in missing' \/ (theirs # {} /\ Lstat(fs, req.from).error # "none")
  <2>1. path = req.from /\ Lstat(req.tree, req.from).error = "none"
    BY <1>2, <1>3 DEF OnTrail, Inside
  <2>2. CASE PathType(fs, path) = "missing"
    <3>1. Lstat(fs, req.from).error # "none"
      BY <2>1, <2>2, TypeOf
    <3>2. theirs # {}
      BY <1>2, <1>3, <2>1, <3>1
    <3> QED BY <3>1, <3>2
  <2>3. CASE PathType(fs, path) # "missing" /\ missing' = missing \cup {Lstat(fs, path).at}
    <3>1. Lstat(fs, req.from).error = "none"
      BY <2>1, <2>3, TypeOf
    <3>2. Sound(req.tree) /\ req.from \in Path /\ Follows(fs, req.tree)
      BY <1>2, Trees DEF RmKept
    <3>3. Lstat(req.tree, req.from) = Lstat(fs, req.from)
      BY <1>2, <2>1, <3>1, <3>2, LstatSame
    <3> QED BY <2>1, <2>3, <3>3 DEF Operand
  <2> QED BY <1>1, <2>2, <2>3
<1>4. frames = <<>> /\ v = 0 => RmGone(req, fs', theirs', missing')
  BY <1>1, <1>3 DEF RmGone
<1> HIDE DEF v
<1>5. req' = req /\ stack' = stack /\ path' = path /\ fs' = fs /\ theirs' = theirs
  BY <1>1
<1> QED BY <1>1, <1>2, <1>4, <1>5, RmReturns

LEMMA RmLook ==
  ASSUME Shape, RmInv, req.call = "rm", pc = "request", Look
  PROVE  Shape' /\ RmInv'
<1>1. /\ at = "look" /\ PathType(fs, path) # "missing"
      /\ UNCHANGED <<req, stack, fs, path, theirs, frames>>
      /\ \/ PathType(fs, path) # "directory" /\ Go("unlink")
         \/ PathType(fs, path) = "directory" /\ Go("list")
         \/ Finish(-1)
  BY DEF Look, copied
<1>2. /\ frames \in Seq(RmFrames) /\ Trail(req, frames) /\ path \in Path
      /\ OnTrail(req, frames, path) /\ req \in Requests /\ Sound(fs) /\ Follows(fs, req.tree)
      /\ (theirs = {} /\ frames = <<>> => fs = req.tree)
  BY <1>1 DEF Shape, RmInv, RmIs, RmWhere, RmKept
<1>3. CASE PathType(fs, path) # "directory" /\ Go("unlink")
  <2>1. ~Is(fs, Lstat(fs, path), "dir")
    BY <1>3, TypeOf
  <2>2. RmWhere(req, frames', path', "unlink")
    BY <1>1, <1>2 DEF RmWhere
  <2> QED BY <1>1, <1>2, <1>3, <2>1, <2>2, RmGoes
<1>4. CASE PathType(fs, path) = "directory" /\ Go("list")
  <2>1. Lstat(fs, path).error = "none" /\ Lstat(fs, path).at \in DOMAIN fs
        /\ fs[Lstat(fs, path).at].kind = "dir"
    BY <1>4, TypeOf DEF Is
  <2>2. Lstat(fs, path).at \in DOMAIN req.tree /\ req.tree[Lstat(fs, path).at].kind = "dir"
    BY <1>2, <2>1 DEF Follows
  <2>3. Lstat(req.tree, path) = Lstat(fs, path)
    BY <1>2, <2>1, <2>2, Trees, LstatSame
  <2>4. RmWhere(req, frames', path', "list")
    BY <1>1, <1>2, <2>1, <2>2, <2>3 DEF RmWhere
  <2> QED BY <1>1, <1>2, <1>4, <2>4, RmGoes
<1>5. CASE Finish(-1)
  BY <1>1, <1>5, RmFails
<1> QED BY <1>1, <1>3, <1>4, <1>5

(* The operand itself is taken away. *)
LEMMA RmTop ==
  ASSUME Shape, RmInv, path = req.from, NEW p \in DOMAIN fs, p = Lstat(fs, path).at,
         Lstat(fs, path).error = "none", fs[p].kind # "dir" \/ Entries(fs, p) = {},
         NEW u, Less(fs, u, p), NEW x, NEW m
  PROVE  RmGone(req, u, x, m)
<1> SUFFICES ASSUME NEW q \in DOMAIN u, Inside(req, q) PROVE FALSE
  BY DEF RmGone
<1>1. /\ Sound(fs) /\ Shaped(fs) /\ Sound(req.tree) /\ req.from \in Path /\ Follows(fs, req.tree)
  BY Trees DEF Shape, RmInv, RmIs, RmKept
<1>2. Lstat(req.tree, req.from).error = "none" /\ IsPrefix(Operand(req), q)
  BY DEF Inside
<1>3. Lstat(req.tree, req.from) = Lstat(fs, req.from)
  BY <1>1, <1>2, LstatSame
<1>4. p = Operand(req)
  BY <1>3 DEF Operand
<1>5. q \in DOMAIN fs /\ q # p
  BY DEF Less
<1>6. p \in Path
  BY <1>1 DEF Sound, TreeOK
<1> QED BY <1>1, <1>2, <1>4, <1>5, <1>6, NothingBelow

LEMMA RmUnlink ==
  ASSUME Shape, RmInv, pc = "request", Unlink
  PROVE  Shape' /\ RmInv'
<1>1. PICK p \in Deleted(fs) : fs' = Without(fs, p)
  BY DEF Unlink
<1>2. at = "unlink" /\ Back(frames, 0) /\ UNCHANGED <<req, stack, path, theirs, missing>>
  BY DEF Unlink, copied
<1>3. /\ p = Lstat(fs, path).at /\ Lstat(fs, path).error = "none"
      /\ p \in DOMAIN fs /\ p # <<>> /\ fs[p].kind # "dir"
  BY <1>2, Deleting
<1>4. /\ frames \in Seq(RmFrames) /\ Trail(req, frames) /\ RmKept(req, fs, theirs)
      /\ OnTrail(req, frames, path) /\ Sound(fs) /\ Shaped(fs)
  BY <1>2 DEF Shape, RmInv, RmIs, RmWhere
<1>5. Sound(fs') /\ Shaped(fs') /\ Less(fs, fs', p)
  BY <1>1, <1>3, <1>4, Removing
<1>6. p \in DOMAIN req.tree => Inside(req, p)
  BY <1>2, <1>3, RmRemoves
<1>7. RmKept(req, fs', theirs')
  <2>1. RmKept(req, fs', theirs)
    BY <1>4, <1>5, <1>6, KeptLess
  <2> QED BY <1>2, <2>1
<1>8. frames = <<>> => RmGone(req, fs', theirs', missing')
  <2>1. frames = <<>> => path = req.from
    BY <1>4 DEF OnTrail
  <2> QED BY <1>3, <1>5, <2>1, RmTop
<1> QED BY <1>2, <1>4, <1>5, <1>7, <1>8, RmReturns

LEMMA RmList ==
  ASSUME Shape, RmInv, pc = "request", List
  PROVE  Shape' /\ RmInv'
<1> DEFINE f == [path |-> path, todo |-> Listed(fs)]
<1>1. /\ at = "list" /\ frames' = Append(frames, f) /\ Go("next")
      /\ UNCHANGED <<req, stack, fs, path, theirs, missing>>
  BY DEF List, copied
<1>2. /\ frames \in Seq(RmFrames) /\ Trail(req, frames) /\ path \in Path
      /\ OnTrail(req, frames, path) /\ req \in Requests /\ Sound(fs)
      /\ Lstat(req.tree, path).error = "none"
      /\ req.tree[Lstat(req.tree, path).at].kind = "dir"
  BY <1>1 DEF Shape, RmInv, RmIs, RmWhere
<1>3. f \in RmFrames /\ f.path = path
  <2>1. Entries(fs, Stat(fs, path).at) \subseteq Name
    BY <1>2, NamesOfEntries DEF Sound, TreeOK
  <2>2. Listed(fs) \subseteq Name
    BY <2>1 DEF Listed, Names
  <2> QED BY <1>2, <2>2 DEF RmFrames
<1> HIDE DEF f
<1>4. GoodDir(req, path)
  <2>1. PICK r \in Path : path = req.from \o r /\ Lstat(req.tree, path) = Found(Operand(req) \o r)
    BY <1>2, NextGood
  <2>2. Lstat(req.tree, path).at = Operand(req) \o r
    BY <2>1, Errors
  <2> QED BY <1>2, <2>1, <2>2 DEF GoodDir
<1>5. /\ frames' \in Seq(RmFrames) /\ frames' # <<>> /\ Len(frames') = Len(frames) + 1
      /\ Len(frames) \in Nat /\ frames'[Len(frames) + 1] = f
      /\ \A i \in 1 .. Len(frames) : frames'[i] = frames[i]
  BY <1>1, <1>2, <1>3
<1>6. Trail(req, frames')
  <2>1. ASSUME NEW i \in DOMAIN frames' PROVE GoodDir(req, frames'[i].path)
    <3>1. CASE i \in 1 .. Len(frames)
      BY <1>2, <1>5, <3>1 DEF Trail
    <3>2. CASE i = Len(frames) + 1
      BY <1>3, <1>4, <1>5, <3>2
    <3> QED BY <1>5, <3>1, <3>2
  <2>2. frames'[1].path = req.from
    <3>1. CASE frames = <<>>
      BY <1>2, <1>3, <1>5, <3>1 DEF OnTrail
    <3>2. CASE frames # <<>>
      BY <1>2, <1>5, <3>2 DEF Trail
    <3> QED BY <3>1, <3>2
  <2> QED BY <2>1, <2>2 DEF Trail
<1>7. RmWhere(req, frames', path', "next")
  BY <1>5, <1>6 DEF RmWhere
<1> QED BY <1>1, <1>2, <1>5, <1>7, RmGoes

LEMMA RmNext ==
  ASSUME Shape, RmInv, pc = "request", NEW n \in Name, NextEntry(n)
  PROVE  Shape' /\ RmInv'
<1>1. /\ at = "next" /\ path' = Append(Last(frames).path, n) /\ Go("look")
      /\ frames' = [frames EXCEPT ![Len(frames)].todo = @ \ {n}]
      /\ UNCHANGED <<req, stack, fs, theirs, missing>>
  BY DEF NextEntry, copied
<1>2. frames \in Seq(RmFrames) /\ Trail(req, frames) /\ frames # <<>> /\ req \in Requests
  BY <1>1 DEF Shape, RmInv, RmIs, RmWhere
<1>3. /\ frames' \in Seq(RmFrames) /\ frames' # <<>> /\ DOMAIN frames' = DOMAIN frames
      /\ \A i \in DOMAIN frames : frames'[i].path = frames[i].path
      /\ Last(frames').path = Last(frames).path
  <2> DEFINE q == frames'
  <2>1. q = [frames EXCEPT ![Len(frames)].todo = @ \ {n}]
    BY <1>1
  <2>2. q \in Seq(RmFrames) /\ q # <<>> /\ SamePaths(frames, q)
    <3> HIDE DEF q
    <3> QED BY <1>2, <2>1, Trimmed
  <2>3. Last(q).path = Last(frames).path
    <3> HIDE DEF q
    <3> QED BY <1>2, <2>1, Trimmed
  <2> QED BY <2>2, <2>3 DEF SamePaths
<1>4. Last(frames).path \in Path
  BY <1>2, TopOfTrail
<1>5. path' \in Path
  BY <1>1, <1>4, EntryOf
<1>6. Trail(req, frames') /\ OnTrail(req, frames', path')
  <2>1. 1 \in DOMAIN frames
    BY <1>2
  <2> QED BY <1>1, <1>2, <1>3, <2>1 DEF Trail, OnTrail
<1>7. RmWhere(req, frames', path', "look")
  BY <1>6 DEF RmWhere
<1> QED BY <1>1, <1>3, <1>5, <1>7, RmGoes

LEMMA RmEnd ==
  ASSUME Shape, RmInv, pc = "request", EndOfEntries
  PROVE  Shape' /\ RmInv'
<1>1. /\ at = "next" /\ path' = Last(frames).path /\ Go("rmdir")
      /\ UNCHANGED <<req, stack, fs, frames, theirs, missing>>
  BY DEF EndOfEntries, copied
<1>2. frames \in Seq(RmFrames) /\ Trail(req, frames) /\ frames # <<>> /\ req \in Requests
  BY <1>1 DEF Shape, RmInv, RmIs, RmWhere
<1>3. path' \in Path
  BY <1>1, <1>2, TopOfTrail
<1>4. RmWhere(req, frames', path', "rmdir")
  BY <1>1, <1>2 DEF RmWhere
<1> QED BY <1>1, <1>2, <1>3, <1>4, RmGoes

LEMMA RmRmdir ==
  ASSUME Shape, RmInv, pc = "request", Rmdir
  PROVE  Shape' /\ RmInv'
<1>1. PICK p \in DeletedDir(fs) : fs' = Without(fs, p)
  BY DEF Rmdir
<1>2. at = "rmdir" /\ Back(Front(frames), 0) /\ UNCHANGED <<req, stack, path, theirs, missing>>
  BY DEF Rmdir, copied
<1>3. /\ p = Lstat(fs, path).at /\ Lstat(fs, path).error = "none"
      /\ p \in DOMAIN fs /\ p # <<>> /\ Entries(fs, p) = {}
  BY <1>1, DeletingDir
<1>4. /\ frames \in Seq(RmFrames) /\ Trail(req, frames) /\ RmKept(req, fs, theirs)
      /\ frames # <<>> /\ path = Last(frames).path /\ Sound(fs) /\ Shaped(fs)
  BY <1>2 DEF Shape, RmInv, RmIs, RmWhere
<1>5. Sound(fs') /\ Shaped(fs') /\ Less(fs, fs', p)
  BY <1>1, <1>3, <1>4, Removing
<1>6. p \in DOMAIN req.tree => Inside(req, p)
  BY <1>2, <1>3, RmRemoves
<1>7. RmKept(req, fs', theirs')
  <2>1. RmKept(req, fs', theirs)
    BY <1>4, <1>5, <1>6, KeptLess
  <2> QED BY <1>2, <2>1
<1> DEFINE s == Front(frames)
<1>8. /\ s \in Seq(RmFrames) /\ Len(frames) \in Nat \ {0} /\ Len(s) = Len(frames) - 1
      /\ \A i \in 1 .. Len(frames) - 1 : s[i] = frames[i]
      /\ Last(frames) = frames[Len(frames)]
  BY <1>4, Stacks
<1> HIDE DEF s
<1>9. Trail(req, s)
  <2>1. \A i \in DOMAIN s : i \in DOMAIN frames /\ s[i] = frames[i]
    BY <1>8
  <2>2. s # <<>> => 1 \in DOMAIN s
    BY <1>8
  <2> QED BY <1>4, <2>1, <2>2 DEF Trail
<1>10. s = <<>> => RmGone(req, fs', theirs', missing')
  <2>1. s = <<>> => path = req.from
    <3>1. s = <<>> => Len(frames) = 1
      BY <1>8
    <3> QED BY <1>4, <1>8, <3>1 DEF Trail
  <2> QED BY <1>3, <1>5, <2>1, RmTop
<1>11. Back(s, 0)
  BY <1>2 DEF s
<1> QED BY <1>2, <1>5, <1>7, <1>8, <1>9, <1>10, <1>11, RmReturns

LEMMA RmStep ==
  ASSUME Shape, RmInv, req.call = "rm", [CommandsNext]_allVars
  PROVE  Shape' /\ RmInv' /\ req' = req
<1>1. at # "idle" => pc = "request"
  BY DEF Shape
<1>2. CASE UNCHANGED allVars
  BY <1>2 DEF allVars, vars, own, Shape, RmInv, Copying, CopyCalls
<1>3. CASE Begin
  <2>1. /\ pc = "request" /\ at = "idle" /\ Go("look") /\ path' = req.from
        /\ UNCHANGED <<req, stack, fs, frames, theirs, missing>>
    BY <1>3 DEF Begin, copied
  <2>2. frames = <<>> /\ (theirs = {} => fs = req.tree) /\ req.from \in Path /\ frames \in Seq(RmFrames)
    BY <2>1, Trees DEF RmInv, RmIs, Shape
  <2>3. RmWhere(req, frames', path', "look")
    BY <2>1, <2>2 DEF RmWhere, Trail, OnTrail
  <2> QED BY <2>1, <2>2, <2>3, RmGoes
<1>4. CASE OthersCreate \/ OthersRemove
  <2>1. at # "idle"
    BY <1>4 DEF OthersCreate, OthersRemove, Room
  <2>2. UNCHANGED req
    BY <1>4 DEF OthersCreate, OthersRemove, copied
  <2> QED BY <1>1, <1>4, <2>1, <2>2, RmOthers
<1>5. CASE LookMissing \/ Look \/ Unlink \/ List \/ EndOfEntries \/ Rmdir
  <2>1. pc = "request" /\ req' = req
    BY <1>1, <1>5 DEF LookMissing, Look, Unlink, List, EndOfEntries, Rmdir, copied
  <2> QED BY <1>5, <2>1, RmLookMissing, RmLook, RmUnlink, RmList, RmEnd, RmRmdir
<1>6. CASE UnlinkFails
  <2>1. at = "unlink" /\ Back(frames, -1) /\ UNCHANGED <<req, stack, fs, path, theirs, missing>>
    BY <1>6 DEF UnlinkFails, copied
  <2>2. Finish(-1) /\ frames' = frames
    BY <2>1 DEF Back
  <2> QED BY <2>1, <2>2, RmFails
<1>7. CASE ListFails \/ RmdirFails
  <2>1. Finish(-1) /\ UNCHANGED <<req, stack, fs, path, theirs, frames>>
    BY <1>7 DEF ListFails, RmdirFails, copied
  <2> QED BY <2>1, RmFails
<1>8. ASSUME NEW n \in Name, NextEntry(n) PROVE Shape' /\ RmInv' /\ req' = req
  <2>1. pc = "request" /\ req' = req
    BY <1>1, <1>8 DEF NextEntry, copied
  <2> QED BY <1>8, <2>1, RmNext
<1>9. ~(InvalidDate \/ Test \/ Copy)
  BY NoCopies DEF InvalidDate, Test, Copy, Dated
<1>10. ~(Mkdir \/ MkdirCollides \/ MkdirFails \/ MkdirExists \/ Stamp \/ StampMissing \/ StampFails
         \/ Create \/ CreateFails \/ Attributes \/ OpenAlways \/ OpenExisting \/ OpenExistingFails)
  BY DEF RmInv, RmIs, Mkdir, MkdirCollides, MkdirFails, MkdirExists, Stamp, StampMissing, StampFails,
         Create, CreateFails, Attributes, OpenAlways, OpenExisting, OpenExistingFails
<1> QED BY <1>2, <1>3, <1>4, <1>5, <1>6, <1>7, <1>8, <1>9, <1>10 DEF CommandsNext, Command

-----------------------------------------------------------------------------
(***************************************************************************)
(* rm -rf does not fail where nothing stands in its way.  It is at a place *)
(* whose entries not yet done are untouched, and so are those of all the   *)
(* directories that it has open: the tree holds what the least tree holds  *)
(* in which an obstacle would show.                                        *)
(***************************************************************************)
Spot(c, q) == Operand(c) \o SubSeq(q, Len(c.from) + 1, Len(q))

Untouched(c, t, p) ==
  p \in DOMAIN t /\ \A q \in DOMAIN c.tree : IsPrefix(p, q) => q \in DOMAIN t

(* d is an open directory whose entries l are to come while rm is at h. *)
InOrder(c, t, d, l, h) ==
  /\ IsPrefix(d, h)
  /\ \A n \in l : Untouched(c, t, Append(d, n)) /\ ~IsPrefix(Append(d, n), h)
  /\ \A q \in DOMAIN t \ {<<>>} : Front(q) = d => Last(q) \in l \/ IsPrefix(q, h)
Nest(d, e, next) ==
  e # <<>> /\ IsPrefix(d, Front(e)) /\ (next => Front(e) = d)
RmOrder(c, t, s, h) ==
  /\ h \in DOMAIN t
  /\ \A i \in DOMAIN s : InOrder(c, t, Spot(c, s[i].path), s[i].todo, h)
  /\ \A i, j \in DOMAIN s : i < j => Nest(Spot(c, s[i].path), Spot(c, s[j].path), j = i + 1)

Present(c) == Lstat(c.tree, c.from).error = "none"
AtName(s, p, a) == IF a = "next" THEN Last(s).path ELSE p
RmSure(c, t, s, p, a) ==
  /\ a \in {"unlink", "list", "next", "rmdir"} => Present(c)
  /\ a # "idle" /\ Present(c) => RmOrder(c, t, s, Spot(c, AtName(s, p, a)))
  /\ a \in {"look", "unlink", "list"} /\ Present(c) => Untouched(c, t, Spot(c, p))
  /\ a = "rmdir" => Last(s).todo = {}

Free == req.options = {"r", "f"} /\ \A p \in DOMAIN req.tree : Under(p) => ~Obstacle(p)
CauseInv ==
  /\ faults \in Nat
  /\ Free /\ faults = 0 /\ theirs = {} =>
       RmSure(req, fs, frames, path, at) /\ (pc = "done" => ret = 0)

LEMMA FreeStays == ASSUME req' = req PROVE Free' <=> Free
  BY DEF Free, Obstacle, Protected, EntryAt, Linux, LeftFor, LeftBelow, Rest, Under, Named, NameOf, Writable

Called(c, p, h) == \E r \in Path : p = c.from \o r /\ h = Operand(c) \o r

(* The place that a name below the operand stands for, and back. *)
LEMMA SpotIs ==
  ASSUME NEW c \in Requests, Present(c), NEW r \in Path
  PROVE  /\ Operand(c) \in Path /\ c.from \o r \in Path /\ Operand(c) \o r \in Path
         /\ Spot(c, c.from \o r) = Operand(c) \o r
         /\ IsPrefix(Operand(c), Operand(c) \o r)
         /\ c.from \o SubSeq(Operand(c) \o r, Len(Operand(c)) + 1, Len(Operand(c) \o r)) = c.from \o r
<1>1. c.from \in Path /\ Operand(c) \in Path
  BY Trees, LstatFound DEF Present, Operand
<1> QED BY <1>1, CutIs, PrefixOfConcat DEF Spot

LEMMA SpotOfDir ==
  ASSUME NEW c \in Requests, Present(c), NEW d, GoodDir(c, d)
  PROVE  /\ d \in Path /\ Spot(c, d) \in Path /\ Lstat(c.tree, d) = Found(Spot(c, d))
         /\ c.tree[Spot(c, d)].kind = "dir" /\ IsPrefix(Operand(c), Spot(c, d))
         /\ Called(c, d, Spot(c, d))
<1>1. PICK r \in Path : d = c.from \o r /\ Lstat(c.tree, d) = Found(Operand(c) \o r)
                        /\ c.tree[Operand(c) \o r].kind = "dir"
  BY DEF GoodDir
<1>2. Called(c, d, Operand(c) \o r)
  BY <1>1 DEF Called
<1> QED BY <1>1, <1>2, SpotIs

LEMMA SpotOfEntry ==
  ASSUME NEW c \in Requests, Present(c), NEW d, GoodDir(c, d), NEW n \in Name
  PROVE  /\ Spot(c, Append(d, n)) = Append(Spot(c, d), n)
         /\ Called(c, Append(d, n), Append(Spot(c, d), n))
<1>1. PICK r \in Path : d = c.from \o r /\ Spot(c, d) = Operand(c) \o r
  <2>1. Called(c, d, Spot(c, d))
    BY SpotOfDir
  <2> QED BY <2>1 DEF Called
<1> DEFINE x == <<n>>
           a == c.from
           o == Operand(c)
           e == Spot(c, d)
<1>2. x \in Path /\ a \in Path /\ o \in Path /\ d \in Path /\ e \in Path
  <2>1. x \in Path
    BY DEF Path
  <2>2. c.from \in Path
    BY Trees
  <2>3. Operand(c) \in Path /\ d \in Path /\ Spot(c, d) \in Path
    BY <1>1, SpotIs, SpotOfDir
  <2> QED BY <2>1, <2>2, <2>3
<1>3. Append(d, n) = d \o x /\ Append(e, n) = e \o x
  BY <1>2, AppendIsConcat DEF Path
<1> HIDE DEF x, a, o, e
<1>4. r \o x \in Path /\ d \o x = a \o (r \o x) /\ e \o x = o \o (r \o x)
  <2>1. d = a \o r /\ e = o \o r
    BY <1>1 DEF a, o, e
  <2>2. a \o (r \o x) = (a \o r) \o x
    BY <1>2, Regrouped
  <2>3. o \o (r \o x) = (o \o r) \o x
    BY <1>2, Regrouped
  <2>4. r \o x \in Path
    BY <1>2, PrefixOfConcat
  <2> QED BY <2>1, <2>2, <2>3, <2>4
<1>5. Spot(c, a \o (r \o x)) = o \o (r \o x)
  BY <1>4, SpotIs DEF a, o
<1>6. Called(c, d \o x, e \o x)
  BY <1>4 DEF Called, a, o
<1> QED BY <1>3, <1>4, <1>5, <1>6 DEF a, o, e

(* The place rm is at, and its name. *)
LEMMA SpotOnTrail ==
  ASSUME NEW c \in Requests, Present(c), NEW s \in Seq(RmFrames), Trail(c, s), NEW p, OnTrail(c, s, p)
  PROVE  /\ Called(c, p, Spot(c, p))
         /\ s = <<>> => Spot(c, p) = Operand(c)
         /\ s # <<>> => \E n \in Name : /\ p = Append(Last(s).path, n)
                                        /\ Spot(c, p) = Append(Spot(c, Last(s).path), n)
<1>1. CASE s = <<>>
  <2>0. p = c.from /\ c.from \in Path
    BY <1>1, Trees DEF OnTrail
  <2>1. p = c.from /\ c.from \in Path /\ Operand(c) \in Path /\ <<>> \in Path
    <3>1. <<>> \in Path
      BY DEF Path
    <3> QED BY <2>0, <3>1, SpotIs
  <2>2. c.from \o <<>> = c.from /\ Operand(c) \o <<>> = Operand(c)
    BY <2>1 DEF Path
  <2>3. Spot(c, c.from) = Operand(c)
    BY <2>1, <2>2, SpotIs
  <2>4. Called(c, p, Operand(c))
    BY <2>1, <2>2 DEF Called
  <2> QED BY <1>1, <2>1, <2>3, <2>4
<1>2. CASE s # <<>>
  <2>1. PICK n \in Name : p = Append(Last(s).path, n)
    BY <1>2 DEF OnTrail
  <2>2. GoodDir(c, Last(s).path)
    BY <1>2, TopOfTrail
  <2> QED BY <1>2, <2>1, <2>2, SpotOfEntry
<1> QED BY <1>1, <1>2

-----------------------------------------------------------------------------
(* What an obstacle would show in is there. *)
LEMMA LeftIsThere ==
  ASSUME Shape, RmKept(req, fs, {}), NEW h \in DOMAIN fs
  PROVE  /\ h \in DOMAIN req.tree /\ fs[h] = req.tree[h]
         /\ Sound(LeftFor(h)) /\ Within(LeftFor(h), fs)
         /\ Untouched(req, fs, h) => Sound(LeftBelow(h)) /\ Within(LeftBelow(h), fs)
<1> DEFINE g == req.tree
<1>1. Sound(g) /\ Sound(fs) /\ Shaped(fs)
  BY Trees DEF Shape
<1>2. /\ \A q \in DOMAIN fs : q \in DOMAIN g /\ fs[q] = g[q]
      /\ \A q \in DOMAIN g \ DOMAIN fs : Under(q)
  BY DEF RmKept, Inside, Under, Operand, Named
<1>3. h \in Path /\ \A q \in DOMAIN g : q \in Path
  BY <1>1 DEF Sound, TreeOK
<1> DEFINE K == {r \in DOMAIN g : IsPrefix(r, h)}
           L == {r \in DOMAIN g : IsPrefix(r, h) \/ IsPrefix(h, r)}
<1>4. K \subseteq DOMAIN fs
  BY <1>1, <1>3, PrefixIsThere
<1>5. Untouched(req, fs, h) => L \subseteq DOMAIN fs
  BY <1>4 DEF Untouched
<1>6. <<>> \in K
  BY <1>1, <1>3, RootPrefix DEF Sound
<1>7. ASSUME NEW M \in SUBSET DOMAIN g, M \subseteq DOMAIN fs, <<>> \in M
      PROVE  Sound(Rest(M)) /\ Within(Rest(M), fs)
  <2>1. /\ \A q \in DOMAIN Rest(M) : q \in DOMAIN g /\ Rest(M)[q] = g[q] /\ (q \in M \/ ~Under(q))
        /\ \A q \in M : q \in DOMAIN Rest(M)
    BY DEF Rest
  <2>2. \A q \in DOMAIN Rest(M) : q \in DOMAIN fs /\ fs[q] = g[q]
    BY <1>2, <1>7, <2>1
  <2> HIDE DEF g
  <2>3. Within(Rest(M), fs)
    BY <2>1, <2>2 DEF Within
  <2>4. Sound(Rest(M))
    BY <1>1, <1>7, <2>1 DEF Sound, TreeOK
  <2> QED BY <2>3, <2>4
<1>8. Sound(Rest(K)) /\ Within(Rest(K), fs)
  BY <1>4, <1>6, <1>7
<1>9. Untouched(req, fs, h) => Sound(Rest(L)) /\ Within(Rest(L), fs)
  BY <1>5, <1>6, <1>7
<1> QED BY <1>2, <1>8, <1>9 DEF LeftFor, LeftBelow

(* So what rm is at is found under its name, and nothing protects it. *)
LEMMA RmReaches ==
  ASSUME Shape, RmInv, Free, theirs = {}, Present(req),
         at \in {"look", "unlink", "list", "rmdir"}, NEW h, h = Spot(req, path), h \in DOMAIN fs
  PROVE  /\ Lstat(fs, path) = Found(h) /\ h # <<>> /\ h \in Path /\ ~Protected(fs, h)
         /\ h \in DOMAIN req.tree /\ fs[h] = req.tree[h] /\ Under(h)
<1>1. /\ req \in Requests /\ frames \in Seq(RmFrames) /\ Trail(req, frames) /\ Sound(fs) /\ Shaped(fs)
      /\ RmKept(req, fs, {}) /\ path \in Path
      /\ at # "rmdir" => OnTrail(req, frames, path)
      /\ at = "rmdir" => frames # <<>> /\ path = Last(frames).path
  BY DEF Shape, RmInv, RmIs, RmWhere
<1>2. PICK r \in Path : path = req.from \o r /\ h = Operand(req) \o r
  <2>1. ASSUME at = "rmdir" PROVE Called(req, path, h)
    <3>1. GoodDir(req, path)
      BY <1>1, <2>1, TopOfTrail
    <3> QED BY <1>1, <3>1, SpotOfDir
  <2>2. ASSUME at # "rmdir" PROVE Called(req, path, h)
    <3>1. OnTrail(req, frames, path)
      BY <1>1, <2>2
    <3> QED BY <1>1, <3>1, SpotOnTrail
  <2>3. Called(req, path, h)
    BY <2>1, <2>2
  <2> QED BY <2>3 DEF Called
<1>3. h \in DOMAIN req.tree /\ fs[h] = req.tree[h] /\ Sound(LeftFor(h)) /\ Within(LeftFor(h), fs)
  BY <1>1, LeftIsThere
<1>4. Under(h) /\ NameOf(h) = path /\ h \in Path
  <2>1. h \in Path /\ IsPrefix(Operand(req), h)
        /\ req.from \o SubSeq(h, Len(Operand(req)) + 1, Len(h)) = path
    BY <1>1, <1>2, SpotIs
  <2> QED BY <2>1 DEF Under, NameOf, Named, Operand, Present
<1>5. h # <<>> /\ ~Protected(req.tree, h) /\ Lstat(LeftFor(h), path).error = "none"
  BY <1>3, <1>4 DEF Free, Obstacle
<1>6. Lstat(fs, path).error = "none"
  BY <1>1, <1>3, <1>5, LstatGrows
<1>7. Lstat(fs, path) = Found(h)
  <2>1. Lstat(req.tree, path) = Lstat(fs, path)
    <3>1. Lstat(fs, path).at \in DOMAIN req.tree
      BY <1>1, <1>6, LstatFound, LeftIsThere
    <3>2. Sound(req.tree) /\ Follows(fs, req.tree)
      BY <1>1, Trees DEF RmKept
    <3> QED BY <1>1, <1>6, <3>1, <3>2, LstatSame
  <2>2. Lstat(req.tree, path) = Found(h)
    <3>1. CASE at = "rmdir"
      BY <1>1, <3>1, TopOfTrail, SpotOfDir
    <3>2. CASE at # "rmdir"
      <4>1. PICK x \in Path : path = req.from \o x /\ Lstat(req.tree, path) = Found(Operand(req) \o x)
        BY <1>1, <1>6, <2>1, <3>2, NextGood
      <4>2. Spot(req, path) = Operand(req) \o x
        BY <1>1, <4>1, SpotIs
      <4> QED BY <4>1, <4>2
    <3> QED BY <3>1, <3>2
  <2> QED BY <2>1, <2>2
<1>8. ~Protected(fs, h)
  <2>1. Front(h) \in DOMAIN fs /\ fs[Front(h)] = req.tree[Front(h)]
    BY <1>1, <1>5, LeftIsThere DEF Shaped
  <2> QED BY <1>3, <1>5, <2>1 DEF Protected, Writable
<1> QED BY <1>3, <1>4, <1>5, <1>7, <1>8

(* Places of the frames are paths. *)
LEMMA SpotsOf ==
  ASSUME NEW c \in Requests, Present(c), NEW s \in Seq(RmFrames), Trail(c, s), NEW i \in DOMAIN s
  PROVE  Spot(c, s[i].path) \in Path /\ s[i].todo \subseteq Name /\ GoodDir(c, s[i].path)
<1>1. GoodDir(c, s[i].path)
  BY DEF Trail
<1>2. s[i] \in RmFrames
  OBVIOUS
<1> QED BY <1>1, <1>2, SpotOfDir DEF RmFrames

(* The last entry of a directory that rm is at goes. *)
LEMMA InOrderUp ==
  ASSUME NEW c, NEW t, Sound(t), NEW u, NEW h \in Path, h # <<>>, Less(t, u, h),
         NEW d \in Path, NEW l \in SUBSET Name, InOrder(c, t, d, l, h), IsPrefix(d, Front(h))
  PROVE  InOrder(c, u, d, l, Front(h))
<1>1. Front(h) \in Path /\ IsPrefix(Front(h), h)
  BY FrontLast
<1>2. DOMAIN u = DOMAIN t \ {h} /\ \A q \in DOMAIN t : q \in Path
  BY DEF Less, Sound, TreeOK
<1>3. ASSUME NEW n \in l
      PROVE  Untouched(c, u, Append(d, n)) /\ ~IsPrefix(Append(d, n), Front(h))
  <2>1. Untouched(c, t, Append(d, n)) /\ ~IsPrefix(Append(d, n), h)
    BY DEF InOrder
  <2>2. Append(d, n) \in Path
    BY EntryOf
  <2>3. ~IsPrefix(Append(d, n), Front(h))
    BY <1>1, <2>1, <2>2, PrefixChain
  <2>4. Append(d, n) # h
    BY <2>1, <2>2, PrefixChain
  <2>5. Untouched(c, u, Append(d, n))
    BY <1>2, <2>1, <2>4 DEF Untouched
  <2> QED BY <2>3, <2>5
<1>4. ASSUME NEW q \in DOMAIN u \ {<<>>}, Front(q) = d
      PROVE  Last(q) \in l \/ IsPrefix(q, Front(h))
  <2>1. q \in DOMAIN t \ {<<>>} /\ q # h /\ q \in Path
    BY <1>2
  <2>2. Last(q) \in l \/ IsPrefix(q, h)
    BY <1>4, <2>1 DEF InOrder
  <2>3. IsPrefix(q, h) => IsPrefix(q, Front(h))
    BY <2>1, BelowFront
  <2> QED BY <2>2, <2>3
<1> QED BY <1>3, <1>4 DEF InOrder

LEMMA OrderUp ==
  ASSUME NEW c \in Requests, Present(c), NEW s \in Seq(RmFrames), Trail(c, s), s # <<>>,
         NEW t, Sound(t), Shaped(t), NEW h \in Path, h # <<>>, RmOrder(c, t, s, h),
         NEW u, Less(t, u, h), Front(h) = Spot(c, Last(s).path)
  PROVE  RmOrder(c, u, s, Front(h))
<1>1. Len(s) \in Nat \ {0} /\ Last(s) = s[Len(s)] /\ Len(s) \in DOMAIN s /\ DOMAIN s = 1 .. Len(s)
  <2>1. Len(s) \in Nat \ {0} /\ Last(s) = s[Len(s)]
    BY Stacks
  <2> QED BY <2>1
<1>2. h \in DOMAIN t /\ Front(h) \in DOMAIN t /\ Front(h) # h
  <2>1. h \in DOMAIN t /\ Front(h) \in DOMAIN t
    BY DEF RmOrder, Shaped
  <2>2. Len(h) = Len(Front(h)) + 1 /\ Front(h) \in Path
    BY FrontLast
  <2>3. Len(Front(h)) \in Nat
    BY <2>2 DEF Path
  <2> QED BY <2>1, <2>2, <2>3
<1>3. Front(h) \in DOMAIN u
  BY <1>2 DEF Less
<1>4. ASSUME NEW i \in DOMAIN s
      PROVE  InOrder(c, u, Spot(c, s[i].path), s[i].todo, Front(h))
  <2> DEFINE d == Spot(c, s[i].path)
             e == Spot(c, s[Len(s)].path)
  <2>1. d \in Path /\ s[i].todo \in SUBSET Name /\ e \in Path
    BY <1>1, SpotsOf
  <2>2. IsPrefix(d, e)
    <3>1. CASE i = Len(s)
      BY <2>1, <3>1, PrefixChain
    <3>2. CASE i < Len(s)
      <4>1. Nest(d, e, Len(s) = i + 1)
        BY <1>1, <3>2 DEF RmOrder
      <4>2. e # <<>> /\ IsPrefix(d, Front(e))
        BY <4>1 DEF Nest
      <4> HIDE DEF d, e
      <4> QED BY <2>1, <4>2, FrontLast, PrefixChain
    <3> QED BY <1>1, <3>1, <3>2
  <2>3. IsPrefix(d, Front(h))
    BY <1>1, <2>2
  <2>4. InOrder(c, t, d, s[i].todo, h)
    BY DEF RmOrder
  <2> HIDE DEF d, e
  <2>5. InOrder(c, u, d, s[i].todo, Front(h))
    BY <2>1, <2>3, <2>4, InOrderUp
  <2> QED BY <2>5 DEF d
<1>5. \A i, j \in DOMAIN s : i < j => Nest(Spot(c, s[i].path), Spot(c, s[j].path), j = i + 1)
  BY DEF RmOrder
<1> QED BY <1>3, <1>4, <1>5 DEF RmOrder

(* The innermost directory is closed. *)
LEMMA OrderOut ==
  ASSUME NEW c \in Requests, Present(c), NEW s \in Seq(RmFrames), Trail(c, s), s # <<>>,
         NEW t, NEW h, h = Spot(c, Last(s).path), RmOrder(c, t, s, h), Front(s) # <<>>
  PROVE  /\ RmOrder(c, t, Front(s), h) /\ Trail(c, Front(s)) /\ Front(s) \in Seq(RmFrames)
         /\ h # <<>> /\ Front(h) = Spot(c, Last(Front(s)).path)
<1> DEFINE q == Front(s)
<1>1. /\ q \in Seq(RmFrames) /\ Len(s) \in Nat \ {0} /\ Len(q) = Len(s) - 1
      /\ \A i \in 1 .. Len(s) - 1 : q[i] = s[i]
      /\ Last(s) = s[Len(s)]
  BY Stacks
<1>2. q # <<>>
  OBVIOUS
<1> HIDE DEF q
<1>3. Last(q) = q[Len(q)] /\ Len(q) \in Nat \ {0}
  BY <1>1, <1>2, Stacks
<1>4. \A i \in DOMAIN q : i \in DOMAIN s /\ q[i] = s[i]
  BY <1>1
<1>5. RmOrder(c, t, q, h)
  BY <1>4 DEF RmOrder
<1>6. Trail(c, q)
  <2>1. 1 \in DOMAIN q
    BY <1>3
  <2> QED BY <1>4, <2>1 DEF Trail
<1> DEFINE i == Len(s) - 1
<1>7. i \in DOMAIN s /\ Len(s) \in DOMAIN s /\ i < Len(s) /\ Len(s) = i + 1 /\ Last(q) = s[i]
  BY <1>1, <1>3
<1>8. Nest(Spot(c, s[i].path), Spot(c, s[Len(s)].path), TRUE)
  <2> HIDE DEF i
  <2> QED BY <1>7 DEF RmOrder
<1>9. h # <<>> /\ Front(h) = Spot(c, s[i].path)
  BY <1>1, <1>8 DEF Nest
<1> QED BY <1>1, <1>5, <1>6, <1>7, <1>9 DEF q

(* A directory is opened: all its entries are to come. *)
LEMMA OrderIn ==
  ASSUME NEW c \in Requests, Present(c), NEW s \in Seq(RmFrames), Trail(c, s),
         NEW t, Sound(t), NEW p, NEW h \in Path, h = Spot(c, p), RmOrder(c, t, s, h), Untouched(c, t, h),
         s # <<>> => h # <<>> /\ Front(h) = Spot(c, Last(s).path),
         DOMAIN t \subseteq DOMAIN c.tree,
         NEW f \in RmFrames, f.path = p, f.todo = Entries(t, h), NEW q, q = Append(s, f)
  PROVE  RmOrder(c, t, q, h)
<1>1. /\ Len(s) \in Nat /\ DOMAIN s = 1 .. Len(s) /\ DOMAIN q = 1 .. (Len(s) + 1)
      /\ q[Len(s) + 1] = f /\ \A i \in DOMAIN s : q[i] = s[i]
  OBVIOUS
<1>2. InOrder(c, t, h, f.todo, h)
  <2>1. ASSUME NEW n \in f.todo
        PROVE  Untouched(c, t, Append(h, n)) /\ ~IsPrefix(Append(h, n), h)
    <3>1. n \in Name /\ Append(h, n) \in DOMAIN t
      BY <2>1, EntriesAre
    <3>2. Append(h, n) \in Path /\ IsPrefix(h, Append(h, n)) /\ Len(Append(h, n)) = Len(h) + 1
      BY <3>1, EntryOf
    <3>3. ~IsPrefix(Append(h, n), h)
      <4> DEFINE e == Append(h, n)
      <4>1. Len(h) \in Nat /\ e \in Path /\ Len(e) = Len(h) + 1
        BY <3>2 DEF Path
      <4> HIDE DEF e
      <4>2. ~IsPrefix(e, h)
        BY <4>1, PrefixChain
      <4> QED BY <4>2 DEF e
    <3>4. \A x \in DOMAIN c.tree : x \in Path
      BY Trees DEF Sound, TreeOK
    <3>5. Untouched(c, t, Append(h, n))
      <4> DEFINE e == Append(h, n)
      <4>1. e \in Path /\ IsPrefix(h, e) /\ e \in DOMAIN t
        BY <3>1, <3>2
      <4> HIDE DEF e
      <4>2. \A x \in DOMAIN c.tree : IsPrefix(e, x) => x \in DOMAIN t
        BY <3>4, <4>1, PrefixChain DEF Untouched
      <4>3. Untouched(c, t, e)
        BY <4>1, <4>2 DEF Untouched
      <4> QED BY <4>3 DEF e
    <3> QED BY <3>3, <3>5
  <2>2. ASSUME NEW x \in DOMAIN t \ {<<>>}, Front(x) = h PROVE Last(x) \in f.todo
    BY <2>2 DEF Entries
  <2>3. IsPrefix(h, h)
    BY PrefixChain
  <2> QED BY <2>1, <2>2, <2>3 DEF InOrder
<1>3. ASSUME NEW i \in DOMAIN s
      PROVE  Nest(Spot(c, s[i].path), h, Len(s) + 1 = i + 1)
  <2> DEFINE d == Spot(c, s[i].path)
             e == Spot(c, s[Len(s)].path)
  <2>1. s # <<>> /\ Len(s) \in DOMAIN s /\ Last(s) = s[Len(s)]
    <3>1. s # <<>>
      BY <1>1
    <3>2. Last(s) = s[Len(s)] /\ Len(s) # 0
      BY <3>1, Stacks
    <3>3. Len(s) \in DOMAIN s
      BY <1>1, <3>2
    <3> QED BY <3>1, <3>2, <3>3
  <2>2. d \in Path /\ e \in Path /\ h # <<>> /\ Front(h) = e
    BY <2>1, SpotsOf
  <2>3. IsPrefix(d, e)
    <3>1. CASE i = Len(s)
      BY <2>2, <3>1, PrefixChain
    <3>2. CASE i < Len(s)
      <4>1. Nest(d, e, Len(s) = i + 1)
        BY <2>1, <3>2 DEF RmOrder
      <4>2. e # <<>> /\ IsPrefix(d, Front(e))
        BY <4>1 DEF Nest
      <4> HIDE DEF d, e
      <4> QED BY <2>2, <4>2, FrontLast, PrefixChain
    <3> QED BY <1>1, <3>1, <3>2
  <2>4. Len(s) + 1 = i + 1 => e = d
    BY <1>1
  <2> HIDE DEF d, e
  <2>5. Nest(d, h, Len(s) + 1 = i + 1)
    BY <2>2, <2>3, <2>4 DEF Nest
  <2> QED BY <2>5 DEF d
<1>4. ASSUME NEW i \in DOMAIN q PROVE InOrder(c, t, Spot(c, q[i].path), q[i].todo, h)
  <2>1. CASE i \in DOMAIN s
    <3>1. InOrder(c, t, Spot(c, s[i].path), s[i].todo, h)
      BY <2>1 DEF RmOrder
    <3> QED BY <1>1, <2>1, <3>1
  <2>2. CASE i = Len(s) + 1
    BY <1>1, <1>2, <2>2
  <2> QED BY <1>1, <2>1, <2>2
<1>5. ASSUME NEW i \in DOMAIN q, NEW j \in DOMAIN q, i < j
      PROVE  Nest(Spot(c, q[i].path), Spot(c, q[j].path), j = i + 1)
  <2>1. i \in DOMAIN s /\ q[i] = s[i]
    BY <1>1, <1>5
  <2>2. CASE j \in DOMAIN s
    <3>1. Nest(Spot(c, s[i].path), Spot(c, s[j].path), j = i + 1)
      BY <1>5, <2>1, <2>2 DEF RmOrder
    <3> QED BY <1>1, <2>1, <2>2, <3>1
  <2>3. CASE j = Len(s) + 1
    <3>1. Nest(Spot(c, s[i].path), h, j = i + 1)
      BY <1>3, <2>1, <2>3
    <3> QED BY <1>1, <2>1, <2>3, <3>1
  <2> QED BY <1>1, <2>2, <2>3
<1>6. h \in DOMAIN t
  BY DEF RmOrder
<1> QED BY <1>4, <1>5, <1>6 DEF RmOrder

(* rm goes to an entry that is to come. *)
LEMMA OrderOn ==
  ASSUME NEW c \in Requests, Present(c), NEW s \in Seq(RmFrames), Trail(c, s), s # <<>>,
         NEW t, Sound(t), NEW h \in Path, h = Spot(c, Last(s).path), RmOrder(c, t, s, h),
         NEW n \in Last(s).todo, NEW q, q = [s EXCEPT ![Len(s)].todo = @ \ {n}]
  PROVE  RmOrder(c, t, q, Append(h, n)) /\ Untouched(c, t, Append(h, n)) /\ n \in Name
<1>1. /\ Len(s) \in Nat \ {0} /\ Last(s) = s[Len(s)] /\ DOMAIN s = 1 .. Len(s)
      /\ Len(s) \in DOMAIN s
  <2>1. Len(s) \in Nat \ {0} /\ Last(s) = s[Len(s)]
    BY Stacks
  <2> QED BY <2>1
<1>2. q \in Seq(RmFrames) /\ q # <<>> /\ SamePaths(s, q)
      /\ DOMAIN q = DOMAIN s
      /\ q[Len(s)].todo = s[Len(s)].todo \ {n} /\ \A i \in DOMAIN s : i # Len(s) => q[i] = s[i]
  <2>1. q \in Seq(RmFrames) /\ q # <<>> /\ SamePaths(s, q) /\ Last(q).todo = Last(s).todo \ {n}
    BY Trimmed
  <2>2. \A i \in DOMAIN s : i # Len(s) => q[i] = s[i]
    OBVIOUS
  <2>3. Last(q) = q[Len(q)] /\ DOMAIN q = DOMAIN s
    BY <2>1, Stacks DEF SamePaths
  <2>4. Len(q) = Len(s)
    BY <1>1, <2>1, <2>3
  <2> QED BY <1>1, <2>1, <2>2, <2>3, <2>4
<1>3. \A i \in DOMAIN s : q[i].path = s[i].path
  BY <1>2 DEF SamePaths
<1>4. n \in Name /\ InOrder(c, t, h, s[Len(s)].todo, h)
  <2>1. s[Len(s)].todo \subseteq Name
    BY <1>1, SpotsOf
  <2> QED BY <1>1, <2>1 DEF RmOrder
<1> DEFINE e == Append(h, n)
<1>5. /\ e \in Path /\ e # <<>> /\ Front(e) = h /\ Last(e) = n /\ IsPrefix(h, e)
      /\ Len(e) = Len(h) + 1 /\ Len(h) \in Nat
  BY <1>4, EntryOf DEF Path
<1>6. Untouched(c, t, e) /\ e \in DOMAIN t
  BY <1>1, <1>4 DEF InOrder, Untouched
<1> HIDE DEF e
<1>7. ASSUME NEW i \in DOMAIN s, i # Len(s)
      PROVE  InOrder(c, t, Spot(c, s[i].path), s[i].todo, e)
  <2> DEFINE d == Spot(c, s[i].path)
  <2>1. d \in Path /\ s[i].todo \subseteq Name /\ InOrder(c, t, d, s[i].todo, h)
    BY SpotsOf DEF RmOrder
  <2>2. h # <<>> /\ IsPrefix(d, Front(h))
    <3>1. i < Len(s)
      BY <1>1, <1>7
    <3>2. Nest(d, h, Len(s) = i + 1)
      BY <1>1, <3>1 DEF RmOrder
    <3> QED BY <3>2 DEF Nest
  <2>3. Front(h) \in Path /\ IsPrefix(Front(h), h) /\ Len(h) = Len(Front(h)) + 1
    BY <2>2, FrontLast
  <2>4. Len(Front(h)) \in Nat
    BY <2>3 DEF Path
  <2> HIDE DEF d
  <2>5. Len(d) \in Nat /\ Len(d) <= Len(Front(h))
    BY <2>1, <2>2, <2>3, PrefixChain DEF Path
  <2>6. IsPrefix(d, e)
    <3>1. IsPrefix(d, h)
      BY <2>1, <2>2, <2>3, PrefixChain
    <3> QED BY <1>5, <2>1, <3>1, PrefixChain
  <2>7. ASSUME NEW m \in s[i].todo PROVE ~IsPrefix(Append(d, m), e)
    <3> DEFINE x == Append(d, m)
    <3>1. m \in Name /\ ~IsPrefix(x, h)
      BY <2>1 DEF InOrder
    <3>2. x \in Path /\ Len(x) = Len(d) + 1
      BY <2>1, <3>1, EntryOf
    <3> HIDE DEF x
    <3>3. Len(x) <= Len(h)
      BY <2>3, <2>4, <2>5, <3>2
    <3>4. ~IsPrefix(x, e)
      BY <1>5, <3>1, <3>2, <3>3, PrefixChain
    <3> QED BY <3>4 DEF x
  <2>8. ASSUME NEW x \in DOMAIN t \ {<<>>}, Front(x) = d PROVE Last(x) \in s[i].todo \/ IsPrefix(x, e)
    <3>1. x \in Path
      BY DEF Sound, TreeOK
    <3>2. Last(x) \in s[i].todo \/ IsPrefix(x, h)
      BY <2>1, <2>8 DEF InOrder
    <3> QED BY <1>5, <3>1, <3>2, PrefixChain
  <2>9. InOrder(c, t, d, s[i].todo, e)
    BY <2>1, <2>6, <2>7, <2>8 DEF InOrder
  <2> QED BY <2>9 DEF d
<1>8. InOrder(c, t, h, s[Len(s)].todo \ {n}, e)
  <2>1. ASSUME NEW m \in s[Len(s)].todo \ {n} PROVE ~IsPrefix(Append(h, m), e)
    <3> DEFINE x == Append(h, m)
    <3>1. m \in Name
      BY <1>1, SpotsOf
    <3>2. x \in Path /\ Len(x) = Len(h) + 1 /\ Last(x) = m
      BY <3>1, EntryOf
    <3>3. x # e
      BY <1>5, <3>2
    <3> HIDE DEF x
    <3>4. ~IsPrefix(x, e)
      BY <1>5, <3>2, <3>3, PrefixChain
    <3> QED BY <3>4 DEF x
  <2>2. ASSUME NEW x \in DOMAIN t \ {<<>>}, Front(x) = h
        PROVE  Last(x) \in s[Len(s)].todo \ {n} \/ IsPrefix(x, e)
    <3>1. x \in Path
      BY DEF Sound, TreeOK
    <3>2. Last(x) \in s[Len(s)].todo \/ IsPrefix(x, h)
      BY <1>4, <2>2 DEF InOrder
    <3>3. IsPrefix(x, h) => IsPrefix(x, e)
      BY <1>5, <3>1, PrefixChain
    <3>4. Last(x) = n => x = e
      BY <2>2, <3>1, FrontLast DEF e
    <3>5. IsPrefix(e, e)
      BY <1>5, PrefixChain
    <3> QED BY <3>2, <3>3, <3>4, <3>5
  <2> QED BY <1>4, <1>5, <2>1, <2>2 DEF InOrder
<1>9. ASSUME NEW i \in DOMAIN q PROVE InOrder(c, t, Spot(c, q[i].path), q[i].todo, e)
  <2>1. CASE i = Len(s)
    BY <1>1, <1>2, <1>3, <1>8, <2>1
  <2>2. CASE i # Len(s)
    BY <1>2, <1>7, <2>2
  <2> QED BY <2>1, <2>2
<1>10. \A i, j \in DOMAIN q : i < j => Nest(Spot(c, q[i].path), Spot(c, q[j].path), j = i + 1)
  BY <1>2, <1>3 DEF RmOrder
<1>11. RmOrder(c, t, q, e)
  BY <1>6, <1>9, <1>10 DEF RmOrder
<1> QED BY <1>4, <1>6, <1>11 DEF e

Calm ==
  /\ Shape /\ RmInv /\ req.call = "rm" /\ pc = "request"
  /\ Free /\ faults = 0 /\ theirs = {} /\ RmSure(req, fs, frames, path, at)
Sure(t, s, p, a, k, v) == RmSure(req, t, s, p, a) /\ (k = "done" => v = 0)

LEMMA CalmMeans ==
  ASSUME Calm
  PROVE  /\ req \in Requests /\ frames \in Seq(RmFrames) /\ Trail(req, frames) /\ Sound(fs) /\ Shaped(fs)
         /\ path \in Path /\ RmKept(req, fs, {}) /\ Free /\ theirs = {} /\ Shape /\ RmInv
         /\ at \in {"look", "unlink", "list"} => OnTrail(req, frames, path)
         /\ at \in {"next", "rmdir"} => frames # <<>>
         /\ at = "rmdir" => path = Last(frames).path /\ Last(frames).todo = {}
         /\ frames # <<>> => Present(req) /\ GoodDir(req, Last(frames).path)
         /\ frames = <<>> /\ at \in {"look", "unlink", "list"} => fs = req.tree
         /\ at \in {"unlink", "list", "next", "rmdir"} => Present(req)
         /\ Option("f") /\ Option("r")
         /\ pc = "request" /\ req.call = "rm"
<1>1. frames # <<>> => Present(req) /\ GoodDir(req, Last(frames).path)
  BY TopOfTrail DEF Calm, Shape, RmInv, RmIs, RmWhere, Present
<1> QED BY <1>1 DEF Calm, Shape, RmInv, RmIs, RmWhere, RmSure, Free, Option

(* Where rm is, and what it does there will not fail. *)
LEMMA CalmAt ==
  ASSUME Calm, Present(req), at # "idle"
  PROVE  \E h \in Path :
           /\ h = Spot(req, AtName(frames, path, at)) /\ h \in DOMAIN fs /\ RmOrder(req, fs, frames, h)
           /\ at \in {"look", "unlink", "list", "rmdir"} =>
                /\ h = Spot(req, path) /\ Lstat(fs, path) = Found(h)
                /\ h # <<>> /\ ~Protected(fs, h) /\ fs[h] = req.tree[h] /\ Under(h)
           /\ at \in {"look", "unlink", "list"} => Untouched(req, fs, h)
           /\ at \in {"look", "unlink", "list"} /\ frames # <<>> =>
                Front(h) = Spot(req, Last(frames).path)
           /\ at \in {"next", "rmdir"} => h = Spot(req, Last(frames).path)
<1> DEFINE h == Spot(req, AtName(frames, path, at))
<1>1. RmOrder(req, fs, frames, h) /\ h \in DOMAIN fs
  BY DEF Calm, RmSure, RmOrder
<1>2. h \in Path
  BY <1>1, CalmMeans DEF Sound, TreeOK
<1>3. at # "next" => h = Spot(req, path)
  BY DEF AtName
<1>4. at \in {"next", "rmdir"} => h = Spot(req, Last(frames).path)
  BY CalmMeans DEF AtName
<1>5. at \in {"look", "unlink", "list"} => Untouched(req, fs, h)
  BY <1>3 DEF Calm, RmSure
<1> HIDE DEF h
<1>6. ASSUME at \in {"look", "unlink", "list", "rmdir"}
      PROVE  /\ h = Spot(req, path) /\ Lstat(fs, path) = Found(h)
             /\ h # <<>> /\ ~Protected(fs, h) /\ fs[h] = req.tree[h] /\ Under(h)
  <2>1. h = Spot(req, path)
    BY <1>3, <1>6
  <2> QED BY <1>1, <1>6, <2>1, CalmMeans, RmReaches
<1>7. ASSUME at \in {"look", "unlink", "list"}, frames # <<>>
      PROVE  Front(h) = Spot(req, Last(frames).path)
  <2>1. OnTrail(req, frames, path) /\ GoodDir(req, Last(frames).path)
    BY <1>7, CalmMeans
  <2>2. PICK n \in Name : Spot(req, path) = Append(Spot(req, Last(frames).path), n)
    BY <1>7, <2>1, CalmMeans, SpotOnTrail
  <2> DEFINE d == Spot(req, Last(frames).path)
  <2>3. d \in Path
    BY <2>1, CalmMeans, SpotOfDir
  <2> HIDE DEF d
  <2>4. Front(Append(d, n)) = d
    BY <2>3, EntryOf
  <2> QED BY <1>3, <1>7, <2>2, <2>4 DEF d
<1> QED BY <1>1, <1>2, <1>4, <1>5, <1>6, <1>7 DEF h

LEMMA SureBegin ==
  ASSUME Calm, Begin
  PROVE  Sure(fs', frames', path', at', pc', ret')
<1>1. /\ at = "idle" /\ pc' = pc /\ ret' = ret /\ at' = "look" /\ path' = req.from
      /\ fs' = fs /\ frames' = frames
  BY CalmMeans DEF Begin, Go
<1>2. frames = <<>> /\ fs = req.tree
  BY <1>1, CalmMeans DEF Calm, RmInv, RmIs
<1>3. ASSUME Present(req)
      PROVE  Spot(req, req.from) \in DOMAIN fs
  <2>1. Spot(req, req.from) = Operand(req)
    <3>1. Trail(req, <<>>) /\ OnTrail(req, <<>>, req.from) /\ <<>> \in Seq(RmFrames)
      BY DEF Trail, OnTrail
    <3> QED BY <1>3, <3>1, CalmMeans, SpotOnTrail
  <2>2. Operand(req) \in DOMAIN req.tree
    BY <1>3, Trees, CalmMeans, LstatFound DEF Present, Operand
  <2> QED BY <1>2, <2>1, <2>2
<1>4. Present(req) => RmOrder(req, fs, <<>>, Spot(req, req.from)) /\ Untouched(req, fs, Spot(req, req.from))
  BY <1>2, <1>3 DEF RmOrder, Untouched
<1>5. AtName(<<>>, req.from, "look") = req.from
  BY DEF AtName
<1>6. RmSure(req, fs', frames', path', at')
  BY <1>1, <1>2, <1>4, <1>5 DEF RmSure
<1> QED BY <1>1, <1>6, CalmMeans DEF Sure

LEMMA SureLookMissing ==
  ASSUME Calm, LookMissing, faults' = 0
  PROVE  Sure(fs', frames', path', at', pc', ret')
<1>1. at = "look" /\ PathType(fs, path) = "missing" /\ Back(frames, 0)
  BY CalmMeans DEF LookMissing, Fault, Calm
<1>2. Lstat(fs, path).error # "none"
  BY <1>1, TypeOf
<1>3. ~Present(req)
  BY <1>1, <1>2, CalmAt, Errors
<1>4. frames = <<>>
  BY <1>3, CalmMeans
<1>5. pc' = "done" /\ ret' = 0 /\ at' = "idle"
  BY <1>1, <1>4 DEF Back, Finish
<1> QED BY <1>5 DEF Sure, RmSure

LEMMA SureLook ==
  ASSUME Calm, Look
  PROVE  Sure(fs', frames', path', at', pc', ret')
<1>1. /\ at = "look" /\ PathType(fs, path) # "missing" /\ UNCHANGED <<fs, path, frames>>
      /\ Go("unlink") \/ Go("list")
  BY CalmMeans DEF Look
<1>2. at' \in {"unlink", "list"} /\ pc' = "request"
  BY <1>1, CalmMeans DEF Go
<1>3. Present(req)
  <2>1. CASE frames # <<>>
    BY <2>1, CalmMeans
  <2>2. CASE frames = <<>>
    <3>1. path = req.from /\ fs = req.tree
      BY <1>1, <2>2, CalmMeans DEF OnTrail
    <3> QED BY <1>1, <3>1, TypeOf DEF Present
  <2> QED BY <2>1, <2>2
<1>4. AtName(frames', path', at') = AtName(frames, path, at)
  BY <1>1, <1>2 DEF AtName
<1>5. RmSure(req, fs', frames', path', at')
  BY <1>1, <1>2, <1>3, <1>4 DEF RmSure, Calm
<1> QED BY <1>2, <1>5 DEF Sure

(* Back in the directory whose entry is gone, or done. *)
LEMMA SureBack ==
  ASSUME Calm, Present(req), NEW s \in Seq(RmFrames), Trail(req, s), NEW h \in Path, h # <<>>,
         RmOrder(req, fs, s, h), s # <<>> => Front(h) = Spot(req, Last(s).path),
         Less(fs, fs', h), Back(s, 0)
  PROVE  Sure(fs', frames', path', at', pc', ret')
<1>1. CASE s = <<>>
  <2>1. pc' = "done" /\ ret' = 0 /\ at' = "idle"
    BY <1>1 DEF Back, Finish
  <2> QED BY <2>1 DEF Sure, RmSure
<1>2. CASE s # <<>>
  <2>1. frames' = s /\ at' = "next" /\ pc' = "request"
    BY <1>2, CalmMeans DEF Back, Go
  <2>2. RmOrder(req, fs', s, Front(h))
    BY <1>2, CalmMeans, OrderUp
  <2>3. AtName(frames', path', at') = Last(s).path
    BY <2>1 DEF AtName
  <2>4. RmSure(req, fs', frames', path', at')
    BY <1>2, <2>1, <2>2, <2>3 DEF RmSure
  <2> QED BY <2>1, <2>4 DEF Sure
<1> QED BY <1>1, <1>2

LEMMA SureUnlink ==
  ASSUME Calm, Unlink
  PROVE  Sure(fs', frames', path', at', pc', ret')
<1>1. at = "unlink" /\ Back(frames, 0)
  BY DEF Unlink
<1>2. PICK p \in Deleted(fs) : fs' = Without(fs, p)
  BY DEF Unlink
<1>3. PICK h \in Path :
        /\ RmOrder(req, fs, frames, h) /\ Lstat(fs, path) = Found(h) /\ h # <<>>
        /\ frames # <<>> => Front(h) = Spot(req, Last(frames).path)
  BY <1>1, CalmMeans, CalmAt
<1>4. p = h
  BY <1>3, Errors DEF Deleted
<1>5. Less(fs, fs', h)
  BY <1>2, <1>4 DEF Without, Less
<1> QED BY <1>1, <1>3, <1>5, CalmMeans, SureBack

LEMMA NoUnlinkFails ==
  ASSUME Calm, UnlinkFails, faults' = 0
  PROVE  FALSE
<1>1. at = "unlink" /\ Deleted(fs) = {}
  BY DEF UnlinkFails, Fault, Calm
<1>2. PICK h \in Path : /\ Lstat(fs, path) = Found(h) /\ ~Protected(fs, h) /\ h \in DOMAIN fs
  BY <1>1, CalmMeans, CalmAt
<1>3. Lstat(fs, path).error = "none" /\ Lstat(fs, path).at = h
  BY <1>2, Errors
<1>4. fs[h].kind # "dir"
  BY <1>1, <1>2, <1>3, CalmMeans DEF Shape, Is
<1>5. h \in Deleted(fs)
  BY <1>2, <1>3, <1>4 DEF Deleted, Leaf
<1> QED BY <1>1, <1>5

LEMMA EntriesGrow ==
  ASSUME NEW t, Sound(t), NEW u, Sound(u), Within(t, u), NEW d \in DOMAIN t, NEW n \in Name,
         EntryAt(t, Append(d, n)).error = "none"
  PROVE  EntryAt(u, Append(d, n)) = EntryAt(t, Append(d, n))
<1> DEFINE w == [at |-> d, rest |-> <<n>>, links |-> MaxLinks]
           f == TRUE
<1>1. d \in Path /\ Front(Append(d, n)) = d /\ Last(Append(d, n)) = n
  <2>1. d \in Path
    BY DEF Sound, TreeOK
  <2> QED BY <2>1, EntryOf
<1>2. CASE Linux
  <2>1. EntryAt(t, Append(d, n)) = Reached(t, f)[w] /\ EntryAt(u, Append(d, n)) = Reached(u, f)[w]
    BY <1>1, <1>2 DEF EntryAt, StatAt
  <2>2. w \in Position /\ w.at = d
    BY <1>1, Limits DEF Position, Path
  <2> HIDE DEF w, f
  <2>3. TreeOK(t) /\ <<>> \in DOMAIN t /\ TreeOK(u)
    BY DEF Sound
  <2>4. Reached(t, f)[w].error = "none"
    BY <2>1
  <2>5. Reached(u, f)[w] = Reached(t, f)[w]
    BY <2>2, <2>3, <2>4, Grows
  <2> QED BY <2>1, <2>5
<1>3. CASE ~Linux
  BY <1>3 DEF EntryAt
<1> QED BY <1>2, <1>3

(* rm can list the directory it is at, and misses none of its entries. *)
LEMMA ListGoesWell ==
  ASSUME Calm, at = "list", NEW h \in Path, h \in DOMAIN fs, Lstat(fs, path) = Found(h),
         fs[h] = req.tree[h], Under(h), Untouched(req, fs, h)
  PROVE  Opened(fs) /\ Listable(fs) /\ Listed(fs) = Entries(fs, h)
<1>1. Lstat(fs, path).error = "none" /\ Lstat(fs, path).at = h
  BY Errors
<1>2. fs[h].kind = "dir"
  <2>1. Lstat(req.tree, path).error = "none" /\ req.tree[Lstat(req.tree, path).at].kind = "dir"
    BY DEF Calm, RmInv, RmIs, RmWhere
  <2>2. Sound(req.tree) /\ Follows(fs, req.tree)
    BY CalmMeans, Trees DEF RmKept
  <2>3. Lstat(req.tree, path) = Lstat(fs, path)
    BY <1>1, <2>1, <2>2, CalmMeans, LstatSame
  <2> QED BY <1>1, <2>1, <2>3
<1>3. Stat(fs, path) = Found(h)
  BY <1>1, <1>2, CalmMeans, LstatThenStat
<1>4. Opened(fs) /\ Names(fs) = Entries(fs, h)
  BY <1>2, <1>3, Errors DEF Opened, Names, Is
<1>5. ASSUME NEW n \in Entries(fs, h)
      PROVE  Entry(fs, n).error = "none" /\ Entry(fs, n).at \notin req.future
  <2> DEFINE q == Append(h, n)
  <2>1. n \in Name /\ q \in DOMAIN fs
    BY <1>5, CalmMeans, EntriesAre
  <2>2. q \in Path /\ Front(q) = h /\ IsPrefix(h, q) /\ Len(q) = Len(h) + 1
    BY <2>1, EntryOf
  <2>3. q \in DOMAIN req.tree
    BY <2>1, CalmMeans, LeftIsThere
  <2>4. Under(q) /\ q # Named
    <3>1. Lstat(req.tree, req.from).error = "none" /\ IsPrefix(Named, h)
      BY DEF Under
    <3>2. Named \in Path
      BY <3>1, CalmMeans, Trees, LstatFound DEF Named
    <3> DEFINE m == Named
    <3> HIDE DEF q
    <3>3. m \in Path /\ IsPrefix(m, h)
      BY <3>1, <3>2
    <3> HIDE DEF m
    <3>4. IsPrefix(m, q) /\ Len(m) <= Len(h)
      BY <2>2, <3>3, PrefixChain
    <3>5. Len(m) \in Nat /\ Len(h) \in Nat
      BY <3>3 DEF Path
    <3>6. m # q
      BY <2>2, <3>4, <3>5
    <3> QED BY <3>1, <3>4, <3>6 DEF Under, m
  <2>5. EntryAt(LeftBelow(h), q).error = "none" /\ EntryAt(LeftBelow(h), q).at \notin req.future
    <3> HIDE DEF q
    <3> QED BY <2>2, <2>3, <2>4, CalmMeans DEF Free, Obstacle
  <2>6. EntryAt(fs, q) = EntryAt(LeftBelow(h), q)
    <3>1. Sound(LeftBelow(h)) /\ Within(LeftBelow(h), fs)
      BY CalmMeans, LeftIsThere
    <3>2. h \in DOMAIN LeftBelow(h)
      <4>1. h \in DOMAIN req.tree /\ IsPrefix(h, h)
        BY CalmMeans, LeftIsThere, PrefixChain
      <4> QED BY <4>1 DEF LeftBelow, Rest
    <3> QED BY <2>1, <2>5, <3>1, <3>2, CalmMeans, EntriesGrow
  <2>7. Entry(fs, n) = EntryAt(fs, q)
    BY <1>3, Errors DEF Entry
  <2> QED BY <2>5, <2>6, <2>7
<1>6. Listable(fs) /\ Listed(fs) = Entries(fs, h)
  BY <1>4, <1>5 DEF Listable, Listed
<1> QED BY <1>4, <1>6

LEMMA SureList ==
  ASSUME Calm, List
  PROVE  Sure(fs', frames', path', at', pc', ret')
<1> DEFINE f == [path |-> path, todo |-> Listed(fs)]
<1>1. at = "list" /\ frames' = Append(frames, f) /\ fs' = fs /\ path' = path /\ Go("next")
  BY DEF List
<1>2. at' = "next" /\ pc' = "request" /\ Present(req)
  BY <1>1, CalmMeans DEF Go
<1>3. PICK h \in Path :
        /\ h = Spot(req, path) /\ h \in DOMAIN fs /\ RmOrder(req, fs, frames, h)
        /\ Lstat(fs, path) = Found(h) /\ h # <<>> /\ fs[h] = req.tree[h] /\ Under(h)
        /\ Untouched(req, fs, h)
        /\ frames # <<>> => Front(h) = Spot(req, Last(frames).path)
  BY <1>1, <1>2, CalmAt
<1>4. Listed(fs) = Entries(fs, h)
  BY <1>1, <1>3, ListGoesWell
<1>5. f \in RmFrames /\ f.path = path /\ f.todo = Entries(fs, h)
  <2>1. Entries(fs, h) \subseteq Name
    BY CalmMeans, NamesOfEntries DEF Sound, TreeOK
  <2> QED BY <1>4, <2>1, CalmMeans DEF RmFrames
<1> HIDE DEF f
<1>6. DOMAIN fs \subseteq DOMAIN req.tree
  BY CalmMeans DEF RmKept
<1>7. RmOrder(req, fs, frames', h)
  BY <1>1, <1>2, <1>3, <1>5, <1>6, CalmMeans, OrderIn
<1>8. AtName(frames', path', at') = path
  <2>1. frames' \in Seq(RmFrames) /\ frames' # <<>> /\ Len(frames') = Len(frames) + 1
        /\ frames'[Len(frames) + 1] = f
    BY <1>1, <1>5, CalmMeans
  <2>2. Last(frames') = f
    BY <2>1, Stacks
  <2> QED BY <1>2, <1>5, <2>2 DEF AtName
<1>9. RmSure(req, fs', frames', path', at')
  BY <1>1, <1>2, <1>3, <1>7, <1>8 DEF RmSure
<1> QED BY <1>2, <1>9 DEF Sure

LEMMA NoListFails ==
  ASSUME Calm, ListFails, faults' = 0
  PROVE  FALSE
<1>1. at = "list" /\ ~(Opened(fs) /\ Listable(fs))
  BY DEF ListFails, Fault, Calm
<1>2. PICK h \in Path :
        /\ h \in DOMAIN fs
        /\ Lstat(fs, path) = Found(h) /\ fs[h] = req.tree[h] /\ Under(h)
        /\ Untouched(req, fs, h)
  BY <1>1, CalmMeans, CalmAt
<1> QED BY <1>1, <1>2, ListGoesWell

LEMMA SureNext ==
  ASSUME Calm, NEW n \in Name, NextEntry(n)
  PROVE  Sure(fs', frames', path', at', pc', ret')
<1>1. /\ at = "next" /\ n \in Last(frames).todo /\ path' = Append(Last(frames).path, n)
      /\ frames' = [frames EXCEPT ![Len(frames)].todo = @ \ {n}]
      /\ Go("look") /\ fs' = fs
  BY DEF NextEntry
<1>2. at' = "look" /\ pc' = "request" /\ Present(req) /\ frames # <<>>
  BY <1>1, CalmMeans DEF Go
<1>3. PICK h \in Path : h = Spot(req, Last(frames).path) /\ RmOrder(req, fs, frames, h)
  BY <1>1, <1>2, CalmAt
<1>4. RmOrder(req, fs, frames', Append(h, n)) /\ Untouched(req, fs, Append(h, n))
  <2> DEFINE q == frames'
  <2>1. q = [frames EXCEPT ![Len(frames)].todo = @ \ {n}]
    BY <1>1
  <2> HIDE DEF q
  <2>2. RmOrder(req, fs, q, Append(h, n)) /\ Untouched(req, fs, Append(h, n))
    BY <1>1, <1>2, <1>3, <2>1, CalmMeans, OrderOn
  <2> QED BY <2>2 DEF q
<1>5. Spot(req, path') = Append(h, n) /\ AtName(frames', path', at') = path'
  <2>1. GoodDir(req, Last(frames).path)
    BY <1>2, CalmMeans
  <2> QED BY <1>1, <1>2, <1>3, <2>1, CalmMeans, SpotOfEntry DEF AtName
<1>6. RmSure(req, fs', frames', path', at')
  BY <1>1, <1>2, <1>4, <1>5 DEF RmSure
<1> QED BY <1>2, <1>6 DEF Sure

LEMMA SureEnd ==
  ASSUME Calm, EndOfEntries
  PROVE  Sure(fs', frames', path', at', pc', ret')
<1>1. /\ at = "next" /\ Last(frames).todo = {} /\ path' = Last(frames).path
      /\ Go("rmdir") /\ fs' = fs /\ frames' = frames
  BY DEF EndOfEntries
<1>2. at' = "rmdir" /\ pc' = "request" /\ Present(req)
  BY <1>1, CalmMeans DEF Go
<1>3. AtName(frames', path', at') = AtName(frames, path, at)
  BY <1>1, <1>2 DEF AtName
<1>4. RmSure(req, fs', frames', path', at')
  BY <1>1, <1>2, <1>3 DEF RmSure, Calm
<1> QED BY <1>2, <1>4 DEF Sure

LEMMA SureRmdir ==
  ASSUME Calm, Rmdir
  PROVE  Sure(fs', frames', path', at', pc', ret')
<1> DEFINE s == Front(frames)
<1>1. at = "rmdir" /\ Back(s, 0) /\ Present(req) /\ frames # <<>> /\ path = Last(frames).path
  BY CalmMeans DEF Rmdir
<1>2. PICK p \in DeletedDir(fs) : fs' = Without(fs, p)
  BY DEF Rmdir
<1>3. PICK h \in Path :
        /\ h = Spot(req, Last(frames).path) /\ h \in DOMAIN fs
        /\ RmOrder(req, fs, frames, h) /\ Lstat(fs, path) = Found(h) /\ h # <<>>
  BY <1>1, CalmAt
<1>4. p = h
  BY <1>3, Errors DEF DeletedDir
<1>5. Less(fs, fs', h)
  BY <1>2, <1>4 DEF Without, Less
<1>6. s \in Seq(RmFrames)
  BY <1>1, CalmMeans, Stacks
<1>7. CASE s # <<>>
  <2>1. RmOrder(req, fs, s, h) /\ Trail(req, s) /\ Front(h) = Spot(req, Last(s).path)
    BY <1>1, <1>3, <1>7, CalmMeans, OrderOut
  <2> HIDE DEF s
  <2> QED BY <1>1, <1>3, <1>5, <1>6, <2>1, SureBack
<1>8. CASE s = <<>>
  <2>1. RmOrder(req, fs, s, h) /\ Trail(req, s)
    BY <1>3, <1>8 DEF RmOrder, Trail
  <2> HIDE DEF s
  <2> QED BY <1>1, <1>3, <1>5, <1>6, <1>8, <2>1, SureBack
<1> QED BY <1>7, <1>8

LEMMA NoRmdirFails ==
  ASSUME Calm, RmdirFails, faults' = 0
  PROVE  FALSE
<1>1. at = "rmdir" /\ DeletedDir(fs) = {}
  BY DEF RmdirFails, Fault, Calm
<1>2. Present(req) /\ frames # <<>> /\ path = Last(frames).path /\ Last(frames).todo = {}
  BY <1>1, CalmMeans
<1>3. PICK h \in Path :
        /\ h = Spot(req, Last(frames).path) /\ h \in DOMAIN fs /\ RmOrder(req, fs, frames, h)
        /\ Lstat(fs, path) = Found(h) /\ h # <<>> /\ ~Protected(fs, h) /\ fs[h] = req.tree[h]
  BY <1>1, <1>2, CalmAt
<1>4. Lstat(fs, path).error = "none" /\ Lstat(fs, path).at = h
  BY <1>3, Errors
<1>5. fs[h].kind = "dir"
  BY <1>2, <1>3, CalmMeans, SpotOfDir
<1>6. Entries(fs, h) = {}
  <2>1. Last(frames) = frames[Len(frames)] /\ Len(frames) \in DOMAIN frames
    <3>1. Last(frames) = frames[Len(frames)] /\ Len(frames) \in Nat \ {0}
      BY <1>2, CalmMeans, Stacks
    <3> QED BY <3>1, CalmMeans
  <2>2. InOrder(req, fs, h, {}, h)
    BY <1>2, <1>3, <2>1 DEF RmOrder
  <2>3. ASSUME NEW q \in DOMAIN fs, q # <<>>, Front(q) = h PROVE FALSE
    <3>1. q \in Path /\ IsPrefix(q, h)
      BY <2>2, <2>3, CalmMeans DEF InOrder, Sound, TreeOK
    <3>2. Len(q) = Len(h) + 1
      BY <2>3, <3>1, FrontLast
    <3>3. Len(q) <= Len(h)
      BY <3>1, PrefixChain
    <3>4. Len(h) \in Nat
      BY DEF Path
    <3> QED BY <3>2, <3>3, <3>4
  <2> QED BY <2>3 DEF Entries
<1>7. Is(fs, Lstat(fs, path), "dir")
  BY <1>3, <1>4, <1>5 DEF Is
<1>8. h \in DeletedDir(fs)
  BY <1>3, <1>4, <1>6, <1>7 DEF DeletedDir, HasDirectoryAttribute
<1> QED BY <1>1, <1>8

LEMMA CauseStep ==
  ASSUME Shape, RmInv, CauseInv, req.call = "rm", [CommandsNext]_allVars
  PROVE  CauseInv'
<1>1. req' = req
  BY RmStep
<1>2. CASE UNCHANGED allVars
  <2>1. Free' <=> Free
    BY <1>1, FreeStays
  <2> QED BY <1>2, <2>1 DEF allVars, vars, own, CauseInv
<1>3. at # "idle" => pc = "request"
  BY DEF Shape
<1>4. ~(InvalidDate \/ Test \/ Copy)
  BY NoCopies DEF InvalidDate, Test, Copy, Dated
<1>5. ~(Mkdir \/ MkdirCollides \/ MkdirFails \/ MkdirExists \/ Stamp \/ StampMissing \/ StampFails
         \/ Create \/ CreateFails \/ Attributes \/ OpenAlways \/ OpenExisting \/ OpenExistingFails)
  BY DEF RmInv, RmIs, Mkdir, MkdirCollides, MkdirFails, MkdirExists, Stamp, StampMissing, StampFails,
         Create, CreateFails, Attributes, OpenAlways, OpenExisting, OpenExistingFails
<1>6. CASE ~UNCHANGED allVars
  <2>1. \/ Begin \/ LookMissing \/ Look \/ Unlink \/ UnlinkFails
        \/ List \/ ListFails \/ EndOfEntries \/ Rmdir \/ RmdirFails
        \/ \E n \in Name : NextEntry(n)
        \/ OthersCreate \/ OthersRemove
    BY <1>4, <1>5, <1>6 DEF CommandsNext, Command
  <2>2. faults' \in Nat /\ (faults' = 0 => faults = 0)
    BY <2>1 DEF CauseInv, Begin, LookMissing, Look, Unlink, UnlinkFails, List, ListFails, EndOfEntries,
           Rmdir, RmdirFails, NextEntry, OthersCreate, OthersRemove, Fault
  <2>3. SUFFICES ASSUME Free', faults' = 0, theirs' = {}
                 PROVE  Sure(fs', frames', path', at', pc', ret')
    BY <1>1, <2>2 DEF CauseInv, Sure
  <2>4. Free
    BY <1>1, <2>3, FreeStays
  <2>5. ~(OthersCreate \/ OthersRemove)
    BY <2>3 DEF OthersCreate, OthersRemove
  <2>6. theirs = {} /\ pc = "request"
    BY <1>3, <2>1, <2>3, <2>5 DEF Begin, LookMissing, Look, Unlink, UnlinkFails, List, ListFails, EndOfEntries,
           Rmdir, RmdirFails, NextEntry
  <2>7. Calm
    BY <2>2, <2>3, <2>4, <2>6 DEF Calm, CauseInv
  <2> QED BY <2>1, <2>3, <2>5, <2>7, SureBegin, SureLookMissing, SureLook, SureUnlink, NoUnlinkFails,
             SureList, NoListFails, SureNext, SureEnd, SureRmdir, NoRmdirFails
<1> QED BY <1>2, <1>6

LEMMA CauseMeans == CauseInv => RmHasCause
<1> SUFFICES ASSUME CauseInv, Done("rm"), req.options = {"r", "f"}, ret # 0,
                    ~(faults > 0), theirs = {}, ~\E p \in DOMAIN req.tree : Under(p) /\ Obstacle(p)
             PROVE  FALSE
  BY DEF RmHasCause
<1>1. Free /\ faults = 0
  BY DEF Free, CauseInv
<1> QED BY <1>1 DEF CauseInv, Done

-----------------------------------------------------------------------------
(***************************************************************************)
(* mkdir and touch.  They make what is found under the name they made it   *)
(* by, and that stays where it is.                                         *)
(***************************************************************************)
Initial(f, n) == SubSeq(f, 1, n)
NewKept(c, t, x, node, N) ==
  /\ \A p \in DOMAIN t :
       \/ p \in x
       \/ p \in DOMAIN c.tree /\ t[p] = c.tree[p]
       \/ /\ p \notin DOMAIN c.tree /\ t[p] = node
          /\ x # {} \/ \E n \in N : Stat(t, Initial(c.from, n)) = Found(p)
  /\ \A p \in DOMAIN c.tree \ DOMAIN t : p \in x

LEMMA InitialIs ==
  ASSUME NEW f \in Path, NEW n \in 1 .. Len(f)
  PROVE  /\ Initial(f, n) \in Path /\ Len(Initial(f, n)) = n /\ Len(f) \in Nat
         /\ (n = Len(f) => Initial(f, n) = f)
<1>1. f \in Seq(Name) /\ Len(f) \in Nat
  BY DEF Path
<1>2. \A m \in Nat : m <= Len(f) => /\ SubSeq(f, 1, m) \in Seq(Name) /\ Len(SubSeq(f, 1, m)) = m
                                    /\ \A i \in 1 .. m : SubSeq(f, 1, m)[i] = f[i]
  BY <1>1
<1>3. n \in Nat /\ n <= Len(f)
  BY <1>1
<1> DEFINE s == SubSeq(f, 1, n)
<1>4. s \in Seq(Name) /\ Len(s) = n /\ \A i \in 1 .. n : s[i] = f[i]
  BY <1>2, <1>3
<1> HIDE DEF s
<1>5. n = Len(f) => s = f
  BY <1>1, <1>4
<1> QED BY <1>1, <1>4, <1>5 DEF s, Initial, Path

LEMMA NewMore ==
  ASSUME NEW c \in Requests, NEW t, Sound(t), NEW u, Sound(u), Within(t, u), NEW x, NEW node,
         NEW N \in SUBSET (1 .. Len(c.from)),
         NewKept(c, t, x, node, N), NEW p, p \notin DOMAIN t, More(t, u, p, node),
         x # {} \/ \E n \in N : Stat(u, Initial(c.from, n)) = Found(p)
  PROVE  NewKept(c, u, x, node, N)
<1> DEFINE g == c.tree
           Named1(s, q) == x # {} \/ \E n \in N : Stat(s, Initial(c.from, n)) = Found(q)
<1>1. /\ \A q \in DOMAIN t : \/ q \in x
                             \/ q \in DOMAIN g /\ t[q] = g[q]
                             \/ q \notin DOMAIN g /\ t[q] = node /\ Named1(t, q)
      /\ \A q \in DOMAIN g \ DOMAIN t : q \in x
  BY DEF NewKept
<1>2. \A q : Named1(t, q) => Named1(u, q)
  <2>1. ASSUME NEW q, NEW n \in N, Stat(t, Initial(c.from, n)) = Found(q)
        PROVE  Stat(u, Initial(c.from, n)) = Found(q)
    <3> DEFINE f == c.from
               name == Initial(f, n)
    <3>1. f \in Path /\ n \in 1 .. Len(f)
      BY Trees
    <3>2. name \in Path
      <4> HIDE DEF f
      <4> QED BY <3>1, InitialIs
    <3>3. Stat(t, name) = Found(q)
      BY <2>1
    <3> HIDE DEF name
    <3>4. Stat(t, name).error = "none"
      BY <3>3, Errors
    <3>5. Stat(u, name) = Found(q)
      BY <3>2, <3>3, <3>4, StatGrows
    <3> QED BY <3>5 DEF name
  <2> QED BY <2>1
<1>3. Named1(u, p)
  OBVIOUS
<1> HIDE DEF g, Named1
<1>4. DOMAIN u = DOMAIN t \cup {p} /\ u[p] = node /\ \A q \in DOMAIN t : u[q] = t[q]
  BY DEF More
<1>5. \A q \in DOMAIN u : \/ q \in x
                          \/ q \in DOMAIN g /\ u[q] = g[q]
                          \/ q \notin DOMAIN g /\ u[q] = node /\ Named1(u, q)
  BY <1>1, <1>2, <1>3, <1>4
<1>6. \A q \in DOMAIN g \ DOMAIN u : q \in x
  BY <1>1, <1>4
<1> QED BY <1>5, <1>6 DEF NewKept, g, Named1

LEMMA NewOthers ==
  ASSUME NEW c, NEW t, NEW u, NEW x, NEW node, NEW N, NewKept(c, t, x, node, N), NEW p,
         NEW other, More(t, u, p, other) \/ Less(t, u, p)
  PROVE  NewKept(c, u, x \cup {p}, node, N)
<1> DEFINE g == c.tree
           y == x \cup {p}
<1>1. /\ \A q \in DOMAIN t : \/ q \in x
                             \/ q \in DOMAIN g /\ t[q] = g[q]
                             \/ q \notin DOMAIN g /\ t[q] = node
      /\ \A q \in DOMAIN g \ DOMAIN t : q \in x
  BY DEF NewKept
<1> HIDE DEF g
<1>2. \A q \in DOMAIN u : q = p \/ (q \in DOMAIN t /\ u[q] = t[q])
  BY DEF More, Less
<1>3. \A q \in DOMAIN t : q = p \/ q \in DOMAIN u
  BY DEF More, Less
<1>4. \A q \in DOMAIN u : \/ q \in y
                          \/ q \in DOMAIN g /\ u[q] = g[q]
                          \/ q \notin DOMAIN g /\ u[q] = node
  BY <1>1, <1>2
<1>5. \A q \in DOMAIN g \ DOMAIN u : q \in y
  BY <1>1, <1>3
<1>6. y # {}
  OBVIOUS
<1> HIDE DEF y
<1>7. NewKept(c, u, y, node, N)
  BY <1>4, <1>5, <1>6 DEF NewKept, g
<1> QED BY <1>7 DEF y

DirectoryFor(c, t, p) ==
  \/ Is(t, Stat(t, p), "dir")
  \/ c.backend = "windows" /\ Is(t, Lstat(t, p), "link")
NewMode(c) == IF c.backend = "linux" /\ c.masked THEN "ro" ELSE "rw"
NewDir(c) == Dir(NewMode(c))
NewFileOf(c) == File(Empty, NewMode(c))

(* What mkdir and touch make, with the permissions umask leaves. *)
LEMMA UmaskLeaves ==
  /\ Dir(Masked("rw")) = NewDir(req)
  /\ File(Empty, Masked("rw")) = NewFileOf(req)
  /\ NewMode(req) \in {"rw", "ro"}
  BY DEF Masked, Linux, NewMode, NewDir, NewFileOf
LEMMA CreationIs ==
  ASSUME NEW p
  PROVE  Creation(p) = With(fs, p, NewFileOf(req))
  BY UmaskLeaves DEF Creation

MkdirIs(c, t, x, p, a, k, v) ==
  /\ a \in {"idle", "mkdir", "exists"}
  /\ a # "idle" => /\ \E n \in 1 .. Len(c.from) : p = Initial(c.from, n)
                   /\ "p" \notin c.options => p = c.from
  /\ NewKept(c, t, x, NewDir(c), 1 .. Len(c.from))
  /\ k = "done" /\ v = 0 => DirectoryFor(c, t, c.from)
MkdirInv == MkdirIs(req, fs, theirs, path, at, pc, ret)

LEMMA DirectoryThere ==
  ASSUME NEW c, NEW t, Sound(t), NEW p \in Path, Stat(t, p).error = "none",
         t[Stat(t, p).at].kind = "dir"
  PROVE  DirectoryFor(c, t, p)
  BY StatFound DEF DirectoryFor, Is

LEMMA MkdirMade ==
  ASSUME Shape, MkdirInv, pc = "request", at # "idle",
         UNCHANGED <<req, stack, frames, theirs>>, NEW r \in {0, 1, 2}, Made(r),
         Sound(fs'), Shaped(fs'), NewKept(req, fs', theirs, NewDir(req), 1 .. Len(req.from)),
         r # 2 /\ path = req.from => DirectoryFor(req, fs', req.from)
  PROVE  Shape' /\ MkdirInv' /\ req' = req
<1>1. /\ path \in Path /\ req \in Requests
      /\ "p" \notin req.options => path = req.from
  BY DEF Shape, MkdirInv, MkdirIs
<1>2. PICK n \in 1 .. Len(req.from) : path = Initial(req.from, n)
  BY DEF MkdirInv, MkdirIs
<1>3. CASE Finish(IF r = 0 THEN 0 ELSE -1) /\ path' = path /\ ~Option("p")
  <2>1. pc' = "done" /\ at' = "idle" /\ (ret' = 0 => r = 0)
    BY <1>3 DEF Finish
  <2>2. ret' = 0 => DirectoryFor(req, fs', req.from)
    BY <1>1, <1>3, <2>1 DEF Option
  <2>3. MkdirIs(req, fs', theirs', path', at', pc', ret')
    BY <2>1, <2>2 DEF MkdirIs
  <2> QED BY <1>1, <1>3, <2>1, <2>3 DEF Shape, MkdirInv, Copying, CopyCalls
<1>4. CASE Finish(-1) /\ path' = path
  <2>1. pc' = "done" /\ at' = "idle" /\ ret' = -1
    BY <1>4 DEF Finish
  <2>3. MkdirIs(req, fs', theirs', path', at', pc', ret')
    BY <2>1 DEF MkdirIs
  <2> QED BY <1>1, <1>4, <2>1, <2>3 DEF Shape, MkdirInv, Copying, CopyCalls
<1>5. CASE path = req.from /\ Finish(0) /\ path' = path /\ r # 2
  <2>1. pc' = "done" /\ at' = "idle"
    BY <1>5 DEF Finish
  <2>3. MkdirIs(req, fs', theirs', path', at', pc', ret')
    BY <1>5, <2>1 DEF MkdirIs
  <2> QED BY <1>1, <1>5, <2>1, <2>3 DEF Shape, MkdirInv, Copying, CopyCalls
<1>6. CASE path # req.from /\ path' = Prefix(Len(path) + 1) /\ Go("mkdir") /\ Option("p")
  <2>1. pc' = pc /\ at' = "mkdir"
    BY <1>6 DEF Go
  <2>2. Len(path) = n /\ n # Len(req.from) /\ n + 1 \in 1 .. Len(req.from)
    <3> DEFINE f == req.from
    <3>1. f \in Path /\ n \in 1 .. Len(f) /\ path = Initial(f, n) /\ path # f
      BY <1>1, <1>2, <1>6, Trees
    <3> HIDE DEF f
    <3>2. Len(path) = n /\ n # Len(f) /\ Len(f) \in Nat
      BY <3>1, InitialIs
    <3> QED BY <3>1, <3>2 DEF f
  <2>3. path' = Initial(req.from, n + 1) /\ path' \in Path
    <3> DEFINE f == req.from
               m == n + 1
    <3>1. f \in Path /\ m \in 1 .. Len(f) /\ path' = Initial(f, m)
      BY <1>1, <1>6, <2>2, Trees DEF Prefix, Initial
    <3> HIDE DEF f, m
    <3>2. path' \in Path
      BY <3>1, InitialIs
    <3> QED BY <3>1, <3>2 DEF f, m
  <2>4. MkdirIs(req, fs', theirs', path', at', pc', ret')
    BY <1>6, <2>1, <2>2, <2>3 DEF MkdirIs, Option
  <2> QED BY <1>1, <2>1, <2>3, <2>4 DEF Shape, MkdirInv, Copying, CopyCalls
<1>7. \/ ~Option("p") /\ Finish(IF r = 0 THEN 0 ELSE -1) /\ path' = path
      \/ Option("p") /\ Finish(-1) /\ path' = path
      \/ path = req.from /\ Finish(0) /\ path' = path /\ r # 2
      \/ path # req.from /\ path' = Prefix(Len(path) + 1) /\ Go("mkdir") /\ Option("p")
  BY DEF Made
<1> QED BY <1>3, <1>4, <1>5, <1>6, <1>7

LEMMA MkdirNew ==
  ASSUME Shape, MkdirInv, pc = "request", Mkdir
  PROVE  Shape' /\ MkdirInv' /\ req' = req
<1> DEFINE node == NewDir(req)
<1>1. PICK p \in NewPlace(fs, path, Writable) : fs' = With(fs, p, NewDir(req))
  BY UmaskLeaves DEF Mkdir
<1>2. at = "mkdir" /\ Made(0) /\ UNCHANGED <<req, stack, frames, theirs>>
  BY DEF Mkdir, copied
<1>3. Sound(fs) /\ Shaped(fs) /\ path \in Path /\ req \in Requests
      /\ NewKept(req, fs, theirs, node, 1 .. Len(req.from))
  BY DEF Shape, MkdirInv, MkdirIs
<1>4. node \in Node /\ node.kind # "link" /\ node.kind = "dir"
  BY UmaskLeaves, Nodes DEF NewDir
<1>0. fs' = With(fs, p, node)
  BY <1>1
<1> HIDE DEF node
<1>5. /\ p \in Path /\ p \notin DOMAIN fs
      /\ Front(p) \in DOMAIN fs /\ fs[Front(p)].kind = "dir"
      /\ Stat(fs', path) = Found(p)
  BY <1>0, <1>3, <1>4, NewIsThere
<1>6. Sound(fs') /\ Within(fs, fs') /\ More(fs, fs', p, node) /\ Shaped(fs')
  BY <1>0, <1>3, <1>4, <1>5, WithIs
<1>7. NewKept(req, fs', theirs, node, 1 .. Len(req.from))
  <2>1. \E n \in 1 .. Len(req.from) : Stat(fs', Initial(req.from, n)) = Found(p)
    <3>1. PICK n \in 1 .. Len(req.from) : path = Initial(req.from, n)
      BY <1>2 DEF MkdirInv, MkdirIs
    <3> QED BY <1>5, <3>1
  <2> DEFINE N == 1 .. Len(req.from)
  <2>2. N \in SUBSET (1 .. Len(req.from)) /\ NewKept(req, fs, theirs, node, N)
        /\ \E n \in N : Stat(fs', Initial(req.from, n)) = Found(p)
    BY <1>3, <2>1
  <2> HIDE DEF N
  <2>3. NewKept(req, fs', theirs, node, N)
    BY <1>3, <1>5, <1>6, <2>2, NewMore
  <2> QED BY <2>3 DEF N
<1>8. path = req.from => DirectoryFor(req, fs', req.from)
  <2>1. Stat(fs', path).error = "none" /\ fs'[Stat(fs', path).at].kind = "dir"
    BY <1>4, <1>5, <1>6, Errors DEF More
  <2> QED BY <1>3, <1>6, <2>1, DirectoryThere
<1> QED BY <1>2, <1>6, <1>7, <1>8, MkdirMade DEF node

LEMMA MkdirStep ==
  ASSUME Shape, MkdirInv, req.call = "mkdir", [CommandsNext]_allVars
  PROVE  Shape' /\ MkdirInv' /\ req' = req
<1>1. at # "idle" => pc = "request"
  BY DEF Shape
<1>2. CASE UNCHANGED allVars
  BY <1>2 DEF allVars, vars, own, Shape, MkdirInv, Copying, CopyCalls
<1>3. CASE Begin
  <2>1. /\ pc = "request" /\ at = "idle" /\ Go("mkdir")
        /\ path' = (IF Option("p") THEN Prefix(1) ELSE req.from)
        /\ UNCHANGED <<req, stack, fs, frames, theirs, missing>>
    BY <1>3 DEF Begin, copied
  <2> DEFINE f == req.from
  <2>2. f \in Path /\ f # <<>>
    BY Trees DEF Shape
  <2> HIDE DEF f
  <2>3. 1 \in 1 .. Len(f) /\ Len(f) \in 1 .. Len(f)
    BY <2>2 DEF Path
  <2>4. /\ Initial(f, 1) \in Path /\ Initial(f, Len(f)) = f
    BY <2>2, <2>3, InitialIs
  <2>5. path' \in Path /\ (\E n \in 1 .. Len(f) : path' = Initial(f, n))
        /\ ("p" \notin req.options => path' = f)
    BY <2>1, <2>2, <2>3, <2>4 DEF Prefix, Initial, Option, f
  <2>6. at' = "mkdir" /\ pc' = pc /\ ret' = ret
    BY <2>1 DEF Go
  <2>7. MkdirIs(req, fs', theirs', path', at', pc', ret')
    BY <2>1, <2>5, <2>6 DEF MkdirIs, MkdirInv, f
  <2> QED BY <2>1, <2>5, <2>6, <2>7 DEF MkdirInv, Shape, Copying, CopyCalls
<1>4. CASE OthersCreate \/ OthersRemove
  <2>1. at # "idle" /\ pc = "request"
    BY <1>1, <1>4 DEF OthersCreate, OthersRemove, Room
  <2>2. UNCHANGED <<req, stack, path, frames, at, pc, ret, missing>>
    BY <1>4 DEF OthersCreate, OthersRemove, copied
  <2>3. PICK p \in Path :
          /\ theirs' = theirs \cup {p}
          /\ More(fs, fs', p, File(Empty, "rw")) \/ Less(fs, fs', p)
          /\ Sound(fs') /\ Shaped(fs')
    BY <1>4, Others
  <2>4. NewKept(req, fs', theirs', NewDir(req), 1 .. Len(req.from))
    <3>1. NewKept(req, fs, theirs, NewDir(req), 1 .. Len(req.from))
      BY DEF MkdirInv, MkdirIs
    <3> QED BY <2>3, <3>1, NewOthers
  <2>5. MkdirIs(req, fs', theirs', path', at', pc', ret')
    BY <2>1, <2>2, <2>4 DEF MkdirIs, MkdirInv
  <2>6. at # "unlink"
    BY DEF MkdirInv, MkdirIs
  <2> QED BY <2>2, <2>3, <2>5, <2>6 DEF MkdirInv, Shape, Copying, CopyCalls
<1>5. CASE Mkdir
  <2>1. pc = "request"
    BY <1>1, <1>5 DEF Mkdir
  <2> QED BY <1>5, <2>1, MkdirNew
<1>6. CASE MkdirCollides
  <2>1. at' = "exists" /\ at # "idle" /\ UNCHANGED <<req, stack, fs, path, frames, theirs, pc, ret>>
    BY <1>6 DEF MkdirCollides, copied, Go
  <2>2. MkdirIs(req, fs', theirs', path', at', pc', ret')
    BY <1>1, <2>1 DEF MkdirIs, MkdirInv
  <2> QED BY <1>1, <2>1, <2>2 DEF MkdirInv, Shape, Copying, CopyCalls
<1>7. CASE MkdirFails
  <2>1. at = "mkdir" /\ Made(2) /\ UNCHANGED <<req, stack, fs, frames, theirs>>
    BY <1>7 DEF MkdirFails, copied
  <2>2. Sound(fs') /\ Shaped(fs') /\ NewKept(req, fs', theirs, NewDir(req), 1 .. Len(req.from))
    BY <2>1 DEF Shape, MkdirInv, MkdirIs
  <2> DEFINE r == 2
  <2>3. r \in {0, 1, 2} /\ Made(r) /\ ~(r # 2 /\ path = req.from)
    BY <2>1
  <2> HIDE DEF r
  <2> QED BY <1>1, <2>1, <2>2, <2>3, MkdirMade
<1>8. CASE MkdirExists
  <2> DEFINE r == Existed
  <2>1. at = "exists" /\ Made(r) /\ UNCHANGED <<req, stack, fs, frames, theirs>>
    BY <1>8 DEF MkdirExists, copied
  <2>2. Sound(fs') /\ Shaped(fs') /\ NewKept(req, fs', theirs, NewDir(req), 1 .. Len(req.from))
    BY <2>1 DEF Shape, MkdirInv, MkdirIs
  <2>3. IsDirectory(fs, path) => DirectoryFor(req, fs, path)
    <3>1. Sound(fs) /\ path \in Path /\ req.backend \in {"linux", "windows"}
      BY Trees DEF Shape
    <3>2. Is(fs, Lstat(fs, path), "dir") => DirectoryFor(req, fs, path)
      <4> SUFFICES ASSUME Is(fs, Lstat(fs, path), "dir") PROVE DirectoryFor(req, fs, path)
        OBVIOUS
      <4>1. Lstat(fs, path).error = "none" /\ fs[Lstat(fs, path).at].kind = "dir"
        BY DEF Is
      <4>2. Stat(fs, path) = Lstat(fs, path)
        BY <3>1, <4>1, LstatThenStat
      <4> QED BY <4>2 DEF DirectoryFor
    <3> QED BY <3>1, <3>2 DEF IsDirectory, HasDirectoryAttribute, DirectoryFor, Linux
  <2>4. r \in {0, 1, 2} /\ (r # 2 /\ path = req.from => DirectoryFor(req, fs', req.from))
    BY <2>1, <2>3 DEF Existed
  <2> HIDE DEF r
  <2> QED BY <1>1, <2>1, <2>2, <2>4, MkdirMade
<1>9. ~(InvalidDate \/ Test \/ Copy)
  BY NoCopies DEF InvalidDate, Test, Copy, Dated
<1>10. ~(LookMissing \/ Look \/ Unlink \/ UnlinkFails \/ List \/ ListFails \/ EndOfEntries \/ Rmdir
         \/ RmdirFails \/ (\E n \in Name : NextEntry(n)))
  BY DEF MkdirInv, MkdirIs, LookMissing, Look, Unlink, UnlinkFails, List, ListFails, EndOfEntries, Rmdir,
         RmdirFails, NextEntry
<1>11. ~(Stamp \/ StampMissing \/ StampFails
         \/ Create \/ CreateFails \/ Attributes \/ OpenAlways \/ OpenExisting \/ OpenExistingFails)
  BY DEF MkdirInv, MkdirIs, Stamp, StampMissing, StampFails,
         Create, CreateFails, Attributes, OpenAlways, OpenExisting, OpenExistingFails
<1> QED BY <1>2, <1>3, <1>4, <1>5, <1>6, <1>7, <1>8, <1>9, <1>10, <1>11 DEF CommandsNext, Command

-----------------------------------------------------------------------------
(***************************************************************************)
(* With fewer links left a walk goes the same way, or gives up.            *)
(***************************************************************************)
Loop == Error("ELOOP")
LEMMA AlikeOn ==
  ASSUME NEW t, NEW f, NEW g, NEW w \in Position, NEW v \in Position, Alike(w, v),
         IsFollowed(t, v, g) <=> IsFollowed(t, w, f)
  PROVE  Alike(Onward(t, w, f), Onward(t, v, g))
<1>1. v.at = w.at /\ v.rest = w.rest /\ v.links <= w.links /\ Ahead(v) = Ahead(w)
  BY DEF Alike, Ahead
<1>2. v.links \in Nat /\ w.links \in Nat
  BY Positions
<1>3. v.links - 1 <= w.links - 1
  BY <1>1, <1>2
<1>4. CASE IsFollowed(t, w, f)
  BY <1>1, <1>3, <1>4 DEF Onward, Alike
<1>5. CASE ~IsFollowed(t, w, f)
  BY <1>1, <1>5 DEF Onward, Alike
<1> QED BY <1>4, <1>5

LEMMA FewerLinks ==
  ASSUME NEW t, TreeOK(t), NEW w \in Position, NEW v \in Position, Alike(w, v)
  PROVE  Goes(t)[v] = Goes(t)[w] \/ Goes(t)[v] = Loop
<1> DEFINE Ok(x) == \A y \in Position : Alike(x, y) => Goes(t)[y] = Goes(t)[x] \/ Goes(t)[y] = Loop
           T == {x \in Position : Ok(x)}
<1>1. ASSUME NEW x \in Position, Ends(t, x, TRUE) \/ Onward(t, x, TRUE) \in T,
             NEW y \in Position, Alike(x, y)
      PROVE  Goes(t)[y] = Goes(t)[x] \/ Goes(t)[y] = Loop
  <2>1. /\ Goes(t)[x] = StepOf(t, x, TRUE, Goes(t))
        /\ Goes(t)[y] = StepOf(t, y, TRUE, Goes(t))
    BY GoesIs
  <2>2. /\ y.at = x.at /\ y.rest = x.rest /\ y.links <= x.links
        /\ x.links \in Nat /\ y.links \in Nat
    BY <1>1, Positions DEF Alike
  <2>3. Ahead(y) = Ahead(x) /\ (IsFollowed(t, y, TRUE) <=> IsFollowed(t, x, TRUE))
        /\ Answer(t, y, TRUE) = Answer(t, x, TRUE)
    BY <2>2 DEF Ahead, IsFollowed, Answer
  <2>4. CASE Ends(t, x, TRUE)
    <3>0. x.links = 0 => y.links = 0
      BY <2>2
    <3>1. Ends(t, y, TRUE)
      BY <2>2, <2>3, <2>4, <3>0 DEF Ends
    <3> QED BY <2>1, <2>3, <2>4, <3>1 DEF StepOf
  <2>5. CASE ~Ends(t, x, TRUE) /\ Ends(t, y, TRUE)
    <3>1. Answer(t, y, TRUE) = Loop
      BY <2>2, <2>3, <2>5 DEF Ends, Answer, Loop
    <3> QED BY <2>1, <2>5, <3>1 DEF StepOf
  <2>6. CASE ~Ends(t, x, TRUE) /\ ~Ends(t, y, TRUE)
    <3>1. Alike(Onward(t, x, TRUE), Onward(t, y, TRUE))
      BY <1>1, <2>3, AlikeOn
    <3>2. Onward(t, y, TRUE) \in Position
      <4> DEFINE f == TRUE
      <4>1. ~Ends(t, y, f) /\ Onward(t, y, TRUE) = Onward(t, y, f)
        BY <2>6
      <4> HIDE DEF f
      <4> QED BY <4>1, Advance
    <3>3. /\ Goes(t)[x] = Goes(t)[Onward(t, x, TRUE)]
          /\ Goes(t)[y] = Goes(t)[Onward(t, y, TRUE)]
      BY <2>1, <2>6 DEF StepOf
    <3> QED BY <1>1, <2>6, <3>1, <3>2, <3>3
  <2> QED BY <2>4, <2>5, <2>6
<1>2. T = Position
  <2> DEFINE f == TRUE
  <2>1. T \in SUBSET Position
    OBVIOUS
  <2>2. \A x \in Position : Ends(t, x, f) \/ Onward(t, x, f) \in T => x \in T
    BY <1>1
  <2> HIDE DEF T, f
  <2> QED BY <2>1, <2>2, WalkInduction
<1> QED BY <1>2

LEMMA LoopIs ==
  /\ \A q : Found(q) # Loop
  /\ Error("ENOENT") # Loop /\ \A q : Found(q) # Error("ENOENT")
  /\ Loop.error = "ELOOP"
  BY DEF Found, Error, Loop

(* Who gives up on the way gives up on the longer way. *)
LEMMA LoopOn ==
  ASSUME NEW t, TreeOK(t), NEW w \in Position, NEW r \in Path, Goes(t)[w] = Loop
  PROVE  Goes(t)[Further(w, r)] = Loop
<1> DEFINE Ok(x) == Goes(t)[x] = Loop => Goes(t)[Further(x, r)] = Loop
           T == {x \in Position : Ok(x)}
<1>1. ASSUME NEW x \in Position, Ends(t, x, TRUE) \/ Onward(t, x, TRUE) \in T,
             Goes(t)[x] = Loop
      PROVE  Goes(t)[Further(x, r)] = Loop
  <2> DEFINE y == Further(x, r)
  <2>1. /\ Goes(t)[x] = StepOf(t, x, TRUE, Goes(t))
        /\ Goes(t)[y] = StepOf(t, y, TRUE, Goes(t))
    <3>1. y \in Position
      BY FurtherIs
    <3> QED BY <3>1, GoesIs
  <2>2. x.rest # <<>>
    <3>1. x.rest = <<>> => Goes(t)[x] = Found(x.at)
      BY <2>1 DEF StepOf, Ends, Answer
    <3> QED BY <1>1, <3>1, LoopIs
  <2>3. /\ y.at = x.at /\ y.links = x.links /\ y.rest # <<>>
        /\ Head(y.rest) = Head(x.rest) /\ Tail(y.rest) = Tail(x.rest) \o r
    BY <2>2, FurtherIs
  <2> HIDE DEF y
  <2>4. Ahead(y) = Ahead(x) /\ (IsFollowed(t, y, TRUE) <=> IsFollowed(t, x, TRUE))
        /\ (Ends(t, y, TRUE) <=> Ends(t, x, TRUE))
        /\ Answer(t, y, TRUE) = Answer(t, x, TRUE)
    BY <2>2, <2>3 DEF Ahead, IsFollowed, Ends, Answer
  <2>5. CASE Ends(t, x, TRUE)
    BY <1>1, <2>1, <2>4, <2>5 DEF StepOf, y
  <2>6. CASE ~Ends(t, x, TRUE)
    <3>1. Onward(t, y, TRUE) = Further(Onward(t, x, TRUE), r)
      <4>1. CASE IsFollowed(t, x, TRUE)
        <5>1. t[Ahead(x)].target \in Path /\ Tail(x.rest) \in Path
          BY <2>6, <4>1, Linked, Positions DEF Ends, IsFollowed
        <5>2. t[Ahead(x)].target \o (Tail(x.rest) \o r) = (t[Ahead(x)].target \o Tail(x.rest)) \o r
          BY <5>1, Regrouped
        <5> QED BY <2>3, <2>4, <4>1, <5>2 DEF Onward, Further
      <4>2. CASE ~IsFollowed(t, x, TRUE)
        BY <2>3, <2>4, <4>2 DEF Onward, Further
      <4> QED BY <4>1, <4>2
    <3>2. /\ Goes(t)[x] = Goes(t)[Onward(t, x, TRUE)]
          /\ Goes(t)[y] = Goes(t)[Onward(t, y, TRUE)]
      BY <2>1, <2>4, <2>6 DEF StepOf, y
    <3> QED BY <1>1, <2>6, <3>1, <3>2 DEF y
  <2> QED BY <2>5, <2>6
<1>2. T = Position
  <2> DEFINE f == TRUE
  <2>1. T \in SUBSET Position
    OBVIOUS
  <2>2. \A x \in Position : Ends(t, x, f) \/ Onward(t, x, f) \in T => x \in T
    BY <1>1
  <2> HIDE DEF T, f
  <2> QED BY <2>1, <2>2, WalkInduction
<1> QED BY <1>2

(* From a link that lstat finds, stat goes on from the root. *)
FromLink(t, q, l) == [at |-> <<>>, rest |-> t[q].target, links |-> l]
GoesFromLink(t, u, q, v) ==
  \/ Goes(t)[v] = Loop
  \/ \E l \in 0 .. MaxLinks : /\ Goes(t)[v] = Goes(t)[FromLink(t, q, l)]
                              /\ Goes(u)[v] = Goes(u)[FromLink(t, q, l)]

LEMMA LinkAtTheEnd ==
  ASSUME NEW t, TreeOK(t), <<>> \in DOMAIN t, NEW u, TreeOK(u), Within(t, u), NEW q,
         q \in DOMAIN t, t[q].kind = "link",
         NEW w \in Position, w.at \in DOMAIN t, w.rest # <<>>, Looks(t)[w] = Found(q),
         NEW v \in Position, Alike(w, v)
  PROVE  GoesFromLink(t, u, q, v)
<1> DEFINE Ok(x) == x.at \in DOMAIN t /\ x.rest # <<>> /\ Looks(t)[x] = Found(q) =>
                      \A y \in Position : Alike(x, y) => GoesFromLink(t, u, q, y)
           T == {x \in Position : Ok(x)}
<1>1. ASSUME NEW x \in Position, Ends(t, x, FALSE) \/ Onward(t, x, FALSE) \in T,
             x.at \in DOMAIN t, x.rest # <<>>, Looks(t)[x] = Found(q),
             NEW y \in Position, Alike(x, y)
      PROVE  GoesFromLink(t, u, q, y)
  <2>1. /\ Looks(t)[x] = StepOf(t, x, FALSE, Looks(t))
        /\ Goes(t)[y] = StepOf(t, y, TRUE, Goes(t))
        /\ Goes(u)[y] = StepOf(u, y, TRUE, Goes(u))
    BY LooksIs, GoesIs
  <2>2. ~Ends(t, x, FALSE)
    <3>1. Ends(t, x, FALSE) => Looks(t)[x].error # "none"
      BY <1>1, <2>1, Errors DEF StepOf, Answer
    <3> QED BY <1>1, <3>1, Errors
  <2>3. /\ y.at = x.at /\ y.rest = x.rest /\ y.links <= x.links
        /\ x.links \in Nat /\ y.links \in 0 .. MaxLinks /\ y.links \in Nat
        /\ Ahead(y) = Ahead(x)
    BY <1>1, Positions DEF Alike, Ahead
  <2>4. /\ t[y.at].kind = "dir" /\ Ahead(y) \in DOMAIN t
        /\ u[y.at].kind = "dir" /\ Ahead(y) \in DOMAIN u /\ u[Ahead(y)].kind = t[Ahead(y)].kind
        /\ t[Ahead(y)].kind = "link" => u[Ahead(y)].target = t[Ahead(y)].target
    BY <1>1, <2>2, <2>3 DEF Ends, Within
  <2>5. IsFollowed(u, y, TRUE) <=> IsFollowed(t, y, TRUE)
    BY <2>4 DEF IsFollowed
  <2>6. CASE Ends(t, y, TRUE)
    <3>1. Goes(t)[y] = Loop
      BY <1>1, <2>1, <2>3, <2>4, <2>6 DEF StepOf, Ends, Answer, Loop
    <3> QED BY <3>1 DEF GoesFromLink
  <2>7. CASE ~Ends(t, y, TRUE)
    <3>1. ~Ends(u, y, TRUE) /\ Onward(u, y, TRUE) = Onward(t, y, TRUE)
      BY <2>4, <2>5, <2>7 DEF Ends, Onward, IsFollowed
    <3>2. /\ Goes(t)[y] = Goes(t)[Onward(t, y, TRUE)]
          /\ Goes(u)[y] = Goes(u)[Onward(t, y, TRUE)]
      BY <2>1, <2>7, <3>1 DEF StepOf
    <3>3. CASE Tail(x.rest) = <<>>
      <4>1. Ahead(x) = q
        <5>1. Looks(t)[x] = Found(Ahead(x))
          BY <2>2, <3>3, LooksRest
        <5> QED BY <1>1, <5>1, Errors
      <4>2. IsFollowed(t, y, TRUE) /\ t[q].target \in Path
        BY <2>3, <4>1, Linked DEF IsFollowed
      <4>3. t[q].target \o <<>> = t[q].target
        BY <4>2 DEF Path
      <4>4. y.links - 1 \in 0 .. MaxLinks
        <5>1. y.links # 0
          BY <2>7, <4>2 DEF Ends
        <5> QED BY <2>3, <5>1, Limits
      <4>5. Onward(t, y, TRUE) = FromLink(t, q, y.links - 1)
        BY <2>3, <3>3, <4>1, <4>2, <4>3 DEF Onward, FromLink
      <4> QED BY <3>2, <4>4, <4>5 DEF GoesFromLink
    <3>4. CASE Tail(x.rest) # <<>>
      <4> DEFINE a == Onward(t, x, FALSE)
                 b == Onward(t, y, TRUE)
      <4>1. IsFollowed(t, y, TRUE) <=> IsFollowed(t, x, FALSE)
        BY <2>3, <3>4 DEF IsFollowed
      <4>2. Alike(a, b)
        BY <1>1, <4>1, AlikeOn
      <4>3. a \in T /\ Looks(t)[x] = Looks(t)[a]
        BY <1>1, <2>1, <2>2 DEF StepOf
      <4>4. a.at \in DOMAIN t
        BY <2>2, <1>1 DEF Ends, Onward
      <4>5. a.rest # <<>>
        <5>1. CASE IsFollowed(t, x, FALSE)
          <6>1. t[Ahead(x)].target \in Path /\ Tail(x.rest) \in Path
            BY <1>1, <2>2, <5>1, Linked, Positions DEF Ends, IsFollowed
          <6>2. a.rest = t[Ahead(x)].target \o Tail(x.rest)
            BY <5>1 DEF Onward
          <6> HIDE DEF a
          <6>3. t[Ahead(x)].target \in Seq(Name) /\ Tail(x.rest) \in Seq(Name)
            BY <6>1 DEF Path
          <6> QED BY <3>4, <6>2, <6>3, ConcatEqualIffEmpty
        <5>2. CASE ~IsFollowed(t, x, FALSE)
          BY <3>4, <5>2 DEF Onward
        <5> QED BY <5>1, <5>2
      <4>6. b \in Position
        <5> DEFINE f == TRUE
        <5>1. ~Ends(t, y, f) /\ b = Onward(t, y, f)
          BY <2>7
        <5> HIDE DEF f, b
        <5> QED BY <5>1, Advance
      <4> HIDE DEF a, b
      <4>7. GoesFromLink(t, u, q, b)
        BY <1>1, <4>2, <4>3, <4>4, <4>5, <4>6
      <4> QED BY <3>2, <4>7 DEF GoesFromLink, b
    <3> QED BY <3>3, <3>4
  <2> QED BY <2>6, <2>7
<1>2. T = Position
  <2> DEFINE f == FALSE
  <2>1. T \in SUBSET Position
    OBVIOUS
  <2>2. \A x \in Position : Ends(t, x, f) \/ Onward(t, x, f) \in T => x \in T
    BY <1>1
  <2> HIDE DEF T, f
  <2> QED BY <2>1, <2>2, WalkInduction
<1> QED BY <1>2

(* What is made is found also by who comes with fewer links left. *)
LEMMA MadeAhead ==
  ASSUME NEW t, Sound(t), NEW name \in Path, NEW modes, NEW p \in NewPlace(t, name, modes),
         NEW node \in Node, node.kind # "link", NEW u, u = With(t, p, node),
         NEW l \in 0 .. MaxLinks, Goes(t)[Resumed(<<>>, name, l)] = Error("ENOENT")
  PROVE  Goes(u)[Resumed(<<>>, name, l)] = Found(p)
<1> DEFINE b == Front(name)
           n == Last(name)
           r == <<n>>
           e == Stat(t, b).at
           w == Resumed(<<>>, b, l)
<1>1. /\ name # <<>> /\ p \notin DOMAIN t /\ p = Append(e, n)
      /\ Stat(t, b).error = "none" /\ e \in DOMAIN t /\ t[e].kind = "dir"
  BY DEF NewPlace, Is
<1>2. b \in Path /\ n \in Name /\ r \in Path /\ name = b \o r
  BY <1>1, FrontLast
<1>3. e \in Path /\ Goes(t)[Start(b)] = Found(e)
  BY <1>1, <1>2, StatFound
<1>4. w \in Position /\ w.at = <<>> /\ Alike(Start(b), w) /\ Start(b) \in Position
      /\ Further(w, r) = Resumed(<<>>, name, l)
  BY <1>2, StartIs, Limits DEF Position, Alike, Resumed, Start, Further, Path
<1> HIDE DEF b, n, e, w
<1>5. p \in Path /\ Front(p) = e
  BY <1>1, <1>2, <1>3, EntryOf
<1>6. Sound(u) /\ Within(t, u) /\ More(t, u, p, node)
  BY <1>1, <1>5, WithIs
<1>7. /\ u[p].kind # "link" /\ u[e].kind = "dir" /\ p \in DOMAIN u
      /\ TreeOK(t) /\ TreeOK(u) /\ <<>> \in DOMAIN t
  BY <1>1, <1>6 DEF More, Sound
<1> HIDE DEF r
<1>8. Goes(t)[w] = Found(e)
  <2>1. Goes(t)[w] = Found(e) \/ Goes(t)[w] = Loop
    BY <1>3, <1>4, <1>7, FewerLinks
  <2>2. Goes(t)[w] = Loop => Goes(t)[Further(w, r)] = Loop
    BY <1>2, <1>4, <1>7, LoopOn
  <2> QED BY <1>4, <2>1, <2>2, LoopIs
<1>9. Goes(u)[w] = Found(e)
  <2> DEFINE f == TRUE
  <2>1. Goes(t) = Reached(t, f) /\ Goes(u) = Reached(u, f)
    BY DEF Goes
  <2>2. w.at \in DOMAIN t
    BY <1>4, <1>7
  <2> HIDE DEF f
  <2>3. Reached(t, f)[w].error = "none"
    BY <1>8, <2>1, Errors
  <2>4. Reached(u, f)[w] = Reached(t, f)[w]
    BY <1>4, <1>6, <1>7, <2>2, <2>3, Grows
  <2> QED BY <1>8, <2>1, <2>4
<1>10. PICK k \in 0 .. MaxLinks : Goes(u)[Further(w, r)] = Goes(u)[Resumed(e, r, k)]
  BY <1>2, <1>4, <1>7, <1>9, Joined
<1>11. Goes(u)[Resumed(e, r, k)] = Found(p)
  BY <1>1, <1>2, <1>3, <1>7, LastStep DEF r
<1> QED BY <1>4, <1>10, <1>11

(* So it is found by who comes through links. *)
LinksOf(t, from, L) ==
  /\ L[0] = from
  /\ \A n \in 1 .. MaxLinks :
       L[n] = IF Is(t, Lstat(t, L[n - 1]), "link") THEN t[Lstat(t, L[n - 1]).at].target
              ELSE L[n - 1]

LEMMA MadeThroughLinks ==
  ASSUME NEW t, Sound(t), NEW from \in Path, Stat(t, from) = Error("ENOENT"),
         NEW L, LinksOf(t, from, L), NEW modes, NEW p \in NewPlace(t, L[MaxLinks], modes),
         NEW node \in Node, node.kind # "link", NEW u, u = With(t, p, node), Sound(u), Within(t, u)
  PROVE  Stat(u, from) = Found(p)
<1> DEFINE w == Start(from)
           At(n, l) == Resumed(<<>>, L[n], l)
           C(n) == /\ L[n] \in Path
                   /\ \E l \in 0 .. MaxLinks : /\ Goes(t)[At(n, l)] = Goes(t)[w]
                                               /\ Goes(u)[At(n, l)] = Goes(u)[w]
<1>1. ~(Len(from) > MaxPath) /\ Goes(t)[w] = Error("ENOENT")
  <2>1. Len(from) > MaxPath => Stat(t, from) = Error("ENAMETOOLONG")
    BY StatIs
  <2>2. Error("ENAMETOOLONG") # Error("ENOENT")
    BY DEF Error
  <2> QED BY <2>1, <2>2, StatIs
<1>2. C(0)
  <2>1. L[0] = from /\ MaxLinks \in 0 .. MaxLinks /\ At(0, MaxLinks) = w
    BY Limits DEF LinksOf, Resumed, Start
  <2> QED BY <2>1
<1>3. ASSUME NEW n \in 1 .. MaxLinks, C(n - 1) PROVE C(n)
  <2> DEFINE m == L[n - 1]
             found == Lstat(t, m)
             q == found.at
  <2>1. L[n] = IF Is(t, found, "link") THEN t[q].target ELSE m
    BY DEF LinksOf
  <2>2. PICK l \in 0 .. MaxLinks : Goes(t)[At(n - 1, l)] = Goes(t)[w] /\ Goes(u)[At(n - 1, l)] = Goes(u)[w]
    BY <1>3
  <2>3. m \in Path
    BY <1>3
  <2>4. CASE ~Is(t, found, "link")
    BY <2>1, <2>2, <2>3, <2>4
  <2>5. CASE Is(t, found, "link")
    <3>1. found.error = "none" /\ q \in DOMAIN t /\ t[q].kind = "link"
      BY <2>5 DEF Is
    <3>2. Looks(t)[Start(m)] = Found(q)
      BY <2>3, <3>1, LstatFound
    <3>3. /\ Start(m) \in Position /\ Start(m).at = <<>> /\ Start(m).rest = m
          /\ At(n - 1, l) \in Position /\ Alike(Start(m), At(n - 1, l))
      BY <2>3, StartIs, Limits DEF Position, Resumed, Start, Alike, Path
    <3>4. TreeOK(t) /\ TreeOK(u) /\ <<>> \in DOMAIN t
      BY DEF Sound
    <3> DEFINE v == At(n - 1, l)
    <3>5. v.rest = m
      BY DEF Resumed
    <3> HIDE DEF v, m, found, q
    <3>6. m # <<>>
      <4>1. CASE m = <<>>
        <5>1. Goes(t)[v] = Found(v.at)
          BY <3>3, <3>4, <3>5, <4>1, GoesIs DEF StepOf, Ends, Answer, v, m
        <5> QED BY <1>1, <2>2, <5>1, LoopIs DEF v
      <4> QED BY <4>1
    <3>7. GoesFromLink(t, u, q, v)
      <4> DEFINE x == Start(m)
      <4>1. x \in Position /\ x.at \in DOMAIN t /\ x.rest # <<>> /\ Looks(t)[x] = Found(q)
            /\ v \in Position /\ Alike(x, v)
        BY <3>2, <3>3, <3>4, <3>6 DEF v, m
      <4> HIDE DEF x
      <4> QED BY <3>1, <3>4, <4>1, LinkAtTheEnd
    <3>8. Goes(t)[v] # Loop
      BY <1>1, <2>2, LoopIs DEF v
    <3>9. PICK k \in 0 .. MaxLinks : /\ Goes(t)[v] = Goes(t)[FromLink(t, q, k)]
                                     /\ Goes(u)[v] = Goes(u)[FromLink(t, q, k)]
      BY <3>7, <3>8 DEF GoesFromLink
    <3>10. L[n] = t[q].target /\ t[q].target \in Path
      BY <2>1, <2>5, <3>1, <3>4, Linked
    <3>11. FromLink(t, q, k) = At(n, k)
      BY <3>10 DEF FromLink, Resumed
    <3>12. Goes(t)[At(n, k)] = Goes(t)[w] /\ Goes(u)[At(n, k)] = Goes(u)[w]
      BY <2>2, <3>9, <3>11 DEF v
    <3> HIDE DEF At
    <3> QED BY <3>10, <3>12
  <2> QED BY <2>4, <2>5
<1>4. C(MaxLinks)
  <2> DEFINE B == {n \in 0 .. MaxLinks : ~C(n)}
  <2> HIDE DEF C
  <2>1. B \in SUBSET Nat
    BY Limits
  <2>2. B = {}
    <3>1. SUFFICES ASSUME B # {} PROVE FALSE
      OBVIOUS
    <3>2. PICK n \in B : \A m \in B : n <= m
      <4> HIDE DEF B
      <4> QED BY <2>1, <3>1, Least
    <3>3. n \in 1 .. MaxLinks
      BY <1>2, Limits
    <3>4. n - 1 \in 0 .. MaxLinks /\ ~(n <= n - 1)
      BY <3>3, Limits
    <3>5. C(n - 1)
      BY <3>2, <3>4
    <3> QED BY <1>3, <3>2, <3>3, <3>5
  <2> QED BY <2>2, Limits
<1>5. PICK l \in 0 .. MaxLinks : /\ Goes(t)[At(MaxLinks, l)] = Goes(t)[w]
                                 /\ Goes(u)[At(MaxLinks, l)] = Goes(u)[w]
  BY <1>4
<1>6. Goes(u)[At(MaxLinks, l)] = Found(p)
  <2> DEFINE name == L[MaxLinks]
  <2>1. name \in Path /\ Goes(t)[Resumed(<<>>, name, l)] = Error("ENOENT")
    BY <1>1, <1>4, <1>5
  <2>2. p \in NewPlace(t, name, modes)
    OBVIOUS
  <2> HIDE DEF name
  <2>3. Goes(u)[Resumed(<<>>, name, l)] = Found(p)
    BY <2>1, <2>2, MadeAhead
  <2> QED BY <2>3 DEF name
<1> QED BY <1>1, <1>5, <1>6, StatIs

-----------------------------------------------------------------------------
(* One link further, as the lstat of LedTo sees it. *)
NextName(p) ==
  IF Linux /\ Is(fs, Lstat(fs, p), "link") THEN fs[Lstat(fs, p).at].target ELSE p

LEMMA LedToIs ==
  /\ LedTo[0] = path
  /\ \A n \in 1 .. MaxLinks : LedTo[n] = NextName(LedTo[n - 1])
<1> DEFINE N == MaxLinks
           Body(g) == [n \in 0 .. N |-> IF n = 0 THEN path ELSE NextName(g[n - 1])]
           Good(k, g) == \A n \in 0 .. k : g[n] = IF n = 0 THEN path ELSE NextName(g[n - 1])
           B == {k \in Nat : ~\E g : Good(k, g)}
<1>1. \E g : Good(0, g)
  <2> DEFINE g == [n \in {0} |-> path]
  <2>1. g[0] = path
    OBVIOUS
  <2> HIDE DEF g
  <2>2. Good(0, g)
    BY <2>1
  <2> QED BY <2>2
<1>2. ASSUME NEW k \in Nat, NEW h, Good(k, h) PROVE \E g : Good(k + 1, g)
  <2> DEFINE g == [n \in 0 .. k + 1 |-> IF n = k + 1 THEN NextName(h[k]) ELSE h[n]]
  <2>1. \A n \in 0 .. k : g[n] = h[n] /\ n # k + 1 /\ n \in 0 .. k + 1
    OBVIOUS
  <2>2. g[k + 1] = NextName(g[k])
    BY <2>1
  <2> HIDE DEF g
  <2>3. ASSUME NEW n \in 0 .. k + 1 PROVE g[n] = IF n = 0 THEN path ELSE NextName(g[n - 1])
    <3>1. CASE n = k + 1
      <4>1. n # 0 /\ n - 1 = k
        BY <3>1
      <4> QED BY <2>2, <3>1, <4>1
    <3>2. CASE n # k + 1
      <4>1. n \in 0 .. k /\ (n # 0 => n - 1 \in 0 .. k)
        BY <3>2
      <4>2. h[n] = IF n = 0 THEN path ELSE NextName(h[n - 1])
        BY <1>2, <4>1
      <4> QED BY <2>1, <4>1, <4>2
    <3> QED BY <3>1, <3>2
  <2>4. Good(k + 1, g)
    BY <2>3
  <2> QED BY <2>4
<1>3. B = {}
  <2> HIDE DEF Good
  <2>1. SUFFICES ASSUME B # {} PROVE FALSE
    OBVIOUS
  <2>2. B \in SUBSET Nat
    OBVIOUS
  <2>3. PICK k \in B : \A m \in B : k <= m
    <3> HIDE DEF B
    <3> QED BY <2>1, <2>2, Least
  <2>4. k \in Nat /\ k # 0
    BY <1>1
  <2>5. k - 1 \in Nat /\ ~(k <= k - 1) /\ (k - 1) + 1 = k
    BY <2>4
  <2>6. \E g : Good(k - 1, g)
    BY <2>3, <2>5
  <2>7. \E g : Good((k - 1) + 1, g)
    BY <1>2, <2>5, <2>6
  <2> QED BY <2>5, <2>7
<1>4. PICK h : Good(N, h)
  <2> HIDE DEF Good
  <2> QED BY <1>3, Limits
<1> DEFINE g == [n \in 0 .. N |-> h[n]]
<1>5. \A n \in 0 .. N : n # 0 => n - 1 \in 0 .. N
  BY Limits
<1>6. g = Body(g)
  <2>1. \A n \in 0 .. N : g[n] = h[n] /\ (n # 0 => g[n - 1] = h[n - 1])
    BY <1>5
  <2>2. \A n \in 0 .. N : g[n] = IF n = 0 THEN path ELSE NextName(g[n - 1])
    <3> HIDE DEF g
    <3> QED BY <1>4, <2>1
  <2>3. g = [n \in 0 .. N |-> g[n]]
    OBVIOUS
  <2> HIDE DEF g
  <2> QED BY <2>2, <2>3
<1>7. LedTo = CHOOSE f : f = Body(f)
  BY DEF LedTo, NextName
<1>8. LedTo = Body(LedTo)
  <2> HIDE DEF Body, g
  <2> QED BY <1>6, <1>7
<1>9. 0 \in 0 .. N /\ \A n \in 1 .. N : n \in 0 .. N /\ n # 0
  BY Limits
<1> DEFINE L == LedTo
<1>10. L = Body(L)
  BY <1>8
<1> HIDE DEF L
<1>11. \A n \in 0 .. N : L[n] = IF n = 0 THEN path ELSE NextName(L[n - 1])
  BY <1>10
<1> QED BY <1>9, <1>11 DEF L

LEMMA LedOnLinux ==
  ASSUME Linux PROVE LinksOf(fs, path, LedTo)
  BY LedToIs DEF LinksOf, NextName

LEMMA LedOnWindows ==
  ASSUME ~Linux PROVE LedTo[MaxLinks] = path
<1> DEFINE B == {n \in Nat : n <= MaxLinks /\ LedTo[n] # path}
<1>1. B \in SUBSET Nat
  OBVIOUS
<1>2. B = {}
  <2>1. SUFFICES ASSUME B # {} PROVE FALSE
    OBVIOUS
  <2>2. PICK n \in B : \A m \in B : n <= m
    <3> HIDE DEF B
    <3> QED BY <1>1, <2>1, Least
  <2>3. n # 0 /\ n \in 1 .. MaxLinks /\ n - 1 \in Nat /\ ~(n <= n - 1) /\ n - 1 <= MaxLinks
    BY LedToIs, Limits
  <2>4. LedTo[n - 1] = path
    BY <2>2, <2>3
  <2> QED BY <2>3, <2>4, LedToIs DEF NextName
<1> QED BY <1>2, Limits

-----------------------------------------------------------------------------
(* An error is all that there is to say. *)
LEMMA ErrorsOnly ==
  ASSUME NEW t, TreeOK(t), NEW w \in Position, NEW e, Goes(t)[w].error = e, e # "none"
  PROVE  Goes(t)[w] = Error(e)
<1> DEFINE Ok(x) == Goes(t)[x].error = e => Goes(t)[x] = Error(e)
           T == {x \in Position : Ok(x)}
<1>1. ASSUME NEW x \in Position, Ends(t, x, TRUE) \/ Onward(t, x, TRUE) \in T, Goes(t)[x].error = e
      PROVE  Goes(t)[x] = Error(e)
  <2>1. Goes(t)[x] = StepOf(t, x, TRUE, Goes(t))
    BY GoesIs
  <2>2. CASE Ends(t, x, TRUE)
    <3>1. Goes(t)[x] = Answer(t, x, TRUE)
      BY <2>1, <2>2 DEF StepOf
    <3> QED BY <1>1, <3>1 DEF Answer, Found, Error
  <2>3. CASE ~Ends(t, x, TRUE)
    BY <1>1, <2>1, <2>3 DEF StepOf
  <2> QED BY <2>2, <2>3
<1>2. T = Position
  <2> DEFINE f == TRUE
  <2>1. T \in SUBSET Position
    OBVIOUS
  <2>2. \A x \in Position : Ends(t, x, f) \/ Onward(t, x, f) \in T => x \in T
    BY <1>1
  <2> HIDE DEF T, f
  <2> QED BY <2>1, <2>2, WalkInduction
<1> QED BY <1>2

LEMMA StatMissing ==
  ASSUME NEW t, Sound(t), NEW p \in Path, Stat(t, p).error = "ENOENT"
  PROVE  Stat(t, p) = Error("ENOENT")
<1>1. ~(Len(p) > MaxPath)
  BY StatIs DEF Error
<1>2. Start(p) \in Position /\ TreeOK(t) /\ Goes(t)[Start(p)].error = "ENOENT"
  BY <1>1, StatIs, StartIs DEF Sound
<1> DEFINE e == "ENOENT"
<1>3. e # "none" /\ Goes(t)[Start(p)].error = e
  BY <1>2
<1> HIDE DEF e
<1>4. Goes(t)[Start(p)] = Error(e)
  BY <1>2, <1>3, ErrorsOnly
<1> QED BY <1>1, <1>4, StatIs DEF e

TouchDone(c, t, x, m, y) ==
  \/ Stat(t, c.from).error = "none" /\ Stat(t, c.from).at \in y
  \/ "c" \in c.options /\ (Lstat(t, c.from).error # "none" \/ m # {})
  \/ x # {}
TouchIs(c, t, x, p, a, k, v, m, y) ==
  /\ a \in {"idle", "look", "touch", "open", "create", "stamp"}
  /\ a # "idle" => p = c.from
  /\ x = {} /\ (a \in {"look", "touch", "open", "create"} \/ (a = "idle" /\ k = "request")) =>
       t = c.tree
  /\ a = "create" /\ c.backend = "linux" /\ x = {} => Stat(t, c.from) = Error("ENOENT")
  /\ a = "stamp" => c.backend = "linux"
  /\ a = "look" => "c" \in c.options
  /\ NewKept(c, t, x, NewFileOf(c), {Len(c.from)})
  /\ k = "done" /\ v = 0 => TouchDone(c, t, x, m, y)
TouchInv == TouchIs(req, fs, theirs, path, at, pc, ret, missing, stamped)

(* Nothing in the tree changes. *)
LEMMA TouchGoes ==
  ASSUME Shape, TouchInv, UNCHANGED <<req, stack, fs, frames, theirs>>,
         path' \in Path, NEW a, at' = a, a \in {"idle", "look", "touch", "open", "create", "stamp"},
         a # "idle" => pc' = "request" /\ path' = req.from,
         a \in {"look", "touch", "open", "create"} =>
           at \in {"look", "touch", "open", "create"} \/ (at = "idle" /\ pc = "request"),
         a = "create" /\ req.backend = "linux" /\ theirs = {} => Stat(fs, req.from) = Error("ENOENT"),
         a = "stamp" => req.backend = "linux",
         a = "look" => "c" \in req.options,
         a = "idle" => pc' = "done",
         pc' = "done" /\ ret' = 0 => TouchDone(req, fs, theirs, missing', stamped')
  PROVE  Shape' /\ TouchInv' /\ req' = req
<1>1. Shape'
  BY DEF Shape, Copying, CopyCalls
<1>2. TouchIs(req, fs', theirs', path', at', pc', ret', missing', stamped')
  BY DEF TouchInv, TouchIs
<1> QED BY <1>1, <1>2 DEF TouchInv

LEMMA TouchNew ==
  ASSUME Shape, TouchInv, at = "create", NEW p \in NewFile, fs' = With(fs, p, NewFileOf(req))
  PROVE  /\ Sound(fs') /\ Shaped(fs')
         /\ NewKept(req, fs', theirs, NewFileOf(req), {Len(req.from)})
         /\ theirs = {} => Stat(fs', req.from) = Found(p)
<1> DEFINE node == NewFileOf(req)
           name == LedTo[MaxLinks]
<1>1. /\ Sound(fs) /\ Shaped(fs) /\ path \in Path /\ req \in Requests /\ path = req.from
      /\ NewKept(req, fs, theirs, node, {Len(req.from)})
      /\ (req.backend = "linux" /\ theirs = {} => Stat(fs, path) = Error("ENOENT"))
  BY DEF Shape, TouchInv, TouchIs
<1>2. node \in Node /\ node.kind = "file"
  BY CommandsAssumption, UmaskLeaves, Nodes DEF NewFileOf
<1>3. p \in NewPlace(fs, name, Writable) /\ fs' = With(fs, p, node)
  BY DEF NewFile
<1>4. name \in Path
  <2>1. CASE Linux
    <3> DEFINE B == {n \in Nat : n <= MaxLinks /\ LedTo[n] \notin Path}
    <3>1. B \in SUBSET Nat
      OBVIOUS
    <3>2. B = {}
      <4>1. SUFFICES ASSUME B # {} PROVE FALSE
        OBVIOUS
      <4>2. PICK n \in B : \A m \in B : n <= m
        <5> HIDE DEF B
        <5> QED BY <3>1, <4>1, Least
      <4>3. n # 0 /\ n \in 1 .. MaxLinks /\ n - 1 \in Nat /\ ~(n <= n - 1) /\ n - 1 <= MaxLinks
        BY <1>1, LedToIs, Limits
      <4>4. LedTo[n - 1] \in Path
        BY <4>2, <4>3
      <4>5. Is(fs, Lstat(fs, LedTo[n - 1]), "link") => fs[Lstat(fs, LedTo[n - 1]).at].target \in Path
        BY <1>1, Linked DEF Is, Sound
      <4>6. NextName(LedTo[n - 1]) \in Path
        BY <4>4, <4>5 DEF NextName
      <4>7. LedTo[n] = NextName(LedTo[n - 1])
        BY <4>3, LedToIs
      <4> QED BY <4>6, <4>7
    <3> QED BY <3>2, Limits
  <2>2. CASE ~Linux
    BY <1>1, <2>2, LedOnWindows
  <2> QED BY <2>1, <2>2
<1> HIDE DEF node, name
<1> DEFINE u == With(fs, p, node)
<1>5. /\ p \in Path /\ p \notin DOMAIN fs
      /\ Front(p) \in DOMAIN fs /\ fs[Front(p)].kind = "dir" /\ Stat(u, name) = Found(p)
  BY <1>1, <1>2, <1>3, <1>4, NewIsThere
<1>6. fs' = u
  BY <1>3
<1> DEFINE v == u
<1>0. v = With(fs, p, node) /\ fs' = v /\ Stat(v, name) = Found(p)
  BY <1>5, <1>6
<1> HIDE DEF v
<1>7. Sound(v) /\ Shaped(v) /\ Within(fs, v) /\ More(fs, v, p, node)
  BY <1>0, <1>1, <1>2, <1>5, WithIs
<1>8. theirs = {} => Stat(v, path) = Found(p)
  <2>1. CASE Linux
    <3>1. theirs = {} => Stat(fs, path) = Error("ENOENT")
      BY <1>1, <2>1 DEF Linux
    <3>2. LinksOf(fs, path, LedTo)
      BY <2>1, LedOnLinux
    <3> DEFINE L == LedTo
               m == Writable
    <3>3. p \in NewPlace(fs, L[MaxLinks], m) /\ LinksOf(fs, path, L)
      BY <1>3, <3>2 DEF name
    <3>4. node.kind # "link"
      BY <1>2
    <3> HIDE DEF L, m
    <3> SUFFICES ASSUME theirs = {} PROVE Stat(v, path) = Found(p)
      OBVIOUS
    <3>5. Stat(fs, path) = Error("ENOENT")
      BY <3>1
    <3>6. node \in Node /\ v = With(fs, p, node) /\ Sound(v) /\ Within(fs, v) /\ Sound(fs) /\ path \in Path
      BY <1>0, <1>1, <1>2, <1>7
    <3> HIDE DEF v
    <3> DEFINE w == v
    <3>7. w = With(fs, p, node) /\ Sound(w) /\ Within(fs, w)
      BY <3>6
    <3> HIDE DEF w
    <3>8. Stat(w, path) = Found(p)
      BY <3>3, <3>4, <3>5, <3>6, <3>7, MadeThroughLinks
    <3> QED BY <3>6, <3>7, <3>8
  <2>2. CASE ~Linux
    BY <1>0, <2>2, LedOnWindows DEF name
  <2> QED BY <2>1, <2>2
<1> DEFINE N == {Len(req.from)}
<1>9. N \in SUBSET (1 .. Len(req.from)) /\ (\A n \in N : Initial(req.from, n) = req.from) /\ N # {}
  <2> DEFINE f == req.from
  <2>1. f \in Path /\ f # <<>>
    BY <1>1, Trees
  <2> HIDE DEF f
  <2>2. Len(f) \in 1 .. Len(f)
    BY <2>1 DEF Path
  <2>3. Initial(f, Len(f)) = f
    BY <2>1, <2>2, InitialIs
  <2> QED BY <2>2, <2>3 DEF f
<1>10. NewKept(req, fs, theirs, node, N) /\ (theirs # {} \/ \E n \in N : Stat(v, Initial(req.from, n)) = Found(p))
  BY <1>1, <1>8, <1>9
<1> HIDE DEF N
<1>11. NewKept(req, v, theirs, node, N)
  BY <1>1, <1>5, <1>7, <1>9, <1>10, NewMore
<1> QED BY <1>0, <1>1, <1>7, <1>8, <1>11 DEF N, node


LEMMA TouchCreates ==
  ASSUME Shape, TouchInv, pc = "request", Create \/ OpenAlways
  PROVE  Shape' /\ TouchInv' /\ req' = req
<1>1. /\ at = "create" /\ path = req.from /\ path \in Path
      /\ (req.backend = "linux" /\ theirs = {} => Stat(fs, path) = Error("ENOENT"))
      /\ UNCHANGED <<req, stack, path, frames, theirs, missing>>
  BY DEF Create, OpenAlways, Shape, TouchInv, TouchIs, copied
<1>2. CASE \E p \in NewFile :
             /\ fs' = With(fs, p, NewFileOf(req))
             /\ \/ p \in stamped' /\ Finish(0)
                \/ Linux /\ Go("stamp")
  <2>1. PICK p \in NewFile : /\ fs' = With(fs, p, NewFileOf(req))
                             /\ \/ p \in stamped' /\ Finish(0)
                                \/ Linux /\ Go("stamp")
    BY <1>2
  <2>2. /\ Sound(fs') /\ Shaped(fs')
        /\ NewKept(req, fs', theirs, NewFileOf(req), {Len(req.from)})
        /\ theirs = {} => Stat(fs', req.from) = Found(p)
    BY <1>1, <2>1, TouchNew
  <2>3. at' \in {"idle", "stamp"} /\ (at' = "stamp" => Linux /\ pc' = "request")
        /\ (at' = "idle" => pc' = "done" /\ p \in stamped')
    BY <2>1 DEF Finish, Go
  <2>4. pc' = "done" => TouchDone(req, fs', theirs, missing', stamped')
    <3>1. Found(p).error = "none" /\ Found(p).at = p
      BY Errors
    <3>2. pc' = "done" => p \in stamped'
      BY <2>3
    <3>3. CASE theirs = {}
      BY <2>2, <3>1, <3>2, <3>3 DEF TouchDone
    <3>4. CASE theirs # {}
      BY <3>4 DEF TouchDone
    <3> QED BY <3>3, <3>4
  <2>5. TouchIs(req, fs', theirs', path', at', pc', ret', missing', stamped')
    BY <1>1, <2>2, <2>3, <2>4 DEF TouchIs, Linux
  <2>6. Shape'
    BY <1>1, <2>2, <2>3 DEF Shape, Copying, CopyCalls
  <2> QED BY <1>1, <2>5, <2>6 DEF TouchInv
<1>3. CASE Create /\ OldFile # {} /\ UNCHANGED <<fs, stamped>>
  <2>1. Stat(fs, path).error = "none" /\ req.backend = "linux"
    BY <1>3 DEF OldFile, Create, Linux
  <2>2. theirs # {}
    BY <1>1, <2>1 DEF Error
  <2>3. \/ at' = "idle" /\ pc' = "done"
        \/ at' = "stamp" /\ pc' = "request"
    BY <1>3 DEF Create, Finish, Go
  <2>4. TouchDone(req, fs, theirs, missing', stamped')
    BY <2>2 DEF TouchDone
  <2>5. path' \in Path /\ fs' = fs /\ (at' # "idle" => pc' = "request" /\ path' = req.from)
    BY <1>1, <1>3, <2>3
  <2> DEFINE a == at'
  <2>6. /\ a \in {"idle", "stamp"} /\ at' = a /\ (a = "idle" => pc' = "done")
        /\ (a # "idle" => pc' = "request" /\ path' = req.from)
    BY <2>3, <2>5
  <2> HIDE DEF a
  <2> QED BY <1>1, <2>1, <2>4, <2>5, <2>6, TouchGoes
<1>4. CASE \E p \in OldFile : SetTime(p) /\ UNCHANGED fs
  <2>1. PICK p \in OldFile : SetTime(p) /\ UNCHANGED fs
    BY <1>4
  <2>2. p = Stat(fs, path).at /\ Stat(fs, path).error = "none"
    BY DEF OldFile
  <2>3. at' = "idle" /\ pc' = "done" /\ p \in stamped'
    BY <2>1 DEF SetTime, Finish
  <2>4. TouchDone(req, fs, theirs, missing', stamped')
    BY <1>1, <2>2, <2>3 DEF TouchDone
  <2> DEFINE a == "idle"
  <2>5. at' = a /\ a = "idle" /\ pc' = "done"
    BY <2>3
  <2> HIDE DEF a
  <2> QED BY <1>1, <2>1, <2>4, <2>5, TouchGoes
<1> QED
  <2>0. \A p : Creation(p) = With(fs, p, NewFileOf(req))
    BY CreationIs
  <2>1. ASSUME Create, NEW p \in NewFile, fs' = With(fs, p, NewFileOf(req)),
               stamped' = IF Option("t") THEN stamped ELSE stamped \cup {p}
        PROVE  (p \in stamped' /\ Finish(0)) \/ (Linux /\ Go("stamp"))
    <3>1. Linux /\ (IF Option("t") THEN Go("stamp") ELSE Finish(0))
      BY <2>1 DEF Create
    <3>2. ~Option("t") => p \in stamped'
      BY <2>1
    <3> QED BY <3>1, <3>2
  <2>2. Create => \/ \E p \in NewFile :
                       /\ fs' = With(fs, p, NewFileOf(req))
                       /\ stamped' = IF Option("t") THEN stamped ELSE stamped \cup {p}
                  \/ OldFile # {} /\ UNCHANGED <<fs, stamped>>
    BY <2>0 DEF Create
  <2>3. OpenAlways => \/ \E p \in NewFile : fs' = With(fs, p, NewFileOf(req)) /\ SetTime(p)
                      \/ \E p \in OldFile : SetTime(p) /\ UNCHANGED fs
    BY <2>0 DEF OpenAlways
  <2>4. \A p : SetTime(p) => Finish(0) /\ p \in stamped'
    BY DEF SetTime
  <2> QED BY <1>2, <1>3, <1>4, <2>1, <2>2, <2>3, <2>4

LEMMA TouchStep ==
  ASSUME Shape, TouchInv, req.call = "touch", [CommandsNext]_allVars
  PROVE  Shape' /\ TouchInv' /\ req' = req
<1>1. /\ at # "idle" => pc = "request" /\ path = req.from
      /\ path \in Path /\ req.from \in Path /\ req.backend \in {"linux", "windows"}
  BY Trees DEF Shape, TouchInv, TouchIs
<1>2. CASE UNCHANGED allVars
  BY <1>2 DEF allVars, vars, own, Shape, TouchInv, Copying, CopyCalls
<1>3. CASE InvalidDate
  <2> DEFINE a == "idle"
  <2>1. at' = a /\ pc' = "done" /\ ret' = -1 /\ UNCHANGED <<req, stack, fs, path, frames, theirs>>
    BY <1>3 DEF InvalidDate, Finish, copied
  <2>2. a = "idle"
    OBVIOUS
  <2> HIDE DEF a
  <2> QED BY <1>1, <2>1, <2>2, TouchGoes
<1>4. CASE Begin
  <2> DEFINE a == IF Option("c") THEN "look" ELSE "touch"
  <2>1. /\ pc = "request" /\ at = "idle" /\ at' = a /\ pc' = pc /\ ret' = ret
        /\ path' = req.from /\ UNCHANGED <<req, stack, fs, frames, theirs>>
    BY <1>4 DEF Begin, copied, Go
  <2>2. a \in {"look", "touch"} /\ (a = "look" => "c" \in req.options)
    BY DEF Option
  <2> HIDE DEF a
  <2> QED BY <1>1, <2>1, <2>2, TouchGoes
<1>5. CASE LookMissing
  <2> DEFINE a == "idle"
  <2>1. /\ at = "look" /\ at' = a /\ pc' = "done"
        /\ UNCHANGED <<req, stack, fs, path, frames, theirs>>
        /\ \/ PathType(fs, path) = "missing"
           \/ missing' = missing \cup {Lstat(fs, path).at}
    BY <1>5 DEF LookMissing, Finish, copied
  <2>2. (Lstat(fs, req.from).error # "none" \/ missing' # {}) /\ "c" \in req.options
    BY <1>1, <2>1, TypeOf DEF TouchInv, TouchIs
  <2>3. a = "idle"
    OBVIOUS
  <2> HIDE DEF a
  <2>4. TouchDone(req, fs, theirs, missing', stamped')
    BY <2>2 DEF TouchDone
  <2> QED BY <1>1, <2>1, <2>2, <2>3, <2>4, TouchGoes
<1>6. CASE Look
  <2> DEFINE a == "touch"
  <2>1. /\ at = "look" /\ at' = a /\ pc' = pc /\ ret' = ret
        /\ UNCHANGED <<req, stack, fs, path, frames, theirs>>
    BY <1>6 DEF Look, Go, copied
  <2>2. a = "touch"
    OBVIOUS
  <2> HIDE DEF a
  <2> QED BY <1>1, <2>1, <2>2, TouchGoes
<1>7. CASE Stamp \/ OpenExisting
  <2> DEFINE a == "idle"
  <2>1. /\ Stat(fs, path).error = "none" /\ Stat(fs, path).at \in stamped' /\ at # "idle"
        /\ at' = a /\ pc' = "done" /\ UNCHANGED <<req, stack, fs, path, frames, theirs>>
    BY <1>7 DEF Stamp, OpenExisting, SetTime, Finish, copied
  <2>2. TouchDone(req, fs, theirs, missing', stamped')
    BY <1>1, <2>1 DEF TouchDone
  <2>3. a = "idle"
    OBVIOUS
  <2> HIDE DEF a
  <2> QED BY <1>1, <2>1, <2>2, <2>3, TouchGoes
<1>8. CASE StampMissing
  <2> DEFINE a == "create"
  <2>1. /\ at = "touch" /\ Stat(fs, path).error = "ENOENT" /\ at' = a /\ pc' = pc /\ ret' = ret
        /\ UNCHANGED <<req, stack, fs, path, frames, theirs>>
    BY <1>8 DEF StampMissing, Go, copied
  <2>2. Stat(fs, req.from) = Error("ENOENT")
    BY <1>1, <2>1, StatMissing DEF Shape
  <2>3. a = "create"
    OBVIOUS
  <2> HIDE DEF a
  <2> QED BY <1>1, <2>1, <2>2, <2>3, TouchGoes
<1>15. CASE \/ StampFails
            \/ CreateFails /\ UNCHANGED fs
            \/ OpenExistingFails
  <2> DEFINE a == "idle"
  <2>1. at' = a /\ pc' = "done" /\ ret' = -1 /\ UNCHANGED <<req, stack, fs, path, frames, theirs>>
    BY <1>15 DEF StampFails, CreateFails, OpenExistingFails, Finish, copied
  <2>2. a = "idle"
    OBVIOUS
  <2> HIDE DEF a
  <2> QED BY <1>1, <2>1, <2>2, TouchGoes
<1>9. CASE StampFails \/ CreateFails \/ OpenExistingFails
  <2>1. CASE CreateFails /\ \E p \in NewFile : fs' = Creation(p)
    <3>1. PICK p \in NewFile : fs' = With(fs, p, NewFileOf(req))
      BY <2>1, CreationIs
    <3>2. /\ at = "create" /\ at' = "idle" /\ pc' = "done" /\ ret' = -1
          /\ UNCHANGED <<req, stack, path, frames, theirs>>
      BY <2>1 DEF CreateFails, Finish, copied
    <3>3. Sound(fs') /\ Shaped(fs') /\ NewKept(req, fs', theirs, NewFileOf(req), {Len(req.from)})
      BY <3>1, <3>2, TouchNew
    <3>4. TouchIs(req, fs', theirs', path', at', pc', ret', missing', stamped')
      BY <3>2, <3>3 DEF TouchIs
    <3>5. Shape'
      BY <3>2, <3>3 DEF Shape, Copying, CopyCalls
    <3> QED BY <3>2, <3>4, <3>5 DEF TouchInv
  <2>2. CreateFails => UNCHANGED fs \/ \E p \in NewFile : fs' = Creation(p)
    BY DEF CreateFails
  <2> QED BY <1>9, <1>15, <2>1, <2>2
<1>10. CASE Attributes
  <2> DEFINE a == IF Lstat(fs, path).error = "none" THEN "open" ELSE "create"
  <2>1. /\ at = "touch" /\ ~Linux /\ at' = a /\ pc' = pc /\ ret' = ret
        /\ UNCHANGED <<req, stack, fs, path, frames, theirs>>
    BY <1>10 DEF Attributes, Go, copied, Windows, Linux
  <2>2. a \in {"open", "create"} /\ req.backend # "linux"
    BY <2>1 DEF Linux
  <2> HIDE DEF a
  <2> QED BY <1>1, <2>1, <2>2, TouchGoes
<1>11. CASE Create \/ OpenAlways
  <2>1. pc = "request"
    BY <1>1, <1>11 DEF Create, OpenAlways
  <2> QED BY <1>11, <2>1, TouchCreates
<1>12. CASE OthersCreate \/ OthersRemove
  <2>1. at # "idle" /\ pc = "request"
    BY <1>1, <1>12 DEF OthersCreate, OthersRemove, Room
  <2>2. UNCHANGED <<req, stack, path, frames, at, pc, ret, missing, stamped>>
    BY <1>12 DEF OthersCreate, OthersRemove, copied
  <2>3. PICK p \in Path :
          /\ theirs' = theirs \cup {p}
          /\ More(fs, fs', p, File(Empty, "rw")) \/ Less(fs, fs', p)
          /\ Sound(fs') /\ Shaped(fs')
    BY <1>12, Others
  <2>4. NewKept(req, fs', theirs', NewFileOf(req), {Len(req.from)})
    <3>1. NewKept(req, fs, theirs, NewFileOf(req), {Len(req.from)})
      BY DEF TouchInv, TouchIs
    <3> QED BY <2>3, <3>1, NewOthers
  <2>5. theirs' # {}
    BY <2>3
  <2>6. TouchIs(req, fs', theirs', path', at', pc', ret', missing', stamped')
    BY <2>1, <2>2, <2>4, <2>5 DEF TouchIs, TouchInv
  <2>7. at # "unlink"
    BY DEF TouchInv, TouchIs
  <2> QED BY <2>2, <2>3, <2>6, <2>7 DEF TouchInv, Shape, Copying, CopyCalls
<1>13. ~(Test \/ Copy)
  BY NoCopies DEF Test, Copy
<1>14. ~(Unlink \/ UnlinkFails \/ List \/ ListFails \/ EndOfEntries \/ Rmdir
         \/ RmdirFails \/ (\E n \in Name : NextEntry(n)) \/ Mkdir \/ MkdirCollides \/ MkdirFails \/ MkdirExists)
  BY DEF TouchInv, TouchIs, Unlink, UnlinkFails, List, ListFails, EndOfEntries, Rmdir,
         RmdirFails, NextEntry, Mkdir, MkdirCollides, MkdirFails, MkdirExists
<1> QED BY <1>2, <1>3, <1>4, <1>5, <1>6, <1>7, <1>8, <1>9, <1>10, <1>11, <1>12, <1>13, <1>14
        DEF CommandsNext, Command

-----------------------------------------------------------------------------
(* What the predicates find is there, and no link. *)
LEMMA FoundByTest ==
  ASSUME Sound(fs), req.from \in Path, Predicate(fs, req.from), ~Option("e")
  PROVE  Stat(fs, req.from).error = "none"
<1> DEFINE p == req.from
<1>1. \/ PathType(fs, p) = "file" \/ PathType(fs, p) = "directory"
      \/ Sized(fs, p) \/ Readable(fs, p)
  BY DEF Predicate, Changeable
<1>2. \/ \E kind \in {"file", "dir"} : Is(fs, Lstat(fs, p), kind)
      \/ Stat(fs, p).error = "none"
  BY <1>1, TypeOf DEF Sized, Readable, Is
<1>3. ASSUME NEW kind \in {"file", "dir"}, Is(fs, Lstat(fs, p), kind) PROVE Stat(fs, p).error = "none"
  <2>1. Lstat(fs, p).error = "none" /\ fs[Lstat(fs, p).at].kind # "link"
    BY <1>3 DEF Is
  <2> HIDE DEF p
  <2>2. p \in Path
    BY DEF p
  <2> QED BY <2>1, <2>2, LstatThenStat
<1> QED BY <1>2, <1>3

(* test and calls of no command change nothing. *)
StillInv ==
  /\ at = "idle" /\ fs = req.tree /\ theirs = {}
  /\ Done("test") /\ ret = 0 /\ ~Option("e") => Stat(fs, req.from).error = "none"

LEMMA StillStep ==
  ASSUME Shape, StillInv, req.call \notin {"rm", "mkdir", "touch"},
         [CommandsNext]_allVars
  PROVE  Shape' /\ StillInv' /\ req' = req
<1>1. CASE UNCHANGED allVars
  BY <1>1 DEF allVars, vars, own, Shape, StillInv, Done, Option, Copying, CopyCalls
<1>2. CASE Test
  <2>1. /\ req.call = "test" /\ pc' = "done" /\ at' = "idle"
        /\ ret' = (IF Predicate(fs, req.from) THEN 0 ELSE -1)
        /\ UNCHANGED <<req, fs, stack, path, frames, theirs>>
    BY <1>2 DEF Test, Finish, copied
  <2>2. Sound(fs) /\ req.from \in Path
    BY Trees DEF Shape
  <2>3. ret' = 0 => Predicate(fs, req.from)
    BY <2>1
  <2>4. ret' = 0 /\ ~Option("e") => Stat(fs, req.from).error = "none"
    BY <2>2, <2>3, FoundByTest
  <2>5. StillInv'
    BY <2>1, <2>4 DEF StillInv, Option
  <2>6. Shape'
    BY <2>1 DEF Shape, Copying, CopyCalls
  <2> QED BY <2>1, <2>5, <2>6
<1>3. ~(InvalidDate \/ Begin \/ Copy)
  BY NoCopies DEF InvalidDate, Begin, Copy, Dated
<1>4. at = "idle"
  BY DEF StillInv
<1>5. ~(LookMissing \/ Look \/ Unlink \/ UnlinkFails
        \/ List \/ ListFails \/ EndOfEntries \/ Rmdir \/ RmdirFails
        \/ (\E n \in Name : NextEntry(n))
        \/ Mkdir \/ MkdirCollides \/ MkdirFails \/ MkdirExists)
  BY <1>4 DEF LookMissing, Look, Unlink, UnlinkFails, List, ListFails, EndOfEntries, Rmdir,
         RmdirFails, NextEntry, Mkdir, MkdirCollides, MkdirFails, MkdirExists
<1>6. ~(Stamp \/ StampMissing \/ StampFails \/ Create \/ CreateFails
        \/ Attributes \/ OpenAlways \/ OpenExisting \/ OpenExistingFails
        \/ OthersCreate \/ OthersRemove)
  BY <1>4 DEF Stamp, StampMissing, StampFails,
         Create, CreateFails, Attributes, OpenAlways, OpenExisting, OpenExistingFails,
         OthersCreate, OthersRemove, Room
<1> QED BY <1>1, <1>2, <1>3, <1>5, <1>6 DEF CommandsNext, Command

CommandsInv ==
  /\ req \in Requests
  /\ Copying => CopyInv /\ SelfInv /\ NamedInv /\ WholeInv /\ at = "idle" /\ theirs = {}
  /\ ~Copying =>
       /\ Shape
       /\ req.call = "rm" => RmInv /\ CauseInv
       /\ req.call = "mkdir" => MkdirInv
       /\ req.call = "touch" => TouchInv
       /\ req.call \notin {"rm", "mkdir", "touch"} => StillInv

LEMMA CommandsBegin == CommandsInit => CommandsInv
<1> SUFFICES ASSUME CommandsInit PROVE CommandsInv
  OBVIOUS
<1>1. /\ req \in Requests /\ fs = req.tree /\ pc = "request" /\ stack = <<>> /\ ret = 0
      /\ at = "idle" /\ path = req.from /\ frames = <<>> /\ theirs = {}
  BY DEF CommandsInit, Init
<1>2. CopyInv /\ SelfInv /\ NamedInv /\ WholeInv
  BY CopyInit DEF CommandsInit, Init, SelfInv, NamedInv, WholeInv
<1>3. ~Copying => Shape
  <2>1. req.from \in Path /\ Sound(fs) /\ Shaped(fs) /\ frames \in Seq(RmFrames)
    BY <1>1, Trees
  <2> QED BY <1>1, <2>1 DEF Shape
<1>4. RmIs(req, fs, theirs, frames, path, at, pc, ret, missing)
  BY <1>1 DEF RmIs, RmWhere, Trail, RmKept, Follows
<1>9. CauseInv
  <2>1. faults = 0
    BY DEF CommandsInit, Init
  <2> QED BY <1>1, <2>1 DEF CauseInv, RmSure
<1>5. MkdirIs(req, fs, theirs, path, at, pc, ret)
  BY <1>1 DEF MkdirIs, NewKept
<1>6. TouchIs(req, fs, theirs, path, at, pc, ret, missing, stamped)
  BY <1>1 DEF TouchIs, NewKept
<1>7. StillInv
  BY <1>1 DEF StillInv, Done
<1> QED BY <1>1, <1>2, <1>3, <1>4, <1>5, <1>6, <1>7, <1>9 DEF CommandsInv, RmInv, MkdirInv, TouchInv

LEMMA CommandsStep == CommandsInv /\ [CommandsNext]_allVars => CommandsInv'
<1> SUFFICES ASSUME CommandsInv, [CommandsNext]_allVars PROVE CommandsInv'
  OBVIOUS
<1>1. CASE Copying
  <2>1. CopyInv /\ SelfInv /\ NamedInv /\ WholeInv /\ at = "idle" /\ theirs = {} /\ req \in Requests
        /\ req.call \in CopyCalls
    BY <1>1 DEF CommandsInv, Copying
  <2>2. ~(Command \/ OthersCreate \/ OthersRemove)
    <3>1. ~(LookMissing \/ Look \/ Unlink \/ UnlinkFails
            \/ List \/ ListFails \/ EndOfEntries \/ Rmdir \/ RmdirFails
            \/ (\E n \in Name : NextEntry(n))
            \/ Mkdir \/ MkdirCollides \/ MkdirFails \/ MkdirExists)
      BY <2>1 DEF LookMissing, Look, Unlink, UnlinkFails, List, ListFails, EndOfEntries, Rmdir,
             RmdirFails, NextEntry, Mkdir, MkdirCollides, MkdirFails, MkdirExists
    <3>2. ~(Stamp \/ StampMissing \/ StampFails \/ Create \/ CreateFails
            \/ Attributes \/ OpenAlways \/ OpenExisting \/ OpenExistingFails
            \/ OthersCreate \/ OthersRemove)
      BY <2>1 DEF Stamp, StampMissing, StampFails,
             Create, CreateFails, Attributes, OpenAlways, OpenExisting, OpenExistingFails,
             OthersCreate, OthersRemove, Room
    <3>3. ~(InvalidDate \/ Begin \/ Test)
      BY <2>1 DEF InvalidDate, Begin, Test, Dated, CopyCalls
    <3> QED BY <3>1, <3>2, <3>3 DEF Command
  <2>3. [Next]_vars /\ UNCHANGED own
    BY <2>2 DEF CommandsNext, Copy, allVars
  <2>4. CopyInv' /\ SelfInv' /\ NamedInv' /\ WholeInv'
    BY <2>1, <2>3, CopyStep, SelfStep, NamedStep, WholeStep
  <2>5. at' = "idle" /\ theirs' = {}
    BY <2>1, <2>3 DEF own
  <2>6. req' = req
    BY <2>3 DEF vars, Next, CopyDir, CopyFile, RefuseCopy,
     EnterExisting, EnterNew, EnterNewFails, EnterFails, ReadDirectory, ReadFile, ReadOther,
     ReadUnreachable, ReadFails, EndOfDirectory, OpenOver, OpenNew, OpenFails, Written, WriteFails,
     CloseDirectory, CloseFails, Step, EnterNowhere, OpenPipe, LeaveLoop, Call
  <2>7. Copying'
    BY <1>1, <2>6 DEF Copying
  <2> QED BY <2>1, <2>4, <2>5, <2>6, <2>7 DEF CommandsInv
<1>2. CASE ~Copying
  <2>1. Shape /\ req \in Requests
    BY <1>2 DEF CommandsInv
  <2>2. CASE req.call = "rm"
    <3>1. Shape' /\ RmInv' /\ CauseInv' /\ req' = req
      BY <1>2, <2>1, <2>2, RmStep, CauseStep DEF CommandsInv
    <3> QED BY <1>2, <2>1, <2>2, <3>1 DEF CommandsInv, Copying
  <2>3. CASE req.call = "mkdir"
    <3>1. Shape' /\ MkdirInv' /\ req' = req
      BY <1>2, <2>1, <2>3, MkdirStep DEF CommandsInv
    <3> QED BY <1>2, <2>1, <2>3, <3>1 DEF CommandsInv, Copying
  <2>4. CASE req.call = "touch"
    <3>1. Shape' /\ TouchInv' /\ req' = req
      BY <1>2, <2>1, <2>4, TouchStep DEF CommandsInv
    <3> QED BY <1>2, <2>1, <2>4, <3>1 DEF CommandsInv, Copying
  <2>5. CASE req.call \notin {"rm", "mkdir", "touch"}
    <3>1. Shape' /\ StillInv' /\ req' = req
      BY <1>2, <2>1, <2>5, StillStep DEF CommandsInv
    <3> QED BY <1>2, <2>1, <2>5, <3>1 DEF CommandsInv, Copying
  <2> QED BY <2>2, <2>3, <2>4, <2>5
<1> QED BY <1>1, <1>2

(***************************************************************************)
(* A file command that reports success has done what it says, whatever     *)
(* other processes do in the meantime (shell.lua:518-650).                 *)
(***************************************************************************)
THEOREM SuccessIsTrue == CommandsSpec => []SuccessMeansDone
<1>1. CommandsInv => SuccessMeansDone
  <2> SUFFICES ASSUME CommandsInv, ret = 0 PROVE SuccessMeansDone
    BY DEF SuccessMeansDone
  <2>1. ASSUME Done("rm"), NEW p \in DOMAIN fs, Under(p)
        PROVE  \/ Named \in missing
               \/ theirs # {} /\ Lstat(fs, req.from).error # "none"
    <3>1. RmGone(req, fs, theirs, missing) /\ Inside(req, p)
      BY <2>1 DEF Done, CommandsInv, Copying, CopyCalls, RmInv, RmIs, Under, Inside, Named, Operand
    <3> QED BY <3>1 DEF RmGone, Operand, Named
  <2>2. Done("mkdir") => \/ Is(fs, Stat(fs, req.from), "dir")
                         \/ Windows /\ Is(fs, Lstat(fs, req.from), "link")
    BY DEF Done, CommandsInv, Copying, CopyCalls, MkdirInv, MkdirIs, DirectoryFor, Windows
  <2>3. Done("touch") =>
         \/ Stat(fs, req.from).error = "none" /\ Stat(fs, req.from).at \in stamped
         \/ Option("c") /\ (Lstat(fs, req.from).error # "none" \/ missing # {})
         \/ theirs # {}
    BY DEF Done, CommandsInv, Copying, CopyCalls, TouchInv, TouchIs, TouchDone, Option
  <2>4. Done("test") /\ ~Option("e") => Stat(fs, req.from).error = "none"
    BY DEF Done, CommandsInv, Copying, CopyCalls, StillInv
  <2> QED BY <2>1, <2>2, <2>3, <2>4 DEF SuccessMeansDone
<1> QED BY <1>1, CommandsBegin, CommandsStep, PTL DEF CommandsSpec

(***************************************************************************)
(* The file commands make, change and remove nothing but what they name: a *)
(* copy the counterparts of its source, the others what is at, below or on *)
(* the way to their operand (shell.lua:515-517, oslinux.c:264-368).        *)
(***************************************************************************)
THEOREM NothingElse == CommandsSpec => []OnlyNamed
<1>1. CommandsInv => OnlyOperands
  <2> SUFFICES ASSUME CommandsInv, ~Copying PROVE OnlyOperands
    BY DEF OnlyOperands
  <2> DEFINE Fine(p) == /\ p \notin DOMAIN req.tree
                        /\ \/ req.call = "mkdir" /\ fs[p] = Dir(Masked("rw"))
                           \/ req.call = "touch" /\ fs[p] = File(Empty, Masked("rw"))
                        /\ \/ theirs # {}
                           \/ \E n \in 1 .. Len(req.from) :
                                /\ Stat(fs, Prefix(n)) = Found(p)
                                /\ req.call = "touch" => n = Len(req.from)
  <2>1. CASE req.call = "rm"
    <3>1. RmKept(req, fs, theirs)
      BY <2>1 DEF CommandsInv, RmInv, RmIs
    <3>2. \A p \in (Changed \cap DOMAIN fs) \ theirs : Fine(p)
      BY <3>1 DEF RmKept, Changed
    <3>3. \A p \in (DOMAIN req.tree \ DOMAIN fs) \ theirs : Under(p)
      BY <3>1 DEF RmKept, Inside, Under, Named, Operand
    <3> QED BY <2>1, <3>2, <3>3 DEF OnlyOperands
  <2>2. CASE req.call = "mkdir"
    <3>1. NewKept(req, fs, theirs, NewDir(req), 1 .. Len(req.from))
      BY <2>2 DEF CommandsInv, MkdirInv, MkdirIs
    <3>2. \A p \in (Changed \cap DOMAIN fs) \ theirs : Fine(p)
      BY <2>2, <3>1, UmaskLeaves DEF NewKept, Changed, Initial, Prefix
    <3>3. (DOMAIN req.tree \ DOMAIN fs) \ theirs = {}
      BY <3>1 DEF NewKept
    <3> QED BY <3>2, <3>3 DEF OnlyOperands
  <2>3. CASE req.call = "touch"
    <3>1. NewKept(req, fs, theirs, NewFileOf(req), {Len(req.from)})
      BY <2>3 DEF CommandsInv, TouchInv, TouchIs
    <3>0. Len(req.from) \in 1 .. Len(req.from)
      BY Trees DEF CommandsInv, Path
    <3>2. \A p \in (Changed \cap DOMAIN fs) \ theirs : Fine(p)
      BY <2>3, <3>0, <3>1, UmaskLeaves DEF NewKept, Changed, Initial, Prefix
    <3>3. (DOMAIN req.tree \ DOMAIN fs) \ theirs = {}
      BY <3>1 DEF NewKept
    <3> QED BY <3>2, <3>3 DEF OnlyOperands
  <2>4. CASE req.call \notin {"rm", "mkdir", "touch"}
    <3>1. fs = req.tree
      BY <2>4 DEF CommandsInv, StillInv
    <3> QED BY <3>1 DEF OnlyOperands, Changed
  <2> QED BY <2>1, <2>2, <2>3, <2>4
<1>2. CommandsInv => OnlyCounterparts
  BY NamedMeans DEF CommandsInv, OnlyCounterparts
<1>3. CommandsInv => OnlyNamed
  BY <1>1, <1>2 DEF OnlyNamed
<1> QED BY <1>3, CommandsBegin, CommandsStep, PTL DEF CommandsSpec

(***************************************************************************)
(* A copy that reports success is complete, for every tree and every links *)
(* in it and whatever fails: each file and directory below the source has  *)
(* a faithful copy, unless two names meet in one, or on Linux an entry was *)
(* missed after another one (oslinux.c:264-368, oswindows.c:447-520).      *)
(***************************************************************************)
THEOREM CopiesAreComplete == CommandsSpec => []CompleteUnlessMissed
<1>1. CommandsInv => CompleteUnlessMissed
  BY WholeMeans DEF CommandsInv, CompleteUnlessMissed
<1> QED BY <1>1, CommandsBegin, CommandsStep, PTL DEF CommandsSpec

(***************************************************************************)
(* However a copy ends on Linux, no file that it created is left half      *)
(* written, except one that it wrote over under a second name              *)
(* (oslinux.c:240-246).                                                    *)
(***************************************************************************)
THEOREM NothingIsLeftHalf == CommandsSpec => []NothingHalf
<1>1. CommandsInv => NothingHalf
  BY WholeMeans DEF CommandsInv, NothingHalf
<1> QED BY <1>1, CommandsBegin, CommandsStep, PTL DEF CommandsSpec

(***************************************************************************)
(* rm -rf fails only for a cause outside of what it did so far: whatever    *)
(* the tree and the links are, each of its calls finds in what rm has left  *)
(* what it would find in the least that can be left (shell.lua:515-600).    *)
(***************************************************************************)
THEOREM RmFailsForCause == CommandsSpec => []RmHasCause
<1>1. CommandsInv => RmHasCause
  <2> SUFFICES ASSUME CommandsInv, Done("rm") PROVE RmHasCause
    BY DEF RmHasCause
  <2>1. CauseInv
    BY DEF Done, CommandsInv, Copying, CopyCalls
  <2> QED BY <2>1, CauseMeans
<1> QED BY <1>1, CommandsBegin, CommandsStep, PTL DEF CommandsSpec

-----------------------------------------------------------------------------
(* Dates: the calendar read back is the calendar written. Years begin in   *)
(* the order of their numbers, and a number of days tells the year to one. *)
LEMMA LeapDaysGrow ==
  ASSUME NEW n \in Int
  PROVE  LeapDays(n) - LeapDays(n - 1) = IF Leap(n) THEN 1 ELSE 0
<1>1. n \div 4 - (n - 1) \div 4 = IF n % 4 = 0 THEN 1 ELSE 0
  OBVIOUS
<1>2. n \div 100 - (n - 1) \div 100 = IF n % 100 = 0 THEN 1 ELSE 0
  OBVIOUS
<1>3. n \div 400 - (n - 1) \div 400 = IF n % 400 = 0 THEN 1 ELSE 0
  OBVIOUS
<1>4. (n % 400 = 0 => n % 100 = 0) /\ (n % 100 = 0 => n % 4 = 0)
  OBVIOUS
<1> QED BY <1>1, <1>2, <1>3, <1>4 DEF LeapDays, Leap

LEMMA LeapDaysBound ==
  ASSUME NEW n \in Int
  PROVE  LeapDays(n) \in Int /\ 400 * LeapDays(n) \in 97 * n - 699 .. 97 * n + 396
<1>1. n \div 4 \in Int /\ 4 * (n \div 4) \in n - 3 .. n
  OBVIOUS
<1>2. n \div 100 \in Int /\ 100 * (n \div 100) \in n - 99 .. n
  OBVIOUS
<1>3. n \div 400 \in Int /\ 400 * (n \div 400) \in n - 399 .. n
  OBVIOUS
<1> QED BY <1>1, <1>2, <1>3 DEF LeapDays

LEMMA YearBeginsBound ==
  ASSUME NEW y \in Int
  PROVE  /\ YearBegins(y) \in Int
         /\ 400 * (YearBegins(y) + LeapDays(1969))
              \in 146000 * (y - 1970) + 97 * (y - 1) - 699 .. 146000 * (y - 1970) + 97 * (y - 1) + 396
<1>1. y - 1 \in Int
  OBVIOUS
<1>2. /\ LeapDays(y - 1) \in Int
      /\ 400 * LeapDays(y - 1) \in 97 * (y - 1) - 699 .. 97 * (y - 1) + 396
  BY <1>1, LeapDaysBound
<1>3. LeapDays(1969) \in Int
  BY LeapDaysBound
<1> QED BY <1>2, <1>3 DEF YearBegins

LEMMA YearEnds ==
  ASSUME NEW y \in Int
  PROVE  YearBegins(y + 1) = YearBegins(y) + IF Leap(y) THEN 366 ELSE 365
<1>1. LeapDays(y + 1 - 1) - LeapDays(y - 1) = IF Leap(y) THEN 1 ELSE 0
  <2>1. y + 1 - 1 = y
    OBVIOUS
  <2> QED BY <2>1, LeapDaysGrow
<1>2. LeapDays(y + 1 - 1) \in Int /\ LeapDays(y - 1) \in Int /\ LeapDays(1969) \in Int
  BY LeapDaysBound
<1> QED BY <1>1, <1>2 DEF YearBegins

LEMMA YearsInOrder ==
  ASSUME NEW x \in Int, NEW y \in Int, x < y
  PROVE  YearBegins(x + 1) <= YearBegins(y)
<1>1. CASE y = x + 1
  <2>1. YearBegins(y) \in Int
    BY YearBeginsBound
  <2> QED BY <1>1, <2>1
<1>2. CASE y # x + 1
  <2> DEFINE z == x + 1
  <2>1. z \in Int /\ z + 1 <= y
    BY <1>2
  <2>2. LeapDays(1969) \in Int
    BY LeapDaysBound
  <2>3. /\ YearBegins(z) \in Int
        /\ 400 * (YearBegins(z) + LeapDays(1969)) <= 146000 * (z - 1970) + 97 * (z - 1) + 396
    BY <2>1, YearBeginsBound
  <2>4. /\ YearBegins(y) \in Int
        /\ 400 * (YearBegins(y) + LeapDays(1969)) >= 146000 * (y - 1970) + 97 * (y - 1) - 699
    BY YearBeginsBound
  <2> HIDE DEF z
  <2>5. YearBegins(z) <= YearBegins(y)
    BY <2>1, <2>2, <2>3, <2>4
  <2> QED BY <2>5 DEF z
<1> QED BY <1>1, <1>2

(* The year that Civil guesses, and what it then chooses. *)
Guess(days) == 1970 + (400 * days) \div 146097

LEMMA GuessIsNear ==
  ASSUME NEW y \in Int, NEW d \in Int, YearBegins(y) <= d, d < YearBegins(y + 1)
  PROVE  Guess(d) \in Int /\ y \in Guess(d) - 1 .. Guess(d) + 1
<1>1. LeapDays(1969) = 477
  BY DEF LeapDays
<1>2. /\ YearBegins(y) \in Int
      /\ 400 * (YearBegins(y) + 477) >= 146000 * (y - 1970) + 97 * (y - 1) - 699
  BY <1>1, YearBeginsBound
<1>3. /\ YearBegins(y + 1) \in Int
      /\ 400 * (YearBegins(y + 1) + 477) <= 146000 * (y + 1 - 1970) + 97 * (y + 1 - 1) + 396
  BY <1>1, YearBeginsBound
<1>4. (400 * d) \div 146097 \in Int /\ 146097 * ((400 * d) \div 146097) \in 400 * d - 146096 .. 400 * d
  OBVIOUS
<1> DEFINE g == (400 * d) \div 146097
<1>5. g \in Int /\ 146097 * g \in 400 * d - 146096 .. 400 * d
  BY <1>4
<1> HIDE DEF g
<1>6. y - 1970 \in g - 1 .. g + 1
  BY <1>2, <1>3, <1>5
<1> QED BY <1>5, <1>6 DEF g, Guess

YearOf(days) == CHOOSE y \in Guess(days) - 1 .. Guess(days) + 1 :
                  YearBegins(y) <= days /\ days < YearBegins(y + 1)

LEMMA YearFound ==
  ASSUME NEW y \in Int, NEW d \in Int, YearBegins(y) <= d, d < YearBegins(y + 1)
  PROVE  YearOf(d) = y
<1>1. Guess(d) \in Int /\ y \in Guess(d) - 1 .. Guess(d) + 1
  BY GuessIsNear
<1> DEFINE x == YearOf(d)
<1>2. x \in Int /\ YearBegins(x) <= d /\ d < YearBegins(x + 1)
  BY <1>1 DEF YearOf
<1> HIDE DEF x
<1>3. /\ YearBegins(x) \in Int /\ YearBegins(x + 1) \in Int
      /\ YearBegins(y) \in Int /\ YearBegins(y + 1) \in Int
  BY <1>2, YearBeginsBound
<1>4. ~ x < y
  BY <1>2, <1>3, YearsInOrder
<1>5. ~ y < x
  BY <1>2, <1>3, YearsInOrder
<1>6. x = y
  BY <1>2, <1>4, <1>5
<1> QED BY <1>6 DEF x

(* The days of a year before a month, without going through the months. *)
Before(year, m) ==
  (367 * m - 362) \div 12 - (IF m <= 2 THEN 0 ELSE IF Leap(year) THEN 1 ELSE 2)

LEMMA MonthBeginsIs ==
  ASSUME NEW year \in Int, NEW month \in 1 .. 12
  PROVE  MonthBegins[year][month] = YearBegins(year) + Before(year, month)
<1>1. /\ YearBegins(year) \in Int
      /\ MonthBegins[year][month]
           = YearBegins(year) + DaysBefore[month] + IF month > 2 /\ Leap(year) THEN 1 ELSE 0
  BY YearBeginsBound DEF MonthBegins
<1>2. month \in {1, 2, 3, 4, 5, 6, 7, 8, 9, 10, 11, 12}
  OBVIOUS
<1>3. DaysBefore[month] + (IF month > 2 /\ Leap(year) THEN 1 ELSE 0) = Before(year, month)
  BY <1>2 DEF Before, DaysBefore
<1>4. DaysBefore[month] \in Int
  BY <1>2 DEF DaysBefore
<1> QED BY <1>1, <1>3, <1>4

LEMMA BeforeGrows ==
  ASSUME NEW year \in Int, NEW m \in 1 .. 12
  PROVE  /\ Before(year, m) \in Nat /\ DaysIn(year, m) \in 28 .. 31
         /\ Before(year, m) + DaysIn(year, m) <= IF Leap(year) THEN 366 ELSE 365
         /\ \A k \in 1 .. 12 : m < k => Before(year, m) + DaysIn(year, m) <= Before(year, k)
<1>1. m \in {1, 2, 3, 4, 5, 6, 7, 8, 9, 10, 11, 12}
  OBVIOUS
<1> QED BY <1>1 DEF Before, DaysIn

MonthOf(year, days) == CHOOSE m \in 1 .. 12 :
                         /\ MonthBegins[year][m] <= days
                         /\ days < MonthBegins[year][m] + DaysIn(year, m)

LEMMA MonthFound ==
  ASSUME NEW year \in Int, NEW month \in 1 .. 12, NEW d \in Int,
         MonthBegins[year][month] <= d,
         d < MonthBegins[year][month] + DaysIn(year, month)
  PROVE  MonthOf(year, d) = month
<1> DEFINE m == MonthOf(year, d)
<1>1. /\ m \in 1 .. 12
      /\ MonthBegins[year][m] <= d /\ d < MonthBegins[year][m] + DaysIn(year, m)
  BY DEF MonthOf
<1> HIDE DEF m
<1>2. YearBegins(year) \in Int
  BY YearBeginsBound
<1>3. \A k \in 1 .. 12 :
        /\ MonthBegins[year][k] = YearBegins(year) + Before(year, k)
        /\ Before(year, k) \in Nat /\ DaysIn(year, k) \in 28 .. 31
  BY MonthBeginsIs, BeforeGrows
<1>4. ~ m < month
  <2> SUFFICES ASSUME m < month PROVE FALSE
    OBVIOUS
  <2>1. Before(year, m) + DaysIn(year, m) <= Before(year, month)
    BY <1>1, BeforeGrows
  <2> QED BY <1>1, <1>2, <1>3, <2>1
<1>5. ~ month < m
  <2> SUFFICES ASSUME month < m PROVE FALSE
    OBVIOUS
  <2>1. Before(year, month) + DaysIn(year, month) <= Before(year, m)
    BY <1>1, BeforeGrows
  <2> QED BY <1>1, <1>2, <1>3, <2>1
<1>6. m = month
  BY <1>1, <1>4, <1>5
<1> QED BY <1>6 DEF m

(* Dates that exist: their seconds are read back as the same date. *)
CalendarDates ==
  {f \in [year : Int, month : 1 .. 12, day : 1 .. 31,
          hour : 0 .. 23, minute : 0 .. 59, second : 0 .. 59] :
     f.day <= DaysIn(f.year, f.month)}

CivilOn(days, rest) ==
  [year |-> YearOf(days), month |-> MonthOf(YearOf(days), days),
   day |-> days - MonthBegins[YearOf(days)][MonthOf(YearOf(days), days)] + 1,
   hour |-> rest \div 3600, minute |-> (rest \div 60) % 60, second |-> rest % 60]

LEMMA CivilIs == \A s : Civil(s) = CivilOn(s \div 86400, s % 86400)
  BY DEF Civil, CivilOn, YearOf, MonthOf, Guess

DayIs(d, y, mo, dd) ==
  /\ y \in Int /\ mo \in 1 .. 12 /\ dd \in 1 .. 31 /\ dd <= DaysIn(y, mo)
  /\ d = MonthBegins[y][mo] + dd - 1

LEMMA CivilAt ==
  ASSUME NEW y, NEW mo, NEW dd, NEW d, DayIs(d, y, mo, dd)
  PROVE  /\ d \in Int /\ YearOf(d) = y /\ MonthOf(y, d) = mo
         /\ d - MonthBegins[y][mo] + 1 = dd
<1>0. /\ y \in Int /\ mo \in 1 .. 12 /\ dd \in 1 .. 31 /\ dd <= DaysIn(y, mo)
      /\ d = MonthBegins[y][mo] + dd - 1
  BY DEF DayIs
<1>1. YearBegins(y) \in Int
  BY <1>0, YearBeginsBound
<1>2. YearBegins(y + 1) = YearBegins(y) + IF Leap(y) THEN 366 ELSE 365
  BY <1>0, YearEnds
<1>3. /\ MonthBegins[y][mo] = YearBegins(y) + Before(y, mo)
      /\ Before(y, mo) \in Nat /\ DaysIn(y, mo) \in 28 .. 31
      /\ Before(y, mo) + DaysIn(y, mo) <= IF Leap(y) THEN 366 ELSE 365
  BY <1>0, MonthBeginsIs, BeforeGrows
<1>4. /\ d \in Int /\ MonthBegins[y][mo] <= d
      /\ d < MonthBegins[y][mo] + DaysIn(y, mo)
      /\ d - MonthBegins[y][mo] + 1 = dd
  BY <1>0, <1>1, <1>3
<1>5. YearBegins(y) <= d /\ d < YearBegins(y + 1)
  <2> DEFINE a == YearBegins(y)
             b == Before(y, mo)
             k == DaysIn(y, mo)
             l == IF Leap(y) THEN 366 ELSE 365
  <2>1. /\ a \in Int /\ b \in Nat /\ k \in Int /\ l \in Int /\ d \in Int
        /\ a + b <= d /\ d < a + b + k /\ b + k <= l
    BY <1>0, <1>1, <1>3, <1>4
  <2>2. YearBegins(y + 1) = a + l
    BY <1>2
  <2> HIDE DEF a, b, k, l
  <2>3. a <= d /\ d < a + l
    BY <2>1
  <2> QED BY <2>2, <2>3 DEF a
<1>6. YearOf(d) = y
  BY <1>0, <1>4, <1>5, YearFound
<1>7. MonthOf(y, d) = mo
  BY <1>0, <1>4, MonthFound
<1> QED BY <1>4, <1>6, <1>7

LEMMA CivilOfSeconds ==
  ASSUME NEW f \in CalendarDates
  PROVE  Seconds(f) \in Int /\ Civil(Seconds(f)) = f
<1> DEFINE y == f.year
           mo == f.month
           dd == f.day
           h == f.hour
           m == f.minute
           x == f.second
           d == MonthBegins[y][mo] + dd - 1
           r == (h * 60 + m) * 60 + x
<1>1. y \in Int /\ mo \in 1 .. 12 /\ dd \in 1 .. 31
      /\ dd <= DaysIn(y, mo) /\ h \in 0 .. 23 /\ m \in 0 .. 59 /\ x \in 0 .. 59
  BY DEF CalendarDates
<1>2. f = [year |-> y, month |-> mo, day |-> dd, hour |-> h, minute |-> m, second |-> x]
  BY DEF CalendarDates
<1>3. Seconds(f) = ((d * 24 + h) * 60 + m) * 60 + x
  BY DEF Seconds
<1> HIDE DEF y, mo, dd, h, m, x
<1>4. /\ d \in Int /\ YearOf(d) = y /\ MonthOf(y, d) = mo
      /\ d - MonthBegins[y][mo] + 1 = dd
  <2>1. DayIs(d, y, mo, dd)
    BY <1>1 DEF DayIs
  <2> QED BY <2>1, CivilAt
<1>r. r = (h * 60 + m) * 60 + x
  OBVIOUS
<1>6. Seconds(f) = 86400 * d + r
  <2> HIDE DEF d
  <2> QED BY <1>1, <1>3, <1>4
<1> DEFINE s == 86400 * d + r
<1>s. s = 86400 * d + r
  OBVIOUS
<1> HIDE DEF s, r, d
<1>5. /\ r \in Nat /\ r < 86400
      /\ r \div 3600 = h /\ (r \div 60) % 60 = m /\ r % 60 = x
  <2>1. h \in Nat /\ h < 24 /\ m \in Nat /\ m < 60 /\ x \in Nat /\ x < 60
    BY <1>1
  <2>2. r = 3600 * h + 60 * m + x
    BY <1>r, <2>1
  <2>3. r \in Nat /\ r < 86400
    BY <2>1, <2>2
  <2>4. r \div 3600 = h
    BY <2>1, <2>2
  <2>5. r \div 60 = 60 * h + m
    BY <2>1, <2>2
  <2>6. r % 60 = x
    BY <2>1, <2>2
  <2>7. (60 * h + m) % 60 = m
    BY <2>1
  <2>8. (r \div 60) % 60 = m
    BY <2>5, <2>7
  <2> QED BY <2>3, <2>4, <2>6, <2>8
<1>7. s \in Int /\ s \div 86400 = d /\ s % 86400 = r
  <2>1. d \in Int /\ r \in Nat /\ r < 86400
    BY <1>4, <1>5
  <2>2. s \in Int
    BY <1>s, <2>1
  <2>3. s \div 86400 = d
    BY <1>s, <2>1
  <2>4. s % 86400 = r
    BY <1>s, <2>1
  <2> QED BY <2>2, <2>3, <2>4
<1>8. Civil(s) =
         [year |-> y, month |-> mo, day |-> d - MonthBegins[y][mo] + 1,
          hour |-> r \div 3600, minute |-> (r \div 60) % 60, second |-> r % 60]
  <2>1. Civil(s) = CivilOn(d, r)
    BY <1>7, CivilIs
  <2> QED BY <1>4, <2>1 DEF CivilOn
<1>9. Civil(s) = [year |-> y, month |-> mo, day |-> dd, hour |-> h, minute |-> m, second |-> x]
  BY <1>4, <1>5, <1>8
<1>10. Seconds(f) = s
  BY <1>6, <1>s
<1> QED BY <1>2, <1>7, <1>9, <1>10

(* The time of touch -t is one of its date's, from its first step on. *)
DateInv ==
  Dated /\ (at # "idle" \/ (pc = "done" /\ ret = 0)) => time \in TimesOf(req.date)

LEMMA DateBegin == CommandsInit => DateInv
  BY DEF CommandsInit, Init, DateInv

LEMMA DateStep == CommandsInv /\ DateInv /\ [CommandsNext]_allVars => DateInv'
<1> SUFFICES ASSUME CommandsInv, DateInv, [CommandsNext]_allVars, Dated' PROVE DateInv'
  BY DEF DateInv
<1>1. CASE UNCHANGED allVars
  BY <1>1 DEF DateInv, Dated, Option, TimesOf, allVars, vars, own, Linux, LinuxTime, WindowsTime
<1> SUFFICES ASSUME CommandsNext PROVE DateInv'
  BY <1>1
<1>2. req' = req
  BY DEF CommandsNext, Copy, Command, Next, CopyDir, CopyFile, RefuseCopy,
     EnterExisting, EnterNew, EnterNewFails, EnterFails, ReadDirectory, ReadFile, ReadOther,
     ReadUnreachable, ReadFails, EndOfDirectory, OpenOver, OpenNew, OpenFails, Written, WriteFails,
     CloseDirectory, CloseFails, Step, EnterNowhere, OpenPipe, LeaveLoop, Call, copied,
     InvalidDate, Begin, Test, LookMissing, Look, Unlink, UnlinkFails, List, ListFails,
     EndOfEntries, Rmdir, RmdirFails, NextEntry, Mkdir, MkdirCollides, MkdirFails, MkdirExists,
     Stamp, StampMissing, StampFails, Create, CreateFails, Attributes, OpenAlways,
     OpenExisting, OpenExistingFails, OthersCreate, OthersRemove
<1>3. Dated /\ req.call = "touch"
  BY <1>2 DEF Dated, Option
<1>4. ~Copying /\ Shape
  BY <1>3 DEF CommandsInv, Copying, CopyCalls
<1>5. ~Copy /\ ~Test
  BY <1>3, <1>4, NoCopies DEF Test, Copy
<1>6. CASE InvalidDate
  BY <1>6 DEF InvalidDate, Finish, DateInv
<1>7. CASE Begin
  BY <1>2, <1>3, <1>7 DEF Begin, DateInv, TimesOf, Linux, LinuxTime, WindowsTime
<1>8. CASE ~(InvalidDate \/ Begin)
  <2>1. at # "idle" /\ UNCHANGED time
    BY <1>5, <1>8 DEF CommandsNext, Command,
     LookMissing, Look, Unlink, UnlinkFails, List, ListFails,
     EndOfEntries, Rmdir, RmdirFails, NextEntry, Mkdir, MkdirCollides, MkdirFails, MkdirExists,
     Stamp, StampMissing, StampFails, Create, CreateFails, Attributes, OpenAlways,
     OpenExisting, OpenExistingFails, OthersCreate, OthersRemove, Room
  <2>2. time \in TimesOf(req.date)
    BY <1>3, <2>1 DEF DateInv
  <2> QED BY <1>2, <2>1, <2>2 DEF DateInv, TimesOf, Linux, LinuxTime, WindowsTime
<1> QED BY <1>6, <1>7, <1>8

(* The year that the digits mean, and with it the date that is read back. *)
LEMMA YearIs ==
  ASSUME NEW r \in Requests, r.call = "touch", "t" \in r.options
  PROVE  /\ Year(r.date) \in Nat /\ Year(r.date) < 10000
         /\ YearMeant(r.date, Year(r.date))
<1>1. r.date \in TouchDates /\ LinuxFields(Now).year \in Nat /\ LinuxFields(Now).year < 10000
  BY DatesAssumption
<1>2. /\ r.date.digits \in {8, 10, 12} /\ r.date.year \in Nat /\ r.date.year < 10000
      /\ r.date.digits = 10 => r.date.year < 100
  BY <1>1 DEF TouchDates
<1>3. CASE r.date.digits = 8
  <2>1. LocalFields(Now).year = LinuxFields(Now).year
    BY DEF LocalFields, LinuxFields, WindowsFields
  <2> QED BY <1>1, <1>3, <2>1 DEF Year, YearMeant
<1>4. CASE r.date.digits = 10
  <2>1. Year(r.date) = Century(r.date.year)
    BY <1>4 DEF Year
  <2>2. Century(r.date.year) \in 1969 .. 2068 /\ Century(r.date.year) % 100 = r.date.year
    BY <1>2, <1>4 DEF Century
  <2> QED BY <1>4, <2>1, <2>2 DEF YearMeant
<1>5. CASE r.date.digits = 12
  BY <1>2, <1>5 DEF Year, YearMeant
<1> QED BY <1>2, <1>3, <1>4, <1>5

LEMMA DateMeans ==
  ASSUME CommandsInv, DateInv
  PROVE  DateKept
<1> SUFFICES ASSUME Done("touch"), ret = 0, Option("t"),
                    Exists(Fields(req.date)), Shown(Seconds(Fields(req.date))) # {}
             PROVE  /\ YearMeant(req.date, LocalFields(time).year)
                    /\ \A field \in DOMAIN Fields(req.date) \ {"year"} :
                         LocalFields(time)[field] = req.date[field]
  BY DEF DateKept
<1> DEFINE f == Fields(req.date)
<1>1. time \in TimesOf(req.date)
  BY DEF DateInv, Dated, Done
<1>2. req \in Requests /\ req.call = "touch" /\ "t" \in req.options
  BY DEF CommandsInv, Done, Option
<1>3. InRange(f) /\ time \in (IF Linux THEN LinuxTime(f) ELSE WindowsTime(f))
  BY <1>1 DEF TimesOf
<1>4. f = [year |-> Year(req.date), month |-> req.date.month, day |-> req.date.day,
           hour |-> req.date.hour, minute |-> req.date.minute, second |-> req.date.second]
  BY DEF Fields
<1>5. Year(req.date) \in Nat /\ Year(req.date) < 10000 /\ YearMeant(req.date, Year(req.date))
  BY <1>2, YearIs
<1> HIDE DEF f
<1>6. Exists(f) /\ Shown(Seconds(f)) # {}
  BY DEF f
<1>7. f \in CalendarDates
  <2>1. /\ f.year \in Int /\ f.month \in 1 .. 12 /\ f.day \in 1 .. 31
        /\ f.hour \in 0 .. 23 /\ f.minute \in 0 .. 59 /\ f.second \in 0 .. 60
    BY <1>3, <1>4, <1>5 DEF InRange
  <2>2. f.day <= DaysIn(f.year, f.month) /\ f.second \in 0 .. 59
    BY <1>6, <2>1 DEF Exists
  <2> QED BY <1>4, <2>1, <2>2 DEF CalendarDates
<1>8. [f EXCEPT !.year = Word(@)] = f
  <2>1. Word(Year(req.date)) = Year(req.date)
    BY <1>5 DEF Word
  <2> QED BY <1>4, <2>1
<1>9. time \in OfLocal(Seconds(f))
  BY <1>3, <1>8 DEF LinuxTime, WindowsTime
<1>10. time + Offset(time) = Seconds(f)
  BY <1>6, <1>9 DEF OfLocal, Shown
<1>11. LocalFields(time) = f
  BY <1>7, <1>10, CivilOfSeconds DEF LocalFields, LinuxFields, WindowsFields
<1> QED BY <1>4, <1>5, <1>11 DEF f

(***************************************************************************)
(* touch -t keeps the date it is given, for every zone, clock and date of  *)
(* four digits: a local time that clocks have shown is read back as it was *)
(* written (shell.lua:214-253, oslinux.c:48-92, oswindows.c:250-315).      *)
(***************************************************************************)
THEOREM DatesAreKept == CommandsSpec => []DateKept
<1>1. CommandsInit => CommandsInv /\ DateInv
  BY CommandsBegin, DateBegin
<1>2. CommandsInv /\ DateInv /\ [CommandsNext]_allVars => CommandsInv' /\ DateInv'
  BY CommandsStep, DateStep
<1>3. CommandsInv /\ DateInv => DateKept
  BY DateMeans
<1> QED BY <1>1, <1>2, <1>3, PTL DEF CommandsSpec

-----------------------------------------------------------------------------
(***************************************************************************)
(* A copy keeps what was there, but for the mode that a counterpart takes  *)
(* over on Windows, and goes not into itself, also as one of the file      *)
(* commands (oslinux.c:151-162, oswindows.c:120, shell.lua:397-424).       *)
(***************************************************************************)
THEOREM CopiesAmongCommands == CommandsSpec => [](PriorKept /\ NotIntoItself)
<1>1. CommandsInv => PriorKept /\ NotIntoItself
  <2> SUFFICES ASSUME CommandsInv PROVE PriorKept /\ NotIntoItself
    OBVIOUS
  <2>1. CASE Copying
    <3>1. CopyInv /\ SelfInv
      BY <2>1 DEF CommandsInv
    <3> QED BY <3>1, ApartFromOwn DEF CopyInv, PriorKept
  <2>2. CASE ~Copying
    <3>1. stack = <<>>
      BY <2>2 DEF CommandsInv, Shape
    <3> QED BY <2>2, <3>1 DEF PriorKept, NotIntoItself
  <2> QED BY <2>1, <2>2
<1> QED BY <1>1, CommandsBegin, CommandsStep, PTL DEF CommandsSpec
=============================================================================
