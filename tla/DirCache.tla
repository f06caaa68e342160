------------------------------ MODULE DirCache ------------------------------
(***************************************************************************)
(* What blud knows of the file system: the directory cache of dircache.lua *)
(* over get_dir_cache of blud.c and os_get_dir of both back ends, while    *)
(* other programs change the tree.  A question is one call of              *)
(* DirCache.get_timestamp or of DirCache.expand_pattern.  Both walk the    *)
(* cache depth first, reading each directory when they first come to it.   *)
(* Paths are absolute: AliasDir.to_absolute is not part of this module.    *)
(***************************************************************************)
EXTENDS Integers, FiniteSets, FileTree

CONSTANTS Starts,      \* [backend, tree, time]: where the build begins
          Questions,   \* [ask, path, pattern]: what it asks, in any order
          BuildStart,  \* the clock at that time
          Contested,   \* paths that others create, touch and remove
          MaxTime, MaxQuestions,
          MaxTroubles  \* paths disturbed and system calls failing

Time == 0 .. MaxTime
None == -1             \* nil

\* One component of a pattern: "**", or the names that it matches
Component == [deep : BOOLEAN, names : SUBSET Name]

ASSUME QuestionsAssumption ==
  /\ MaxTime \in Nat /\ BuildStart \in Time /\ Contested \subseteq Path
  /\ \A b \in Starts : /\ DOMAIN b.tree \subseteq Path
                       /\ \A p \in DOMAIN b.tree : b.tree[p] \in Node
                       /\ b.time \in [DOMAIN b.tree -> Time]
  /\ \A q \in Questions : /\ q.ask \in {"timestamp", "glob"}
                          /\ q.path \in Path
                          /\ q.pattern \in Seq(Component)
                          /\ q.ask = "timestamp" => q.path # <<>>

VARIABLES backend,
          fs, mtime, clock,           \* the system
          cache,                      \* directory_cache
          pc,                         \* idle, get, list, walk
          question, want, stack, listing,
          words, answer, failed,      \* what the last question gave
          asked, faults,
          log, disturbed, unlinked    \* history, for the properties

system == <<fs, mtime, clock>>
history == <<log, disturbed, unlinked>>
walk == <<question, want, stack, words, answer>>
vars == <<backend, system, cache, pc, walk, listing, failed, asked, faults,
          history>>

Linux == backend = "linux"
Windows == backend = "windows"

NoListing == [dir |-> <<>>, at |-> <<>>, must |-> {}, may |-> {}, got |-> <<>>,
              seen |-> {}, future |-> FALSE]
NoWant == [dir |-> <<>>, index |-> 0, newest |-> None]
Nobody == [ask |-> "nothing", path |-> <<>>, pattern |-> <<>>]
Nothing == [n \in {} |-> 0]

Record(p, dir, time, now) ==
  [at |-> p, dir |-> dir, time |-> time, ahead |-> time > now]

Init ==
  /\ \E b \in Starts : backend = b.backend /\ fs = b.tree /\ mtime = b.time
  /\ clock = BuildStart
  /\ cache = Nothing
  /\ pc = "idle"
  /\ question = Nobody
  /\ want = NoWant
  /\ stack = <<>>
  /\ listing = NoListing
  /\ words = {} /\ answer = None /\ failed = "none"
  /\ asked = 0 /\ faults = 0
  /\ log = {Record(p, HasDirectoryAttribute(fs, p), mtime[p], clock) :
              p \in DOMAIN fs}
  /\ disturbed = {} /\ unlinked = {}

-----------------------------------------------------------------------------
(* Other programs.  What they do while blud looks only at its own tables   *)
(* they may as well do at the end of the last listing.                     *)
Around == /\ pc = "list"
          /\ UNCHANGED <<backend, cache, pc, walk, failed, asked, faults>>
Trouble == Cardinality(disturbed) + faults < MaxTroubles

Tick ==
  /\ Around
  /\ clock < MaxTime
  /\ clock' = clock + 1
  /\ UNCHANGED <<fs, mtime, listing, history>>

Touch(p, time) ==
  /\ Around /\ Trouble
  /\ fs[p].kind = "file"
  /\ time \in {clock, clock + 1} \cap Time /\ time # mtime[p]
  /\ mtime' = [mtime EXCEPT ![p] = time]
  /\ log' = log \cup {Record(p, FALSE, time, clock)}
  /\ disturbed' = disturbed \cup {p}
  /\ UNCHANGED <<fs, clock, listing, unlinked>>

Create(p) ==
  /\ Around /\ Trouble
  /\ p \in NewPlace(fs, p, {"rw"})
  /\ fs' = With(fs, p, File("data", "rw"))
  /\ mtime' = [q \in DOMAIN fs' |->
                 IF q \in {p, Front(p)} THEN clock ELSE mtime[q]]
  /\ log' = log \cup {Record(p, FALSE, clock, clock),
                      Record(Front(p), TRUE, clock, clock)}
  /\ disturbed' = disturbed \cup {p, Front(p)}
  /\ UNCHANGED <<clock, listing, unlinked>>

Unlink(p) ==
  /\ Around /\ Trouble
  /\ p # <<>> /\ fs[p].kind # "link" /\ Entries(fs, p) = {}
  /\ fs' = Without(fs, p)
  /\ mtime' = [q \in DOMAIN fs' |-> IF q = Front(p) THEN clock ELSE mtime[q]]
  /\ listing' = IF listing.at = Front(p)
                THEN [listing EXCEPT !.must = @ \ {Last(p)}] ELSE listing
  /\ log' = log \cup {Record(Front(p), TRUE, clock, clock)}
  /\ disturbed' = disturbed \cup {p, Front(p)}
  /\ unlinked' = unlinked \cup {fs[p].kind}
  /\ UNCHANGED clock

-----------------------------------------------------------------------------
(* A system call fails for reasons of its own. *)
Fault == Trouble /\ faults' = faults + 1

(* luaL_error, through every function up to the pcall in get_timestamp or  *)
(* to the caller of expand_pattern.                                        *)
Fail(why) ==
  /\ failed' = why
  /\ answer' = None
  /\ stack' = <<>>
  /\ words' = {}
  /\ want' = NoWant
  /\ listing' = NoListing
  /\ pc' = "idle"
  /\ UNCHANGED <<backend, system, history, cache, question, asked>>

Ask(q) ==
  /\ pc = "idle" /\ asked < MaxQuestions
  /\ question' = q
  /\ want' = [dir |-> IF q.ask = "timestamp" THEN Front(q.path) ELSE <<>>,
              index |-> 1, newest |-> None]
  /\ asked' = asked + 1
  /\ words' = {} /\ answer' = None /\ failed' = "none"
  /\ pc' = "get"
  /\ UNCHANGED <<backend, system, history, cache, stack, listing, faults>>

(* get_cached_dir *)
Cached == want.dir \in DOMAIN cache

Open ==
  /\ pc = "get" /\ ~Cached
  /\ Is(fs, Stat(fs, want.dir), "dir")
  /\ LET at == Stat(fs, want.dir).at
     IN  listing' = [NoListing EXCEPT !.dir = want.dir, !.at = at,
                       !.must = Entries(fs, at), !.may = Entries(fs, at)]
  /\ pc' = "list"
  /\ UNCHANGED <<backend, system, history, cache, walk, failed, asked, faults>>

OpenFails ==
  /\ pc = "get" /\ ~Cached
  /\ \/ Fault
     \/ ~Is(fs, Stat(fs, want.dir), "dir") /\ UNCHANGED faults
  /\ Fail("error")

(* readdir may return a name that is gone, and may leave out one that came *)
(* after opendir; fstatat then says what the name, links followed, is now. *)
(* A Windows listing says what it was at some time.                        *)
Readable == (listing.may \cup Entries(fs, listing.at)) \ listing.seen
Place(n) == Append(listing.at, n)
Child(n) == StatAt(fs, listing.at, n)

Entry(dir, time) == [dir |-> dir, time |-> time, virtual |-> None]
Current(n) ==
  {Entry(Is(fs, Child(n), "dir"), mtime[p]) :
     p \in {q \in DOMAIN fs : Child(n) = Found(q)}}
Buffered(n) == {Entry(r.dir, r.time) : r \in {s \in log : s.at = Place(n)}}

(* callback: is this timestamp later than the build's start and than now? *)
BeforeStart(time) == time <= BuildStart /\ time > clock   \* mutant
InFuture(time) == time > BuildStart /\ time > clock

CallbackAgain(n, entry) ==                  \* mutant: reads it once more
  listing' = [listing EXCEPT !.got = [m \in DOMAIN @ \cup {n} |->
                           IF m = n THEN entry ELSE @[m]]]
Callback(n, entry) ==
  listing' = [listing EXCEPT !.seen = @ \cup {n},
                !.got = [m \in DOMAIN @ \cup {n} |->
                           IF m = n THEN entry ELSE @[m]],
                !.future = @ \/ InFuture(entry.time)]

Read(n) ==
  /\ pc = "list" /\ n \in Readable
  /\ \E entry \in IF Linux THEN Current(n) ELSE Buffered(n) :
       Callback(n, entry)
  /\ UNCHANGED <<backend, system, history, cache, pc, walk, failed, asked,
                 faults>>

(* "A concurrent removal between readdir() and fstatat() is benign." *)
Strict(n) == FALSE                          \* mutant: every error counts
Benign(n) == Child(n).error = "ENOENT"
ReadGoneStops(n) ==                         \* mutant: break, not continue
  /\ pc = "list" /\ n \in Readable /\ Linux
  /\ Benign(n)
  /\ listing' = [listing EXCEPT !.must = {}, !.seen = @ \cup {n}]
  /\ UNCHANGED <<backend, system, history, cache, pc, walk, failed, asked,
                 faults>>
ReadGone(n) ==
  /\ pc = "list" /\ n \in Readable /\ Linux
  /\ Benign(n)
  /\ listing' = [listing EXCEPT !.seen = @ \cup {n}]
  /\ UNCHANGED <<backend, system, history, cache, pc, walk, failed, asked,
                 faults>>

Why == IF listing.future THEN "future" ELSE "error"
ReadFails(n) ==
  /\ pc = "list" /\ n \in Readable /\ Linux
  /\ Child(n).error # "none" /\ ~Benign(n)
  /\ Fail(Why)
  /\ UNCHANGED faults

(* readdir or FindNextFileW fails, or closedir. *)
ListFails ==
  /\ pc = "list"
  /\ Fault
  /\ Fail(Why)

EndOfList ==
  /\ pc = "list"
  /\ listing.must \subseteq listing.seen
  /\ IF listing.future
     THEN Fail("future") /\ UNCHANGED faults
     ELSE /\ cache' = [d \in DOMAIN cache \cup {listing.dir} |->
                         IF d = listing.dir THEN listing.got ELSE cache[d]]
          /\ listing' = NoListing
          /\ pc' = "get"
          /\ UNCHANGED <<backend, system, history, walk, failed, asked, faults>>

-----------------------------------------------------------------------------
(* A frame is a directory being walked: for a timestamp, get_path_timestamp *)
(* at the bottom and get_entry_timestamp above it; for a pattern,           *)
(* recursive_glob_match.  todo holds names, each with the component that    *)
(* what is below the name must match.                                       *)
Top == Last(stack)
SetTop(frame) == stack' = Append(Front(stack), frame)
EntryOf(d, n) == cache[d][n]
Pattern == question.pattern
Asks(kind) == question.ask = kind

(* "**" also stands for no directory at all. *)
ReachBelow(index) == {index}                \* mutant: at least one directory
Reach(index) ==
  {j \in index .. Len(Pattern) + 1 : \A k \in index .. j - 1 : Pattern[k].deep}
Matched(d, index) ==
  UNION {IF Pattern[j].deep
         THEN {<<n, j>> : n \in {m \in DOMAIN cache[d] : EntryOf(d, m).dir}}
         ELSE {<<n, j + 1>> : n \in DOMAIN cache[d] \cap Pattern[j].names} :
           j \in Reach(index) \cap DOMAIN Pattern}
Todo(d, index) ==
  IF Asks("glob") THEN Matched(d, index)
  ELSE {<<n, index>> : n \in IF stack # <<>> THEN DOMAIN cache[d]
                              ELSE DOMAIN cache[d] \cap {Last(question.path)}}

Enter ==
  /\ pc = "get" /\ Cached
  /\ stack' = Append(stack, [dir |-> want.dir, newest |-> want.newest,
                             todo |-> Todo(want.dir, want.index)])
  /\ words' = IF Asks("glob") /\ Len(Pattern) + 1 \in Reach(want.index)
              THEN words \cup {want.dir} ELSE words
  /\ want' = NoWant
  /\ pc' = "walk"
  /\ UNCHANGED <<backend, system, history, cache, question, listing, answer,
                 failed, asked, faults>>

Task == /\ pc = "walk"
        /\ UNCHANGED <<backend, system, history, listing, question, failed,
                       asked, faults>>

(* get_entry_timestamp of what needs no walk: a file, or a directory whose *)
(* timestamp is remembered.  Order does not matter among them.             *)
Remembered(entry) == IF entry.dir THEN entry.virtual ELSE entry.time
Known == {task \in Top.todo : Remembered(EntryOf(Top.dir, task[1])) # None}
Newest(times) == CHOOSE t \in times : \A u \in times : u <= t

Compare ==
  /\ Task
  /\ Asks("timestamp") /\ Known # {}
  /\ SetTop([Top EXCEPT
       !.todo = @ \ Known,
       !.newest = Newest({@} \cup {Remembered(EntryOf(Top.dir, task[1])) :
                                     task \in Known})])
  /\ UNCHANGED <<pc, cache, want, words, answer>>

(* What matches the last component, and what cannot go on. *)
Complete == {task \in Top.todo : task[2] > Len(Pattern)}
Ended == {task \in Top.todo : ~EntryOf(Top.dir, task[1]).dir}

Collect ==
  /\ Task
  /\ Asks("glob") /\ Complete \cup Ended # {}
  /\ words' = words \cup {Append(Top.dir, task[1]) : task \in Complete}
  /\ SetTop([Top EXCEPT !.todo = @ \ (Complete \cup Ended)])
  /\ UNCHANGED <<pc, cache, want, answer>>

NoTime(entry) == None                       \* mutant: only what is inside
OwnTime(entry) == entry.time
Descend(n, index) ==
  /\ Task
  /\ <<n, index>> \in Top.todo
  /\ LET entry == EntryOf(Top.dir, n)
     IN  /\ entry.dir
         /\ IF Asks("glob") THEN Complete \cup Ended = {} ELSE Known = {}
         /\ want' = [dir |-> Append(Top.dir, n), index |-> index,
                     newest |-> OwnTime(entry)]
  /\ stack' = IF Asks("glob")
              THEN Append(Front(stack), [Top EXCEPT !.todo = @ \ {<<n, index>>}])
              ELSE stack
  /\ pc' = "get"
  /\ UNCHANGED <<cache, words, answer>>

(* rawset(entry, "virtual_timestamp", newest), then the caller goes on. *)
Finish ==
  /\ Task
  /\ Top.todo = {}
  /\ stack' = Front(stack)
  /\ cache' = IF Asks("timestamp") /\ Len(stack) > 1
              THEN [cache EXCEPT ![Front(Top.dir)][Last(Top.dir)].virtual =
                                   Top.newest]
              ELSE cache
  /\ IF Len(stack) > 1 THEN UNCHANGED <<pc, answer>>
     ELSE pc' = "idle" /\ answer' = Top.newest
  /\ UNCHANGED <<want, words>>

-----------------------------------------------------------------------------
Blud ==
  \/ \E q \in Questions : Ask(q)
  \/ Open \/ OpenFails
  \/ \E n \in Name : Read(n) \/ ReadGone(n) \/ ReadFails(n)
  \/ ListFails \/ EndOfList
  \/ Enter \/ Compare \/ Collect
  \/ \E n \in Name : \E index \in 1 .. MaxPath + 1 : Descend(n, index)
  \/ Finish

Others ==
  \/ Tick
  \/ \E p \in Contested : Create(p)
  \/ \E p \in Contested \cap DOMAIN fs :
       (\E time \in Time : Touch(p, time)) \/ Unlink(p)

Next == Blud \/ Others

(* blud is one process that nothing stops; the others may do nothing. *)
Spec == Init /\ [][Next]_vars /\ WF_vars(Blud)

-----------------------------------------------------------------------------
Paths == UNION {[1 .. k -> Name] : k \in 0 .. MaxPath}
Entries_ == [dir : BOOLEAN, time : Time, virtual : Time \cup {None}]
Listings == UNION {[names -> Entries_] : names \in SUBSET Name}
Tasks == Name \X (1 .. MaxPath + 1)

(* A frame's directory is in the cache, and so is what is still to be done *)
(* there.                                                                  *)
TypeOK ==
  /\ backend \in {"linux", "windows"}
  /\ DOMAIN fs \subseteq Path /\ mtime \in [DOMAIN fs -> Time]
  /\ clock \in Time
  /\ DOMAIN cache \subseteq Path
  /\ \A d \in DOMAIN cache : cache[d] \in Listings
  /\ pc \in {"idle", "get", "list", "walk"}
  /\ pc = "walk" => stack # <<>>
  /\ \A i \in DOMAIN stack :
       /\ stack[i].dir \in DOMAIN cache
       /\ stack[i].newest \in Time \cup {None}
       /\ stack[i].todo \in SUBSET Tasks
       /\ \A task \in stack[i].todo : task[1] \in DOMAIN cache[stack[i].dir]
  /\ listing.got \in Listings
  /\ answer \in Time \cup {None}
  /\ failed \in {"none", "error", "future"}
  /\ asked \in 0 .. MaxQuestions /\ faults \in 0 .. MaxTroubles

(* No one has touched p since the build began. *)
Stable(p) == p \in DOMAIN fs /\ p \notin disturbed
Node_(path) == IF Linux THEN Stat(fs, path) ELSE Lstat(fs, path)
Answered(kind) == pc = "idle" /\ Asks(kind) /\ failed = "none"
NoLinks == \A p \in DOMAIN fs : fs[p].kind # "link"

(***************************************************************************)
(* A timestamp that was found is at least that of every file below the     *)
(* path that no one has touched since the build began, however the tree    *)
(* was changed around it while it was read and however old the listings    *)
(* are, and without links it is one that a file below the path has had     *)
(* (dircache.lua:210-244, oslinux.c:606-658).                              *)
(***************************************************************************)
KnowsStable ==
  Answered("timestamp") =>
    /\ \A r \in Paths :
         LET found == Node_(question.path \o r)
         IN  found.error = "none" /\ Stable(found.at) =>
               answer >= mtime[found.at]
    /\ answer # None /\ NoLinks =>
         \E r \in log : r.time = answer /\ IsPrefix(question.path, r.at)

(***************************************************************************)
(* A question fails only if a system call failed for reasons of its own,   *)
(* a directory was removed, links go round, or on Windows one was made for *)
(* a directory that is not there: files that come and go while their       *)
(* directory is read are no error (oslinux.c:632).  That a timestamp is in *)
(* the future is said only if some file's was later than the clock: never  *)
(* of files written during the build, which are later than its beginning   *)
(* (blud.c:195).                                                           *)
(***************************************************************************)
GoesWrong ==
  \E p \in DOMAIN fs :
    /\ fs[p].kind = "link"
    /\ \/ Stat(fs, p).error = "ELOOP" \/ IsPrefix(Stat(fs, p).at, p)
       \/ Windows /\ fs[p].directory /\ Stat(fs, p).error # "none"
ErrorHasCause ==
  failed = "error" => faults > 0 \/ "dir" \in unlinked \/ GoesWrong
FutureHasCause == failed = "future" => \E r \in log : r.ahead
FailureHasCause == ErrorHasCause /\ FutureHasCause

(***************************************************************************)
(* The cache never takes in a timestamp that is later than the clock:      *)
(* what is built now is never older than what the cache knows.             *)
(***************************************************************************)
NothingAhead ==
  \A d \in DOMAIN cache : \A n \in DOMAIN cache[d] : cache[d][n].time <= clock

(***************************************************************************)
(* A virtual timestamp is remembered only when everything below has been   *)
(* read, and is the newest of it: the directory's own and that of all      *)
(* entries, at any depth, that the cache leads to (dircache.lua:215-234).  *)
(***************************************************************************)
LeadsTo(d, c) ==
  /\ IsPrefix(d, c)
  /\ \A k \in Len(d) .. Len(c) - 1 :
       /\ SubSeq(c, 1, k) \in DOMAIN cache
       /\ c[k + 1] \in DOMAIN cache[SubSeq(c, 1, k)]
       /\ cache[SubSeq(c, 1, k)][c[k + 1]].dir
VirtualIsNewest ==
  \A d \in DOMAIN cache : \A n \in DOMAIN cache[d] :
    cache[d][n].virtual # None =>
      LET below == {c \in DOMAIN cache : LeadsTo(Append(d, n), c)}
          times == {cache[d][n].time} \cup
                   UNION {{cache[c][m].time : m \in DOMAIN cache[c]} : c \in below}
      IN  /\ Append(d, n) \in below
          /\ \A c \in below : \A m \in DOMAIN cache[c] :
               cache[c][m].dir => Append(c, m) \in below
          /\ cache[d][n].virtual \in times
          /\ \A time \in times : time <= cache[d][n].virtual

(***************************************************************************)
(* A pattern gives the paths that match it, each component in its place    *)
(* and "**" any number of directories: all of those that no one has        *)
(* touched, and none that never existed (dircache.lua:41-101).             *)
(***************************************************************************)
Matches(r) ==
  \E place \in [DOMAIN r -> DOMAIN Pattern] :
    /\ \A i, j \in DOMAIN r : i <= j => place[i] <= place[j]
    /\ \A k \in DOMAIN Pattern : ~Pattern[k].deep =>
         Cardinality({i \in DOMAIN r : place[i] = k}) = 1
    /\ \A i \in DOMAIN r :
         IF Pattern[place[i]].deep THEN Is(fs, Stat(fs, SubSeq(r, 1, i)), "dir")
         ELSE r[i] \in Pattern[place[i]].names
GlobIsExact ==
  Answered("glob") =>
    \A r \in Paths :
      /\ Node_(r).error = "none" /\ Stable(Node_(r).at) =>
           (r \in words <=> Matches(r))
      /\ r \in words /\ NoLinks => \E s \in log : s.at = r

(***************************************************************************)
(* Every question is answered, also when links go round.                   *)
(***************************************************************************)
IsAnswered == pc # "idle" ~> pc = "idle"
=============================================================================
