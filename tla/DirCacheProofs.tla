--------------------------- MODULE DirCacheProofs ---------------------------
(***************************************************************************)
(* For every tree, every set of questions and everything that others do:   *)
(* what the cache takes in is not later than the clock, a timestamp is     *)
(* called future only if a file had one, and the timestamp remembered for  *)
(* a directory is the newest of everything below it.                       *)
(***************************************************************************)
EXTENDS DirCache, WellFoundedInduction, NaturalsInduction, TLAPS

Clocks == /\ clock \in Time /\ BuildStart <= clock
          /\ DOMAIN mtime = DOMAIN fs /\ \A p \in DOMAIN fs : mtime[p] \in Time

(* The time of every file is in the log, and what is later than the clock  *)
(* now was so when the file got it.                                        *)
Logged ==
  /\ \A r \in log : r.time \in Time /\ (r.time > clock => r.ahead)
  /\ \A p \in DOMAIN fs : \E r \in log : r.time = mtime[p]

Timed(entry) == "time" \in DOMAIN entry /\ entry.time \in Time
Past(entries) ==
  \A n \in DOMAIN entries : Timed(entries[n]) /\ entries[n].time <= clock

(* A listing that is still being read holds nothing later than the clock,  *)
(* or callback has noted it.                                               *)
Listed ==
  /\ {"got", "future"} \subseteq DOMAIN listing
  /\ \A n \in DOMAIN listing.got : Timed(listing.got[n])
  /\ ~listing.future => Past(listing.got)
  /\ listing.future => \E r \in log : r.ahead

CacheInv == \A d \in DOMAIN cache : Past(cache[d])

AheadInv == Clocks /\ Logged /\ Listed /\ CacheInv /\ FutureHasCause

-----------------------------------------------------------------------------
LEMMA InitInv == Init => AheadInv
<1> SUFFICES ASSUME Init PROVE AheadInv
  OBVIOUS
<1> USE QuestionsAssumption
<1>1. PICK b \in Starts : fs = b.tree /\ mtime = b.time
  BY DEF Init
<1>2. Clocks
  BY <1>1 DEF Init, Clocks, Time
<1>3. log = {Record(p, HasDirectoryAttribute(fs, p), mtime[p], clock) : p \in DOMAIN fs}
  BY DEF Init
<1>4. \A p \in DOMAIN fs : Record(p, HasDirectoryAttribute(fs, p), mtime[p], clock).time = mtime[p]
        /\ Record(p, HasDirectoryAttribute(fs, p), mtime[p], clock).ahead = (mtime[p] > clock)
  BY DEF Record
<1>5. Logged
  BY <1>2, <1>3, <1>4 DEF Logged, Clocks
<1>6. Listed
  BY DEF Init, Listed, NoListing, Past
<1>7. CacheInv
  BY DEF Init, CacheInv, Nothing
<1> QED
  BY <1>2, <1>5, <1>6, <1>7 DEF AheadInv, FutureHasCause, Init

(* Time goes on and the log grows: what held of them goes on to hold. *)
LEMMA Later ==
  ASSUME AheadInv, clock' \in Time, clock <= clock', log \subseteq log',
         cache' = cache, failed' = failed,
         {"got", "future"} \subseteq DOMAIN listing',
         listing'.got = listing.got, listing'.future = listing.future
  PROVE  Listed' /\ CacheInv' /\ FutureHasCause'
<1>1. clock \in Int /\ clock' \in Int /\ \A t \in Time : t \in Int
  BY DEF AheadInv, Clocks, Time
<1>2. \A e : Past(e) => Past(e)'
  <2> SUFFICES ASSUME NEW e, Past(e) PROVE Past(e)'
    OBVIOUS
  <2>1. \A n \in DOMAIN e : Timed(e[n]) /\ e[n].time <= clock
    BY DEF Past
  <2>2. ASSUME NEW n \in DOMAIN e PROVE e[n].time <= clock'
    <3>1. e[n].time \in Int /\ e[n].time <= clock
      BY <1>1, <2>1 DEF Timed
    <3> QED
      BY <1>1, <3>1
  <2>3. Past(e)' = (\A n \in DOMAIN e : Timed(e[n]) /\ e[n].time <= clock')
    BY DEF Past, Timed, Time
  <2> QED
    BY <2>1, <2>2, <2>3
<1> QED
  BY <1>2 DEF AheadInv, Listed, CacheInv, FutureHasCause, Timed, Past, Time

LEMMA TickInv == ASSUME AheadInv, Tick PROVE AheadInv'
<1>1. /\ clock' = clock + 1 /\ clock < MaxTime /\ clock \in Time
      /\ UNCHANGED <<fs, mtime, listing, log, cache, failed>>
  BY DEF Tick, Around, AheadInv, Clocks, history
<1>2. clock \in Int /\ clock' \in Time /\ clock <= clock' /\ BuildStart <= clock'
  BY <1>1, QuestionsAssumption DEF Time, AheadInv, Clocks
<1>3. Listed' /\ CacheInv' /\ FutureHasCause'
  BY <1>1, <1>2, Later DEF AheadInv, Listed
<1>4. Clocks'
  BY <1>1, <1>2 DEF AheadInv, Clocks, Time
<1>5. Logged'
  BY <1>1, <1>2 DEF AheadInv, Logged, Time
<1> QED
  BY <1>3, <1>4, <1>5 DEF AheadInv

LEMMA TouchInv ==
  ASSUME AheadInv, NEW p \in DOMAIN fs, NEW time \in Time, Touch(p, time)
  PROVE  AheadInv'
<1> DEFINE new == Record(p, FALSE, time, clock)
<1>1. /\ mtime' = [mtime EXCEPT ![p] = time] /\ log' = log \cup {new}
      /\ UNCHANGED <<fs, clock, listing, cache, failed>>
  BY DEF Touch, Around
<1>2. new.time = time /\ new.ahead = (time > clock)
  BY DEF Record
<1>3. clock \in Time /\ clock \in Int
  BY DEF AheadInv, Clocks, Time
<1> HIDE DEF new
<1>4. Listed' /\ CacheInv' /\ FutureHasCause'
  BY <1>1, <1>3, Later DEF AheadInv, Listed
<1>5. Clocks'
  BY <1>1 DEF AheadInv, Clocks
<1>6. \A r \in log' : r.time \in Time /\ (r.time > clock' => r.ahead)
  BY <1>1, <1>2 DEF AheadInv, Logged
<1>7. \A q \in DOMAIN fs' : \E r \in log' : r.time = mtime'[q]
  BY <1>1, <1>2 DEF AheadInv, Logged, Clocks
<1> QED
  BY <1>4, <1>5, <1>6, <1>7 DEF AheadInv, Logged

LEMMA CreateInv ==
  ASSUME AheadInv, NEW p \in Contested, Create(p)
  PROVE  AheadInv'
<1> DEFINE new == Record(p, FALSE, clock, clock)
           parent == Record(Front(p), TRUE, clock, clock)
<1>1. /\ fs' = With(fs, p, File("data", "rw"))
      /\ mtime' = [q \in DOMAIN fs' |->
                     IF q \in {p, Front(p)} THEN clock ELSE mtime[q]]
      /\ log' = log \cup {new, parent}
      /\ UNCHANGED <<clock, listing, cache, failed>>
  BY DEF Create, Around
<1>2. new.time = clock /\ parent.time = clock
      /\ new.ahead = (clock > clock) /\ parent.ahead = (clock > clock)
  BY DEF Record
<1>3. clock \in Time /\ clock \in Int
  BY DEF AheadInv, Clocks, Time
<1> HIDE DEF new, parent
<1>4. DOMAIN fs' = DOMAIN fs \cup {p}
  BY <1>1 DEF With
<1>5. Listed' /\ CacheInv' /\ FutureHasCause'
  BY <1>1, <1>3, Later DEF AheadInv, Listed
<1>6. Clocks'
  BY <1>1, <1>3, <1>4 DEF AheadInv, Clocks
<1>7. \A r \in log' : r.time \in Time /\ (r.time > clock' => r.ahead)
  BY <1>1, <1>2, <1>3 DEF AheadInv, Logged
<1>8. \A q \in DOMAIN fs' : \E r \in log' : r.time = mtime'[q]
  BY <1>1, <1>2, <1>4 DEF AheadInv, Logged
<1> QED
  BY <1>5, <1>6, <1>7, <1>8 DEF AheadInv, Logged

LEMMA UnlinkInv ==
  ASSUME AheadInv, NEW p \in DOMAIN fs, Unlink(p)
  PROVE  AheadInv'
<1> DEFINE parent == Record(Front(p), TRUE, clock, clock)
<1>1. /\ fs' = Without(fs, p)
      /\ mtime' = [q \in DOMAIN fs' |-> IF q = Front(p) THEN clock ELSE mtime[q]]
      /\ log' = log \cup {parent}
      /\ listing' = IF listing.at = Front(p)
                    THEN [listing EXCEPT !.must = @ \ {Last(p)}] ELSE listing
      /\ UNCHANGED <<clock, cache, failed>>
  BY DEF Unlink, Around
<1>2. parent.time = clock /\ parent.ahead = (clock > clock)
  BY DEF Record
<1>3. clock \in Time /\ clock \in Int
  BY DEF AheadInv, Clocks, Time
<1> HIDE DEF parent
<1>4. DOMAIN fs' = DOMAIN fs \ {p}
  BY <1>1 DEF Without
<1>5. /\ DOMAIN listing' = DOMAIN listing
      /\ listing'.got = listing.got /\ listing'.future = listing.future
  <2>1. CASE listing.at = Front(p)
    <3>1. listing' = [listing EXCEPT !.must = @ \ {Last(p)}]
      BY <1>1, <2>1
    <3> QED
      BY <3>1 DEF AheadInv, Listed
  <2>2. CASE listing.at # Front(p)
    BY <1>1, <2>2
  <2> QED
    BY <2>1, <2>2
<1>6. Listed' /\ CacheInv' /\ FutureHasCause'
  BY <1>1, <1>3, <1>5, Later DEF AheadInv, Listed
<1>7. Clocks'
  BY <1>1, <1>3, <1>4 DEF AheadInv, Clocks
<1>8. \A r \in log' : r.time \in Time /\ (r.time > clock' => r.ahead)
  BY <1>1, <1>2, <1>3 DEF AheadInv, Logged
<1>9. \A q \in DOMAIN fs' : \E r \in log' : r.time = mtime'[q]
  BY <1>1, <1>2, <1>4 DEF AheadInv, Logged
<1> QED
  BY <1>6, <1>7, <1>8, <1>9 DEF AheadInv, Logged

-----------------------------------------------------------------------------
(* blud changes neither the files nor the clock. *)
LEMMA SystemKept ==
  ASSUME AheadInv, UNCHANGED <<system, history>>
  PROVE  Clocks' /\ Logged' /\ clock' = clock /\ log' = log
<1>1. UNCHANGED <<fs, mtime, clock, log>>
  BY DEF system, history
<1> QED
  BY <1>1 DEF AheadInv, Clocks, Logged

LEMMA FailInv ==
  ASSUME AheadInv, NEW why, Fail(why), why = "future" => \E r \in log : r.ahead
  PROVE  AheadInv'
<1>1. Clocks' /\ Logged' /\ clock' = clock /\ log' = log
  BY SystemKept DEF Fail
<1>2. cache' = cache /\ failed' = why /\ listing' = NoListing
  BY DEF Fail
<1>3. Listed'
  BY <1>2 DEF Listed, NoListing, Past
<1>4. CacheInv' /\ FutureHasCause'
  BY <1>1, <1>2 DEF AheadInv, CacheInv, Past, Timed, Time, FutureHasCause
<1> QED
  BY <1>1, <1>3, <1>4 DEF AheadInv

LEMMA WhyHasCause ==
  ASSUME AheadInv, Why = "future" PROVE \E r \in log : r.ahead
BY DEF AheadInv, Listed, Why

(* What a listing gives a name is the time that a file has or has had. *)
LEMMA EntryTimed ==
  ASSUME AheadInv, NEW n, NEW e \in IF Linux THEN Current(n) ELSE Buffered(n)
  PROVE  Timed(e) /\ \E r \in log : r.time = e.time
<1>1. CASE Linux
  <2>1. PICK p \in DOMAIN fs : e = Entry(Is(fs, Child(n), "dir"), mtime[p])
    BY <1>1 DEF Current
  <2>2. "time" \in DOMAIN e /\ e.time = mtime[p]
    BY <2>1 DEF Entry
  <2> QED
    BY <2>2 DEF AheadInv, Clocks, Logged, Timed
<1>2. CASE ~Linux
  <2>1. PICK r \in log : e = Entry(r.dir, r.time)
    BY <1>2 DEF Buffered
  <2>2. "time" \in DOMAIN e /\ e.time = r.time
    BY <2>1 DEF Entry
  <2> QED
    BY <2>2 DEF AheadInv, Logged, Timed
<1> QED
  BY <1>1, <1>2

LEMMA ReadInv == ASSUME AheadInv, NEW n \in Name, Read(n) PROVE AheadInv'
<1>1. PICK e \in IF Linux THEN Current(n) ELSE Buffered(n) : Callback(n, e)
  BY DEF Read
<1>2. Timed(e) /\ \E r \in log : r.time = e.time
  BY EntryTimed
<1>3. Clocks' /\ Logged' /\ clock' = clock /\ log' = log
  BY SystemKept DEF Read
<1>4. cache' = cache /\ failed' = failed
  BY DEF Read
<1> DEFINE got == [m \in DOMAIN listing.got \cup {n} |->
                     IF m = n THEN e ELSE listing.got[m]]
<1>5. /\ DOMAIN listing' = DOMAIN listing
      /\ listing'.got = got /\ listing'.future = (listing.future \/ InFuture(e.time))
  BY <1>1 DEF Callback, AheadInv, Listed
<1>6. \A m \in DOMAIN got : Timed(got[m])
  BY <1>2 DEF AheadInv, Listed
<1>7. clock \in Int /\ BuildStart \in Int /\ BuildStart <= clock /\ e.time \in Int
  BY <1>2, QuestionsAssumption DEF AheadInv, Clocks, Time, Timed
<1>8. ~listing'.future => Past(got)
  <2> SUFFICES ASSUME ~listing'.future PROVE Past(got)
    OBVIOUS
  <2>1. ~listing.future /\ ~InFuture(e.time)
    BY <1>5
  <2>2. e.time <= clock
    BY <1>7, <2>1 DEF InFuture
  <2>3. \A m \in DOMAIN listing.got : listing.got[m].time <= clock
    BY <2>1 DEF AheadInv, Listed, Past
  <2> QED
    BY <1>6, <2>2, <2>3 DEF Past
<1>9. listing'.future => \E r \in log : r.ahead
  BY <1>2, <1>5, <1>7 DEF AheadInv, Listed, Logged, InFuture
<1> HIDE DEF got
<1>10. Listed'
  BY <1>3, <1>5, <1>6, <1>8, <1>9 DEF Listed, Past, Timed, Time, AheadInv
<1>11. CacheInv' /\ FutureHasCause'
  BY <1>3, <1>4 DEF AheadInv, CacheInv, Past, Timed, Time, FutureHasCause
<1> QED
  BY <1>3, <1>10, <1>11 DEF AheadInv

LEMMA EndOfListInv == ASSUME AheadInv, EndOfList PROVE AheadInv'
<1>1. CASE listing.future
  <2>1. Fail("future")
    BY <1>1 DEF EndOfList
  <2> QED
    BY <1>1, <2>1, FailInv DEF AheadInv, Listed
<1>2. CASE ~listing.future
  <2>1. /\ cache' = [d \in DOMAIN cache \cup {listing.dir} |->
                       IF d = listing.dir THEN listing.got ELSE cache[d]]
        /\ listing' = NoListing /\ failed' = failed
        /\ UNCHANGED <<system, history>>
    BY <1>2 DEF EndOfList
  <2>2. Clocks' /\ Logged' /\ clock' = clock /\ log' = log
    BY <2>1, SystemKept
  <2>3. Past(listing.got)
    BY <1>2 DEF AheadInv, Listed
  <2>4. \A d \in DOMAIN cache' : Past(cache'[d])
    BY <2>1, <2>3 DEF AheadInv, CacheInv
  <2>5. CacheInv'
    BY <2>2, <2>4 DEF CacheInv, Past, Timed, Time
  <2>6. Listed' /\ FutureHasCause'
    BY <2>1, <2>2 DEF Listed, NoListing, Past, AheadInv, FutureHasCause
  <2> QED
    BY <2>2, <2>5, <2>6 DEF AheadInv
<1> QED
  BY <1>1, <1>2

(* Steps that leave the listing and the times of the cache alone. *)
LEMMA SameInv ==
  ASSUME AheadInv, UNCHANGED <<system, history, listing>>, CacheInv',
         failed' \in {failed, "none"}
  PROVE  AheadInv'
<1>1. Clocks' /\ Logged' /\ clock' = clock /\ log' = log
  BY SystemKept
<1>2. Listed'
  BY <1>1 DEF AheadInv, Listed, Past, Timed, Time
<1>3. FutureHasCause'
  BY <1>1 DEF AheadInv, FutureHasCause
<1> QED
  BY <1>1, <1>2, <1>3 DEF AheadInv

LEMMA SameCache ==
  ASSUME AheadInv, UNCHANGED <<system, history>>, cache' = cache
  PROVE  CacheInv'
<1>1. clock' = clock
  BY DEF system
<1> QED
  BY <1>1 DEF AheadInv, CacheInv, Past, Timed, Time

(* A virtual timestamp does not change when the cache thinks a file is of. *)
LEMMA FinishInv == ASSUME AheadInv, Finish PROVE AheadInv'
<1>1. UNCHANGED <<system, history, listing>> /\ failed' = failed /\ clock' = clock
  BY DEF Finish, Task, system
<1>2. CASE cache' = cache
  BY <1>1, <1>2, SameCache, SameInv
<1>3. CASE cache' # cache
  <2> DEFINE at == Front(Top.dir)
             n == Last(Top.dir)
  <2>1. cache' = [cache EXCEPT ![at][n].virtual = Top.newest]
    BY <1>3 DEF Finish
  <2> HIDE DEF at, n
  <2>2. ASSUME NEW d \in DOMAIN cache' PROVE Past(cache'[d])
    <3>1. d \in DOMAIN cache /\ Past(cache[d])
      BY <2>1, <2>2 DEF AheadInv, CacheInv
    <3>2. CASE d = at
      <4>1. cache'[d] = [cache[d] EXCEPT ![n].virtual = Top.newest]
        BY <2>1, <3>1, <3>2
      <4>2. ASSUME NEW m \in DOMAIN cache'[d]
            PROVE  Timed(cache'[d][m]) /\ cache'[d][m].time = cache[d][m].time
        <5>1. m \in DOMAIN cache[d] /\ Timed(cache[d][m])
          BY <3>1, <4>1, <4>2 DEF Past
        <5>2. CASE m = n
          <6>1. cache'[d][m] = [cache[d][m] EXCEPT !.virtual = Top.newest]
            BY <4>1, <5>1, <5>2
          <6> QED
            BY <5>1, <6>1 DEF Timed
        <5>3. CASE m # n
          BY <4>1, <5>1, <5>3
        <5> QED
          BY <5>2, <5>3
      <4>3. DOMAIN cache'[d] = DOMAIN cache[d]
        BY <4>1
      <4> QED
        BY <3>1, <4>2, <4>3 DEF Past
    <3>3. CASE d # at
      BY <2>1, <3>1, <3>3
    <3> QED
      BY <3>2, <3>3
  <2>3. CacheInv'
    BY <1>1, <2>2 DEF CacheInv, Past, Timed, Time
  <2> QED
    BY <1>1, <2>3, SameInv
<1> QED
  BY <1>2, <1>3

LEMMA ReadGoneInv == ASSUME AheadInv, NEW n \in Name, ReadGone(n) PROVE AheadInv'
<1>1. /\ listing' = [listing EXCEPT !.seen = @ \cup {n}]
      /\ UNCHANGED <<system, history>> /\ cache' = cache /\ failed' = failed
  BY DEF ReadGone
<1>2. Clocks' /\ Logged' /\ clock' = clock /\ log' = log
  BY <1>1, SystemKept
<1>3. /\ DOMAIN listing' = DOMAIN listing
      /\ listing'.got = listing.got /\ listing'.future = listing.future
  BY <1>1 DEF AheadInv, Listed
<1>4. clock \in Time /\ clock \in Int
  BY DEF AheadInv, Clocks, Time
<1> QED
  BY <1>1, <1>2, <1>3, <1>4, Later DEF AheadInv, Listed

LEMMA NextInv == AheadInv /\ [Next]_vars => AheadInv'
<1> SUFFICES ASSUME AheadInv, [Next]_vars PROVE AheadInv'
  OBVIOUS
<1>1. ASSUME NEW q \in Questions, Ask(q) PROVE AheadInv'
  BY <1>1, SameCache, SameInv DEF Ask
<1>2. CASE Open
  <2>1. PICK at : listing' = [NoListing EXCEPT !.dir = want.dir, !.at = at,
                                !.must = Entries(fs, at), !.may = Entries(fs, at)]
    BY <1>2 DEF Open
  <2>2. UNCHANGED <<system, history>> /\ cache' = cache /\ failed' = failed
    BY <1>2 DEF Open
  <2>3. Clocks' /\ Logged' /\ clock' = clock /\ log' = log
    BY <2>2, SystemKept
  <2>4. {"got", "future"} \subseteq DOMAIN listing' /\ listing'.got = <<>>
        /\ listing'.future = FALSE
    BY <2>1 DEF NoListing
  <2>5. Listed'
    BY <2>4 DEF Listed, Past
  <2>6. FutureHasCause'
    BY <2>2, <2>3 DEF AheadInv, FutureHasCause
  <2> QED
    BY <2>2, <2>3, <2>5, <2>6, SameCache DEF AheadInv
<1>3. CASE OpenFails
  BY <1>3, FailInv DEF OpenFails
<1>4. ASSUME NEW n \in Name, Read(n) PROVE AheadInv'
  BY <1>4, ReadInv
<1>5. ASSUME NEW n \in Name, ReadGone(n) PROVE AheadInv'
  BY <1>5, ReadGoneInv
<1>6. ASSUME NEW n \in Name, ReadFails(n) PROVE AheadInv'
  BY <1>6, FailInv, WhyHasCause DEF ReadFails
<1>7. CASE ListFails
  BY <1>7, FailInv, WhyHasCause DEF ListFails
<1>8. CASE EndOfList
  BY <1>8, EndOfListInv
<1>9. CASE Enter
  BY <1>9, SameCache, SameInv DEF Enter
<1>10. CASE Compare
  BY <1>10, SameCache, SameInv DEF Compare, Task
<1>11. CASE Collect
  BY <1>11, SameCache, SameInv DEF Collect, Task
<1>12. ASSUME NEW n \in Name, NEW index \in 1 .. MaxPath + 1, Descend(n, index)
       PROVE  AheadInv'
  BY <1>12, SameCache, SameInv DEF Descend, Task
<1>13. CASE Finish
  BY <1>13, FinishInv
<1>14. CASE Others
  BY <1>14, TickInv, TouchInv, CreateInv, UnlinkInv DEF Others
<1>15. CASE UNCHANGED vars
  <2>1. UNCHANGED <<system, history, listing>> /\ cache' = cache /\ failed' = failed
    BY <1>15 DEF vars
  <2> QED
    BY <2>1, SameCache, SameInv
<1> QED
  BY <1>1, <1>2, <1>3, <1>4, <1>5, <1>6, <1>7, <1>8, <1>9, <1>10, <1>11, <1>12,
     <1>13, <1>14, <1>15 DEF Next, Blud

-----------------------------------------------------------------------------
(***************************************************************************)
(* Nothing in the cache is later than the clock, whatever others do while  *)
(* directories are read (blud.c:195-202, 255-265).                         *)
(***************************************************************************)
THEOREM CacheNotAhead == Spec => []NothingAhead
<1>1. AheadInv => NothingAhead
  BY DEF AheadInv, CacheInv, Past, NothingAhead
<1> QED
  BY InitInv, NextInv, <1>1, PTL DEF Spec

(***************************************************************************)
(* blud says that a timestamp is in the future only if a file had one that *)
(* was later than the clock when the file got it: what is written during   *)
(* the build, later than its beginning, is never taken for it              *)
(* (blud.c:195-202).                                                       *)
(***************************************************************************)
THEOREM FutureIsReal == Spec => []FutureHasCause
<1>1. AheadInv => FutureHasCause
  BY DEF AheadInv
<1> QED
  BY InitInv, NextInv, <1>1, PTL DEF Spec

-----------------------------------------------------------------------------
(***************************************************************************)
(* What a virtual timestamp says of the cache.                             *)
(***************************************************************************)
Frames == [dir : Path, newest : Time \cup {None}, todo : SUBSET (Name \X Nat)]
Wants == [dir : Path, index : Nat, newest : Time \cup {None}]
IsListing(entries) == DOMAIN entries \subseteq Name /\ entries \in [DOMAIN entries -> Entries_]

Shapes ==
  /\ DOMAIN cache \subseteq Path /\ \A d \in DOMAIN cache : IsListing(cache[d])
  /\ \E long \in Nat : \A d \in DOMAIN cache : Len(d) <= long
  /\ stack \in Seq(Frames) /\ want \in Wants /\ question \in Questions \cup {Nobody}
  /\ {"dir", "got"} \subseteq DOMAIN listing /\ IsListing(listing.got)
  /\ \A n \in DOMAIN listing.got : listing.got[n].virtual = None
  /\ \A r \in log : r.dir \in BOOLEAN
  /\ pc \in {"idle", "get", "list", "walk"}
  /\ pc = "list" => listing.dir = want.dir /\ want.dir \notin DOMAIN cache
  /\ pc = "idle" => stack = <<>>
  /\ pc = "walk" => stack # <<>>

(* The newest of a directory's own time and of those of the named entries  *)
(* in it, each of which is remembered.                                     *)
Covers(newest, own, entries, names) ==
  /\ own <= newest
  /\ \A m \in names : Remembered(entries[m]) # None /\ Remembered(entries[m]) <= newest
  /\ newest = own \/ \E m \in names : newest = Remembered(entries[m])

Settled(c, d, n) ==
  LET below == Append(d, n) IN
  /\ c[d][n].dir /\ below \in DOMAIN c
  /\ Covers(c[d][n].virtual, c[d][n].time, c[below], DOMAIN c[below])
SettledInv(c) ==
  \A d \in DOMAIN c : \A n \in DOMAIN c[d] : c[d][n].virtual # None => Settled(c, d, n)

(* A directory being walked is one of those that are still to be done in   *)
(* the one above it, and has no virtual timestamp yet.                     *)
Undone(todo) == {task[1] : task \in todo}
Above(c, parent, frame) ==
  \E n \in Undone(parent.todo) :
    /\ frame.dir = Append(parent.dir, n)
    /\ c[parent.dir][n].dir /\ c[parent.dir][n].virtual = None
    /\ Covers(frame.newest, c[parent.dir][n].time, c[frame.dir],
              DOMAIN c[frame.dir] \ Undone(frame.todo))
Placed(c, frames) ==
  \A i \in 1 .. Len(frames) : /\ frames[i].dir \in DOMAIN c
                              /\ Undone(frames[i].todo) \subseteq DOMAIN c[frames[i].dir]
FrameInv(c, frames) ==
  /\ \A i \in 1 .. Len(frames) - 1 : Above(c, frames[i], frames[i + 1])
  /\ \A i, j \in 1 .. Len(frames) : i < j => Len(frames[i].dir) < Len(frames[j].dir)
WantInv(c, parent, w) ==
  \E n \in Undone(parent.todo) :
    /\ w.dir = Append(parent.dir, n)
    /\ c[parent.dir][n].dir /\ c[parent.dir][n].virtual = None
    /\ w.newest = c[parent.dir][n].time

Pending == pc \in {"get", "list"} /\ stack # <<>>
WalkInv ==
  /\ Placed(cache, stack)
  /\ Asks("timestamp") => /\ FrameInv(cache, stack)
                          /\ Pending => WantInv(cache, Last(stack), want)

NewestInv == Shapes /\ SettledInv(cache) /\ WalkInv

-----------------------------------------------------------------------------
LEMMA PathParts ==
  ASSUME NEW p \in Path, NEW n \in Name
  PROVE  /\ Append(p, n) \in Path /\ Append(p, n) # <<>> /\ Append(p, n) # p
         /\ Len(Append(p, n)) = Len(p) + 1
         /\ Front(Append(p, n)) = p /\ Last(Append(p, n)) = n
<1>1. p \in Seq(Name)
  BY DEF Path
<1>2. Append(p, n) \in Seq(Name) /\ Len(Append(p, n)) = Len(p) + 1 /\ Len(p) \in Nat
  BY <1>1
<1>3. Last(Append(p, n)) = n
  BY <1>1 DEF Last
<1>4. Front(Append(p, n)) = p
  <2>1. \A i \in 1 .. Len(p) : Append(p, n)[i] = p[i]
    BY <1>1
  <2>2. Front(Append(p, n)) = SubSeq(Append(p, n), 1, Len(p))
    BY <1>2 DEF Front
  <2>3. SubSeq(Append(p, n), 1, Len(p)) = p
    BY <1>1, <1>2, <2>1
  <2> QED
    BY <2>2, <2>3
<1> QED
  BY <1>1, <1>2, <1>3, <1>4 DEF Path

LEMMA StackTop ==
  ASSUME NEW S, NEW s \in Seq(S), s # <<>>
  PROVE  /\ Len(s) \in Nat /\ Len(s) > 0 /\ Last(s) = s[Len(s)] /\ Last(s) \in S
         /\ Front(s) \in Seq(S) /\ Len(Front(s)) = Len(s) - 1
         /\ \A i \in 1 .. Len(s) - 1 : Front(s)[i] = s[i]
         /\ \A x \in S : /\ Append(Front(s), x) \in Seq(S)
                        /\ Len(Append(Front(s), x)) = Len(s)
                        /\ \A i \in 1 .. Len(s) :
                             Append(Front(s), x)[i] = IF i = Len(s) THEN x ELSE s[i]
<1>1. Len(s) \in Nat /\ Len(s) > 0 /\ Last(s) = s[Len(s)] /\ Last(s) \in S
  BY DEF Last
<1>2. /\ Front(s) \in Seq(S) /\ Len(Front(s)) = Len(s) - 1
      /\ \A i \in 1 .. Len(s) - 1 : Front(s)[i] = s[i]
  <2>1. Front(s) = SubSeq(s, 1, Len(s) - 1)
    BY DEF Front
  <2>2. \A i \in 1 .. Len(s) - 1 : s[i] \in S
    BY <1>1
  <2>3. /\ Len(SubSeq(s, 1, Len(s) - 1)) = Len(s) - 1
        /\ \A i \in 1 .. Len(s) - 1 : SubSeq(s, 1, Len(s) - 1)[i] = s[i]
    <3>1. \A m \in Nat : m <= Len(s) => /\ Len(SubSeq(s, 1, m)) = m
                                        /\ \A i \in 1 .. m : SubSeq(s, 1, m)[i] = s[i]
      OBVIOUS
    <3>2. Len(s) - 1 \in Nat /\ Len(s) - 1 <= Len(s)
      BY <1>1
    <3> QED
      BY <3>1, <3>2
  <2>4. SubSeq(s, 1, Len(s) - 1) \in Seq(S)
    BY <1>1, <2>2
  <2> QED
    BY <2>1, <2>3, <2>4
<1>3. ASSUME NEW x \in S
      PROVE  /\ Append(Front(s), x) \in Seq(S)
             /\ Len(Append(Front(s), x)) = Len(s)
             /\ \A i \in 1 .. Len(s) : Append(Front(s), x)[i] = IF i = Len(s) THEN x ELSE s[i]
  BY <1>1, <1>2
<1> QED
  BY <1>1, <1>2, <1>3

(* What others do, and steps that only read the directory. *)
LEMMA KeepsNewest ==
  ASSUME NewestInv, UNCHANGED <<cache, walk, pc>>,
         {"dir", "got"} \subseteq DOMAIN listing', listing'.dir = listing.dir,
         IsListing(listing'.got), \A n \in DOMAIN listing'.got : listing'.got[n].virtual = None,
         \A r \in log' : r.dir \in BOOLEAN
  PROVE  NewestInv'
<1>1. UNCHANGED <<cache, question, want, stack, pc>>
  BY DEF walk
<1>2. Shapes'
  BY <1>1 DEF NewestInv, Shapes, IsListing, Entries_, Wants, Frames, Time
<1>3. WalkInv'
  BY <1>1 DEF NewestInv, WalkInv, Asks, Pending
<1>4. SettledInv(cache')
  BY <1>1 DEF NewestInv
<1> QED
  BY <1>2, <1>3, <1>4 DEF NewestInv

LEMMA InitNewest == Init => NewestInv
<1> SUFFICES ASSUME Init PROVE NewestInv
  OBVIOUS
<1>1. DOMAIN cache = {} /\ stack = <<>> /\ pc = "idle" /\ question = Nobody
  BY DEF Init, Nothing
<1>2. want \in Wants
  BY DEF Init, NoWant, Wants, Path
<1>3. /\ {"dir", "got"} \subseteq DOMAIN listing /\ IsListing(listing.got)
      /\ \A n \in DOMAIN listing.got : listing.got[n].virtual = None
  BY DEF Init, NoListing, IsListing
<1>4. \A r \in log : r.dir \in BOOLEAN
  <2>1. \A p : HasDirectoryAttribute(fs, p) \in BOOLEAN
    BY DEF HasDirectoryAttribute
  <2> QED
    BY <2>1 DEF Init, Record
<1>5. stack \in Seq(Frames)
  BY <1>1
<1>6. Shapes
  BY <1>1, <1>2, <1>3, <1>4, <1>5 DEF Shapes
<1> QED
  BY <1>1, <1>6 DEF NewestInv, SettledInv, WalkInv, Asks, Nobody, Placed

(* Among any number of timestamps there is a newest. *)
LEMMA NewestIs ==
  ASSUME NEW S \in SUBSET (Time \cup {None}), S # {}
  PROVE  Newest(S) \in S /\ \A u \in S : u <= Newest(S)
<1> DEFINE R == {p \in Nat \X Nat : p[1] < p[2]}
           U == {MaxTime - t : t \in S}
<1>1. MaxTime \in Nat /\ \A t \in S : t \in Int /\ t <= MaxTime
  BY QuestionsAssumption DEF Time, None
<1>2. U \subseteq Nat /\ U # {}
  BY <1>1
<1>3. IsWellFoundedOn(R, Nat)
  <2>1. OpToRel(<, Nat) = R
    BY DEF OpToRel
  <2> QED
    BY <2>1, NatLessThanWellFounded
<1> HIDE DEF R, U
<1>4. PICK x \in U : \A y \in U : ~(<<y, x>> \in R)
  BY <1>2, <1>3, WFMin
<1>5. PICK t \in S : x = MaxTime - t
  BY <1>4 DEF U
<1>6. ASSUME NEW u \in S PROVE u <= t
  <2>1. MaxTime - u \in U /\ MaxTime - u \in Nat
    BY <1>2, <1>6 DEF U
  <2>2. ~(MaxTime - u < x) /\ x \in Nat
    BY <1>2, <1>4, <2>1 DEF R
  <2> QED
    BY <1>1, <1>5, <1>6, <2>2
<1> QED
  BY <1>6 DEF Newest

-----------------------------------------------------------------------------
LEMMA AskNewest ==
  ASSUME NewestInv, NEW q \in Questions, Ask(q)
  PROVE  NewestInv'
<1>1. /\ pc = "idle" /\ pc' = "get" /\ question' = q
      /\ want' = [dir |-> IF q.ask = "timestamp" THEN Front(q.path) ELSE <<>>,
                  index |-> 1, newest |-> None]
      /\ UNCHANGED <<cache, stack, listing, log>>
  BY DEF Ask, history
<1>2. stack = <<>>
  BY <1>1 DEF NewestInv, Shapes
<1>3. want' \in Wants
  <2>1. <<>> \in Path
    BY DEF Path
  <2>2. q.ask = "timestamp" => Front(q.path) \in Path
    <3> SUFFICES ASSUME q.ask = "timestamp" PROVE Front(q.path) \in Path
      OBVIOUS
    <3>1. q.path \in Seq(Name) /\ q.path # <<>>
      BY QuestionsAssumption DEF Path
    <3> QED
      BY <3>1, StackTop DEF Path
  <2> QED
    BY <1>1, <2>1, <2>2 DEF Wants
<1>4. Shapes'
  BY <1>1, <1>2, <1>3 DEF NewestInv, Shapes, IsListing, Entries_, Frames, Time
<1>5. WalkInv'
  BY <1>1, <1>2 DEF WalkInv, FrameInv, Pending, Placed
<1>6. SettledInv(cache')
  BY <1>1 DEF NewestInv
<1> QED
  BY <1>4, <1>5, <1>6 DEF NewestInv

LEMMA FailNewest ==
  ASSUME NewestInv, NEW why, Fail(why)
  PROVE  NewestInv'
<1>1. /\ pc' = "idle" /\ stack' = <<>> /\ want' = NoWant /\ listing' = NoListing
      /\ UNCHANGED <<cache, question, log>>
  BY DEF Fail, history
<1>2. NoWant \in Wants
  BY DEF NoWant, Wants, Path
<1>3. /\ {"dir", "got"} \subseteq DOMAIN NoListing /\ IsListing(NoListing.got)
      /\ \A n \in DOMAIN NoListing.got : NoListing.got[n].virtual = None
  BY DEF NoListing, IsListing
<1>4. Shapes'
  <2>1. stack' \in Seq(Frames)
    BY <1>1
  <2> QED
    BY <1>1, <1>2, <1>3, <2>1
    DEF NewestInv, Shapes, IsListing, Entries_, Frames, Time, Wants
<1>5. WalkInv'
  BY <1>1 DEF WalkInv, FrameInv, Pending, Placed
<1>6. SettledInv(cache')
  BY <1>1 DEF NewestInv
<1> QED
  BY <1>4, <1>5, <1>6 DEF NewestInv

LEMMA OpenNewest == ASSUME NewestInv, Open PROVE NewestInv'
<1>1. PICK at : listing' = [NoListing EXCEPT !.dir = want.dir, !.at = at,
                              !.must = Entries(fs, at), !.may = Entries(fs, at)]
  BY DEF Open
<1>2. /\ pc = "get" /\ pc' = "list" /\ want.dir \notin DOMAIN cache
      /\ UNCHANGED <<cache, question, want, stack, log>>
  BY DEF Open, Cached, walk, history
<1>3. /\ {"dir", "got"} \subseteq DOMAIN listing' /\ listing'.dir = want.dir
      /\ listing'.got = <<>>
  BY <1>1 DEF NoListing
<1>4. Shapes'
  BY <1>2, <1>3 DEF NewestInv, Shapes, IsListing, Entries_, Frames, Time, Wants
<1>5. WalkInv'
  BY <1>2 DEF NewestInv, WalkInv, Asks, Pending
<1>6. SettledInv(cache')
  BY <1>2 DEF NewestInv
<1> QED
  BY <1>4, <1>5, <1>6 DEF NewestInv

LEMMA EntryIs ==
  ASSUME AheadInv, NewestInv, NEW n, NEW e \in IF Linux THEN Current(n) ELSE Buffered(n)
  PROVE  e \in Entries_ /\ e.virtual = None
<1>1. Timed(e)
  BY EntryTimed
<1>2. \E dir \in BOOLEAN : \E time : e = Entry(dir, time)
  <2>1. CASE Linux
    <3>1. PICK p \in DOMAIN fs : e = Entry(Is(fs, Child(n), "dir"), mtime[p])
      BY <2>1 DEF Current
    <3>2. Is(fs, Child(n), "dir") \in BOOLEAN
      BY DEF Is
    <3> QED
      BY <3>1, <3>2
  <2>2. CASE ~Linux
    <3>1. PICK r \in log : e = Entry(r.dir, r.time)
      BY <2>2 DEF Buffered
    <3> QED
      BY <3>1 DEF NewestInv, Shapes
  <2> QED
    BY <2>1, <2>2
<1> QED
  BY <1>1, <1>2 DEF Entry, Entries_, Timed

LEMMA ReadNewest == ASSUME AheadInv, NewestInv, NEW n \in Name, Read(n) PROVE NewestInv'
<1>1. PICK e \in IF Linux THEN Current(n) ELSE Buffered(n) : Callback(n, e)
  BY DEF Read
<1>2. e \in Entries_ /\ e.virtual = None
  BY EntryIs
<1>3. UNCHANGED <<cache, walk, pc, log>>
  BY DEF Read, history
<1> DEFINE got == [m \in DOMAIN listing.got \cup {n} |->
                     IF m = n THEN e ELSE listing.got[m]]
<1>4. {"dir", "got"} \subseteq DOMAIN listing' /\ listing'.dir = listing.dir
      /\ listing'.got = got
  BY <1>1 DEF Callback, NewestInv, Shapes
<1>5. IsListing(got) /\ \A m \in DOMAIN got : got[m].virtual = None
  BY <1>2 DEF IsListing, NewestInv, Shapes
<1>6. \A r \in log' : r.dir \in BOOLEAN
  BY <1>3 DEF NewestInv, Shapes
<1> HIDE DEF got
<1> QED
  BY <1>3, <1>4, <1>5, <1>6, KeepsNewest

(* A directory that is taken in disturbs none of those that are there. *)
LEMMA EndOfListNewest == ASSUME NewestInv, EndOfList PROVE NewestInv'
<1>1. CASE listing.future
  <2>1. Fail("future")
    BY <1>1 DEF EndOfList
  <2> QED
    BY <2>1, FailNewest
<1>2. CASE ~listing.future
  <2> DEFINE new == listing.dir
             got == listing.got
  <2>1. /\ cache' = [d \in DOMAIN cache \cup {new} |-> IF d = new THEN got ELSE cache[d]]
        /\ listing' = NoListing /\ pc = "list" /\ pc' = "get"
        /\ UNCHANGED <<question, want, stack, log>>
    BY <1>2 DEF EndOfList, walk, history
  <2>2. /\ new \in Path /\ new \notin DOMAIN cache /\ IsListing(got)
        /\ \A n \in DOMAIN got : got[n].virtual = None
    BY <2>1 DEF NewestInv, Shapes, Wants
  <2> HIDE DEF new, got
  <2>3. /\ DOMAIN cache' = DOMAIN cache \cup {new} /\ cache'[new] = got
        /\ \A d \in DOMAIN cache : cache'[d] = cache[d]
    BY <2>1, <2>2
  <2>4. SettledInv(cache')
    <3> SUFFICES ASSUME NEW d \in DOMAIN cache', NEW n \in DOMAIN cache'[d],
                        cache'[d][n].virtual # None
                 PROVE  Settled(cache', d, n)
      BY DEF SettledInv
    <3>1. d \in DOMAIN cache
      BY <2>2, <2>3
    <3>2. Settled(cache, d, n)
      BY <2>3, <3>1 DEF NewestInv, SettledInv
    <3> QED
      BY <2>3, <3>1, <3>2 DEF Settled
  <2>5. \E long \in Nat : \A d \in DOMAIN cache' : Len(d) <= long
    <3>1. PICK long \in Nat : \A d \in DOMAIN cache : Len(d) <= long
      BY DEF NewestInv, Shapes
    <3>2. Len(new) \in Nat /\ \A d \in DOMAIN cache : Len(d) \in Nat
      BY <2>2 DEF Path, NewestInv, Shapes
    <3>3. \A d \in DOMAIN cache' : Len(d) <= long + Len(new)
      BY <2>3, <3>1, <3>2
    <3> QED
      BY <3>1, <3>2, <3>3
  <2>6. \A d \in DOMAIN cache' : d \in Path /\ IsListing(cache'[d])
    BY <2>2, <2>3 DEF NewestInv, Shapes
  <2>7. /\ {"dir", "got"} \subseteq DOMAIN NoListing /\ IsListing(NoListing.got)
        /\ \A n \in DOMAIN NoListing.got : NoListing.got[n].virtual = None
    BY DEF NoListing, IsListing
  <2>8. /\ stack' \in Seq(Frames) /\ want' \in Wants /\ question' \in Questions \cup {Nobody}
        /\ \A r \in log' : r.dir \in BOOLEAN
    BY <2>1 DEF NewestInv, Shapes
  <2>9. Shapes'
    BY <2>1, <2>5, <2>6, <2>7, <2>8 DEF Shapes, IsListing, Entries_, Frames, Time, Wants
  <2>10. WalkInv'
    <3>0. Placed(cache, stack) /\ Placed(cache', stack)
      BY <2>3 DEF NewestInv, WalkInv, Placed
    <3> SUFFICES ASSUME Asks("timestamp") PROVE FrameInv(cache', stack) /\ (stack # <<>> => WantInv(cache', Last(stack), want))
      BY <2>1, <3>0 DEF WalkInv, Asks, Pending
    <3>1. FrameInv(cache, stack) /\ (stack # <<>> => WantInv(cache, Last(stack), want))
      BY <2>1 DEF NewestInv, WalkInv, Pending
    <3>2. stack \in Seq(Frames) /\ Len(stack) \in Nat
      BY DEF NewestInv, Shapes
    <3>3. ASSUME NEW i \in 1 .. Len(stack) - 1 PROVE Above(cache', stack[i], stack[i + 1])
      <4>1. Above(cache, stack[i], stack[i + 1]) /\ i \in 1 .. Len(stack) /\ i + 1 \in 1 .. Len(stack)
        BY <3>1, <3>2 DEF FrameInv
      <4>2. stack[i].dir \in DOMAIN cache /\ stack[i + 1].dir \in DOMAIN cache
        BY <3>0, <4>1 DEF Placed
      <4> QED
        BY <2>3, <4>1, <4>2 DEF Above
    <3>4. FrameInv(cache', stack)
      BY <2>3, <3>1, <3>3 DEF FrameInv
    <3>5. ASSUME stack # <<>> PROVE WantInv(cache', Last(stack), want)
      <4>1. Last(stack) = stack[Len(stack)] /\ Len(stack) > 0
        BY <3>2, <3>5, StackTop
      <4>2. Len(stack) \in 1 .. Len(stack)
        BY <3>2, <4>1
      <4>3. WantInv(cache, Last(stack), want) /\ Last(stack).dir \in DOMAIN cache
        BY <3>0, <3>1, <3>5, <4>1, <4>2 DEF Placed
      <4> QED
        BY <2>3, <4>3 DEF WantInv
    <3> QED
      BY <3>4, <3>5
  <2> QED
    BY <2>4, <2>9, <2>10 DEF NewestInv
<1> QED
  BY <1>1, <1>2

(* What is to be done in a directory: names that are in it, and all of     *)
(* them where a timestamp is asked of the directory.                       *)
LEMMA TodoIs ==
  ASSUME NewestInv, NEW d \in DOMAIN cache, NEW index \in Nat
  PROVE  /\ Todo(d, index) \subseteq (DOMAIN cache[d]) \X Nat
         /\ Asks("timestamp") /\ stack # <<>> => Undone(Todo(d, index)) = DOMAIN cache[d]
<1>1. CASE Asks("glob")
  <2>1. Pattern \in Seq(Component)
    <3>1. question \in Questions \cup {Nobody}
      BY DEF NewestInv, Shapes
    <3>2. \A q \in Questions : q.pattern \in Seq(Component)
      BY QuestionsAssumption
    <3>3. Nobody.pattern \in Seq(Component)
      BY DEF Nobody
    <3> QED
      BY <3>1, <3>2, <3>3 DEF Pattern
  <2>2. Len(Pattern) \in Nat /\ DOMAIN Pattern = 1 .. Len(Pattern)
    BY <2>1
  <2>3. Todo(d, index) = Matched(d, index)
    BY <1>1 DEF Todo
  <2>4. ASSUME NEW task \in Matched(d, index) PROVE task \in (DOMAIN cache[d]) \X Nat
    <3>1. PICK j \in Reach(index) \cap DOMAIN Pattern :
            task \in IF Pattern[j].deep
                     THEN {<<n, j>> : n \in {m \in DOMAIN cache[d] : EntryOf(d, m).dir}}
                     ELSE {<<n, j + 1>> : n \in DOMAIN cache[d] \cap Pattern[j].names}
      BY <2>4 DEF Matched
    <3>2. j \in Nat /\ j + 1 \in Nat
      BY <2>2
    <3> QED
      BY <3>1, <3>2
  <2> QED
    BY <1>1, <2>3, <2>4 DEF Asks
<1>2. CASE ~Asks("glob")
  <2>1. Todo(d, index) = {<<n, index>> : n \in IF stack # <<>> THEN DOMAIN cache[d]
                              ELSE DOMAIN cache[d] \cap {Last(question.path)}}
    BY <1>2 DEF Todo
  <2>2. Todo(d, index) \subseteq (DOMAIN cache[d]) \X Nat
    BY <2>1
  <2>3. ASSUME stack # <<>> PROVE Undone(Todo(d, index)) = DOMAIN cache[d]
    <3>1. Todo(d, index) = {<<n, index>> : n \in DOMAIN cache[d]}
      BY <2>1, <2>3
    <3>2. \A n \in DOMAIN cache[d] : <<n, index>>[1] = n
      OBVIOUS
    <3> DEFINE all == DOMAIN cache[d]
    <3>3. Todo(d, index) = {<<n, index>> : n \in all}
      BY <3>1
    <3> HIDE DEF all
    <3> DEFINE tasks == {<<n, index>> : n \in all}
    <3>4. Undone(tasks) = all
      <4>1. \A x \in all : <<x, index>> \in tasks /\ <<x, index>>[1] = x
        OBVIOUS
      <4>2. \A task \in tasks : task[1] \in all
        OBVIOUS
      <4> HIDE DEF tasks
      <4> QED BY <4>1, <4>2 DEF Undone
    <3> QED
      BY <3>3, <3>4 DEF all
  <2> QED
    BY <2>2, <2>3
<1> QED
  BY <1>1, <1>2

LEMMA EnterNewest == ASSUME NewestInv, Enter PROVE NewestInv'
<1> DEFINE todo == Todo(want.dir, want.index)
           frame == [dir |-> want.dir, newest |-> want.newest, todo |-> todo]
<1>1. /\ pc = "get" /\ want.dir \in DOMAIN cache /\ pc' = "walk"
      /\ stack' = Append(stack, frame) /\ want' = NoWant
      /\ UNCHANGED <<cache, question, listing, log>>
  BY DEF Enter, Cached, history
<1>2. /\ want \in Wants /\ stack \in Seq(Frames) /\ Len(stack) \in Nat
      /\ IsListing(cache[want.dir])
  BY <1>1 DEF NewestInv, Shapes
<1>3. todo \subseteq (DOMAIN cache[want.dir]) \X Nat
      /\ (Asks("timestamp") /\ stack # <<>> => Undone(todo) = DOMAIN cache[want.dir])
  BY <1>1, <1>2, TodoIs DEF Wants
<1> HIDE DEF todo
<1>4. frame \in Frames
  <2>1. todo \in SUBSET (Name \X Nat)
    BY <1>2, <1>3 DEF IsListing
  <2> QED
    BY <1>2, <2>1 DEF Frames, Wants
<1>5. frame.dir = want.dir /\ frame.newest = want.newest /\ frame.todo = todo
  OBVIOUS
<1> HIDE DEF frame
<1>6. /\ stack' \in Seq(Frames) /\ Len(stack') = Len(stack) + 1 /\ stack' # <<>>
      /\ \A i \in 1 .. Len(stack) : stack'[i] = stack[i]
      /\ stack'[Len(stack) + 1] = frame
  BY <1>1, <1>2, <1>4
<1>7. Shapes'
  <2>1. NoWant \in Wants
    BY DEF NoWant, Wants, Path
  <2> QED
    BY <1>1, <1>6, <2>1 DEF NewestInv, Shapes, IsListing, Entries_, Frames, Time, Wants
<1>8. WalkInv'
  <2>0. Placed(cache, stack)
    BY DEF NewestInv, WalkInv
  <2>4. ASSUME NEW i \in 1 .. Len(stack')
        PROVE  stack'[i].dir \in DOMAIN cache /\ Undone(stack'[i].todo) \subseteq DOMAIN cache[stack'[i].dir]
    <3>1. CASE i = Len(stack) + 1
      BY <1>1, <1>3, <1>5, <1>6, <3>1 DEF Undone
    <3>2. CASE i # Len(stack) + 1
      <4>1. i \in 1 .. Len(stack)
        BY <1>2, <1>6, <3>2
      <4> QED
        BY <1>6, <2>0, <4>1 DEF Placed
    <3> QED
      BY <3>1, <3>2
  <2>7. Placed(cache, stack')
    BY <2>4 DEF Placed
  <2> SUFFICES ASSUME Asks("timestamp") PROVE FrameInv(cache, stack')
    BY <1>1, <2>7 DEF WalkInv, Asks, Pending
  <2>1. FrameInv(cache, stack) /\ (stack # <<>> => WantInv(cache, Last(stack), want))
    BY <1>1 DEF NewestInv, WalkInv, Pending
  <2>2. ASSUME stack # <<>> PROVE Above(cache, stack[Len(stack)], frame)
    <3>1. Last(stack) = stack[Len(stack)]
      BY <1>2, <2>2, StackTop
    <3>2. PICK n \in Undone(stack[Len(stack)].todo) :
            /\ want.dir = Append(stack[Len(stack)].dir, n)
            /\ cache[stack[Len(stack)].dir][n].dir
            /\ cache[stack[Len(stack)].dir][n].virtual = None
            /\ want.newest = cache[stack[Len(stack)].dir][n].time
      BY <2>1, <2>2, <3>1 DEF WantInv
    <3>3. Len(stack) \in 1 .. Len(stack)
      BY <1>2, <2>2
    <3>4. stack[Len(stack)].dir \in DOMAIN cache /\ n \in DOMAIN cache[stack[Len(stack)].dir]
      BY <2>0, <3>2, <3>3 DEF Placed
    <3>5. want.newest \in Int
      BY <3>2, <3>4 DEF NewestInv, Shapes, IsListing, Entries_, Time
    <3>6. DOMAIN cache[want.dir] \ Undone(todo) = {}
      BY <1>3, <2>2
    <3>7. Covers(frame.newest, cache[stack[Len(stack)].dir][n].time, cache[frame.dir],
                 DOMAIN cache[frame.dir] \ Undone(frame.todo))
      BY <1>5, <3>2, <3>5, <3>6 DEF Covers
    <3> QED
      BY <1>5, <3>2, <3>7 DEF Above
  <2>3. ASSUME NEW i \in 1 .. Len(stack') - 1 PROVE Above(cache, stack'[i], stack'[i + 1])
    <3>1. CASE i = Len(stack)
      <4>1. stack # <<>> /\ i \in 1 .. Len(stack)
        BY <1>2, <1>6, <3>1
      <4> QED
        BY <1>6, <2>2, <3>1, <4>1
    <3>2. CASE i # Len(stack)
      <4>1. i \in 1 .. Len(stack) - 1 /\ i \in 1 .. Len(stack) /\ i + 1 \in 1 .. Len(stack)
        BY <1>2, <1>6, <3>2
      <4> QED
        BY <1>6, <2>1, <4>1 DEF FrameInv
    <3> QED
      BY <3>1, <3>2
  <2>5. ASSUME NEW i \in 1 .. Len(stack), NEW j \in 1 .. Len(stack'), i < j
        PROVE  Len(stack'[i].dir) < Len(stack'[j].dir)
    <3>1. CASE j = Len(stack) + 1
      <4>1. stack # <<>> /\ Len(stack) \in 1 .. Len(stack)
        BY <1>2
      <4>2. PICK n \in Undone(stack[Len(stack)].todo) : frame.dir = Append(stack[Len(stack)].dir, n)
        BY <2>2, <4>1 DEF Above
      <4>3. Len(frame.dir) = Len(stack[Len(stack)].dir) + 1 /\ Len(stack[Len(stack)].dir) \in Nat
        <5>0. stack[Len(stack)] \in Frames
          BY <1>2, <4>1
        <5>1. stack[Len(stack)].dir \in Path
          BY <5>0 DEF Frames
        <5>2. n \in Name
          BY <2>0, <4>1, <4>2 DEF Placed, NewestInv, Shapes, IsListing
        <5>3. Len(stack[Len(stack)].dir) \in Nat
          BY <5>1 DEF Path
        <5> QED
          BY <4>2, <5>1, <5>2, <5>3, PathParts
      <4>4. i = Len(stack) \/ Len(stack[i].dir) < Len(stack[Len(stack)].dir)
        BY <1>2, <2>1, <4>1 DEF FrameInv
      <4>5. Len(stack[i].dir) \in Nat
        BY <1>2 DEF Frames, Path
      <4> QED
        BY <1>6, <3>1, <4>3, <4>4, <4>5
    <3>2. CASE j # Len(stack) + 1
      <4>1. j \in 1 .. Len(stack)
        BY <1>2, <1>6, <3>2
      <4> QED
        BY <1>6, <2>1, <2>5, <4>1 DEF FrameInv
    <3> QED
      BY <3>1, <3>2
  <2>6. \A i, j \in 1 .. Len(stack') : i < j => i \in 1 .. Len(stack)
    BY <1>2, <1>6
  <2> QED
    BY <2>3, <2>5, <2>6 DEF FrameInv
<1>9. SettledInv(cache')
  BY <1>1 DEF NewestInv
<1> QED
  BY <1>7, <1>8, <1>9 DEF NewestInv

(* A step in the directory that is walked: its frame's todo gets smaller.  *)
LEMMA TopKeeps ==
  ASSUME NewestInv, NEW frame \in Frames, stack # <<>>, pc = "walk", pc' = "walk",
         stack' = Append(Front(stack), frame),
         UNCHANGED <<cache, question, want, listing, log>>,
         frame.dir = Last(stack).dir, frame.todo \subseteq Last(stack).todo,
         Asks("timestamp") /\ Len(stack) > 1 =>
           \A own : Covers(Last(stack).newest, own, cache[frame.dir],
                           DOMAIN cache[frame.dir] \ Undone(Last(stack).todo))
                      /\ own \in Time
             => Covers(frame.newest, own, cache[frame.dir],
                       DOMAIN cache[frame.dir] \ Undone(frame.todo))
  PROVE  NewestInv'
<1> DEFINE top == Last(stack)
           k == Len(stack)
<1>1. stack \in Seq(Frames)
  BY DEF NewestInv, Shapes
<1>2. /\ k \in Nat /\ k > 0 /\ top = stack[k] /\ top \in Frames
      /\ stack' \in Seq(Frames) /\ Len(stack') = k
      /\ \A i \in 1 .. k : stack'[i] = IF i = k THEN frame ELSE stack[i]
  BY <1>1, StackTop
<1>3. Undone(frame.todo) \subseteq Undone(top.todo)
  BY DEF Undone
<1> HIDE DEF top, k
<1>4. stack' # <<>>
  BY <1>2
<1>5. Shapes'
  BY <1>2, <1>4 DEF NewestInv, Shapes, IsListing, Entries_, Frames, Time, Wants
<1>6. WalkInv'
  <2>0. Placed(cache, stack)
    BY DEF NewestInv, WalkInv
  <2>4. ASSUME NEW i \in 1 .. k
        PROVE  /\ stack'[i].dir = stack[i].dir
               /\ stack'[i].dir \in DOMAIN cache
               /\ Undone(stack'[i].todo) \subseteq DOMAIN cache[stack'[i].dir]
    <3>1. stack[i].dir \in DOMAIN cache /\ Undone(stack[i].todo) \subseteq DOMAIN cache[stack[i].dir]
      BY <2>0 DEF Placed, k
    <3>2. CASE i = k
      BY <1>2, <1>3, <3>1, <3>2 DEF top
    <3>3. CASE i # k
      BY <1>2, <3>1, <3>3
    <3> QED
      BY <3>2, <3>3
  <2>6. Placed(cache, stack')
    BY <1>2, <2>4 DEF Placed
  <2> SUFFICES ASSUME Asks("timestamp") PROVE FrameInv(cache, stack')
    BY <2>6 DEF WalkInv, Asks, Pending
  <2>1. FrameInv(cache, stack)
    BY DEF NewestInv, WalkInv
  <2>2. ASSUME NEW i \in 1 .. k - 1 PROVE Above(cache, stack'[i], stack'[i + 1])
    <3>1. i \in 1 .. k /\ i + 1 \in 1 .. k /\ i # k
      BY <1>2
    <3>2. Above(cache, stack[i], stack[i + 1]) /\ stack'[i] = stack[i]
      BY <1>2, <2>1, <3>1 DEF FrameInv, k
    <3>3. CASE i + 1 = k
      <4>1. PICK n \in Undone(stack[i].todo) :
              /\ top.dir = Append(stack[i].dir, n)
              /\ cache[stack[i].dir][n].dir /\ cache[stack[i].dir][n].virtual = None
              /\ Covers(top.newest, cache[stack[i].dir][n].time, cache[top.dir],
                        DOMAIN cache[top.dir] \ Undone(top.todo))
        BY <1>2, <3>2, <3>3 DEF Above
      <4>2. stack[i].dir \in DOMAIN cache /\ n \in DOMAIN cache[stack[i].dir]
        BY <2>0, <3>1, <4>1 DEF Placed, k
      <4>3. cache[stack[i].dir][n].time \in Time
        BY <4>2 DEF NewestInv, Shapes, IsListing, Entries_
      <4>4. k > 1
        BY <1>2, <3>3
      <4>5. Covers(frame.newest, cache[stack[i].dir][n].time, cache[frame.dir],
                   DOMAIN cache[frame.dir] \ Undone(frame.todo))
        BY <4>1, <4>3, <4>4 DEF top, k
      <4>6. frame.dir = Append(stack[i].dir, n)
        BY <4>1 DEF top
      <4>7. stack'[i + 1] = frame
        BY <1>2, <3>1, <3>3
      <4> QED
        BY <3>2, <4>1, <4>5, <4>6, <4>7 DEF Above
    <3>4. CASE i + 1 # k
      BY <1>2, <3>1, <3>2, <3>4
    <3> QED
      BY <3>3, <3>4
  <2>3. k \in 1 .. k
    BY <1>2
  <2>5. \A i, j \in 1 .. k : i < j => Len(stack'[i].dir) < Len(stack'[j].dir)
    BY <2>1, <2>4 DEF FrameInv, k
  <2> QED
    BY <1>2, <2>2, <2>5 DEF FrameInv
<1>7. SettledInv(cache')
  BY DEF NewestInv
<1> QED
  BY <1>5, <1>6, <1>7 DEF NewestInv

LEMMA CompareNewest == ASSUME NewestInv, Compare PROVE NewestInv'
<1> DEFINE times == {Top.newest} \cup {Remembered(EntryOf(Top.dir, task[1])) : task \in Known}
           frame == [Top EXCEPT !.todo = @ \ Known, !.newest = Newest(times)]
<1>1. /\ pc = "walk" /\ pc' = "walk" /\ Asks("timestamp") /\ Known # {}
      /\ stack' = Append(Front(stack), frame)
      /\ UNCHANGED <<cache, question, want, listing, log>>
  BY DEF Compare, Task, SetTop, history
<1>2. stack # <<>> /\ stack \in Seq(Frames)
  BY <1>1 DEF NewestInv, Shapes
<1>3. Top \in Frames /\ Len(stack) \in Nat /\ Len(stack) > 0 /\ Top = stack[Len(stack)]
  BY <1>2, StackTop DEF Top
<1>4. Top.dir \in DOMAIN cache /\ Undone(Top.todo) \subseteq DOMAIN cache[Top.dir]
  <2>1. Placed(cache, stack) /\ Len(stack) \in 1 .. Len(stack)
    BY <1>3 DEF NewestInv, WalkInv
  <2> QED
    BY <1>3, <2>1 DEF Placed
<1> DEFINE entries == cache[Top.dir]
<1>5. \A n \in DOMAIN entries : entries[n] \in Entries_ /\ Remembered(entries[n]) \in Time \cup {None}
  BY <1>4 DEF NewestInv, Shapes, IsListing, Entries_, Remembered
<1>6. \A task \in Known : task \in Top.todo /\ task[1] \in DOMAIN entries
                          /\ Remembered(entries[task[1]]) # None
  BY <1>4 DEF Known, Undone, EntryOf
<1>7. times \in SUBSET (Time \cup {None})
  <2>1. Top.newest \in Time \cup {None}
    BY <1>3 DEF Frames
  <2> QED
    BY <1>5, <1>6, <2>1 DEF EntryOf
<1>8. Newest(times) \in times /\ \A t \in times : t <= Newest(times)
  <2> HIDE DEF times
  <2>1. times # {}
    BY DEF times
  <2> QED
    BY <1>7, <2>1, NewestIs
<1>9. /\ frame \in Frames /\ frame.dir = Top.dir /\ frame.todo = Top.todo \ Known
      /\ frame.newest = Newest(times)
  BY <1>3, <1>7, <1>8 DEF Frames
<1>10. Undone(frame.todo) =
         {n \in Undone(Top.todo) : Remembered(entries[n]) = None}
  BY <1>9 DEF Undone, Known, EntryOf
<1>11. \A n \in Undone(Top.todo) : Remembered(entries[n]) # None =>
          Remembered(entries[n]) \in times
  BY DEF Undone, Known, EntryOf
<1>12. \A t \in times : t = Top.newest \/ \E n \in Undone(Top.todo) :
          Remembered(entries[n]) # None /\ t = Remembered(entries[n])
  BY DEF Undone, Known, EntryOf
<1>13. ASSUME NEW own \in Time,
              Covers(Top.newest, own, entries, DOMAIN entries \ Undone(Top.todo))
       PROVE  Covers(frame.newest, own, entries, DOMAIN entries \ Undone(frame.todo))
  <2> DEFINE newest == Newest(times)
  <2> HIDE DEF times, entries, frame
  <2>1. Top.newest \in times /\ Top.newest <= newest
    BY <1>8 DEF times
  <2>2. newest \in Int /\ Top.newest \in Int /\ own \in Int
    <3>1. \A t \in Time \cup {None} : t \in Int
      BY DEF Time, None
    <3>2. newest \in Time \cup {None} /\ Top.newest \in Time \cup {None} /\ own \in Time \cup {None}
      BY <1>7, <1>8, <2>1
    <3> QED
      BY <3>1, <3>2
  <2>3. own <= newest
    BY <1>13, <2>1, <2>2 DEF Covers
  <2>4. ASSUME NEW m \in DOMAIN entries \ Undone(frame.todo)
        PROVE  Remembered(entries[m]) # None /\ Remembered(entries[m]) <= newest
    <3>1. CASE m \in Undone(Top.todo)
      <4>1. Remembered(entries[m]) # None
        BY <1>10, <2>4, <3>1
      <4> QED
        BY <1>8, <1>11, <3>1, <4>1
    <3>2. CASE m \notin Undone(Top.todo)
      <4>1. Remembered(entries[m]) # None /\ Remembered(entries[m]) <= Top.newest
        BY <1>13, <2>4, <3>2 DEF Covers
      <4>2. Remembered(entries[m]) \in Int
        BY <1>5, <2>4 DEF Time, None
      <4> QED
        BY <2>1, <2>2, <4>1, <4>2
    <3> QED
      BY <3>1, <3>2
  <2>5. newest = own \/ \E m \in DOMAIN entries \ Undone(frame.todo) : newest = Remembered(entries[m])
    <3>1. CASE newest = Top.newest
      <4>1. \A m \in DOMAIN entries \ Undone(Top.todo) : m \in DOMAIN entries \ Undone(frame.todo)
        BY <1>10
      <4> QED
        BY <1>13, <3>1, <4>1 DEF Covers
    <3>2. CASE newest # Top.newest
      <4>1. PICK n \in Undone(Top.todo) : Remembered(entries[n]) # None /\ newest = Remembered(entries[n])
        BY <1>8, <1>12, <3>2
      <4>2. n \in DOMAIN entries \ Undone(frame.todo)
        BY <1>4, <1>10, <4>1 DEF entries
      <4> QED
        BY <4>1, <4>2
    <3> QED
      BY <3>1, <3>2
  <2> QED
    BY <1>9, <2>3, <2>4, <2>5 DEF Covers
<1>14. \A own : Covers(Top.newest, own, entries, DOMAIN entries \ Undone(Top.todo)) /\ own \in Time
         => Covers(frame.newest, own, entries, DOMAIN entries \ Undone(frame.todo))
  <2> HIDE DEF entries, frame
  <2> QED
    BY <1>13
<1>15. entries = cache[frame.dir] /\ frame.todo \subseteq Top.todo
  BY <1>9
<1> HIDE DEF frame, entries
<1> QED
  BY <1>1, <1>2, <1>9, <1>14, <1>15, TopKeeps DEF Top

LEMMA CollectNewest == ASSUME NewestInv, Collect PROVE NewestInv'
<1> DEFINE frame == [Top EXCEPT !.todo = @ \ (Complete \cup Ended)]
<1>1. /\ pc = "walk" /\ pc' = "walk" /\ ~Asks("timestamp")
      /\ stack' = Append(Front(stack), frame)
      /\ UNCHANGED <<cache, question, want, listing, log>>
  BY DEF Collect, Task, SetTop, history, Asks
<1>2. stack # <<>> /\ stack \in Seq(Frames)
  BY <1>1 DEF NewestInv, Shapes
<1>3. Top \in Frames
  BY <1>2, StackTop DEF Top
<1>4. frame \in Frames /\ frame.dir = Top.dir /\ frame.todo \subseteq Top.todo
  BY <1>3 DEF Frames
<1> HIDE DEF frame
<1> QED
  BY <1>1, <1>2, <1>4, TopKeeps DEF Top

LEMMA DescendNewest ==
  ASSUME NewestInv, NEW n \in Name, NEW index \in 1 .. MaxPath + 1, Descend(n, index)
  PROVE  NewestInv'
<1> DEFINE entry == EntryOf(Top.dir, n)
           frame == [Top EXCEPT !.todo = @ \ {<<n, index>>}]
<1>1. /\ pc = "walk" /\ pc' = "get" /\ <<n, index>> \in Top.todo /\ entry.dir
      /\ (~Asks("glob") => Known = {})
      /\ want' = [dir |-> Append(Top.dir, n), index |-> index, newest |-> entry.time]
      /\ stack' = IF Asks("glob") THEN Append(Front(stack), frame) ELSE stack
      /\ UNCHANGED <<cache, question, listing, log>>
  BY DEF Descend, Task, OwnTime, history
<1>2. stack # <<>> /\ stack \in Seq(Frames)
  BY <1>1 DEF NewestInv, Shapes
<1>3. Top \in Frames /\ Len(stack) \in Nat /\ Len(stack) > 0 /\ Top = stack[Len(stack)]
  BY <1>2, StackTop DEF Top
<1>4. Top.dir \in DOMAIN cache /\ Undone(Top.todo) \subseteq DOMAIN cache[Top.dir]
  <2>1. Placed(cache, stack) /\ Len(stack) \in 1 .. Len(stack)
    BY <1>3 DEF NewestInv, WalkInv
  <2> QED
    BY <1>3, <2>1 DEF Placed
<1>5. n \in Undone(Top.todo) /\ n \in DOMAIN cache[Top.dir]
  BY <1>1, <1>4 DEF Undone
<1>6. entry = cache[Top.dir][n] /\ entry \in Entries_
  BY <1>4, <1>5 DEF EntryOf, NewestInv, Shapes, IsListing
<1>7. Append(Top.dir, n) \in Path /\ index \in Nat
  <2>1. Top.dir \in Path
    BY <1>3 DEF Frames
  <2> QED
    BY <2>1, PathParts, LimitsAssumption
<1>8. want' \in Wants
  BY <1>1, <1>6, <1>7 DEF Wants, Entries_
<1>9. frame \in Frames /\ frame.dir = Top.dir /\ frame.todo \subseteq Top.todo
  BY <1>3 DEF Frames
<1> HIDE DEF frame, entry
<1>10. stack' \in Seq(Frames) /\ stack' # <<>>
  <2>1. CASE Asks("glob")
    <3>1. Append(Front(stack), frame) \in Seq(Frames) /\ Append(Front(stack), frame) # <<>>
      BY <1>2, <1>3, <1>9, StackTop
    <3> QED
      BY <1>1, <2>1, <3>1
  <2>2. CASE ~Asks("glob")
    BY <1>1, <1>2, <2>2
  <2> QED
    BY <2>1, <2>2
<1>11. Shapes'
  BY <1>1, <1>8, <1>10 DEF NewestInv, Shapes, IsListing, Entries_, Frames, Time, Wants
<1>12. Placed(cache, stack')
  <2>1. Placed(cache, stack)
    BY DEF NewestInv, WalkInv
  <2>2. CASE Asks("glob")
    <3>1. /\ stack' = Append(Front(stack), frame) /\ Len(stack') = Len(stack)
          /\ \A i \in 1 .. Len(stack) : stack'[i] = IF i = Len(stack) THEN frame ELSE stack[i]
      <4>1. /\ Len(Append(Front(stack), frame)) = Len(stack)
            /\ \A i \in 1 .. Len(stack) :
                 Append(Front(stack), frame)[i] = IF i = Len(stack) THEN frame ELSE stack[i]
        BY <1>2, <1>9, StackTop
      <4>2. stack' = Append(Front(stack), frame)
        BY <1>1, <2>2
      <4> QED
        BY <4>1, <4>2
    <3>2. Undone(frame.todo) \subseteq Undone(Top.todo)
      BY <1>9 DEF Undone
    <3>3. ASSUME NEW i \in 1 .. Len(stack)
          PROVE  /\ stack'[i].dir \in DOMAIN cache
                 /\ Undone(stack'[i].todo) \subseteq DOMAIN cache[stack'[i].dir]
      <4>1. CASE i = Len(stack)
        BY <1>4, <1>9, <3>1, <3>2, <4>1
      <4>2. CASE i # Len(stack)
        BY <2>1, <3>1, <4>2 DEF Placed
      <4> QED
        BY <4>1, <4>2
    <3> QED
      BY <3>1, <3>3 DEF Placed
  <2>3. CASE ~Asks("glob")
    BY <1>1, <2>1, <2>3
  <2> QED
    BY <2>2, <2>3
<1>13. WalkInv'
  <2> SUFFICES ASSUME Asks("timestamp")
               PROVE  FrameInv(cache, stack') /\ WantInv(cache, Last(stack'), want')
    BY <1>1, <1>12 DEF WalkInv, Asks, Pending
  <2>1. stack' = stack /\ Known = {}
    BY <1>1 DEF Asks
  <2>2. FrameInv(cache, stack)
    BY DEF NewestInv, WalkInv
  <2>3. Last(stack') = Top
    BY <2>1 DEF Top
  <2>4. Remembered(entry) = None
    BY <1>1, <2>1 DEF Known, entry
  <2>5. entry.virtual = None
    BY <1>1, <2>4 DEF Remembered
  <2> QED
    BY <1>1, <1>5, <1>6, <2>1, <2>2, <2>3, <2>5 DEF WantInv
<1>14. SettledInv(cache')
  BY <1>1 DEF NewestInv
<1> QED
  BY <1>11, <1>13, <1>14 DEF NewestInv

-----------------------------------------------------------------------------
(* The virtual timestamp of a directory that has been walked.              *)
LEMMA FinishNewest == ASSUME NewestInv, Finish PROVE NewestInv'
<1>1. /\ pc = "walk" /\ Top.todo = {} /\ stack' = Front(stack)
      /\ cache' = IF Asks("timestamp") /\ Len(stack) > 1
                  THEN [cache EXCEPT ![Front(Top.dir)][Last(Top.dir)].virtual = Top.newest]
                  ELSE cache
      /\ (Len(stack) > 1 => pc' = pc) /\ (~(Len(stack) > 1) => pc' = "idle")
      /\ UNCHANGED <<question, want, listing, log>>
  BY DEF Finish, Task, history
<1> DEFINE k == Len(stack)
<1>2. stack # <<>> /\ stack \in Seq(Frames)
  BY <1>1 DEF NewestInv, Shapes
<1>3. /\ Top \in Frames /\ k \in Nat /\ k > 0 /\ Top = stack[k]
      /\ stack' \in Seq(Frames) /\ Len(stack') = k - 1
      /\ \A i \in 1 .. k - 1 : stack'[i] = stack[i]
  BY <1>1, <1>2, StackTop DEF Top
<1>4. Placed(cache, stack)
  BY DEF NewestInv, WalkInv
<1>5. k = 1 => stack' = <<>>
  BY <1>3
<1>6. k > 1 => stack' # <<>>
  BY <1>3
<1> HIDE DEF k
<1>7. CASE ~(Asks("timestamp") /\ k > 1)
  <2>1. cache' = cache
    BY <1>1, <1>7 DEF k
  <2>2. Shapes'
    <3>1. (pc' = "idle" => stack' = <<>>) /\ (pc' = "walk" => stack' # <<>>) /\ pc' \in {"idle", "walk"}
      BY <1>1, <1>3, <1>5, <1>6 DEF k
    <3> QED
      BY <1>1, <1>3, <2>1, <3>1 DEF NewestInv, Shapes, IsListing, Entries_, Frames, Time, Wants
  <2>3. Placed(cache', stack')
    BY <1>3, <1>4, <2>1 DEF Placed, k
  <2>4. ASSUME Asks("timestamp") PROVE FrameInv(cache', stack') /\ ~Pending'
    <3>1. stack' = <<>>
      BY <1>3, <1>5, <1>7, <2>4
    <3> QED
      BY <3>1 DEF FrameInv, Pending
  <2> QED
    BY <1>1, <2>1, <2>2, <2>3, <2>4 DEF NewestInv, WalkInv, Asks
<1>8. CASE Asks("timestamp") /\ k > 1
  <2> DEFINE parent == stack[k - 1]
             d == parent.dir
             c == Top.dir
  <2>1. FrameInv(cache, stack)
    BY <1>8 DEF NewestInv, WalkInv
  <2>2. k - 1 \in 1 .. k - 1 /\ k - 1 \in 1 .. k /\ k \in 1 .. k /\ (k - 1) + 1 = k
    BY <1>3, <1>8
  <2>3. PICK n \in Undone(parent.todo) :
          /\ c = Append(d, n)
          /\ cache[d][n].dir /\ cache[d][n].virtual = None
          /\ Covers(Top.newest, cache[d][n].time, cache[c], DOMAIN cache[c] \ Undone(Top.todo))
    BY <1>3, <2>1, <2>2 DEF FrameInv, Above, k
  <2>4. /\ d \in DOMAIN cache /\ c \in DOMAIN cache /\ n \in DOMAIN cache[d]
        /\ Undone(parent.todo) \subseteq DOMAIN cache[d]
    BY <1>3, <1>4, <2>2, <2>3 DEF Placed, k
  <2>5. d \in Path /\ n \in Name /\ cache[d] \in [DOMAIN cache[d] -> Entries_] /\ DOMAIN cache[d] \subseteq Name
    BY <2>4 DEF NewestInv, Shapes, IsListing
  <2>6. Front(c) = d /\ Last(c) = n /\ c # d
    BY <2>3, <2>5, PathParts
  <2>7. Covers(Top.newest, cache[d][n].time, cache[c], DOMAIN cache[c])
    <3>1. Undone(Top.todo) = {}
      BY <1>1 DEF Undone
    <3> QED
      BY <2>3, <3>1
  <2>8. Top.newest \in Time \cup {None}
    BY <1>3 DEF Frames
  <2>9. cache' = [cache EXCEPT ![d][n].virtual = Top.newest]
    BY <1>1, <1>8, <2>6 DEF k
  <2> DEFINE new == [cache[d][n] EXCEPT !.virtual = Top.newest]
  <2>10. new \in Entries_ /\ new.dir = cache[d][n].dir /\ new.time = cache[d][n].time
         /\ new.virtual = Top.newest
    BY <2>4, <2>5, <2>8 DEF Entries_
  <2>11. /\ DOMAIN cache' = DOMAIN cache
         /\ \A e \in DOMAIN cache : DOMAIN cache'[e] = DOMAIN cache[e]
         /\ \A e \in DOMAIN cache \ {d} : cache'[e] = cache[e]
         /\ \A m \in DOMAIN cache[d] \ {n} : cache'[d][m] = cache[d][m]
         /\ cache'[d][n] = new
    BY <2>4, <2>9
  <2> HIDE DEF parent, d, c, new
  <2>12. \A e \in DOMAIN cache' : e \in Path /\ IsListing(cache'[e])
    <3>1. ASSUME NEW e \in DOMAIN cache PROVE IsListing(cache'[e])
      <4>1. CASE e = d
        <5>1. \A m \in DOMAIN cache'[d] : cache'[d][m] \in Entries_
          BY <2>4, <2>5, <2>10, <2>11
        <5>2. cache'[d] \in [DOMAIN cache'[d] -> Entries_]
          <6>1. cache'[d] = [cache[d] EXCEPT ![n].virtual = Top.newest]
            BY <2>4, <2>9
          <6> QED
            BY <2>5, <5>1, <6>1
        <5> QED
          BY <2>5, <2>11, <4>1, <5>2, <2>4 DEF IsListing
      <4>2. CASE e # d
        BY <2>11, <4>2 DEF NewestInv, Shapes
      <4> QED
        BY <4>1, <4>2
    <3> QED
      BY <2>11, <3>1 DEF NewestInv, Shapes
  <2>13. Shapes'
    <3>1. \E long \in Nat : \A e \in DOMAIN cache' : Len(e) <= long
      BY <2>11 DEF NewestInv, Shapes
    <3> QED
      BY <1>1, <1>3, <1>6, <1>8, <2>12, <3>1
      DEF NewestInv, Shapes, IsListing, Entries_, Frames, Time, Wants, k
  <2>14. SettledInv(cache')
    <3> SUFFICES ASSUME NEW e \in DOMAIN cache', NEW m \in DOMAIN cache'[e],
                        cache'[e][m].virtual # None
                 PROVE  Settled(cache', e, m)
      BY DEF SettledInv
    <3>1. e \in DOMAIN cache /\ m \in DOMAIN cache[e]
      BY <2>11
    <3>2. CASE e = d /\ m = n
      <4>1. cache'[c] = cache[c] /\ c \in DOMAIN cache'
        BY <2>4, <2>6, <2>11
      <4> QED
        BY <2>3, <2>7, <2>10, <2>11, <3>2, <4>1 DEF Settled
    <3>3. CASE ~(e = d /\ m = n)
      <4>1. cache'[e][m] = cache[e][m]
        BY <2>11, <3>1, <3>3
      <4>2. Settled(cache, e, m)
        BY <3>1, <4>1 DEF NewestInv, SettledInv
      <4> DEFINE below == Append(e, m)
      <4>3. below \in DOMAIN cache /\ Covers(cache[e][m].virtual, cache[e][m].time, cache[below], DOMAIN cache[below])
        BY <4>2 DEF Settled
      <4>4. below # d
        <5> SUFFICES ASSUME below = d PROVE FALSE
          OBVIOUS
        <5>1. Remembered(cache[d][n]) # None
          BY <2>4, <4>3 DEF Covers
        <5> QED
          BY <2>3, <5>1 DEF Remembered
      <4>5. cache'[below] = cache[below]
        BY <2>11, <4>3, <4>4
      <4> QED
        BY <2>11, <4>1, <4>2, <4>5 DEF Settled
    <3> QED
      BY <3>2, <3>3
  <2>15. Placed(cache', stack')
    BY <1>3, <1>4, <2>11 DEF Placed, k
  <2>16. ASSUME NEW i \in 1 .. Len(stack') - 1 PROVE Above(cache', stack'[i], stack'[i + 1])
    <3>1. /\ i \in 1 .. k - 1 /\ i + 1 \in 1 .. k - 1 /\ i \in 1 .. k /\ i + 1 \in 1 .. k
          /\ stack'[i] = stack[i] /\ stack'[i + 1] = stack[i + 1] /\ i < k - 1
      BY <1>3
    <3>2. PICK j \in Undone(stack[i].todo) :
            /\ stack[i + 1].dir = Append(stack[i].dir, j)
            /\ cache[stack[i].dir][j].dir /\ cache[stack[i].dir][j].virtual = None
            /\ Covers(stack[i + 1].newest, cache[stack[i].dir][j].time, cache[stack[i + 1].dir],
                      DOMAIN cache[stack[i + 1].dir] \ Undone(stack[i + 1].todo))
      BY <2>1, <3>1 DEF FrameInv, Above, k
    <3>3. stack[i].dir # d
      <4>1. Len(stack[i].dir) < Len(d)
        BY <2>1, <2>2, <3>1 DEF FrameInv, k, d, parent
      <4>2. Len(d) \in Nat
        BY <2>5 DEF Path
      <4> QED
        BY <4>1, <4>2
    <3>4. stack[i].dir \in DOMAIN cache /\ stack[i + 1].dir \in DOMAIN cache
      BY <1>4, <3>1 DEF Placed, k
    <3>5. cache'[stack[i].dir] = cache[stack[i].dir]
      BY <2>11, <3>3, <3>4
    <3>6. Covers(stack[i + 1].newest, cache[stack[i].dir][j].time, cache'[stack[i + 1].dir],
                 DOMAIN cache'[stack[i + 1].dir] \ Undone(stack[i + 1].todo))
      <4>1. CASE stack[i + 1].dir = d
        <5>1. i + 1 = k - 1
          <6>1. \A a, b \in 1 .. k : a < b => Len(stack[a].dir) < Len(stack[b].dir)
            BY <2>1 DEF FrameInv, k
          <6>2. ~(i + 1 < k - 1)
            <7> SUFFICES ASSUME i + 1 < k - 1 PROVE FALSE
              OBVIOUS
            <7>1. Len(stack[i + 1].dir) < Len(stack[k - 1].dir)
              BY <2>2, <3>1, <6>1
            <7>2. stack[k - 1].dir = d /\ Len(d) \in Nat
              BY <2>5 DEF d, parent, Path
            <7> QED
              BY <4>1, <7>1, <7>2
          <6> QED
            BY <1>3, <3>1, <6>2
        <5>2. stack[i + 1] = parent
          BY <5>1 DEF parent
        <5>3. n \in Undone(stack[i + 1].todo)
          BY <2>3, <5>2
        <5>4. /\ DOMAIN cache'[d] = DOMAIN cache[d]
              /\ \A m \in DOMAIN cache[d] \ Undone(stack[i + 1].todo) : cache'[d][m] = cache[d][m]
          BY <2>4, <2>11, <5>3
        <5> QED
          BY <3>2, <4>1, <5>4 DEF Covers
      <4>2. CASE stack[i + 1].dir # d
        <5>1. cache'[stack[i + 1].dir] = cache[stack[i + 1].dir]
          BY <2>11, <3>4, <4>2
        <5> QED
          BY <3>2, <5>1
      <4> QED
        BY <4>1, <4>2
    <3> QED
      BY <3>1, <3>2, <3>5, <3>6 DEF Above
  <2>17. \A i, j \in 1 .. Len(stack') : i < j => Len(stack'[i].dir) < Len(stack'[j].dir)
    BY <1>3, <2>1 DEF FrameInv, k
  <2>18. FrameInv(cache', stack')
    BY <2>16, <2>17 DEF FrameInv
  <2>19. ~Pending'
    BY <1>1, <1>8 DEF Pending, k
  <2> QED
    BY <1>1, <2>13, <2>14, <2>15, <2>18, <2>19 DEF NewestInv, WalkInv, Asks
<1> QED
  BY <1>7, <1>8

LEMMA NextNewest == AheadInv /\ NewestInv /\ [Next]_vars => NewestInv'
<1> SUFFICES ASSUME AheadInv, NewestInv, [Next]_vars PROVE NewestInv'
  OBVIOUS
<1> DEFINE Listing(l) ==
      /\ {"dir", "got"} \subseteq DOMAIN l /\ IsListing(l.got)
      /\ \A n \in DOMAIN l.got : l.got[n].virtual = None
<1>1. Listing(listing) /\ \A r \in log : r.dir \in BOOLEAN
  BY DEF NewestInv, Shapes
<1>2. ASSUME UNCHANGED <<cache, walk, pc>>, Listing(listing'), listing'.dir = listing.dir,
             \A r \in log' : r \in log \/ r.dir \in BOOLEAN
      PROVE  NewestInv'
  <2>1. \A r \in log' : r.dir \in BOOLEAN
    BY <1>1, <1>2
  <2> QED
    BY <1>2, <2>1, KeepsNewest
<1>3. ASSUME NEW at, NEW dir \in BOOLEAN, NEW time PROVE Record(at, dir, time, clock).dir \in BOOLEAN
  BY DEF Record
<1>4. CASE Others
  <2>1. UNCHANGED <<cache, walk, pc>>
    BY <1>4 DEF Others, Tick, Touch, Create, Unlink, Around
  <2>2. \A r \in log' : r \in log \/ r.dir \in BOOLEAN
    <3>1. ASSUME Tick PROVE log' = log
      BY <3>1 DEF Tick, history
    <3>2. ASSUME NEW p, NEW time, Touch(p, time)
          PROVE  log' = log \cup {Record(p, FALSE, time, clock)}
      BY <3>2 DEF Touch
    <3>3. ASSUME NEW p, Create(p)
          PROVE  log' = log \cup {Record(p, FALSE, clock, clock), Record(Front(p), TRUE, clock, clock)}
      BY <3>3 DEF Create
    <3>4. ASSUME NEW p, Unlink(p)
          PROVE  log' = log \cup {Record(Front(p), TRUE, clock, clock)}
      BY <3>4 DEF Unlink
    <3> QED
      BY <1>3, <1>4, <3>1, <3>2, <3>3, <3>4 DEF Others
  <2>3. listing' = listing \/ \E must : listing' = [listing EXCEPT !.must = must]
    BY <1>4 DEF Others, Tick, Touch, Create, Unlink, history
  <2>4. Listing(listing') /\ listing'.dir = listing.dir
    BY <1>1, <2>3
  <2> QED
    BY <1>2, <2>1, <2>2, <2>4
<1>5. ASSUME NEW n \in Name, ReadGone(n) PROVE NewestInv'
  <2>1. /\ listing' = [listing EXCEPT !.seen = @ \cup {n}]
        /\ UNCHANGED <<cache, walk, pc, log>>
    BY <1>5 DEF ReadGone, history
  <2>2. Listing(listing') /\ listing'.dir = listing.dir
    BY <1>1, <2>1
  <2> QED
    BY <1>2, <2>1, <2>2
<1>6. CASE UNCHANGED vars
  <2>1. UNCHANGED <<cache, walk, pc, log, listing>>
    BY <1>6 DEF vars, history
  <2> QED
    BY <1>1, <1>2, <2>1
<1>7. CASE OpenFails
  BY <1>7, FailNewest DEF OpenFails
<1>8. ASSUME NEW n \in Name, ReadFails(n) PROVE NewestInv'
  BY <1>8, FailNewest DEF ReadFails
<1>9. CASE ListFails
  BY <1>9, FailNewest DEF ListFails
<1> QED
  BY <1>4, <1>5, <1>6, <1>7, <1>8, <1>9, AskNewest, OpenNewest, ReadNewest, EndOfListNewest,
     EnterNewest, CompareNewest, CollectNewest, DescendNewest, FinishNewest DEF Next, Blud

-----------------------------------------------------------------------------
(***************************************************************************)
(* From one directory to everything below it.                              *)
(***************************************************************************)
LEMMA PathSplits ==
  ASSUME NEW c \in Path, c # <<>>
  PROVE  c = Append(Front(c), Last(c)) /\ Front(c) \in Path /\ Last(c) \in Name
         /\ Len(Front(c)) = Len(c) - 1
<1>1. c \in Seq(Name)
  BY DEF Path
<1>2. /\ Len(c) \in Nat /\ Len(c) > 0 /\ Last(c) = c[Len(c)] /\ Last(c) \in Name
      /\ Front(c) \in Seq(Name) /\ Len(Front(c)) = Len(c) - 1
      /\ \A i \in 1 .. Len(c) - 1 : Front(c)[i] = c[i]
  BY <1>1, StackTop
<1>3. /\ Append(Front(c), Last(c)) \in Seq(Name) /\ Len(Append(Front(c), Last(c))) = Len(c)
      /\ \A i \in 1 .. Len(c) : Append(Front(c), Last(c))[i] = c[i]
  BY <1>1, <1>2, StackTop
<1>4. c = Append(Front(c), Last(c))
  BY <1>1, <1>3
<1> QED
  BY <1>2, <1>4 DEF Path

LEMMA Cut ==
  ASSUME NEW p \in Path, NEW n \in Name, NEW k \in 0 .. Len(p)
  PROVE  SubSeq(Append(p, n), 1, k) = SubSeq(p, 1, k)
<1>1. p \in Seq(Name) /\ Len(p) \in Nat /\ k \in Nat /\ k <= Len(p)
  BY DEF Path
<1>2. Append(p, n) \in Seq(Name) /\ Len(Append(p, n)) = Len(p) + 1
      /\ \A i \in 1 .. Len(p) : Append(p, n)[i] = p[i]
  BY <1>1
<1>3. SubSeq(p, 1, k) = [i \in 1 .. k |-> p[i]]
  BY <1>1
<1>4. SubSeq(Append(p, n), 1, k) = [i \in 1 .. k |-> Append(p, n)[i]]
  BY <1>1, <1>2
<1>5. \A i \in 1 .. k : Append(p, n)[i] = p[i]
  BY <1>1, <1>2
<1> QED
  BY <1>3, <1>4, <1>5

LEMMA LeadsOn ==
  ASSUME NEW b \in Path, NEW p \in Path, NEW n \in Name, Len(b) <= Len(p)
  PROVE  LeadsTo(b, Append(p, n)) <=>
           /\ LeadsTo(b, p) /\ p \in DOMAIN cache /\ n \in DOMAIN cache[p] /\ cache[p][n].dir
<1> DEFINE c == Append(p, n)
<1>1. /\ p \in Seq(Name) /\ b \in Seq(Name) /\ Len(p) \in Nat /\ Len(b) \in Nat
      /\ Len(c) = Len(p) + 1 /\ c[Len(p) + 1] = n
      /\ \A i \in 1 .. Len(p) : c[i] = p[i]
  BY DEF Path
<1>2. \A k \in 0 .. Len(p) : SubSeq(c, 1, k) = SubSeq(p, 1, k)
  BY Cut
<1>3. SubSeq(p, 1, Len(p)) = p
  BY <1>1
<1>4. SubSeq(c, 1, Len(p)) = p
  BY <1>1, <1>2, <1>3
<1> DEFINE Step(q, k) == /\ SubSeq(q, 1, k) \in DOMAIN cache
                         /\ q[k + 1] \in DOMAIN cache[SubSeq(q, 1, k)]
                         /\ cache[SubSeq(q, 1, k)][q[k + 1]].dir
<1>5. IsPrefix(b, c) <=> IsPrefix(b, p)
  <2>1. Len(b) \in 0 .. Len(p) /\ Len(b) <= Len(c)
    BY <1>1
  <2> QED
    BY <1>2, <2>1 DEF IsPrefix
<1>6. ASSUME NEW k \in Len(b) .. Len(p) - 1 PROVE Step(c, k) <=> Step(p, k)
  <2>1. k \in 0 .. Len(p) /\ k + 1 \in 1 .. Len(p)
    BY <1>1
  <2>2. SubSeq(c, 1, k) = SubSeq(p, 1, k) /\ c[k + 1] = p[k + 1]
    BY <1>1, <1>2, <2>1
  <2> HIDE DEF c
  <2> QED
    BY <2>2
<1>7. Step(c, Len(p)) <=> p \in DOMAIN cache /\ n \in DOMAIN cache[p] /\ cache[p][n].dir
  BY <1>1, <1>4
<1>8. Len(b) .. Len(c) - 1 = (Len(b) .. Len(p) - 1) \cup {Len(p)}
  BY <1>1
<1>9. LeadsTo(b, c) <=> IsPrefix(b, c) /\ \A k \in Len(b) .. Len(c) - 1 : Step(c, k)
  BY DEF LeadsTo
<1>10. LeadsTo(b, p) <=> IsPrefix(b, p) /\ \A k \in Len(b) .. Len(p) - 1 : Step(p, k)
  BY DEF LeadsTo
<1> HIDE DEF Link, c
<1>11. LeadsTo(b, c) <=> LeadsTo(b, p) /\ Step(c, Len(p))
  BY <1>5, <1>6, <1>8, <1>9, <1>10
<1> QED
  BY <1>7, <1>11 DEF c

LEMMA LeadsToItself ==
  ASSUME NEW b \in Path
  PROVE  /\ LeadsTo(b, b)
         /\ \A c \in Path : LeadsTo(b, c) => Len(b) <= Len(c) /\ (Len(c) = Len(b) => c = b)
<1>1. b \in Seq(Name) /\ Len(b) \in Nat
  BY DEF Path
<1>2. LeadsTo(b, b)
  BY <1>1 DEF LeadsTo, IsPrefix
<1>3. ASSUME NEW c \in Path, LeadsTo(b, c) PROVE Len(b) <= Len(c) /\ (Len(c) = Len(b) => c = b)
  <2>1. Len(b) <= Len(c) /\ SubSeq(b, 1, Len(b)) = SubSeq(c, 1, Len(b))
    BY <1>3 DEF LeadsTo, IsPrefix
  <2>2. c \in Seq(Name) /\ SubSeq(b, 1, Len(b)) = b /\ SubSeq(c, 1, Len(c)) = c
    BY <1>1 DEF Path
  <2> QED
    BY <2>1, <2>2
<1> QED
  BY <1>2, <1>3

(* Induction on numbers. *)
LEMMA Counting == ASSUME NEW T \in SUBSET Nat, 0 \in T, \A j \in T : j + 1 \in T PROVE T = Nat
<1> DEFINE R == {p \in Nat \X Nat : p[1] < p[2]}
           U == Nat \ T
<1> SUFFICES ASSUME U # {} PROVE FALSE
  OBVIOUS
<1>1. IsWellFoundedOn(R, Nat)
  <2>1. OpToRel(<, Nat) = R
    BY DEF OpToRel
  <2> QED
    BY <2>1, NatLessThanWellFounded
<1>2. PICK x \in U : \A y \in U : ~(<<y, x>> \in R)
  <2>1. U \subseteq Nat
    OBVIOUS
  <2> HIDE DEF R, U
  <2> QED
    BY <1>1, <2>1, WFMin
<1>3. x # 0 /\ x \in Nat /\ x - 1 \in Nat
  OBVIOUS
<1>4. <<x - 1, x>> \in R
  BY <1>3
<1>5. x - 1 \in T
  BY <1>2, <1>3, <1>4
<1> QED
  BY <1>3, <1>5

(* Every directory below one whose timestamp is remembered is remembered   *)
(* too, with one that is not later.                                        *)
Kept(newest, e, m) ==
  /\ e \in DOMAIN cache /\ m \in DOMAIN cache[e]
  /\ cache[e][m].virtual # None /\ cache[e][m].virtual <= newest

LEMMA KeptOn ==
  ASSUME NewestInv, NEW newest \in Time, NEW e, NEW m, Kept(newest, e, m),
         NEW x \in DOMAIN cache[Append(e, m)]
  PROVE  LET c == Append(e, m) IN
         /\ c \in DOMAIN cache
         /\ cache[c][x].time <= newest
         /\ cache[c][x].dir => Kept(newest, c, x) /\ Append(c, x) \in DOMAIN cache
<1> DEFINE c == Append(e, m)
<1>1. Settled(cache, e, m)
  BY DEF NewestInv, SettledInv, Kept
<1>2. /\ c \in DOMAIN cache /\ Remembered(cache[c][x]) # None
      /\ Remembered(cache[c][x]) <= cache[e][m].virtual
  BY <1>1 DEF Settled, Covers
<1>3. cache[c][x] \in Entries_ /\ cache[e][m] \in Entries_
  BY <1>2 DEF NewestInv, Shapes, IsListing, Kept
<1>4. \A t \in Time \cup {None} : t \in Int
  BY DEF Time, None
<1>5. /\ Remembered(cache[c][x]) \in Int /\ newest \in Int
      /\ cache[e][m].virtual \in Int /\ cache[c][x].time \in Int
  BY <1>3, <1>4 DEF Entries_, Remembered
<1>6. Remembered(cache[c][x]) <= newest
  BY <1>2, <1>5 DEF Kept
<1> HIDE DEF c
<1>7. CASE cache[c][x].dir
  <2>1. Remembered(cache[c][x]) = cache[c][x].virtual
    BY <1>7 DEF Remembered
  <2>2. Settled(cache, c, x)
    BY <1>2, <2>1 DEF NewestInv, SettledInv, c
  <2>3. cache[c][x].time <= cache[c][x].virtual /\ Append(c, x) \in DOMAIN cache
    BY <2>2 DEF Settled, Covers
  <2>4. cache[c][x].time <= newest
    BY <1>5, <1>6, <2>1, <2>3
  <2> QED
    BY <1>2, <1>6, <2>1, <2>3, <2>4 DEF Kept, c
<1>8. CASE ~cache[c][x].dir
  <2>1. Remembered(cache[c][x]) = cache[c][x].time
    BY <1>8 DEF Remembered
  <2> QED
    BY <1>2, <1>6, <1>8, <2>1 DEF c
<1> QED
  BY <1>7, <1>8

LEMMA KeptBelow ==
  ASSUME NewestInv, NEW d \in DOMAIN cache, NEW n \in DOMAIN cache[d],
         cache[d][n].virtual # None, NEW c \in Path, LeadsTo(Append(d, n), c)
  PROVE  c # <<>> /\ Kept(cache[d][n].virtual, Front(c), Last(c))
<1> DEFINE b == Append(d, n)
           newest == cache[d][n].virtual
           Good(p) == p # <<>> /\ Kept(newest, Front(p), Last(p))
           T == {j \in Nat : \A p \in Path : LeadsTo(b, p) /\ Len(p) = Len(b) + j => Good(p)}
<1>1. d \in Path /\ n \in Name /\ cache[d][n] \in Entries_
  BY DEF NewestInv, Shapes, IsListing
<1>2. b \in Path /\ b # <<>> /\ Front(b) = d /\ Last(b) = n /\ Len(b) \in Nat
  <2>1. \A p \in Path : Len(p) \in Nat
    BY DEF Path
  <2> QED
    BY <1>1, <2>1, PathParts
<1>3. newest \in Time /\ newest <= newest
  BY <1>1 DEF Entries_, Time
<1> HIDE DEF b, newest
<1>4. Good(b)
  BY <1>2, <1>3 DEF Kept, newest
<1>5. 0 \in T
  <2>1. \A p \in Path : LeadsTo(b, p) /\ Len(p) = Len(b) + 0 => p = b
    BY <1>2, LeadsToItself
  <2> QED
    BY <1>4, <2>1
<1>6. ASSUME NEW j \in T PROVE j + 1 \in T
  <2> SUFFICES ASSUME NEW p \in Path, LeadsTo(b, p), Len(p) = Len(b) + (j + 1)
               PROVE  Good(p)
    OBVIOUS
  <2>1. j \in Nat /\ p # <<>>
    BY <1>2
  <2> DEFINE q == Front(p)
             x == Last(p)
  <2>2. p = Append(q, x) /\ q \in Path /\ x \in Name /\ Len(q) = Len(b) + j
    <3>1. p = Append(q, x) /\ q \in Path /\ x \in Name /\ Len(q) = Len(p) - 1
      BY <2>1, PathSplits
    <3> HIDE DEF q, x
    <3>2. Len(q) = Len(b) + j
      BY <1>2, <2>1, <3>1
    <3> QED
      BY <3>1, <3>2
  <2> HIDE DEF q, x
  <2>3. LeadsTo(b, q) /\ q \in DOMAIN cache /\ x \in DOMAIN cache[q] /\ cache[q][x].dir
    <3>1. Len(b) <= Len(q)
      BY <1>2, <2>1, <2>2
    <3>2. LeadsTo(b, Append(q, x))
      BY <2>2
    <3> QED
      BY <1>2, <2>2, <3>1, <3>2, LeadsOn
  <2>4. q # <<>> /\ Kept(newest, Front(q), Last(q))
    BY <1>6, <2>2, <2>3
  <2>5. q = Append(Front(q), Last(q))
    BY <2>2, <2>4, PathSplits
  <2>6. Kept(newest, q, x)
    BY <1>3, <2>3, <2>4, <2>5, KeptOn
  <2> QED
    BY <2>1, <2>6 DEF q, x
<1>7. T \in SUBSET Nat
  OBVIOUS
<1> HIDE DEF T
<1>8. T = Nat
  BY <1>5, <1>6, <1>7, Counting
<1>9. Len(c) \in Nat /\ Len(b) <= Len(c)
  <2>1. Len(c) \in Nat
    BY DEF Path
  <2>2. LeadsTo(b, c)
    BY DEF b
  <2> QED
    BY <1>2, <2>1, <2>2, LeadsToItself
<1>10. Len(c) - Len(b) \in Nat /\ Len(c) = Len(b) + (Len(c) - Len(b))
  BY <1>2, <1>9
<1>11. Good(c)
  BY <1>8, <1>10 DEF T, b
<1> QED
  BY <1>11 DEF newest

LEMMA NewestSettles == NewestInv => VirtualIsNewest
<1> SUFFICES ASSUME NewestInv, NEW d \in DOMAIN cache, NEW n \in DOMAIN cache[d],
                    cache[d][n].virtual # None
             PROVE  LET below == {c \in DOMAIN cache : LeadsTo(Append(d, n), c)}
                        times == {cache[d][n].time} \cup
                                 UNION {{cache[c][m].time : m \in DOMAIN cache[c]} : c \in below}
                    IN  /\ Append(d, n) \in below
                        /\ \A c \in below : \A m \in DOMAIN cache[c] :
                             cache[c][m].dir => Append(c, m) \in below
                        /\ cache[d][n].virtual \in times
                        /\ \A time \in times : time <= cache[d][n].virtual
  BY DEF VirtualIsNewest
<1> DEFINE b == Append(d, n)
           newest == cache[d][n].virtual
           own == cache[d][n].time
           below == {c \in DOMAIN cache : LeadsTo(b, c)}
           times == {own} \cup UNION {{cache[c][m].time : m \in DOMAIN cache[c]} : c \in below}
<1>1. /\ DOMAIN cache \subseteq Path /\ n \in Name /\ cache[d][n] \in Entries_
      /\ \A c \in DOMAIN cache : DOMAIN cache[c] \subseteq Name
  BY DEF NewestInv, Shapes, IsListing
<1>2. b \in Path /\ b # <<>> /\ Front(b) = d /\ Last(b) = n /\ Len(b) \in Nat
  <2>1. \A p \in Path : Len(p) \in Nat
    BY DEF Path
  <2> QED
    BY <1>1, <2>1, PathParts
<1>3. newest \in Time /\ own \in Time
  BY <1>1 DEF Entries_
<1>4. Settled(cache, d, n)
  BY DEF NewestInv, SettledInv
<1>5. b \in DOMAIN cache /\ own <= newest
  BY <1>4 DEF Settled, Covers
<1> HIDE DEF b, newest, own
<1>6. b \in below
  BY <1>2, <1>5, LeadsToItself
<1>7. ASSUME NEW c \in below
      PROVE  /\ c \in Path /\ Len(b) <= Len(c) /\ c = Append(Front(c), Last(c))
             /\ Kept(newest, Front(c), Last(c)) /\ Front(c) \in Path /\ Last(c) \in Name
  <2>1. c \in Path /\ LeadsTo(b, c)
    BY <1>1
  <2>2. c # <<>> /\ Kept(newest, Front(c), Last(c))
    BY <2>1, KeptBelow DEF b, newest
  <2>3. Len(b) <= Len(c)
    BY <1>2, <2>1, LeadsToItself
  <2> QED
    BY <2>1, <2>2, <2>3, PathSplits
<1>8. ASSUME NEW c \in below, NEW m \in DOMAIN cache[c]
      PROVE  /\ cache[c][m].time <= newest
             /\ cache[c][m].dir => Append(c, m) \in below
  <2>1. m \in DOMAIN cache[Append(Front(c), Last(c))]
    BY <1>7
  <2>2. /\ cache[c][m].time <= newest
        /\ cache[c][m].dir => Append(c, m) \in DOMAIN cache
    BY <1>3, <1>7, <2>1, KeptOn
  <2>3. ASSUME cache[c][m].dir PROVE LeadsTo(b, Append(c, m))
    <3>1. c \in Path /\ m \in Name /\ Len(b) <= Len(c) /\ LeadsTo(b, c) /\ c \in DOMAIN cache
      BY <1>1, <1>7
    <3> QED
      BY <1>2, <2>3, <3>1, LeadsOn
  <2> QED
    BY <2>2, <2>3
<1>9. newest \in times
  <2>1. PICK long \in Nat : \A c \in DOMAIN cache : Len(c) <= long
    BY DEF NewestInv, Shapes
  <2> DEFINE Reaches(e, m) == /\ e \in DOMAIN cache /\ m \in DOMAIN cache[e]
                              /\ cache[e][m].virtual = newest
                              /\ cache[e][m].time \in times /\ Append(e, m) \in below
             T == {j \in Nat : \A e \in DOMAIN cache : \A m \in DOMAIN cache[e] :
                     Reaches(e, m) /\ Len(Append(e, m)) + j > long => newest \in times}
  <2>2. \A c \in below : Len(c) \in Nat /\ Len(c) <= long
    BY <1>1, <2>1 DEF Path
  <2>3. 0 \in T
    <3> SUFFICES ASSUME NEW e \in DOMAIN cache, NEW m \in DOMAIN cache[e], Reaches(e, m),
                        Len(Append(e, m)) + 0 > long
                 PROVE  FALSE
      OBVIOUS
    <3>1. Len(Append(e, m)) \in Nat /\ Len(Append(e, m)) <= long
      BY <2>2
    <3> QED
      BY <2>1, <3>1
  <2>4. ASSUME NEW j \in T PROVE j + 1 \in T
    <3> SUFFICES ASSUME NEW e \in DOMAIN cache, NEW m \in DOMAIN cache[e], Reaches(e, m),
                        Len(Append(e, m)) + (j + 1) > long
                 PROVE  newest \in times
      OBVIOUS
    <3> DEFINE c == Append(e, m)
    <3>1. Settled(cache, e, m)
      <4>1. newest # None
        BY DEF newest
      <4> QED
        BY <4>1 DEF NewestInv, SettledInv
    <3>2. newest = cache[e][m].time \/ \E x \in DOMAIN cache[c] : newest = Remembered(cache[c][x])
      BY <3>1 DEF Settled, Covers
    <3>3. CASE newest = cache[e][m].time
      BY <3>3
    <3>4. ASSUME NEW x \in DOMAIN cache[c], newest = Remembered(cache[c][x]) PROVE newest \in times
      <4>1. c \in below /\ cache[c][x].time \in times /\ x \in Name /\ c \in Path
        BY <1>1
      <4>2. CASE ~cache[c][x].dir
        BY <3>4, <4>1, <4>2 DEF Remembered
      <4>3. CASE cache[c][x].dir
        <5>1. cache[c][x].virtual = newest /\ Append(c, x) \in below
          BY <1>8, <3>4, <4>1, <4>3 DEF Remembered
        <5>2. Reaches(c, x)
          BY <4>1, <5>1
        <5>3. Len(Append(c, x)) = Len(c) + 1 /\ Len(c) \in Nat
          BY <2>2, <4>1, PathParts
        <5>4. Len(Append(c, x)) + j > long /\ j \in Nat
          BY <2>1, <5>3
        <5> HIDE DEF c, Reaches, times
        <5>5. c \in DOMAIN cache
          BY <4>1
        <5> QED
          BY <2>4, <5>2, <5>4, <5>5
      <4> QED
        BY <4>2, <4>3
    <3> QED
      BY <3>2, <3>3, <3>4
  <2>5. T \in SUBSET Nat
    OBVIOUS
  <2>6. Reaches(d, n)
    BY <1>6 DEF b, newest, own
  <2> HIDE DEF T, Reaches, below, times
  <2>7. T = Nat
    BY <2>3, <2>4, <2>5, Counting
  <2>8. long + 1 \in T /\ Len(Append(d, n)) + (long + 1) > long
    BY <1>2, <2>1, <2>7 DEF b
  <2> QED
    BY <2>6, <2>8 DEF T
<1>10. \A time \in times : time <= newest
  BY <1>5, <1>8
<1>11. /\ b \in below
       /\ \A c \in below : \A m \in DOMAIN cache[c] : cache[c][m].dir => Append(c, m) \in below
       /\ newest \in times /\ \A time \in times : time <= newest
  <2> HIDE DEF below, times
  <2> QED
    BY <1>6, <1>8, <1>9, <1>10
<1> QED
  BY <1>11 DEF b, newest, own

(***************************************************************************)
(* A virtual timestamp is remembered only when everything below has been   *)
(* read, and is the newest of it, however deep the tree is and whatever    *)
(* others do while it is walked (dircache.lua:215-234).                    *)
(***************************************************************************)
THEOREM VirtualIsTheNewest == Spec => []VirtualIsNewest
<1>1. Init => AheadInv /\ NewestInv
  BY InitInv, InitNewest
<1>2. (AheadInv /\ NewestInv) /\ [Next]_vars => (AheadInv /\ NewestInv)'
  BY NextInv, NextNewest
<1> QED
  BY <1>1, <1>2, NewestSettles, PTL DEF Spec
=============================================================================
