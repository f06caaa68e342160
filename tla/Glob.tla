-------------------------------- MODULE Glob --------------------------------
(***************************************************************************)
(* glob_expand of blud.c: which names of a directory one component of a    *)
(* pattern matches.  The names lie one after the other in the string that  *)
(* get_dir_cache made, each with a NUL behind it; pattern_match is given   *)
(* the address of a name and goes on until it has decided.                 *)
(***************************************************************************)
EXTENDS Integers, SequencesExt

CONSTANTS Patterns,    \* sequences of bytes
          Listings,    \* sequences of names, each a sequence of bytes
          Beyond       \* what may follow the string in memory

Byte == 0 .. 255
NUL == 0
Bang == 33
Star == 42
Dash == 45
Question == 63
Open == 91
Close == 93

Text == Seq(Byte \ {NUL})

ASSUME GlobAssumption ==
  /\ Patterns \subseteq Text
  /\ \A listing \in Listings : listing \in Seq(Text \ {<<>>})
  /\ \A bytes \in Beyond : bytes \in Seq(Byte)

VARIABLES pattern, names, buffer,
          pc,                  \* name, match, done; lost: outside of memory
          start,               \* where the name begins
          pat, input,          \* the pointers of pattern_match
          backPat, backInput,  \* 0: no star so far
          words,               \* the names matched
          fits,                \* their places in names
          over                 \* places of names whose NUL matched something

vars == <<pattern, names, buffer, pc, start, pat, input, backPat, backInput,
          words, fits, over>>
given == <<pattern, names, buffer>>

Stored(listing) == FlattenSeq([i \in DOMAIN listing |-> Append(listing[i], NUL)])
Size == Len(Stored(names))

\* Lua puts a NUL behind every string.
Init ==
  /\ pattern \in Patterns /\ names \in Listings
  /\ \E bytes \in Beyond : buffer = Stored(names) \o <<NUL>> \o bytes
  /\ pc = "name" /\ start = 1
  /\ pat = 0 /\ input = 0 /\ backPat = 0 /\ backInput = 0
  /\ words = <<>> /\ fits = {} /\ over = {}

-----------------------------------------------------------------------------
(* lua_glob_expand *)
NameEnd == CHOOSE i \in start .. Size :
             buffer[i] = NUL /\ \A j \in start .. i - 1 : buffer[j] # NUL
NameAt == Cardinality({i \in 1 .. start - 1 : buffer[i] = NUL}) + 1

BeginName ==
  /\ pc = "name" /\ start <= Size
  /\ pc' = "match"
  /\ pat' = 1 /\ input' = start /\ backPat' = 0 /\ backInput' = 0
  /\ UNCHANGED <<given, start, words, fits, over>>

EndOfNames ==
  /\ pc = "name" /\ start > Size
  /\ pc' = "done"
  /\ UNCHANGED <<given, start, pat, input, backPat, backInput, words, fits, over>>

NextName == NameEnd + 1

Result(matched) ==
  /\ words' = IF matched THEN Append(words, SubSeq(buffer, start, NameEnd - 1))
              ELSE words
  /\ fits' = IF matched THEN fits \cup {NameAt} ELSE fits
  /\ start' = NextName
  /\ pc' = "name"
  /\ UNCHANGED <<given, pat, input, backPat, backInput, over>>

-----------------------------------------------------------------------------
(* pattern_match, one turn of its loop: c is the byte of the name, p that  *)
(* of the pattern, and both pointers stand behind them.                    *)
Pat(i) == IF i <= Len(pattern) THEN pattern[i] ELSE NUL
c == buffer[input]
p == Pat(pat)
Turn == pc = "match" /\ input \in DOMAIN buffer

(* Stars, and where to begin again. *)
AfterStars == CHOOSE i \in pat .. Len(pattern) + 1 :
                Pat(i) # Star /\ \A j \in pat .. i - 1 : Pat(j) = Star

TrailingStar == Turn /\ p = Star /\ Pat(AfterStars) = NUL /\ Result(TRUE)

StarSeen ==
  /\ Turn /\ p = Star /\ Pat(AfterStars) # NUL
  /\ pat' = AfterStars /\ backPat' = AfterStars
  /\ backInput' = input
  /\ UNCHANGED <<given, pc, start, input, words, fits, over>>

(* A class: its first byte may be a bracket; a range whose end would be    *)
(* the bracket is none.                                                    *)
Negated == Pat(pat + 1) = Bang
First == IF Negated THEN pat + 2 ELSE pat + 1
Closing == {i \in First + 1 .. Len(pattern) :
              Pat(i) = Close /\ \A j \in First + 1 .. i - 1 : Pat(j) # Close}
IsClass == p = Open /\ Closing # {}
ClassEnd == CHOOSE i \in Closing : TRUE
IsRange(i) == Pat(i + 1) = Dash /\ Pat(i + 2) \notin {Close, NUL}
Items ==
  LET Begins[i \in First .. ClassEnd] ==
        i = First \/ \E j \in First .. i - 1 :
                       Begins[j] /\ i = IF IsRange(j) THEN j + 3 ELSE j + 1
  IN  {i \in First .. ClassEnd - 1 : Begins[i]}
Among(byte) ==
  \E i \in Items :
    Pat(i) <= byte /\ byte <= IF IsRange(i) THEN Pat(i + 2) ELSE Pat(i)
InItems(byte) == Among(byte)                \* mutant: the bang is forgotten
InClass(byte) == Among(byte) # Negated

Passes == over' = IF c = NUL THEN over \cup {NameAt} ELSE over

ClassMatches ==
  /\ Turn /\ IsClass /\ InClass(c)
  /\ pat' = ClassEnd + 1 /\ input' = input + 1
  /\ Passes
  /\ UNCHANGED <<given, pc, start, backPat, backInput, words, fits>>

(* The same byte or a question mark; a bracket that does not begin a class. *)
Single == p # Star /\ ~IsClass /\ (c = p \/ p = Question)

EndMatches == Turn /\ Single /\ p = NUL /\ Result(TRUE)

ByteMatches ==
  /\ Turn /\ Single /\ p # NUL
  /\ pat' = pat + 1 /\ input' = input + 1
  /\ Passes
  /\ UNCHANGED <<given, pc, start, backPat, backInput, words, fits>>

Differs == p # Star /\ IF IsClass THEN ~InClass(c) ELSE ~Single

NoMatch == Turn /\ Differs /\ (c = NUL \/ backPat = 0) /\ Result(FALSE)

SkipNone == backInput                       \* mutant
Skip == backInput + 1
Backtrack ==
  /\ Turn /\ Differs /\ c # NUL /\ backPat # 0
  /\ pat' = backPat
  /\ backInput' = Skip
  /\ input' = backInput'
  /\ UNCHANGED <<given, pc, start, backPat, words, fits, over>>

(* The model does not say what a byte farther away is. *)
Lost ==
  /\ pc = "match" /\ input \notin DOMAIN buffer
  /\ pc' = "lost"
  /\ UNCHANGED <<given, start, pat, input, backPat, backInput, words, fits, over>>

-----------------------------------------------------------------------------
Next ==
  \/ BeginName \/ EndOfNames
  \/ TrailingStar \/ StarSeen \/ ClassMatches \/ EndMatches \/ ByteMatches
  \/ NoMatch \/ Backtrack \/ Lost

Spec == Init /\ [][Next]_vars /\ WF_vars(Next)

-----------------------------------------------------------------------------
(* What the pattern means: a star is any bytes, a question mark any one    *)
(* byte, a class one byte of it.                                           *)
ClassAt(i) ==       \* the class at i of the pattern: its end and its bytes
  LET first == IF Pat(i + 1) = Bang THEN i + 2 ELSE i + 1
      ends == {j \in first + 1 .. Len(pattern) : Pat(j) = Close}
      end == CHOOSE j \in ends : \A k \in ends : j <= k
      BytesFrom[j \in first .. end] ==
        IF j = end THEN {}
        ELSE IF Pat(j + 1) = Dash /\ j + 2 < end
             THEN (Pat(j) .. Pat(j + 2)) \cup BytesFrom[j + 3]
             ELSE {Pat(j)} \cup BytesFrom[j + 1]
  IN  IF Pat(i) # Open \/ ends = {} THEN [after |-> i, bytes |-> {}]
      ELSE [after |-> end + 1,
            bytes |-> IF first = i + 2 THEN Byte \ BytesFrom[first] ELSE BytesFrom[first]]

Fits(name) ==
  LET From[i \in 1 .. Len(pattern) + 1, j \in 1 .. Len(name) + 1] ==
        CASE i > Len(pattern) -> j > Len(name)
          [] i <= Len(pattern) /\ Pat(i) = Star ->
               From[i + 1, j] \/ (j <= Len(name) /\ From[i, j + 1])
          [] i <= Len(pattern) /\ Pat(i) # Star ->
               /\ j <= Len(name)
               /\ IF ClassAt(i).after # i
                  THEN name[j] \in ClassAt(i).bytes /\ From[ClassAt(i).after, j + 1]
                  ELSE Pat(i) \in {Question, name[j]} /\ From[i + 1, j + 1]
  IN  From[1, 1]

(* The pointer to the names is always at the beginning of one, or behind   *)
(* the last.                                                               *)
TypeOK ==
  /\ pattern \in Patterns /\ names \in Listings
  /\ pc \in {"name", "match", "done", "lost"}
  /\ start \in {1} \cup {i + 1 : i \in {j \in 1 .. Size : buffer[j] = NUL}}
  /\ pc = "match" => start <= Size /\ pat \in 1 .. Len(pattern) + 1
  /\ backPat \in 0 .. Len(pattern) /\ backInput \in 0 .. Len(buffer)
  /\ fits \subseteq DOMAIN names /\ over \subseteq DOMAIN names
  /\ Len(words) = Cardinality(fits)

Decided == {i \in DOMAIN names : pc = "done" \/ (pc = "name" /\ i < NameAt)}

(***************************************************************************)
(* No name that the pattern means is left out, wherever the search for a   *)
(* place after a star leads (blud.c:275-334).  One that it does not mean   *)
(* is not matched, unless a question mark or a class that begins with !    *)
(* was compared with the NUL behind the name and the matcher went on into  *)
(* the next one (blud.c:297, 322-326): so "a?" matches "a", although       *)
(* README.md:94 says "An unmatched pattern contributes no prerequisite".   *)
(***************************************************************************)
ExactUnlessOver ==
  \A i \in Decided : /\ Fits(names[i]) => i \in fits
                     /\ i \in fits => Fits(names[i]) \/ i \in over

(***************************************************************************)
(* The search ends for every pattern and every name.                       *)
(***************************************************************************)
Ends == <>(pc \in {"done", "lost"})
=============================================================================
