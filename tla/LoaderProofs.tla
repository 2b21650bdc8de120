---------------------------- MODULE LoaderProofs ----------------------------
(***************************************************************************)
(* Proofs about Loader, for any file, channel capacity, shuffle buffer and *)
(* number of goroutines: a load that returns without an error has written  *)
(* every line of its file to its lists once and returns how many lines     *)
(* that are, and an eviction makes at most one write of a handler fail.    *)
(***************************************************************************)
EXTENDS Loader, Functions, FiniteSetTheorems, TLAPS

\* A line that is sent on a channel.
LEMMA RangeAppend ==
  ASSUME NEW S, NEW s \in Seq(S), NEW x \in S
  PROVE  Append(s, x) \in Seq(S) /\ Range(Append(s, x)) = Range(s) \cup {x}
<1>1. /\ Append(s, x) \in Seq(S) /\ Len(Append(s, x)) = Len(s) + 1 /\ Len(s) \in Nat
      /\ \A i \in 1..Len(s) : Append(s, x)[i] = s[i]
      /\ Append(s, x)[Len(s) + 1] = x
  OBVIOUS
<1>2. DOMAIN s = 1..Len(s) /\ DOMAIN Append(s, x) = 1..(Len(s) + 1)
  BY <1>1
<1>3. 1..(Len(s) + 1) = (1..Len(s)) \cup {Len(s) + 1}
  BY <1>1
<1> QED  BY <1>1, <1>2, <1>3 DEF Range

\* A line that is received from a channel, or leaves the buffer of the reader.
LEMMA RangeTail ==
  ASSUME NEW S, NEW s \in Seq(S), s # <<>>, IsInjective(s)
  PROVE  /\ Head(s) \in S /\ Tail(s) \in Seq(S) /\ IsInjective(Tail(s))
         /\ Len(Tail(s)) = Len(s) - 1
         /\ Head(s) \in Range(s) /\ Range(Tail(s)) = Range(s) \ {Head(s)}
<1>1. /\ Head(s) \in S /\ Tail(s) \in Seq(S) /\ Len(s) \in Nat \ {0}
      /\ Len(Tail(s)) = Len(s) - 1 /\ Head(s) = s[1]
      /\ \A i \in 1..(Len(s) - 1) : Tail(s)[i] = s[i + 1]
  OBVIOUS
<1>2. DOMAIN s = 1..Len(s) /\ DOMAIN Tail(s) = 1..(Len(s) - 1)
  BY <1>1
<1>3. IsInjective(Tail(s))
  BY <1>1, <1>2 DEF IsInjective
<1>4. Head(s) \in Range(s)
  BY <1>1, <1>2 DEF Range
<1>5. ASSUME NEW c \in Range(Tail(s)) PROVE c \in Range(s) \ {Head(s)}
  <2>1. PICK i \in 1..(Len(s) - 1) : c = Tail(s)[i]
    BY <1>2, <1>5 DEF Range
  <2>2. c = s[i + 1] /\ i + 1 \in 1..Len(s) /\ 1 \in 1..Len(s) /\ i + 1 # 1
    BY <1>1, <2>1
  <2> QED  BY <1>1, <1>2, <2>2 DEF Range, IsInjective
<1>6. ASSUME NEW c \in Range(s) \ {Head(s)} PROVE c \in Range(Tail(s))
  <2>1. PICK i \in 1..Len(s) : c = s[i]
    BY <1>2, <1>6 DEF Range
  <2>2. i - 1 \in 1..(Len(s) - 1) /\ Tail(s)[i - 1] = s[i]
    BY <1>1, <1>6, <2>1
  <2> QED  BY Zenon, <1>2, <2>1, <2>2 DEF Range
<1> QED  BY <1>1, <1>3, <1>4, <1>5, <1>6

\* A line that was not in a channel is sent on it.
LEMMA InjectiveAppend ==
  ASSUME NEW S, NEW s \in Seq(S), NEW x \in S, IsInjective(s), x \notin Range(s)
  PROVE  IsInjective(Append(s, x)) /\ Len(Append(s, x)) = Len(s) + 1
<1>1. /\ Len(Append(s, x)) = Len(s) + 1 /\ Len(s) \in Nat
      /\ \A i \in 1..Len(s) : Append(s, x)[i] = s[i]
      /\ Append(s, x)[Len(s) + 1] = x
  OBVIOUS
<1>2. DOMAIN s = 1..Len(s) /\ DOMAIN Append(s, x) = 1..(Len(s) + 1)
  BY <1>1
<1>3. \A i \in 1..Len(s) : s[i] # x
  BY <1>2 DEF Range
<1> QED  BY <1>1, <1>2, <1>3 DEF IsInjective

\* readLines puts the next line of the file where it takes one from its buffer.
LEMMA RangeSwap ==
  ASSUME NEW S, NEW s \in Seq(S), IsInjective(s), NEW k \in DOMAIN s, NEW x \in S, x \notin Range(s)
  PROVE  LET t == [s EXCEPT ![k] = x]
         IN  /\ t \in Seq(S) /\ IsInjective(t) /\ Len(t) = Len(s)
             /\ s[k] \in Range(s) /\ s[k] \in S
             /\ Range(t) = (Range(s) \ {s[k]}) \cup {x}
<1> DEFINE t == [s EXCEPT ![k] = x]
<1>1. /\ Len(s) \in Nat /\ DOMAIN s = 1..Len(s) /\ s \in [1..Len(s) -> S]
  OBVIOUS
<1>2. t \in [1..Len(s) -> S] /\ \A j \in 1..Len(s) : t[j] = IF j = k THEN x ELSE s[j]
  BY <1>1
<1>3. t \in Seq(S) /\ Len(t) = Len(s) /\ DOMAIN t = 1..Len(s)
  BY <1>1, <1>2
<1> HIDE DEF t
<1>4. \A j \in 1..Len(s) : s[j] # x
  BY <1>1 DEF Range
<1>5. IsInjective(t)
  BY <1>1, <1>2, <1>3, <1>4 DEF IsInjective
<1>6. s[k] \in Range(s) /\ s[k] \in S
  BY <1>1 DEF Range
<1>7. ASSUME NEW c \in Range(t) PROVE c \in (Range(s) \ {s[k]}) \cup {x}
  <2>1. PICK j \in 1..Len(s) : c = t[j]
    BY <1>3, <1>7 DEF Range
  <2> QED  BY <1>1, <1>2, <2>1 DEF Range, IsInjective
<1>8. ASSUME NEW c \in (Range(s) \ {s[k]}) \cup {x} PROVE c \in Range(t)
  <2>1. CASE c = x
    BY <1>1, <1>2, <1>3, <2>1 DEF Range
  <2>2. CASE c # x
    <3>1. PICK j \in 1..Len(s) : c = s[j] /\ j # k
      BY <1>1, <1>8, <2>2 DEF Range
    <3> QED  BY <1>2, <1>3, <3>1 DEF Range
  <2> QED  BY <2>1, <2>2
<1>9. Range(t) = (Range(s) \ {s[k]}) \cup {x}
  BY <1>7, <1>8
<1> QED  BY Zenon, <1>3, <1>5, <1>6, <1>9 DEF t

Lines == 1..Len(ldFile)

FileOK == ldFile \in Seq(LineKinds) /\ Len(ldFile) <= MaxLines
ReaderOK ==
  /\ ldReader \in [pos : 1..(Len(ldFile) + 1), buf : Seq(Lines), closed : BOOLEAN]
  /\ Len(ldReader.buf) <= ShuffleSize
InputOK == input \in Seq(Lines) /\ Len(input) <= ChanCap
CnqOK == cnq \in Seq(Lines) /\ Len(cnq) <= ChanCap
GoroutinesOK ==
  /\ ldCall \in {"idle", "loading", "closed", "returned"} /\ ldErr \in BOOLEAN
  /\ ldParser \in [Parsers -> {0, -1, -2} \cup Lines]
  /\ ldHandler \in [Handlers -> {0, -1} \cup Lines]
CountersOK ==
  /\ ctr \in [read : Nat, parsed : Nat, processed : Nat, ignored : Nat]
  /\ loaded \in [Lines -> Seq({"live", "gone"})]

LdTypes == FileOK /\ ReaderOK /\ InputOK /\ CnqOK /\ GoroutinesOK /\ CountersOK

(* How far each line has come: 0 in the file, 1 in the shuffle buffer, 2 in input,
   3 with a parser, 4 in cnq, 5 with a handler, 6 done with.  It is in that place
   only, and there once. *)
At(stage, k) == {i \in Lines : stage[i] = k}
With(f) == {f[x] : x \in DOMAIN f} \cap Lines

InFile(stage) == At(stage, 0) = ldReader.pos..Len(ldFile)
InBuffer(stage) == At(stage, 1) = Range(ldReader.buf) /\ IsInjective(ldReader.buf)
InInput(stage) == At(stage, 2) = Range(input) /\ IsInjective(input)
WithParsers(stage) ==
  /\ At(stage, 3) = With(ldParser)
  /\ \A p, q \in Parsers : ldParser[p] = ldParser[q] /\ ldParser[p] \in Lines => p = q
InCnq(stage) == At(stage, 4) = Range(cnq) /\ IsInjective(cnq)
WithHandlers(stage) ==
  /\ At(stage, 5) = With(ldHandler)
  /\ \A g, h \in Handlers : ldHandler[g] = ldHandler[h] /\ ldHandler[g] \in Lines => g = h

LdFlow(stage) ==
  /\ stage \in [Lines -> 0..6]
  /\ InFile(stage) /\ InBuffer(stage) /\ InInput(stage)
  /\ WithParsers(stage) /\ InCnq(stage) /\ WithHandlers(stage)

(* What is at a place has passed the tests before it, only a handler writes, and
   what is done with was written everywhere or rightly left out, unless an error
   was set. *)
LdFate(stage) ==
  \A i \in Lines :
    /\ stage[i] < 5 => loaded[i] = <<>>
    /\ stage[i] = 3 => ldFile[i] # "empty"
    /\ stage[i] = 4 => ldFile[i] \notin {"empty", "garbage"}
    /\ stage[i] = 5 => /\ ldFile[i] \notin {"empty", "garbage", "foreign"}
                       /\ ldFile[i] = "badEdge" \/ Len(loaded[i]) < Writes(ldFile[i])
    /\ stage[i] = 6 /\ ~ldErr => /\ ldFile[i] \notin {"garbage", "badEdge"}
                                 /\ Len(loaded[i]) = Writes(ldFile[i])

Below(stage, c) == {i \in Lines : stage[i] < c}
ToCount == {p \in Parsers : ldParser[p] = -2}
LoadedLines == {i \in Lines : Writes(ldFile[i]) > 0 /\ Len(loaded[i]) = Writes(ldFile[i])}

LdCounts(stage) ==
  /\ ctr.read = ldReader.pos - 1
  /\ ctr.parsed + Cardinality(ToCount) + Cardinality(Below(stage, 4)) <= Len(ldFile)
  /\ ctr.ignored + Cardinality(Below(stage, 6)) <= Len(ldFile)
  /\ ctr.processed = Cardinality(LoadedLines)

(* Who has returned has nothing left to do, unless an error was set. *)
LdEnds ==
  /\ ldReader.closed => ldReader.buf = <<>> /\ ldReader.pos > Len(ldFile)
  /\ ~ldErr => \A p \in Parsers : ldParser[p] = -1 => input = <<>> /\ ldReader.closed
  /\ ldCall \in {"closed", "returned"} => \A p \in Parsers : ldParser[p] = -1
  /\ ldCall = "returned" => \A h \in Handlers : ldHandler[h] = -1
  /\ ~ldErr => \A h \in Handlers :
       ldHandler[h] = -1 => cnq = <<>> /\ ldCall \in {"closed", "returned"}
  /\ ldCall = "idle" => Init

Flows(stage) == LdTypes /\ LdEnds /\ LdFlow(stage) /\ LdFate(stage) /\ LdCounts(stage)

(* A handler that has a list holds a line that goes to lists. *)
LdHeld ==
  /\ ldPlist \in [Handlers -> {"none", "live", "gone"}]
  /\ \A h \in Handlers : ldPlist[h] # "none" =>
        ldHandler[h] \in Lines /\ ldFile[ldHandler[h]] # "badEdge"

(* Each eviction leaves every handler with at most one list that is gone: it is
   one that the handler still has, or one whose write is lost. *)
Stale == {h \in Handlers : ldPlist[h] = "gone"}
LdLosses ==
  ldEvicted \in Nat /\ Cardinality(LostWrites) + Cardinality(Stale) <= ldEvicted * Cardinality(Handlers)

LdInv == (\E stage : Flows(stage)) /\ LdHeld /\ LdLosses

\* Which lines go to lists, and to how many.
LEMMA WriteCounts ==
  /\ \A k \in LineKinds : Writes(k) \in 0..3
  /\ Writes("empty") = 0 /\ Writes("garbage") = 0 /\ Writes("foreign") = 0
  /\ Writes("badEdge") = 0 /\ Writes("edge") > 0 /\ Writes("link") > 0
BY DEF Writes, LineKinds

\* When LoadEdges has returned without an error, every line is done with.
LEMMA AllDone ==
  ASSUME Parsers # {}, Handlers # {}, LdTypes, LdEnds, NEW stage, LdFlow(stage),
         ldCall = "returned", ~ldErr
  PROVE  \A i \in Lines : stage[i] = 6
<1>1. /\ \A p \in Parsers : ldParser[p] = -1
      /\ \A h \in Handlers : ldHandler[h] = -1
  BY DEF LdEnds
<1>2. input = <<>> /\ cnq = <<>> /\ ldReader.buf = <<>> /\ ldReader.pos > Len(ldFile)
  BY <1>1 DEF LdEnds
<1>3. Range(<<>>) = {}
  BY DEF Range
<1>4. Len(ldFile) \in Nat /\ ldReader.pos \in Int /\ ldReader.pos..Len(ldFile) = {}
  BY <1>2 DEF LdTypes, FileOK, ReaderOK
<1>5. With(ldParser) = {} /\ With(ldHandler) = {}
  <2>1. -1 \notin Lines /\ DOMAIN ldParser = Parsers /\ DOMAIN ldHandler = Handlers
    BY <1>4 DEF Lines, LdTypes, FileOK, ReaderOK, GoroutinesOK
  <2> QED  BY <1>1, <2>1 DEF With
<1>6. \A k \in 0..5 : At(stage, k) = {}
  <2>1. \A k \in 0..5 : k = 0 \/ k = 1 \/ k = 2 \/ k = 3 \/ k = 4 \/ k = 5
    OBVIOUS
  <2> QED  BY <1>2, <1>3, <1>4, <1>5, <2>1
             DEF LdFlow, InFile, InBuffer, InInput, WithParsers, InCnq, WithHandlers
<1> QED  BY <1>6 DEF LdFlow, InFile, InBuffer, InInput, WithParsers, InCnq, WithHandlers, At

Moved(s, t, i, a, b) ==
  /\ t \in [Lines -> 0..6] /\ \A j \in Lines : t[j] = IF j = i THEN b ELSE s[j]
  /\ At(t, b) = At(s, b) \cup {i} /\ At(t, a) = At(s, a) \ {i}
  /\ \A k : k # b /\ k # a => At(t, k) = At(s, k)
  /\ \A c \in 0..6 : /\ Cardinality(Below(s, c)) \in Nat
                     /\ Cardinality(Below(t, c)) = IF a < c /\ b >= c
                          THEN Cardinality(Below(s, c)) - 1 ELSE Cardinality(Below(s, c))

\* A line can always be given its next place.
LEMMA Moves ==
  ASSUME FileOK, NEW s \in [Lines -> 0..6], NEW i \in Lines, NEW a \in 0..6, NEW b \in 0..6,
         a < b, s[i] = a
  PROVE  \E t : Moved(s, t, i, a, b)
<1>1. PICK t : t = [s EXCEPT ![i] = b]
  BY Zenon
<1>2. t \in [Lines -> 0..6] /\ \A j \in Lines : t[j] = IF j = i THEN b ELSE s[j]
  BY <1>1
<1>3. At(t, b) = At(s, b) \cup {i} /\ At(t, a) = At(s, a) \ {i} /\ a # b
  BY <1>2 DEF At
<1>5. ASSUME NEW k, k # b, k # a PROVE At(t, k) = At(s, k)
  BY <1>2, <1>5 DEF At
<1>4. ASSUME NEW c \in 0..6
      PROVE  /\ Cardinality(Below(s, c)) \in Nat
             /\ Cardinality(Below(t, c)) = IF a < c /\ b >= c
                  THEN Cardinality(Below(s, c)) - 1 ELSE Cardinality(Below(s, c))
  <2>1. IsFiniteSet(Lines)
    BY FS_Interval DEF Lines, FileOK
  <2>2. IsFiniteSet(Below(s, c)) /\ Cardinality(Below(s, c)) \in Nat
    BY <2>1, FS_Subset, FS_CardinalityType DEF Below
  <2>3. CASE a < c /\ b >= c
    <3>1. Below(t, c) = Below(s, c) \ {i} /\ i \in Below(s, c)
      BY <1>2, <2>3 DEF Below
    <3> QED  BY <2>2, <2>3, <3>1, FS_RemoveElement
  <2>4. CASE ~(a < c /\ b >= c)
    <3>1. Below(t, c) = Below(s, c)
      BY <1>2, <2>4 DEF Below
    <3> QED  BY <2>2, <2>4, <3>1
  <2> QED  BY <2>3, <2>4
<1> QED  BY Zenon, <1>2, <1>3, <1>4, <1>5 DEF Moved

\* A step that leaves the file alone leaves the lines and the stages' places alone.
LEMMA SameFile ==
  ASSUME ldFile' = ldFile, FileOK, NEW t
  PROVE  /\ FileOK' /\ Lines' = Lines /\ \A c : Below(t, c)' = Below(t, c)
         /\ \A k : At(t, k)' = At(t, k)
BY DEF Lines, Below, At, FileOK

\* What a step leaves alone keeps its lines.
LEMMA SamePlaces ==
  ASSUME NEW s, NEW t, LdTypes, LdFlow(s), ldFile' = ldFile
  PROVE  /\ UNCHANGED ldReader => /\ ReaderOK'
                                  /\ At(t, 0) = At(s, 0) => InFile(t)'
                                  /\ At(t, 1) = At(s, 1) => InBuffer(t)'
         /\ UNCHANGED input => InputOK' /\ (At(t, 2) = At(s, 2) => InInput(t)')
         /\ UNCHANGED ldParser /\ At(t, 3) = At(s, 3) => WithParsers(t)'
         /\ UNCHANGED cnq => CnqOK' /\ (At(t, 4) = At(s, 4) => InCnq(t)')
         /\ UNCHANGED ldHandler /\ At(t, 5) = At(s, 5) => WithHandlers(t)'
<1>1. Lines' = Lines /\ \A k : At(t, k)' = At(t, k)
  BY SameFile DEF LdTypes
<1>2. UNCHANGED ldReader => /\ ReaderOK'
                            /\ At(t, 0) = At(s, 0) => InFile(t)'
                            /\ At(t, 1) = At(s, 1) => InBuffer(t)'
  BY Zenon, <1>1 DEF LdTypes, LdFlow, ReaderOK, InFile, InBuffer
<1>3. UNCHANGED input => InputOK' /\ (At(t, 2) = At(s, 2) => InInput(t)')
  BY Zenon, <1>1 DEF LdTypes, LdFlow, InputOK, InInput
<1>4. UNCHANGED ldParser /\ At(t, 3) = At(s, 3) => WithParsers(t)'
  <2>1. UNCHANGED ldParser => With(ldParser)' = With(ldParser)
    BY <1>1 DEF With
  <2>2. WithParsers(s)
    BY DEF LdFlow
  <2> QED  BY Zenon, <1>1, <2>1, <2>2 DEF WithParsers
<1>5. UNCHANGED cnq => CnqOK' /\ (At(t, 4) = At(s, 4) => InCnq(t)')
  BY Zenon, <1>1 DEF LdTypes, LdFlow, CnqOK, InCnq
<1>6. UNCHANGED ldHandler /\ At(t, 5) = At(s, 5) => WithHandlers(t)'
  <2>1. UNCHANGED ldHandler => With(ldHandler)' = With(ldHandler)
    BY <1>1 DEF With
  <2>2. WithHandlers(s)
    BY DEF LdFlow
  <2> QED  BY Zenon, <1>1, <2>1, <2>2 DEF WithHandlers
<1> QED  BY Zenon, <1>2, <1>3, <1>4, <1>5, <1>6

\* readLines, once the file is read: the first line of the buffer goes to input.
LEMMA SendStep ==
  ASSUME ChanCap \in Nat, ShuffleSize \in Nat, NEW s, Flows(s), readLines,
         ~(ldReader.pos <= Len(ldFile)), ldReader.buf # <<>>
  PROVE  \E t : Flows(t)'
<1>0. LdTypes /\ LdEnds /\ LdFlow(s) /\ LdFate(s) /\ LdCounts(s)
  BY DEF Flows
<1>1. /\ Len(input) < ChanCap /\ input' = Append(input, Head(ldReader.buf))
      /\ ldReader' = [ldReader EXCEPT !.buf = Tail(@)]
      /\ ldCall # "idle" /\ ~ldReader.closed
      /\ UNCHANGED <<ldCall, ldFile, cnq, ldParser, ldHandler, ldErr, ctr, loaded>>
  BY Zenon DEF readLines, HasRoom
<1> HIDE DEF readLines
<1>2. /\ Lines' = Lines /\ FileOK' /\ \A t : /\ \A c : Below(t, c)' = Below(t, c)
                                  /\ \A k : At(t, k)' = At(t, k)
  BY <1>0, <1>1, SameFile DEF LdTypes
<1>3. /\ ldReader.buf \in Seq(Lines) /\ IsInjective(ldReader.buf)
      /\ At(s, 1) = Range(ldReader.buf)
  BY <1>0 DEF LdTypes, ReaderOK, LdFlow, InBuffer
<1>4. PICK i : i = Head(ldReader.buf)
  OBVIOUS
<1>5a. i \in Lines /\ i \in Range(ldReader.buf)
  BY <1>3, <1>4, RangeTail
<1>5. /\ Tail(ldReader.buf) \in Seq(Lines) /\ IsInjective(Tail(ldReader.buf))
      /\ Len(Tail(ldReader.buf)) = Len(ldReader.buf) - 1
      /\ Range(Tail(ldReader.buf)) = Range(ldReader.buf) \ {i}
  BY <1>3, <1>4, RangeTail
<1>6. s \in [Lines -> 0..6] /\ s[i] = 1
  BY <1>0, <1>3, <1>5a DEF LdFlow, At
<1>7. /\ input \in Seq(Lines) /\ IsInjective(input) /\ i \notin Range(input)
      /\ Range(input) = At(s, 2)
  BY <1>0, <1>6 DEF LdTypes, InputOK, LdFlow, InInput, At
<1>8. /\ input' \in Seq(Lines) /\ IsInjective(input') /\ Range(input') = Range(input) \cup {i}
      /\ Len(input') = Len(input) + 1
  BY <1>1, <1>4, <1>5a, <1>7, RangeAppend, InjectiveAppend
<1>9. FileOK
  BY <1>0 DEF LdTypes
<1>10. PICK t : Moved(s, t, i, 1, 2)
  BY <1>5a, <1>6, <1>9, Moves
<1>11. /\ t \in [Lines -> 0..6] /\ \A j \in Lines : t[j] = IF j = i THEN 2 ELSE s[j]
       /\ At(t, 2) = At(s, 2) \cup {i} /\ At(t, 1) = At(s, 1) \ {i}
       /\ At(t, 0) = At(s, 0) /\ At(t, 3) = At(s, 3)
       /\ At(t, 4) = At(s, 4) /\ At(t, 5) = At(s, 5)
  BY <1>10 DEF Moved
<1>12. /\ Cardinality(Below(t, 4)) = Cardinality(Below(s, 4))
       /\ Cardinality(Below(t, 6)) = Cardinality(Below(s, 6))
  BY <1>10 DEF Moved
<1>13. /\ ldReader \in [pos : 1..(Len(ldFile) + 1), buf : Seq(Lines), closed : BOOLEAN]
       /\ Len(ldReader.buf) <= ShuffleSize
  BY <1>0 DEF LdTypes, ReaderOK
<1>14a. ldReader'.pos = ldReader.pos /\ ldReader'.buf = Tail(ldReader.buf)
  BY <1>1, <1>13
<1>14. /\ ldReader'.buf = Tail(ldReader.buf) /\ ldReader'.pos = ldReader.pos
       /\ ldReader'.closed = ldReader.closed
       /\ ldReader' \in [pos : 1..(Len(ldFile) + 1), buf : Seq(Lines), closed : BOOLEAN]
  BY Zenon, <1>1, <1>5, <1>13
<1>15. Len(ldReader.buf) \in Nat /\ Len(input) \in Nat
  BY <1>3, <1>7
<1>16. ReaderOK' /\ InputOK'
  <2>1. Len(ldReader'.buf) <= ShuffleSize
    BY <1>5, <1>13, <1>14a, <1>15
  <2>2. Len(input') <= ChanCap
    BY <1>1, <1>8, <1>15
  <2> QED  BY Zenon, <1>1, <1>2, <1>8, <1>14, <2>1, <2>2 DEF ReaderOK, InputOK
<1>17. LdTypes'
  <2>1. CnqOK' /\ GoroutinesOK' /\ CountersOK'
    BY Zenon, <1>0, <1>1, <1>2 DEF LdTypes, CnqOK, GoroutinesOK, CountersOK
  <2> QED  BY Zenon, <1>2, <1>16, <2>1 DEF LdTypes
<1>18. LdFlow(t)'
  <2>1. InFile(t)'
    <3>1. InFile(s) /\ At(t, 0) = At(s, 0)
      BY <1>0, <1>11 DEF LdFlow
    <3> QED  BY Zenon, <1>1, <1>2, <1>14a, <3>1 DEF InFile
  <2>2. InBuffer(t)' /\ InInput(t)'
    BY Zenon, <1>2, <1>3, <1>5, <1>7, <1>8, <1>11, <1>14 DEF InBuffer, InInput
  <2>4. WithParsers(t)' /\ InCnq(t)' /\ WithHandlers(t)'
    BY Zenon, <1>0, <1>1, <1>11, SamePlaces
  <2> QED  BY Zenon, <1>2, <1>11, <2>1, <2>2, <2>4 DEF LdFlow
<1>19. LdFate(t)'
  BY <1>0, <1>1, <1>2, <1>6, <1>11 DEF LdFate
<1>20. LdCounts(t)'
  BY Zenon, <1>0, <1>1, <1>2, <1>12, <1>14 DEF LdCounts, ToCount, LoadedLines
<1>21. LdEnds'
  BY Zenon, <1>0, <1>1, <1>14 DEF LdEnds
<1> QED  BY <1>17, <1>18, <1>19, <1>20, <1>21 DEF Flows

\* readLines, while there is a line to read: it goes to a place in the buffer, and
\* the line that was there goes to input.
LEMMA SwapStep ==
  ASSUME ChanCap \in Nat, ShuffleSize \in Nat, NEW s, Flows(s), readLines,
         ldReader.pos <= Len(ldFile)
  PROVE  \E t : Flows(t)'
<1>0. LdTypes /\ LdEnds /\ LdFlow(s) /\ LdFate(s) /\ LdCounts(s) /\ FileOK
  BY DEF Flows, LdTypes
<1>1. PICK k \in DOMAIN ldReader.buf :
         /\ Len(input) < ChanCap /\ input' = Append(input, ldReader.buf[k])
         /\ ldReader' = [ldReader EXCEPT !.pos = @ + 1, !.buf[k] = ldReader.pos]
         /\ ctr' = [ctr EXCEPT !.read = @ + 1]
         /\ ldCall # "idle" /\ ~ldReader.closed
         /\ UNCHANGED <<ldCall, ldFile, cnq, ldParser, ldHandler, ldErr, loaded>>
  BY Zenon DEF readLines, HasRoom
<1>2. /\ Lines' = Lines /\ FileOK' /\ \A t : /\ \A c : Below(t, c)' = Below(t, c)
                                  /\ \A a : At(t, a)' = At(t, a)
  BY Zenon, <1>0, <1>1, SameFile
<1>3. PICK i, j : i = ldReader.buf[k] /\ j = ldReader.pos
  OBVIOUS
<1>4. /\ ldReader \in [pos : 1..(Len(ldFile) + 1), buf : Seq(Lines), closed : BOOLEAN]
      /\ Len(ldReader.buf) <= ShuffleSize
  BY <1>0 DEF LdTypes, ReaderOK
<1>5. ldReader.buf \in Seq(Lines) /\ IsInjective(ldReader.buf) /\ At(s, 1) = Range(ldReader.buf)
  BY <1>0, <1>4 DEF LdFlow, InBuffer
<1>6. Len(ldFile) \in Nat /\ j \in Nat \ {0} /\ j <= Len(ldFile) /\ ldReader.pos = j
  BY <1>0, <1>3, <1>4 DEF FileOK
<1>7. j \in Lines /\ s[j] = 0 /\ At(s, 0) = j..Len(ldFile) /\ s \in [Lines -> 0..6]
  BY <1>0, <1>6 DEF LdFlow, InFile, Lines, At
<1>8. j \notin Range(ldReader.buf)
  BY <1>5, <1>7 DEF At
<1>9. PICK b : b = [ldReader.buf EXCEPT ![k] = j]
  BY Zenon
<1>10. /\ b \in Seq(Lines) /\ IsInjective(b) /\ Len(b) = Len(ldReader.buf)
       /\ i \in Range(ldReader.buf) /\ i \in Lines
       /\ Range(b) = (Range(ldReader.buf) \ {i}) \cup {j}
  BY <1>3, <1>5, <1>7, <1>8, <1>9, RangeSwap
<1>10a. i \in Range(ldReader.buf) /\ i \in Lines
  BY <1>10
<1>11. s[i] = 1 /\ i # j
  BY <1>5, <1>7, <1>10a DEF At
<1>12. PICK r : Moved(s, r, i, 1, 2)
  BY <1>0, <1>7, <1>10a, <1>11, Moves
<1>13. r \in [Lines -> 0..6] /\ r[j] = 0
  BY <1>7, <1>11, <1>12 DEF Moved
<1>14. PICK t : Moved(r, t, j, 0, 1)
  BY <1>0, <1>7, <1>13, Moves
<1>15. /\ At(r, 0) = At(s, 0) /\ At(r, 1) = At(s, 1) \ {i} /\ At(r, 2) = At(s, 2) \cup {i}
       /\ At(r, 3) = At(s, 3) /\ At(r, 4) = At(s, 4) /\ At(r, 5) = At(s, 5)
       /\ \A n \in Lines : r[n] = IF n = i THEN 2 ELSE s[n]
  <2>1. /\ \A n \in Lines : r[n] = IF n = i THEN 2 ELSE s[n]
        /\ At(r, 2) = At(s, 2) \cup {i} /\ At(r, 1) = At(s, 1) \ {i}
        /\ \A m : m # 2 /\ m # 1 => At(r, m) = At(s, m)
    BY Zenon, <1>12 DEF Moved
  <2> QED  BY <2>1
<1>16. /\ At(t, 0) = At(r, 0) \ {j} /\ At(t, 1) = At(r, 1) \cup {j} /\ At(t, 2) = At(r, 2)
       /\ At(t, 3) = At(r, 3) /\ At(t, 4) = At(r, 4) /\ At(t, 5) = At(r, 5)
       /\ t \in [Lines -> 0..6] /\ \A n \in Lines : t[n] = IF n = j THEN 1 ELSE r[n]
  <2>1. /\ t \in [Lines -> 0..6] /\ \A n \in Lines : t[n] = IF n = j THEN 1 ELSE r[n]
        /\ At(t, 1) = At(r, 1) \cup {j} /\ At(t, 0) = At(r, 0) \ {j}
        /\ \A m : m # 1 /\ m # 0 => At(t, m) = At(r, m)
    BY Zenon, <1>14 DEF Moved
  <2> QED  BY <2>1
<1>17. /\ Cardinality(Below(t, 4)) = Cardinality(Below(s, 4))
       /\ Cardinality(Below(t, 6)) = Cardinality(Below(s, 6))
  <2>1. /\ Cardinality(Below(r, 4)) = Cardinality(Below(s, 4))
        /\ Cardinality(Below(r, 6)) = Cardinality(Below(s, 6))
    BY <1>12 DEF Moved
  <2>2. /\ Cardinality(Below(t, 4)) = Cardinality(Below(r, 4))
        /\ Cardinality(Below(t, 6)) = Cardinality(Below(r, 6))
    BY <1>14 DEF Moved
  <2> QED  BY <2>1, <2>2
<1>18. ldReader'.pos = j + 1 /\ ldReader'.buf = b /\ ldReader'.closed = ldReader.closed
  BY <1>1, <1>3, <1>4, <1>9
<1>19. ldReader' \in [pos : 1..(Len(ldFile) + 1), buf : Seq(Lines), closed : BOOLEAN]
  <2>1. ldReader.pos + 1 \in 1..(Len(ldFile) + 1) /\ b \in Seq(Lines)
    BY <1>6, <1>10
  <2> QED  BY Zenon, <1>1, <1>3, <1>4, <1>9, <2>1
<1>20. /\ input \in Seq(Lines) /\ IsInjective(input) /\ i \notin Range(input)
       /\ Range(input) = At(s, 2)
  BY <1>0, <1>11 DEF LdTypes, InputOK, LdFlow, InInput, At
<1>21. /\ input' \in Seq(Lines) /\ IsInjective(input') /\ Range(input') = Range(input) \cup {i}
       /\ Len(input') = Len(input) + 1 /\ Len(input) \in Nat
  BY <1>1, <1>3, <1>10a, <1>20, RangeAppend, InjectiveAppend
<1>22. LdTypes'
  <2>1. Len(ldReader'.buf) <= ShuffleSize
    BY <1>4, <1>10, <1>18
  <2>2. Len(input') <= ChanCap
    BY <1>1, <1>21
  <2>3. ReaderOK' /\ InputOK'
    BY Zenon, <1>1, <1>2, <1>19, <1>21, <2>1, <2>2 DEF ReaderOK, InputOK
  <2>4. CnqOK' /\ GoroutinesOK'
    BY Zenon, <1>0, <1>1, <1>2 DEF LdTypes, CnqOK, GoroutinesOK
  <2>5. CountersOK'
    <3>1. CountersOK /\ loaded' = loaded /\ ctr' = [ctr EXCEPT !.read = @ + 1]
      BY <1>0, <1>1 DEF LdTypes
    <3> QED  BY <1>2, <3>1 DEF CountersOK
  <2> QED  BY Zenon, <1>2, <2>3, <2>4, <2>5 DEF LdTypes
<1>23. LdFlow(t)'
  <2>1. At(t, 0) = (j + 1)..Len(ldFile)
    <3>1. At(t, 0) = (j..Len(ldFile)) \ {j}
      BY Zenon, <1>7, <1>15, <1>16
    <3>2. (j..Len(ldFile)) \ {j} = (j + 1)..Len(ldFile)
      BY <1>6
    <3> QED  BY Zenon, <3>1, <3>2
  <2>2. InFile(t)'
    BY Zenon, <1>1, <1>2, <1>18, <2>1 DEF InFile
  <2>3. At(t, 1) = Range(b) /\ At(t, 2) = Range(input')
    BY Zenon, <1>5, <1>10, <1>15, <1>16, <1>20, <1>21
  <2>4. InBuffer(t)' /\ InInput(t)'
    BY Zenon, <1>2, <1>10, <1>18, <1>21, <2>3 DEF InBuffer, InInput
  <2>5. At(t, 3) = At(s, 3) /\ At(t, 4) = At(s, 4) /\ At(t, 5) = At(s, 5)
    BY <1>15, <1>16
  <2>6. WithParsers(t)' /\ InCnq(t)' /\ WithHandlers(t)'
    BY Zenon, <1>0, <1>1, <2>5, SamePlaces
  <2> QED  BY Zenon, <1>2, <1>16, <2>2, <2>4, <2>6 DEF LdFlow
<1>24. LdFate(t)'
  <2>1. \A n \in Lines : t[n] = IF n = i THEN 2 ELSE IF n = j THEN 1 ELSE s[n]
    BY <1>11, <1>15, <1>16
  <2>2. LdFate(s)
    BY <1>0
  <2> QED  BY <1>1, <1>2, <1>7, <1>11, <2>1, <2>2 DEF LdFate
<1>25. LdCounts(t)'
  <2>1. LdCounts(s) /\ CountersOK
    BY <1>0 DEF LdTypes
  <2>2. /\ ctr'.read = ctr.read + 1 /\ ctr'.parsed = ctr.parsed
        /\ ctr'.ignored = ctr.ignored /\ ctr'.processed = ctr.processed
    BY <1>1, <2>1 DEF CountersOK
  <2>3. ctr'.read = ldReader'.pos - 1
    BY <1>6, <1>18, <2>1, <2>2 DEF LdCounts
  <2> QED  BY Zenon, <1>1, <1>2, <1>17, <2>1, <2>2, <2>3 DEF LdCounts, ToCount, LoadedLines
<1>26. LdEnds'
  BY Zenon, <1>0, <1>1, <1>18 DEF LdEnds
<1> QED  BY <1>22, <1>23, <1>24, <1>25, <1>26 DEF Flows

OneEach(G, f) ==
  f \in [G -> Int] /\ \A x, y \in G : f[x] = f[y] /\ f[x] \in Lines => x = y
Sets(G, f, e, g, v) ==
  g \in G /\ v \in Int /\ e \in [G -> Int] /\ \A x \in G : e[x] = IF x = g THEN v ELSE f[x]
Carries(f, e, g, v) == With(e) = (With(f) \ {f[g]}) \cup ({v} \cap Lines)

\* A goroutine lets go of what it holds and holds v.
LEMMA Carry ==
  ASSUME NEW G, NEW f, NEW e, NEW g, NEW v, OneEach(G, f), Sets(G, f, e, g, v),
         v \in Lines => v \notin With(f)
  PROVE  OneEach(G, e) /\ Carries(f, e, g, v)
<1> USE DEF OneEach, Sets, Carries
<1>2. \A x \in G : f[x] \in Lines => f[x] \in With(f)
  BY DEF With
<1>3. ASSUME NEW x \in G, NEW y \in G, e[x] = e[y], e[x] \in Lines PROVE x = y
  BY <1>2, <1>3
<1>4. ASSUME NEW n \in With(e) PROVE n \in (With(f) \ {f[g]}) \cup ({v} \cap Lines)
  <2>1. PICK x \in G : n = e[x] /\ n \in Lines
    BY <1>4 DEF With
  <2> QED  BY <1>2, <2>1
<1>5. ASSUME NEW n \in (With(f) \ {f[g]}) \cup ({v} \cap Lines) PROVE n \in With(e)
  <2>1. CASE n \in {v} \cap Lines
    BY <2>1 DEF With
  <2>2. CASE n \in With(f) \ {f[g]}
    <3>1. PICK x \in G : n = f[x] /\ n \in Lines /\ x # g
      BY <2>2 DEF With
    <3> QED  BY <3>1 DEF With
  <2> QED  BY <1>5, <2>1, <2>2
<1> QED  BY <1>3, <1>4, <1>5

ParserSets(p, v) == ldParser' = [ldParser EXCEPT ![p] = v]
ParserMay(s, v) == v \in {0, -1, -2} \cup Lines /\ (v \in Lines => s[v] # 3)
ParserMoves(s, t, p, v) == At(t, 3) = (At(s, 3) \ {ldParser[p]}) \cup ({v} \cap Lines)

\* The same, for a parser.
LEMMA ParserHolds ==
  ASSUME LdTypes, NEW s, LdFlow(s), ldFile' = ldFile, NEW p \in Parsers, NEW v, NEW t,
         ParserSets(p, v), ParserMay(s, v), ParserMoves(s, t, p, v)
  PROVE  ldParser' \in [Parsers -> {0, -1, -2} \cup Lines] /\ WithParsers(t)'
<1> USE DEF ParserSets, ParserMay, ParserMoves
<1>1. ldParser \in [Parsers -> {0, -1, -2} \cup Lines] /\ Lines \subseteq Nat \ {0}
  BY DEF LdTypes, GoroutinesOK, FileOK, Lines
<1>2. /\ At(s, 3) = With(ldParser)
      /\ \A x, y \in Parsers : ldParser[x] = ldParser[y] /\ ldParser[x] \in Lines => x = y
  BY DEF LdFlow, WithParsers
<1>3. PICK e : e = ldParser'
  OBVIOUS
<1>4. Lines' = Lines /\ \A u, k : At(u, k)' = At(u, k)
  BY DEF Lines, At
<1>5. ldParser \in [Parsers -> Int] /\ v \in Int /\ e = [ldParser EXCEPT ![p] = v]
  <2>1. {0, -1, -2} \cup Lines \subseteq Int
    BY <1>1
  <2>2. ldParser \in [Parsers -> Int]
    BY Zenon, <1>1, <2>1
  <2> QED  BY Zenon, <1>3, <2>1, <2>2
<1>5a. OneEach(Parsers, ldParser)
  BY <1>2, <1>5 DEF OneEach
<1>5b. Sets(Parsers, ldParser, e, p, v)
  BY <1>5 DEF Sets
<1>6. v \in Lines => v \notin With(ldParser)
  BY <1>2 DEF At
<1>7. OneEach(Parsers, e) /\ Carries(ldParser, e, p, v)
  BY Zenon, <1>5a, <1>5b, <1>6, Carry
<1>8. With(ldParser)' = With(e)
  BY <1>3, <1>4 DEF With
<1>9. e \in [Parsers -> {0, -1, -2} \cup Lines]
  BY <1>1, <1>5
<1>10. WithParsers(t)'
  <2>1. At(t, 3)' = With(ldParser)'
    BY Zenon, <1>2, <1>4, <1>7, <1>8 DEF Carries
  <2> QED  BY Zenon, <1>3, <1>4, <1>7, <2>1 DEF OneEach, WithParsers
<1> QED  BY Zenon, <1>3, <1>9, <1>10

HandlerSets(h, v) == ldHandler' = [ldHandler EXCEPT ![h] = v]
HandlerMay(s, v) == v \in {0, -1} \cup Lines /\ (v \in Lines => s[v] # 5)
HandlerMoves(s, t, h, v) == At(t, 5) = (At(s, 5) \ {ldHandler[h]}) \cup ({v} \cap Lines)

\* The same, for a handler.
LEMMA HandlerHolds ==
  ASSUME LdTypes, NEW s, LdFlow(s), ldFile' = ldFile, NEW h \in Handlers, NEW v, NEW t,
         HandlerSets(h, v), HandlerMay(s, v), HandlerMoves(s, t, h, v)
  PROVE  ldHandler' \in [Handlers -> {0, -1} \cup Lines] /\ WithHandlers(t)'
<1> USE DEF HandlerSets, HandlerMay, HandlerMoves
<1>1. ldHandler \in [Handlers -> {0, -1} \cup Lines] /\ Lines \subseteq Nat \ {0}
  BY DEF LdTypes, GoroutinesOK, FileOK, Lines
<1>2. /\ At(s, 5) = With(ldHandler)
      /\ \A x, y \in Handlers : ldHandler[x] = ldHandler[y] /\ ldHandler[x] \in Lines => x = y
  BY DEF LdFlow, WithHandlers
<1>3. PICK e : e = ldHandler'
  OBVIOUS
<1>4. Lines' = Lines /\ \A u, k : At(u, k)' = At(u, k)
  BY DEF Lines, At
<1>5. ldHandler \in [Handlers -> Int] /\ v \in Int /\ e = [ldHandler EXCEPT ![h] = v]
  <2>1. {0, -1} \cup Lines \subseteq Int
    BY <1>1
  <2>2. ldHandler \in [Handlers -> Int]
    BY Zenon, <1>1, <2>1
  <2> QED  BY Zenon, <1>3, <2>1, <2>2
<1>5a. OneEach(Handlers, ldHandler)
  BY <1>2, <1>5 DEF OneEach
<1>5b. Sets(Handlers, ldHandler, e, h, v)
  BY <1>5 DEF Sets
<1>6. v \in Lines => v \notin With(ldHandler)
  BY <1>2 DEF At
<1>7. OneEach(Handlers, e) /\ Carries(ldHandler, e, h, v)
  BY Zenon, <1>5a, <1>5b, <1>6, Carry
<1>8. With(ldHandler)' = With(e)
  BY <1>3, <1>4 DEF With
<1>9. e \in [Handlers -> {0, -1} \cup Lines]
  BY <1>1, <1>5
<1>10. WithHandlers(t)'
  <2>1. At(t, 5)' = With(ldHandler)'
    BY Zenon, <1>2, <1>4, <1>7, <1>8 DEF Carries
  <2> QED  BY Zenon, <1>3, <1>4, <1>7, <2>1 DEF OneEach, WithHandlers
<1> QED  BY Zenon, <1>3, <1>9, <1>10

\* A line taken from a channel is its first one.
LEMMA TakesInput ==
  ASSUME ChanCap \in Nat, LdTypes, NEW s, LdFlow(s), ldFile' = ldFile,
         input # <<>>, input' = Tail(input)
  PROVE  /\ Head(input) \in Lines /\ s[Head(input)] = 2 /\ InputOK'
         /\ \A t : At(t, 2) = At(s, 2) \ {Head(input)} => InInput(t)'
<1>1. Lines' = Lines /\ \A u, k : At(u, k)' = At(u, k)
  BY DEF Lines, At
<1>2. /\ input \in Seq(Lines) /\ Len(input) <= ChanCap
      /\ At(s, 2) = Range(input) /\ IsInjective(input)
  BY DEF LdTypes, InputOK, LdFlow, InInput
<1>3. /\ Head(input) \in Lines /\ Tail(input) \in Seq(Lines) /\ IsInjective(Tail(input))
      /\ Len(Tail(input)) = Len(input) - 1
      /\ Head(input) \in Range(input) /\ Range(Tail(input)) = Range(input) \ {Head(input)}
  BY <1>2, RangeTail
<1>4. Len(Tail(input)) <= ChanCap
  <2>1. Len(input) \in Nat
    BY <1>2
  <2> QED  BY <1>2, <1>3, <2>1
<1>5. s[Head(input)] = 2
  BY <1>2, <1>3 DEF At
<1>6. InputOK'
  BY Zenon, <1>1, <1>3, <1>4 DEF InputOK
<1>7. \A t : At(t, 2) = At(s, 2) \ {Head(input)} => InInput(t)'
  BY Zenon, <1>1, <1>2, <1>3 DEF InInput
<1> QED  BY Zenon, <1>3, <1>5, <1>6, <1>7

\* The same, for cnq.
LEMMA TakesCnq ==
  ASSUME ChanCap \in Nat, LdTypes, NEW s, LdFlow(s), ldFile' = ldFile, cnq # <<>>, cnq' = Tail(cnq)
  PROVE  /\ Head(cnq) \in Lines /\ s[Head(cnq)] = 4 /\ CnqOK'
         /\ \A t : At(t, 4) = At(s, 4) \ {Head(cnq)} => InCnq(t)'
<1>1. Lines' = Lines /\ \A u, k : At(u, k)' = At(u, k)
  BY DEF Lines, At
<1>2. /\ cnq \in Seq(Lines) /\ Len(cnq) <= ChanCap
      /\ At(s, 4) = Range(cnq) /\ IsInjective(cnq)
  BY DEF LdTypes, CnqOK, LdFlow, InCnq
<1>3. /\ Head(cnq) \in Lines /\ Tail(cnq) \in Seq(Lines) /\ IsInjective(Tail(cnq))
      /\ Len(Tail(cnq)) = Len(cnq) - 1
      /\ Head(cnq) \in Range(cnq) /\ Range(Tail(cnq)) = Range(cnq) \ {Head(cnq)}
  BY <1>2, RangeTail
<1>4. Len(Tail(cnq)) <= ChanCap
  <2>1. Len(cnq) \in Nat
    BY <1>2
  <2> QED  BY <1>2, <1>3, <2>1
<1>5. s[Head(cnq)] = 4
  BY <1>2, <1>3 DEF At
<1>6. CnqOK'
  BY Zenon, <1>1, <1>3, <1>4 DEF CnqOK
<1>7. \A t : At(t, 4) = At(s, 4) \ {Head(cnq)} => InCnq(t)'
  BY Zenon, <1>1, <1>2, <1>3 DEF InCnq
<1> QED  BY Zenon, <1>3, <1>5, <1>6, <1>7

\* readLines closes input once all is sent.
LEMMA ReaderCloses ==
  ASSUME NEW s, Flows(s), readLines, ~(ldReader.pos <= Len(ldFile)), ldReader.buf = <<>>
  PROVE  Flows(s)'
<1>0. LdTypes /\ LdEnds /\ LdFlow(s) /\ LdFate(s) /\ LdCounts(s) /\ FileOK /\ ReaderOK
  BY DEF Flows, LdTypes
<1>1. /\ ldReader' = [ldReader EXCEPT !.closed = TRUE]
      /\ ldCall # "idle"
      /\ UNCHANGED <<ldCall, ldFile, input, cnq, ldParser, ldHandler, ldErr, ctr, loaded>>
  BY Zenon DEF readLines
<1>2. /\ Lines' = Lines /\ FileOK' /\ \A t : /\ \A c : Below(t, c)' = Below(t, c)
                                             /\ \A a : At(t, a)' = At(t, a)
  BY <1>0, <1>1, SameFile
<1>3. ldReader'.pos = ldReader.pos /\ ldReader'.buf = ldReader.buf /\ ldReader'.closed = TRUE
  BY <1>0, <1>1 DEF ReaderOK
<1>4. ldReader' \in [pos : 1..(Len(ldFile) + 1), buf : Seq(Lines), closed : BOOLEAN]
  BY Zenon, <1>0, <1>1 DEF ReaderOK
<1>5. ReaderOK'
  BY Zenon, <1>0, <1>1, <1>2, <1>3, <1>4 DEF ReaderOK
<1>6. InputOK' /\ CnqOK' /\ InInput(s)' /\ WithParsers(s)' /\ InCnq(s)' /\ WithHandlers(s)'
  BY Zenon, <1>0, <1>1, SamePlaces
<1>7. GoroutinesOK' /\ CountersOK'
  BY Zenon, <1>0, <1>1, <1>2 DEF LdTypes, GoroutinesOK, CountersOK
<1>8. LdTypes'
  BY Zenon, <1>2, <1>5, <1>6, <1>7 DEF LdTypes
<1>9. InFile(s)' /\ InBuffer(s)' /\ s \in [Lines -> 0..6]
  BY Zenon, <1>0, <1>1, <1>2, <1>3 DEF LdFlow, InFile, InBuffer
<1>10. LdFlow(s)'
  BY Zenon, <1>2, <1>6, <1>9 DEF LdFlow
<1>11. LdFate(s)'
  BY Zenon, <1>0, <1>1, <1>2 DEF LdFate
<1>12. LdCounts(s)'
  BY Zenon, <1>0, <1>1, <1>2, <1>3 DEF LdCounts, ToCount, LoadedLines
<1>13. ldReader.pos > Len(ldFile)
  BY <1>0 DEF ReaderOK, FileOK
<1>14. LdEnds'
  BY Zenon, <1>0, <1>1, <1>3, <1>13 DEF LdEnds
<1> QED  BY <1>8, <1>10, <1>11, <1>12, <1>14 DEF Flows

\* A parser that holds a line, or counts one, is at work: cnq is not closed yet.
LEMMA ParserAtWork ==
  ASSUME LdEnds, LdTypes, NEW p \in Parsers, ldParser[p] # 0, ldParser[p] # -1
  PROVE  ldCall = "loading"
<1>1. ldCall \notin {"closed", "returned"}
  BY DEF LdEnds
<1>2. ldCall # "idle"
  BY DEF LdEnds, Init, Idle
<1> QED  BY <1>1, <1>2 DEF LdTypes, GoroutinesOK

\* A handler that holds a line is at work: LoadEdges has not returned.
LEMMA HandlerAtWork ==
  ASSUME LdEnds, LdTypes, NEW h \in Handlers, ldHandler[h] # 0, ldHandler[h] # -1
  PROVE  ldCall \in {"loading", "closed"}
<1>1. ldCall # "returned"
  BY DEF LdEnds
<1>2. ldCall # "idle"
  BY DEF LdEnds, Init, Idle
<1> QED  BY <1>1, <1>2 DEF LdTypes, GoroutinesOK

\* The parsers about to count, when one of them goes on.
LEMMA CountingParsers ==
  ASSUME IsFiniteSet(Parsers), LdTypes, NEW p \in Parsers, NEW v,
         ParserSets(p, v)
  PROVE  /\ \A q \in Parsers : ldParser'[q] = IF q = p THEN v ELSE ldParser[q]
         /\ Cardinality(ToCount) \in Nat
         /\ ldParser[p] # -2 /\ v # -2 => ToCount' = ToCount
         /\ ldParser[p] # -2 /\ v = -2 => Cardinality(ToCount') = Cardinality(ToCount) + 1
         /\ ldParser[p] = -2 /\ v # -2 => Cardinality(ToCount') = Cardinality(ToCount) - 1
<1>1. \A q \in Parsers : ldParser'[q] = IF q = p THEN v ELSE ldParser[q]
  BY DEF LdTypes, GoroutinesOK, ParserSets
<1>2. IsFiniteSet(ToCount) /\ Cardinality(ToCount) \in Nat
  BY FS_Subset, FS_CardinalityType DEF ToCount
<1>3. ldParser[p] # -2 /\ v # -2 => ToCount' = ToCount
  BY <1>1 DEF ToCount
<1>4. CASE ldParser[p] # -2 /\ v = -2
  <2>1. ToCount' = ToCount \cup {p} /\ p \notin ToCount
    BY <1>1, <1>4 DEF ToCount
  <2> QED  BY Zenon, <1>1, <1>2, <1>4, <2>1, FS_AddElement
<1>5. CASE ldParser[p] = -2 /\ v # -2
  <2>1. ToCount' = ToCount \ {p} /\ p \in ToCount
    BY <1>1, <1>5 DEF ToCount
  <2> QED  BY Zenon, <1>1, <1>2, <1>5, <2>1, FS_RemoveElement
<1> QED  BY Zenon, <1>1, <1>2, <1>3, <1>4, <1>5

\* parseStream finds input closed and empty.
LEMMA ParserEnds ==
  ASSUME IsFiniteSet(Parsers), NEW s, Flows(s), NEW p \in Parsers, parseTake(p), input = <<>>
  PROVE  Flows(s)'
<1>0. /\ LdTypes /\ LdEnds /\ LdFlow(s) /\ LdFate(s) /\ LdCounts(s) /\ FileOK
      /\ GoroutinesOK /\ CountersOK
  BY DEF Flows, LdTypes
<1>1. /\ ldCall = "loading" /\ ldParser[p] = 0 /\ ldReader.closed
      /\ ldParser' = [ldParser EXCEPT ![p] = -1]
      /\ UNCHANGED <<ldCall, ldFile, ldReader, input, cnq, ldHandler, ldErr, ctr, loaded>>
  BY Zenon DEF parseTake, Idle, Done
<1>2. /\ Lines' = Lines /\ FileOK' /\ \A t : /\ \A c : Below(t, c)' = Below(t, c)
                                             /\ \A a : At(t, a)' = At(t, a)
  BY <1>0, <1>1, SameFile
<1>3. PICK v : v = -1
  OBVIOUS
<1>4. v \notin Lines /\ ldParser[p] \notin Lines /\ v # -2 /\ ldParser[p] # -2
  BY <1>1, <1>3 DEF Lines
<1>4a. ParserSets(p, v) /\ ParserMay(s, v) /\ ParserMoves(s, s, p, v)
  BY <1>1, <1>3, <1>4 DEF ParserSets, ParserMay, ParserMoves, At
<1>5. ldParser' \in [Parsers -> {0, -1, -2} \cup Lines] /\ WithParsers(s)'
  BY Zenon, <1>0, <1>1, <1>4a, ParserHolds
<1>6. ToCount' = ToCount /\ \A q \in Parsers : ldParser'[q] = IF q = p THEN v ELSE ldParser[q]
  BY Zenon, <1>0, <1>4, <1>4a, CountingParsers
<1>7. /\ ReaderOK' /\ InputOK' /\ CnqOK'
      /\ InFile(s)' /\ InBuffer(s)' /\ InInput(s)' /\ InCnq(s)' /\ WithHandlers(s)'
  BY Zenon, <1>0, <1>1, SamePlaces
<1>8. GoroutinesOK' /\ CountersOK'
  BY Zenon, <1>0, <1>1, <1>2, <1>5 DEF GoroutinesOK, CountersOK
<1>9. LdTypes'
  BY Zenon, <1>2, <1>7, <1>8 DEF LdTypes
<1>10. LdFlow(s)'
  BY Zenon, <1>0, <1>2, <1>5, <1>7 DEF LdFlow
<1>11. LdFate(s)'
  BY Zenon, <1>0, <1>1, <1>2 DEF LdFate
<1>12. LdCounts(s)'
  BY Zenon, <1>0, <1>1, <1>2, <1>6 DEF LdCounts, LoadedLines
<1>13. LdEnds'
  BY Zenon, <1>0, <1>1, <1>6 DEF LdEnds
<1> QED  BY <1>9, <1>10, <1>11, <1>12, <1>13 DEF Flows

\* A line that moves on leaves fewer lines below a place.
LEMMA FewerBelow ==
  ASSUME IsFiniteSet(Parsers), FileOK, CountersOK, NEW s, NEW t, NEW i, NEW a \in 0..6,
         NEW b \in 0..6, Moved(s, t, i, a, b), LdCounts(s)
  PROVE  /\ ctr.parsed + Cardinality(ToCount) + Cardinality(Below(t, 4)) <= Len(ldFile)
         /\ ctr.ignored + Cardinality(Below(t, 6)) <= Len(ldFile)
         /\ a < 4 /\ b >= 4 =>
              ctr.parsed + (Cardinality(ToCount) + 1) + Cardinality(Below(t, 4)) <= Len(ldFile)
         /\ a < 6 /\ b >= 6 =>
              (ctr.ignored + 1) + Cardinality(Below(t, 6)) <= Len(ldFile)
<1>1. Cardinality(ToCount) \in Nat
  BY FS_Subset, FS_CardinalityType DEF ToCount
<1>2. ctr.parsed \in Nat /\ ctr.ignored \in Nat /\ Len(ldFile) \in Nat
  BY DEF CountersOK, FileOK
<1>3. /\ Cardinality(Below(s, 4)) \in Nat /\ Cardinality(Below(s, 6)) \in Nat
      /\ Cardinality(Below(t, 4)) = IF a < 4 /\ b >= 4
           THEN Cardinality(Below(s, 4)) - 1 ELSE Cardinality(Below(s, 4))
      /\ Cardinality(Below(t, 6)) = IF a < 6 /\ b >= 6
           THEN Cardinality(Below(s, 6)) - 1 ELSE Cardinality(Below(s, 6))
  <2>1. 4 \in 0..6 /\ 6 \in 0..6
    OBVIOUS
  <2> QED  BY Zenon, <2>1 DEF Moved
<1>4. /\ ctr.parsed + Cardinality(ToCount) + Cardinality(Below(s, 4)) <= Len(ldFile)
      /\ ctr.ignored + Cardinality(Below(s, 6)) <= Len(ldFile)
  BY DEF LdCounts
<1>5. /\ ctr.parsed + Cardinality(ToCount) + Cardinality(Below(t, 4)) <= Len(ldFile)
      /\ a < 4 /\ b >= 4 =>
           ctr.parsed + (Cardinality(ToCount) + 1) + Cardinality(Below(t, 4)) <= Len(ldFile)
  <2>1. PICK x, y, z, u, n : /\ x = ctr.parsed /\ y = Cardinality(ToCount)
                             /\ z = Cardinality(Below(s, 4)) /\ u = Cardinality(Below(t, 4))
                             /\ n = Len(ldFile)
    BY Zenon
  <2>2. /\ x \in Nat /\ y \in Nat /\ z \in Nat /\ n \in Nat /\ x + y + z <= n
        /\ u = IF a < 4 /\ b >= 4 THEN z - 1 ELSE z
    BY Zenon, <1>1, <1>2, <1>3, <1>4, <2>1
  <2>3. x + y + u <= n /\ (a < 4 /\ b >= 4 => x + (y + 1) + u <= n)
    BY <2>2
  <2> QED  BY Zenon, <2>1, <2>3
<1>6. /\ ctr.ignored + Cardinality(Below(t, 6)) <= Len(ldFile)
      /\ a < 6 /\ b >= 6 => (ctr.ignored + 1) + Cardinality(Below(t, 6)) <= Len(ldFile)
  <2>1. PICK x, z, u, n : /\ x = ctr.ignored /\ z = Cardinality(Below(s, 6))
                          /\ u = Cardinality(Below(t, 6)) /\ n = Len(ldFile)
    BY Zenon
  <2>2. /\ x \in Nat /\ z \in Nat /\ n \in Nat /\ x + z <= n
        /\ u = IF a < 6 /\ b >= 6 THEN z - 1 ELSE z
    BY Zenon, <1>2, <1>3, <1>4, <2>1
  <2>3. x + u <= n /\ (a < 6 /\ b >= 6 => (x + 1) + u <= n)
    BY <2>2
  <2> QED  BY Zenon, <2>1, <2>3
<1> QED  BY Zenon, <1>5, <1>6

\* parseStream takes a line: it drops it after an error, skips an empty one, and holds another.
LEMMA ParserTakes ==
  ASSUME ChanCap \in Nat, IsFiniteSet(Parsers), NEW s, Flows(s), NEW p \in Parsers,
         parseTake(p), input # <<>>
  PROVE  \E t : Flows(t)'
<1>0. /\ LdTypes /\ LdEnds /\ LdFlow(s) /\ LdFate(s) /\ LdCounts(s) /\ FileOK
      /\ GoroutinesOK /\ CountersOK /\ s \in [Lines -> 0..6]
  BY DEF Flows, LdTypes, LdFlow
<1>1. /\ ldCall = "loading" /\ ldParser[p] = 0 /\ input' = Tail(input)
      /\ ldParser' = [ldParser EXCEPT ![p] =
                        IF ldErr THEN -1 ELSE IF ldFile[Head(input)] = "empty" THEN 0
                        ELSE Head(input)]
      /\ UNCHANGED <<ldCall, ldFile, ldReader, cnq, ldHandler, ldErr, ctr, loaded>>
  BY Zenon DEF parseTake, Idle, Done
<1>2. /\ Lines' = Lines /\ FileOK' /\ \A t : /\ \A c : Below(t, c)' = Below(t, c)
                                             /\ \A a : At(t, a)' = At(t, a)
  BY <1>0, <1>1, SameFile
<1>3. PICK i : i = Head(input)
  OBVIOUS
<1>4. i \in Lines /\ s[i] = 2 /\ InputOK' /\ \A t : At(t, 2) = At(s, 2) \ {i} => InInput(t)'
  BY Zenon, <1>0, <1>1, <1>3, TakesInput
<1>5. PICK v : v = IF ldErr THEN -1 ELSE IF ldFile[i] = "empty" THEN 0 ELSE i
  OBVIOUS
<1>6. ParserSets(p, v)
  BY Zenon, <1>1, <1>3, <1>5 DEF ParserSets
<1>7. i \in Nat \ {0} /\ i \in Lines /\ s[i] = 2
  BY <1>4 DEF Lines
<1>8. PICK m : m = IF v = i THEN 3 ELSE 6
  OBVIOUS
<1>9. \/ v = i /\ m = 3 /\ ~ldErr /\ ldFile[i] # "empty"
      \/ v = -1 /\ m = 6 /\ ldErr
      \/ v = 0 /\ m = 6 /\ ~ldErr /\ ldFile[i] = "empty"
  BY <1>5, <1>7, <1>8
<1>10. m \in 0..6 /\ 2 < m /\ (m = 3 \/ m = 6)
  BY <1>8
<1>11. PICK t : Moved(s, t, i, 2, m)
  BY <1>0, <1>7, <1>10, Moves
<1>12. /\ t \in [Lines -> 0..6] /\ \A j \in Lines : t[j] = IF j = i THEN m ELSE s[j]
       /\ At(t, 2) = At(s, 2) \ {i} /\ At(t, m) = At(s, m) \cup {i}
       /\ \A k : k # m /\ k # 2 => At(t, k) = At(s, k)
  BY Zenon, <1>11 DEF Moved
<1>13. /\ At(t, 0) = At(s, 0) /\ At(t, 1) = At(s, 1)
       /\ At(t, 4) = At(s, 4) /\ At(t, 5) = At(s, 5) /\ (m = 6 => At(t, 3) = At(s, 3))
  <2>1. ASSUME NEW k \in {0, 1, 4, 5} PROVE k # m /\ k # 2
    BY <1>10
  <2>2. m = 6 => 3 # m /\ 3 # 2
    OBVIOUS
  <2> QED  BY Zenon, <1>12, <2>1, <2>2
<1>14. ParserMay(s, v) /\ v # -2 /\ ldParser[p] # -2
  <2>1. v \in Lines => v = i
    BY <1>9 DEF Lines
  <2>2. v \in {0, -1, -2} \cup Lines /\ v # -2 /\ ldParser[p] # -2
    BY <1>1, <1>7, <1>9
  <2>3. v \in Lines => s[v] # 3
    BY <1>7, <2>1
  <2> QED  BY Zenon, <2>2, <2>3 DEF ParserMay
<1>15. ParserMoves(s, t, p, v)
  <2>1. 0 \notin Lines /\ -1 \notin Lines
    BY DEF Lines
  <2>2. CASE m = 3
    <3>1. v = i /\ At(t, 3) = At(s, 3) \cup {i}
      BY <1>7, <1>9, <1>12, <2>2
    <3> QED  BY <1>1, <1>7, <2>1, <3>1 DEF ParserMoves, At
  <2>3. CASE m = 6
    <3>1. v \notin Lines
      BY <1>9, <2>1, <2>3
    <3> QED  BY <1>1, <1>13, <2>1, <2>3, <3>1 DEF ParserMoves, At
  <2> QED  BY <1>10, <2>2, <2>3
<1>16. ldParser' \in [Parsers -> {0, -1, -2} \cup Lines] /\ WithParsers(t)'
  BY Zenon, <1>0, <1>1, <1>6, <1>14, <1>15, ParserHolds
<1>17. ToCount' = ToCount /\ \A q \in Parsers : ldParser'[q] = IF q = p THEN v ELSE ldParser[q]
  BY Zenon, <1>0, <1>6, <1>14, CountingParsers
<1>18. ReaderOK' /\ CnqOK' /\ InFile(t)' /\ InBuffer(t)' /\ InCnq(t)' /\ WithHandlers(t)'
  BY Zenon, <1>0, <1>1, <1>13, SamePlaces
<1>19. GoroutinesOK' /\ CountersOK'
  BY Zenon, <1>0, <1>1, <1>2, <1>16 DEF GoroutinesOK, CountersOK
<1>20. LdTypes'
  BY Zenon, <1>2, <1>4, <1>18, <1>19 DEF LdTypes
<1>21. LdFlow(t)'
  <2>1. InInput(t)'
    BY Zenon, <1>4, <1>12
  <2> QED  BY Zenon, <1>2, <1>12, <1>16, <1>18, <2>1 DEF LdFlow
<1>22. LdFate(t)'
  <2>1. \A j \in Lines : t[j] = IF j = i THEN m ELSE s[j]
    BY <1>12
  <2>2. Len(<<>>) = 0
    OBVIOUS
  <2> QED  BY <1>0, <1>1, <1>2, <1>7, <1>9, <2>1, <2>2, WriteCounts DEF LdFate
<1>23. LdCounts(t)'
  <2>1. /\ ctr.parsed + Cardinality(ToCount) + Cardinality(Below(t, 4)) <= Len(ldFile)
        /\ ctr.ignored + Cardinality(Below(t, 6)) <= Len(ldFile)
    <3>1. 2 \in 0..6
      OBVIOUS
    <3> QED  BY Zenon, <1>0, <1>10, <1>11, <3>1, FewerBelow
  <2> QED  BY Zenon, <1>0, <1>1, <1>2, <1>17, <2>1 DEF LdCounts, LoadedLines
<1>24. LdEnds'
  <2>1. v = -1 => ldErr
    BY <1>7, <1>9
  <2> QED  BY Zenon, <1>0, <1>1, <1>17, <2>1 DEF LdEnds
<1> QED  BY <1>20, <1>21, <1>22, <1>23, <1>24 DEF Flows

\* rdf.Parse fails: the error is set and the parser returns.
LEMMA ParserFails ==
  ASSUME IsFiniteSet(Parsers), NEW s, Flows(s), NEW p \in Parsers, parseStream(p),
         ldParser[p] > 0, ldFile[ldParser[p]] = "garbage"
  PROVE  \E t : Flows(t)'
<1>0. /\ LdTypes /\ LdEnds /\ LdFlow(s) /\ LdFate(s) /\ LdCounts(s) /\ FileOK
      /\ GoroutinesOK /\ CountersOK /\ s \in [Lines -> 0..6]
  BY DEF Flows, LdTypes, LdFlow
<1>a. ldParser[p] # -2 /\ ldParser[p] # 0 /\ ldParser[p] # -1 /\ ldParser[p] \in Lines
  BY <1>0 DEF GoroutinesOK
<1>1. /\ ldErr' = TRUE /\ ldParser' = [ldParser EXCEPT ![p] = -1]
      /\ UNCHANGED <<ldCall, ldFile, ldReader, input, cnq, ldHandler, ctr, loaded>>
  BY Zenon, <1>a DEF parseStream, SetError, Idle, Done, Counting
<1>2. /\ Lines' = Lines /\ FileOK' /\ \A t : /\ \A c : Below(t, c)' = Below(t, c)
                                             /\ \A a : At(t, a)' = At(t, a)
  BY <1>0, <1>1, SameFile
<1>3. ldCall = "loading"
  BY Zenon, <1>0, <1>a, ParserAtWork
<1>4. PICK i, v : i = ldParser[p] /\ v = -1
  OBVIOUS
<1>5. i \in Lines /\ s[i] = 3
  BY <1>0, <1>a, <1>4 DEF LdFlow, WithParsers, With, At, GoroutinesOK
<1>6. v \notin Lines /\ v # -2 /\ v \in {0, -1, -2} \cup Lines
  BY <1>4 DEF Lines
<1>7. PICK t : Moved(s, t, i, 3, 6)
  BY <1>0, <1>5, Moves
<1>8. /\ t \in [Lines -> 0..6] /\ \A j \in Lines : t[j] = IF j = i THEN 6 ELSE s[j]
      /\ At(t, 3) = At(s, 3) \ {i} /\ \A k : k # 6 /\ k # 3 => At(t, k) = At(s, k)
  BY Zenon, <1>7 DEF Moved
<1>9. /\ At(t, 0) = At(s, 0) /\ At(t, 1) = At(s, 1) /\ At(t, 2) = At(s, 2)
      /\ At(t, 4) = At(s, 4) /\ At(t, 5) = At(s, 5)
  <2>1. ASSUME NEW k \in {0, 1, 2, 4, 5} PROVE k # 6 /\ k # 3
    OBVIOUS
  <2> QED  BY Zenon, <1>8, <2>1
<1>10. ParserSets(p, v) /\ ParserMay(s, v)
  BY Zenon, <1>1, <1>4, <1>6 DEF ParserSets, ParserMay
<1>11. ParserMoves(s, t, p, v)
  BY <1>4, <1>6, <1>8 DEF ParserMoves
<1>12. ldParser' \in [Parsers -> {0, -1, -2} \cup Lines] /\ WithParsers(t)'
  BY Zenon, <1>0, <1>1, <1>10, <1>11, ParserHolds
<1>13. ToCount' = ToCount /\ \A q \in Parsers : ldParser'[q] = IF q = p THEN v ELSE ldParser[q]
  BY Zenon, <1>0, <1>a, <1>6, <1>10, CountingParsers
<1>14. /\ ReaderOK' /\ InputOK' /\ CnqOK'
       /\ InFile(t)' /\ InBuffer(t)' /\ InInput(t)' /\ InCnq(t)' /\ WithHandlers(t)'
  BY Zenon, <1>0, <1>1, <1>9, SamePlaces
<1>15. GoroutinesOK' /\ CountersOK'
  BY Zenon, <1>0, <1>1, <1>2, <1>12 DEF GoroutinesOK, CountersOK
<1>16. LdTypes'
  BY Zenon, <1>2, <1>14, <1>15 DEF LdTypes
<1>17. LdFlow(t)'
  BY Zenon, <1>2, <1>8, <1>12, <1>14 DEF LdFlow
<1>18. LdFate(t)'
  <2>1. \A j \in Lines : t[j] = IF j = i THEN 6 ELSE s[j]
    BY <1>8
  <2> QED  BY <1>0, <1>1, <1>2, <1>5, <2>1 DEF LdFate
<1>19. LdCounts(t)'
  <2>1. 3 \in 0..6 /\ 6 \in 0..6
    OBVIOUS
  <2>2. /\ ctr.parsed + Cardinality(ToCount) + Cardinality(Below(t, 4)) <= Len(ldFile)
        /\ ctr.ignored + Cardinality(Below(t, 6)) <= Len(ldFile)
    BY Zenon, <1>0, <1>7, <2>1, FewerBelow
  <2> QED  BY Zenon, <1>0, <1>1, <1>2, <1>13, <2>2 DEF LdCounts, LoadedLines
<1>20. LdEnds'
  BY Zenon, <1>0, <1>1, <1>3, <1>13 DEF LdEnds
<1> QED  BY <1>16, <1>17, <1>18, <1>19, <1>20 DEF Flows

\* The quad is sent on cnq, and is still to be counted.
LEMMA ParserSends ==
  ASSUME ChanCap \in Nat, IsFiniteSet(Parsers), NEW s, Flows(s), NEW p \in Parsers,
         parseStream(p), ldParser[p] > 0, ldFile[ldParser[p]] # "garbage"
  PROVE  \E t : Flows(t)'
<1>0. /\ LdTypes /\ LdEnds /\ LdFlow(s) /\ LdFate(s) /\ LdCounts(s) /\ FileOK
      /\ GoroutinesOK /\ CountersOK /\ s \in [Lines -> 0..6]
  BY DEF Flows, LdTypes, LdFlow
<1>a. ldParser[p] # -2 /\ ldParser[p] # 0 /\ ldParser[p] # -1 /\ ldParser[p] \in Lines
  BY <1>0 DEF GoroutinesOK
<1>1. /\ Len(cnq) < ChanCap /\ cnq' = Append(cnq, ldParser[p])
      /\ ldParser' = [ldParser EXCEPT ![p] = -2]
      /\ UNCHANGED <<ldCall, ldFile, ldReader, input, ldHandler, ldErr, ctr, loaded>>
  BY Zenon, <1>a DEF parseStream, HasRoom, Idle, Done, Counting
<1>2. /\ Lines' = Lines /\ FileOK' /\ \A t : /\ \A c : Below(t, c)' = Below(t, c)
                                             /\ \A a : At(t, a)' = At(t, a)
  BY <1>0, <1>1, SameFile
<1>3. ldCall = "loading"
  BY Zenon, <1>0, <1>a, ParserAtWork
<1>4. PICK i, v : i = ldParser[p] /\ v = -2
  OBVIOUS
<1>5. i \in Lines /\ s[i] = 3
  BY <1>0, <1>a, <1>4 DEF LdFlow, WithParsers, With, At, GoroutinesOK
<1>6. v \notin Lines /\ v = -2 /\ v # -1 /\ v \in {0, -1, -2} \cup Lines
  BY <1>4 DEF Lines
<1>7. PICK t : Moved(s, t, i, 3, 4)
  BY <1>0, <1>5, Moves
<1>8. /\ t \in [Lines -> 0..6] /\ \A j \in Lines : t[j] = IF j = i THEN 4 ELSE s[j]
      /\ At(t, 3) = At(s, 3) \ {i} /\ At(t, 4) = At(s, 4) \cup {i}
      /\ \A k : k # 4 /\ k # 3 => At(t, k) = At(s, k)
  BY Zenon, <1>7 DEF Moved
<1>9. /\ At(t, 0) = At(s, 0) /\ At(t, 1) = At(s, 1) /\ At(t, 2) = At(s, 2) /\ At(t, 5) = At(s, 5)
  <2>1. ASSUME NEW k \in {0, 1, 2, 5} PROVE k # 4 /\ k # 3
    OBVIOUS
  <2> QED  BY Zenon, <1>8, <2>1
<1>10. ParserSets(p, v) /\ ParserMay(s, v)
  BY Zenon, <1>1, <1>4, <1>6 DEF ParserSets, ParserMay
<1>11. ParserMoves(s, t, p, v)
  BY <1>4, <1>6, <1>8 DEF ParserMoves
<1>12. ldParser' \in [Parsers -> {0, -1, -2} \cup Lines] /\ WithParsers(t)'
  BY Zenon, <1>0, <1>1, <1>10, <1>11, ParserHolds
<1>13. /\ Cardinality(ToCount') = Cardinality(ToCount) + 1
       /\ \A q \in Parsers : ldParser'[q] = IF q = p THEN v ELSE ldParser[q]
  BY Zenon, <1>0, <1>a, <1>6, <1>10, CountingParsers
<1>14. ReaderOK' /\ InputOK' /\ InFile(t)' /\ InBuffer(t)' /\ InInput(t)' /\ WithHandlers(t)'
  BY Zenon, <1>0, <1>1, <1>9, SamePlaces
<1>15. /\ cnq \in Seq(Lines) /\ IsInjective(cnq) /\ i \notin Range(cnq) /\ Range(cnq) = At(s, 4)
  BY <1>0, <1>5 DEF LdTypes, CnqOK, LdFlow, InCnq, At
<1>16. /\ cnq' \in Seq(Lines) /\ IsInjective(cnq') /\ Range(cnq') = Range(cnq) \cup {i}
       /\ Len(cnq') = Len(cnq) + 1 /\ Len(cnq) \in Nat
  BY <1>1, <1>4, <1>5, <1>15, RangeAppend, InjectiveAppend
<1>17. CnqOK' /\ InCnq(t)'
  <2>1. Len(cnq') <= ChanCap
    BY <1>1, <1>16
  <2> QED  BY Zenon, <1>2, <1>8, <1>15, <1>16, <2>1 DEF CnqOK, InCnq
<1>18. GoroutinesOK' /\ CountersOK'
  BY Zenon, <1>0, <1>1, <1>2, <1>12 DEF GoroutinesOK, CountersOK
<1>19. LdTypes'
  BY Zenon, <1>2, <1>14, <1>17, <1>18 DEF LdTypes
<1>20. LdFlow(t)'
  BY Zenon, <1>2, <1>8, <1>12, <1>14, <1>17 DEF LdFlow
<1>21. LdFate(t)'
  <2>1. \A j \in Lines : t[j] = IF j = i THEN 4 ELSE s[j]
    BY <1>8
  <2>2. ldFile[i] # "garbage"
    BY <1>4
  <2> QED  BY <1>0, <1>1, <1>2, <1>5, <2>1, <2>2 DEF LdFate
<1>22. LdCounts(t)'
  <2>1. 3 \in 0..6 /\ 4 \in 0..6 /\ 3 < 4 /\ 4 >= 4
    OBVIOUS
  <2>2. /\ ctr.parsed + (Cardinality(ToCount) + 1) + Cardinality(Below(t, 4)) <= Len(ldFile)
        /\ ctr.ignored + Cardinality(Below(t, 6)) <= Len(ldFile)
    BY Zenon, <1>0, <1>7, <2>1, FewerBelow
  <2> QED  BY Zenon, <1>0, <1>1, <1>2, <1>13, <2>2 DEF LdCounts, LoadedLines
<1>23. LdEnds'
  BY Zenon, <1>0, <1>1, <1>3, <1>6, <1>13 DEF LdEnds
<1> QED  BY <1>19, <1>20, <1>21, <1>22, <1>23 DEF Flows

\* parseStream counts the quad it sent.
LEMMA ParserCounts ==
  ASSUME IsFiniteSet(Parsers), NEW s, Flows(s), NEW p \in Parsers, parseStream(p),
         ~(ldParser[p] > 0)
  PROVE  Flows(s)'
<1>0. /\ LdTypes /\ LdEnds /\ LdFlow(s) /\ LdFate(s) /\ LdCounts(s) /\ FileOK
      /\ GoroutinesOK /\ CountersOK
  BY DEF Flows, LdTypes
<1>1. /\ ldParser[p] = -2 /\ ctr' = [ctr EXCEPT !.parsed = @ + 1]
      /\ ldParser' = [ldParser EXCEPT ![p] = 0]
      /\ UNCHANGED <<ldCall, ldFile, ldReader, input, cnq, ldHandler, ldErr, loaded>>
  BY Zenon DEF parseStream, Idle, Done, Counting
<1>2. /\ Lines' = Lines /\ FileOK' /\ \A t : /\ \A c : Below(t, c)' = Below(t, c)
                                             /\ \A a : At(t, a)' = At(t, a)
  BY <1>0, <1>1, SameFile
<1>b. LdTypes /\ ldParser[p] = -2
  BY <1>0, <1>1
<1>a. ldParser[p] # 0 /\ ldParser[p] # -1 /\ ldParser[p] \notin Lines
  BY <1>1 DEF Lines
<1>3. ldCall = "loading"
  BY Zenon, <1>0, <1>a, ParserAtWork
<1>4. PICK v : v = 0
  OBVIOUS
<1>5. v \notin Lines /\ v # -2 /\ v # -1
  BY <1>4 DEF Lines
<1>6. ParserSets(p, v) /\ ParserMay(s, v) /\ ParserMoves(s, s, p, v)
  BY <1>1, <1>a, <1>4, <1>5 DEF ParserSets, ParserMay, ParserMoves, At
<1>7. ldParser' \in [Parsers -> {0, -1, -2} \cup Lines] /\ WithParsers(s)'
  BY Zenon, <1>0, <1>1, <1>6, ParserHolds
<1>8. /\ Cardinality(ToCount') = Cardinality(ToCount) - 1 /\ Cardinality(ToCount) \in Nat
      /\ \A q \in Parsers : ldParser'[q] = IF q = p THEN v ELSE ldParser[q]
  BY Zenon, <1>b, <1>5, <1>6, CountingParsers
<1>9. /\ ReaderOK' /\ InputOK' /\ CnqOK'
      /\ InFile(s)' /\ InBuffer(s)' /\ InInput(s)' /\ InCnq(s)' /\ WithHandlers(s)'
  BY Zenon, <1>0, <1>1, SamePlaces
<1>10. /\ ctr'.read = ctr.read /\ ctr'.parsed = ctr.parsed + 1
       /\ ctr'.ignored = ctr.ignored /\ ctr'.processed = ctr.processed
       /\ ctr' \in [read : Nat, parsed : Nat, processed : Nat, ignored : Nat]
       /\ ctr.parsed \in Nat
  BY <1>0, <1>1 DEF CountersOK
<1>11. GoroutinesOK' /\ CountersOK'
  BY Zenon, <1>0, <1>1, <1>2, <1>7, <1>10 DEF GoroutinesOK, CountersOK
<1>12. LdTypes'
  BY Zenon, <1>2, <1>9, <1>11 DEF LdTypes
<1>13. LdFlow(s)'
  BY Zenon, <1>0, <1>2, <1>7, <1>9 DEF LdFlow
<1>14. LdFate(s)'
  BY Zenon, <1>0, <1>1, <1>2 DEF LdFate
<1>15. LdCounts(s)'
  <2>1. /\ ctr.read = ldReader.pos - 1 /\ ctr.ignored + Cardinality(Below(s, 6)) <= Len(ldFile)
        /\ ctr.parsed + Cardinality(ToCount) + Cardinality(Below(s, 4)) <= Len(ldFile)
        /\ ctr.processed = Cardinality(LoadedLines)
    BY Zenon, <1>0 DEF LdCounts
  <2>2. ctr'.parsed + Cardinality(ToCount') = ctr.parsed + Cardinality(ToCount)
    BY <1>8, <1>10
  <2> QED  BY Zenon, <1>1, <1>2, <1>10, <2>1, <2>2 DEF LdCounts, LoadedLines
<1>16. LdEnds'
  BY Zenon, <1>0, <1>1, <1>3, <1>5, <1>8 DEF LdEnds
<1> QED  BY <1>12, <1>13, <1>14, <1>15, <1>16 DEF Flows

\* pwg.Wait() and wg.Wait() are over.
LEMMA Waits ==
  ASSUME NEW s, Flows(s), closeCnq \/ loadReturns
  PROVE  Flows(s)'
<1>0. /\ LdTypes /\ LdEnds /\ LdFlow(s) /\ LdFate(s) /\ LdCounts(s) /\ FileOK
      /\ GoroutinesOK /\ CountersOK
  BY DEF Flows, LdTypes
<1>1. /\ \/ /\ ldCall = "loading" /\ ldCall' = "closed" /\ \A p \in Parsers : ldParser[p] = -1
         \/ /\ ldCall = "closed" /\ ldCall' = "returned" /\ \A h \in Handlers : ldHandler[h] = -1
      /\ UNCHANGED <<ldFile, ldReader, input, cnq, ldParser, ldHandler, ldErr, ctr, loaded>>
  BY Zenon DEF closeCnq, loadReturns, Done
<1>2. /\ Lines' = Lines /\ FileOK' /\ \A t : /\ \A c : Below(t, c)' = Below(t, c)
                                             /\ \A a : At(t, a)' = At(t, a)
  BY <1>0, <1>1, SameFile
<1>3. /\ ReaderOK' /\ InputOK' /\ CnqOK' /\ InFile(s)' /\ InBuffer(s)' /\ InInput(s)'
      /\ WithParsers(s)' /\ InCnq(s)' /\ WithHandlers(s)'
  BY Zenon, <1>0, <1>1, SamePlaces
<1>4. ldCall' \in {"idle", "loading", "closed", "returned"}
  BY <1>1
<1>5. GoroutinesOK' /\ CountersOK'
  BY Zenon, <1>0, <1>1, <1>2, <1>4 DEF GoroutinesOK, CountersOK
<1>6. LdTypes' /\ LdFlow(s)'
  BY Zenon, <1>0, <1>2, <1>3, <1>5 DEF LdTypes, LdFlow
<1>7. LdFate(s)'
  BY Zenon, <1>0, <1>1, <1>2 DEF LdFate
<1>8. LdCounts(s)'
  BY Zenon, <1>0, <1>1, <1>2 DEF LdCounts, LoadedLines, ToCount
<1>9. LdEnds'
  BY <1>0, <1>1 DEF LdEnds
<1> QED  BY <1>6, <1>7, <1>8, <1>9 DEF Flows

\* What handleNQuads h holds next, seen by each handler.
LEMMA OtherHandlers ==
  ASSUME LdTypes, NEW h \in Handlers, NEW v, HandlerSets(h, v)
  PROVE  \A g \in Handlers : ldHandler'[g] = IF g = h THEN v ELSE ldHandler[g]
BY DEF LdTypes, GoroutinesOK, HandlerSets

\* handleNQuads finds cnq closed and empty.
LEMMA HandlerEnds ==
  ASSUME NEW s, Flows(s), NEW h \in Handlers, handleTake(h), cnq = <<>>
  PROVE  Flows(s)'
<1>0. /\ LdTypes /\ LdEnds /\ LdFlow(s) /\ LdFate(s) /\ LdCounts(s) /\ FileOK
      /\ GoroutinesOK /\ CountersOK
  BY DEF Flows, LdTypes
<1>1. /\ ldCall = "closed" /\ ldHandler[h] = 0 /\ ldHandler' = [ldHandler EXCEPT ![h] = -1]
      /\ UNCHANGED <<ldCall, ldFile, ldReader, input, cnq, ldParser, ldErr, ctr, loaded>>
  BY Zenon DEF handleTake, Idle, Done
<1>2. /\ Lines' = Lines /\ FileOK' /\ \A t : /\ \A c : Below(t, c)' = Below(t, c)
                                             /\ \A a : At(t, a)' = At(t, a)
  BY <1>0, <1>1, SameFile
<1>3. PICK v : v = -1
  OBVIOUS
<1>4. v \notin Lines /\ ldHandler[h] \notin Lines
  BY <1>1, <1>3 DEF Lines
<1>5. HandlerSets(h, v) /\ HandlerMay(s, v) /\ HandlerMoves(s, s, h, v)
  BY <1>1, <1>3, <1>4 DEF HandlerSets, HandlerMay, HandlerMoves, At
<1>6. ldHandler' \in [Handlers -> {0, -1} \cup Lines] /\ WithHandlers(s)'
  BY Zenon, <1>0, <1>1, <1>5, HandlerHolds
<1>7. \A g \in Handlers : ldHandler'[g] = IF g = h THEN v ELSE ldHandler[g]
  BY Zenon, <1>0, <1>5, OtherHandlers
<1>8. /\ ReaderOK' /\ InputOK' /\ CnqOK'
      /\ InFile(s)' /\ InBuffer(s)' /\ InInput(s)' /\ WithParsers(s)' /\ InCnq(s)'
  BY Zenon, <1>0, <1>1, SamePlaces
<1>9. GoroutinesOK' /\ CountersOK'
  BY Zenon, <1>0, <1>1, <1>2, <1>6 DEF GoroutinesOK, CountersOK
<1>10. LdTypes' /\ LdFlow(s)'
  BY Zenon, <1>0, <1>2, <1>6, <1>8, <1>9 DEF LdTypes, LdFlow
<1>11. LdFate(s)'
  BY Zenon, <1>0, <1>1, <1>2 DEF LdFate
<1>12. LdCounts(s)'
  BY Zenon, <1>0, <1>1, <1>2 DEF LdCounts, LoadedLines, ToCount
<1>13. LdEnds'
  BY Zenon, <1>0, <1>1, <1>7 DEF LdEnds
<1> QED  BY <1>10, <1>11, <1>12, <1>13 DEF Flows

\* handleNQuads takes a quad: it drops it after an error, skips one of a foreign group,
\* and holds another.
LEMMA HandlerTakes ==
  ASSUME ChanCap \in Nat, IsFiniteSet(Parsers), NEW s, Flows(s), NEW h \in Handlers,
         handleTake(h), cnq # <<>>
  PROVE  \E t : Flows(t)'
<1>0. /\ LdTypes /\ LdEnds /\ LdFlow(s) /\ LdFate(s) /\ LdCounts(s) /\ FileOK
      /\ GoroutinesOK /\ CountersOK /\ s \in [Lines -> 0..6]
  BY DEF Flows, LdTypes, LdFlow
<1>1. /\ ldCall \in {"loading", "closed"} /\ ldHandler[h] = 0 /\ cnq' = Tail(cnq)
      /\ ldHandler' = [ldHandler EXCEPT ![h] =
                         IF ldErr THEN -1 ELSE IF ldFile[Head(cnq)] = "foreign" THEN 0
                         ELSE Head(cnq)]
      /\ ctr' = IF ~ldErr /\ ldFile[Head(cnq)] = "foreign"
                THEN [ctr EXCEPT !.ignored = @ + 1] ELSE ctr
      /\ UNCHANGED <<ldCall, ldFile, ldReader, input, ldParser, ldErr, loaded>>
  BY Zenon DEF handleTake, Idle, Done
<1>2. /\ Lines' = Lines /\ FileOK' /\ \A t : /\ \A c : Below(t, c)' = Below(t, c)
                                             /\ \A a : At(t, a)' = At(t, a)
  BY <1>0, <1>1, SameFile
<1>3. PICK i : i = Head(cnq)
  OBVIOUS
<1>4. i \in Lines /\ s[i] = 4 /\ CnqOK' /\ \A t : At(t, 4) = At(s, 4) \ {i} => InCnq(t)'
  BY Zenon, <1>0, <1>1, <1>3, TakesCnq
<1>5. PICK v : v = IF ldErr THEN -1 ELSE IF ldFile[i] = "foreign" THEN 0 ELSE i
  OBVIOUS
<1>6. HandlerSets(h, v)
  BY Zenon, <1>1, <1>3, <1>5 DEF HandlerSets
<1>7. i \in Nat \ {0} /\ i \in Lines /\ s[i] = 4
  BY <1>4 DEF Lines
<1>8. PICK m : m = IF v = i THEN 5 ELSE 6
  OBVIOUS
<1>9. \/ v = i /\ m = 5 /\ ~ldErr /\ ldFile[i] # "foreign"
      \/ v = -1 /\ m = 6 /\ ldErr
      \/ v = 0 /\ m = 6 /\ ~ldErr /\ ldFile[i] = "foreign"
  BY <1>5, <1>7, <1>8
<1>10. m \in 0..6 /\ 4 < m /\ (m = 5 \/ m = 6)
  BY <1>8
<1>11. PICK t : Moved(s, t, i, 4, m)
  BY <1>0, <1>7, <1>10, Moves
<1>12. /\ t \in [Lines -> 0..6] /\ \A j \in Lines : t[j] = IF j = i THEN m ELSE s[j]
       /\ At(t, 4) = At(s, 4) \ {i} /\ At(t, m) = At(s, m) \cup {i}
       /\ \A k : k # m /\ k # 4 => At(t, k) = At(s, k)
  BY Zenon, <1>11 DEF Moved
<1>13. /\ At(t, 0) = At(s, 0) /\ At(t, 1) = At(s, 1)
       /\ At(t, 2) = At(s, 2) /\ At(t, 3) = At(s, 3) /\ (m = 6 => At(t, 5) = At(s, 5))
  <2>1. ASSUME NEW k \in {0, 1, 2, 3} PROVE k # m /\ k # 4
    BY <1>10
  <2>2. m = 6 => 5 # m /\ 5 # 4
    OBVIOUS
  <2> QED  BY Zenon, <1>12, <2>1, <2>2
<1>14. HandlerMay(s, v)
  <2>1. v \in Lines => v = i
    BY <1>9 DEF Lines
  <2>2. v \in {0, -1} \cup Lines
    BY <1>7, <1>9
  <2>3. v \in Lines => s[v] # 5
    BY <1>7, <2>1
  <2> QED  BY Zenon, <2>2, <2>3 DEF HandlerMay
<1>15. HandlerMoves(s, t, h, v)
  <2>1. 0 \notin Lines /\ -1 \notin Lines
    BY DEF Lines
  <2>2. CASE m = 5
    <3>1. v = i /\ At(t, 5) = At(s, 5) \cup {i}
      BY <1>7, <1>9, <1>12, <2>2
    <3> QED  BY <1>1, <1>7, <2>1, <3>1 DEF HandlerMoves, At
  <2>3. CASE m = 6
    <3>1. v \notin Lines
      BY <1>9, <2>1, <2>3
    <3> QED  BY <1>1, <1>13, <2>1, <2>3, <3>1 DEF HandlerMoves, At
  <2> QED  BY <1>10, <2>2, <2>3
<1>16. ldHandler' \in [Handlers -> {0, -1} \cup Lines] /\ WithHandlers(t)'
  BY Zenon, <1>0, <1>1, <1>6, <1>14, <1>15, HandlerHolds
<1>17. \A g \in Handlers : ldHandler'[g] = IF g = h THEN v ELSE ldHandler[g]
  BY Zenon, <1>0, <1>6, OtherHandlers
<1>18. ReaderOK' /\ InputOK' /\ InFile(t)' /\ InBuffer(t)' /\ InInput(t)' /\ WithParsers(t)'
  BY Zenon, <1>0, <1>1, <1>13, SamePlaces
<1>19. /\ ctr'.read = ctr.read /\ ctr'.parsed = ctr.parsed /\ ctr'.processed = ctr.processed
       /\ ctr'.ignored = IF v = 0 THEN ctr.ignored + 1 ELSE ctr.ignored
       /\ ctr' \in [read : Nat, parsed : Nat, processed : Nat, ignored : Nat]
  <2>1. ctr' = IF v = 0 THEN [ctr EXCEPT !.ignored = @ + 1] ELSE ctr
    <3>1. v = 0 <=> ~ldErr /\ ldFile[i] = "foreign"
      BY <1>7, <1>9
    <3> QED  BY Zenon, <1>1, <1>3, <3>1
  <2>2. ctr \in [read : Nat, parsed : Nat, processed : Nat, ignored : Nat]
    BY <1>0 DEF CountersOK
  <2> QED  BY <2>1, <2>2
<1>20. GoroutinesOK' /\ CountersOK'
  BY Zenon, <1>0, <1>1, <1>2, <1>16, <1>19 DEF GoroutinesOK, CountersOK
<1>21. LdTypes'
  BY Zenon, <1>2, <1>4, <1>18, <1>20 DEF LdTypes
<1>22. LdFlow(t)'
  <2>1. InCnq(t)'
    BY Zenon, <1>4, <1>12
  <2> QED  BY Zenon, <1>2, <1>12, <1>16, <1>18, <2>1 DEF LdFlow
<1>23. LdFate(t)'
  <2>1. \A j \in Lines : t[j] = IF j = i THEN m ELSE s[j]
    BY <1>12
  <2>2. Len(<<>>) = 0
    OBVIOUS
  <2>3. loaded[i] = <<>> /\ ldFile[i] \notin {"empty", "garbage"}
    <3>1. s[i] = 4 /\ s[i] < 5
      BY <1>7
    <3> QED  BY Zenon, <1>0, <1>7, <3>1 DEF LdFate
  <2>4. ldFile[i] \in LineKinds
    BY <1>0, <1>7 DEF FileOK, Lines
  <2>5. m = 5 => /\ ldFile[i] \notin {"empty", "garbage", "foreign"}
                 /\ ldFile[i] = "badEdge" \/ Len(loaded[i]) < Writes(ldFile[i])
    BY <1>9, <2>2, <2>3, <2>4, WriteCounts DEF LineKinds
  <2>6. m = 6 /\ ~ldErr => /\ ldFile[i] \notin {"garbage", "badEdge"}
                           /\ Len(loaded[i]) = Writes(ldFile[i])
    BY <1>9, <2>2, <2>3, WriteCounts
  <2>7. m # 3 /\ m # 4 /\ ~(m < 5)
    BY <1>9
  <2> QED  BY Zenon, <1>0, <1>1, <1>2, <2>1, <2>3, <2>5, <2>6, <2>7 DEF LdFate
<1>24. LdCounts(t)'
  <2>1. /\ ctr.parsed + Cardinality(ToCount) + Cardinality(Below(t, 4)) <= Len(ldFile)
        /\ ctr'.ignored + Cardinality(Below(t, 6)) <= Len(ldFile)
    <3>1. 4 \in 0..6 /\ 4 < 6 /\ (v = 0 => m >= 6)
      BY <1>7, <1>9
    <3> QED  BY Zenon, <1>0, <1>10, <1>11, <1>19, <3>1, FewerBelow
  <2> QED  BY Zenon, <1>0, <1>1, <1>2, <1>19, <2>1 DEF LdCounts, LoadedLines, ToCount
<1>25. LdEnds'
  <2>1. v = -1 => ldErr
    BY <1>7, <1>9
  <2>2. ldCall # "idle" /\ ldCall # "returned"
    BY <1>1
  <2> QED  BY Zenon, <1>0, <1>1, <1>17, <2>1, <2>2 DEF LdEnds
<1> QED  BY <1>21, <1>22, <1>23, <1>24, <1>25 DEF Flows

\* handleNQuads cannot convert the quad: the error is set and the handler returns.
LEMMA HandlerFails ==
  ASSUME IsFiniteSet(Parsers), NEW s, Flows(s), NEW h \in Handlers, handleNQuads(h),
         ldFile[ldHandler[h]] = "badEdge"
  PROVE  \E t : Flows(t)'
<1>0. /\ LdTypes /\ LdEnds /\ LdFlow(s) /\ LdFate(s) /\ LdCounts(s) /\ FileOK
      /\ GoroutinesOK /\ CountersOK /\ s \in [Lines -> 0..6]
  BY DEF Flows, LdTypes, LdFlow
<1>1. /\ ldHandler[h] > 0 /\ ldErr' = TRUE /\ ldHandler' = [ldHandler EXCEPT ![h] = -1]
      /\ UNCHANGED <<ldCall, ldFile, ldReader, input, cnq, ldParser, ctr, loaded>>
  BY Zenon DEF handleNQuads, SetError, Done
<1>a. ldHandler[h] # 0 /\ ldHandler[h] # -1 /\ ldHandler[h] \in Lines
  BY <1>0, <1>1 DEF GoroutinesOK
<1>2. /\ Lines' = Lines /\ FileOK' /\ \A t : /\ \A c : Below(t, c)' = Below(t, c)
                                             /\ \A a : At(t, a)' = At(t, a)
  BY <1>0, <1>1, SameFile
<1>3. ldCall \in {"loading", "closed"}
  BY Zenon, <1>0, <1>a, HandlerAtWork
<1>4. PICK i, v : i = ldHandler[h] /\ v = -1
  OBVIOUS
<1>5. i \in Lines /\ s[i] = 5
  BY <1>0, <1>a, <1>4 DEF LdFlow, WithHandlers, With, At, GoroutinesOK
<1>6. v \notin Lines /\ v \in {0, -1} \cup Lines
  BY <1>4 DEF Lines
<1>7. PICK t : Moved(s, t, i, 5, 6)
  BY <1>0, <1>5, Moves
<1>8. /\ t \in [Lines -> 0..6] /\ \A j \in Lines : t[j] = IF j = i THEN 6 ELSE s[j]
      /\ At(t, 5) = At(s, 5) \ {i} /\ \A k : k # 6 /\ k # 5 => At(t, k) = At(s, k)
  BY Zenon, <1>7 DEF Moved
<1>9. /\ At(t, 0) = At(s, 0) /\ At(t, 1) = At(s, 1) /\ At(t, 2) = At(s, 2)
      /\ At(t, 3) = At(s, 3) /\ At(t, 4) = At(s, 4)
  <2>1. ASSUME NEW k \in {0, 1, 2, 3, 4} PROVE k # 6 /\ k # 5
    OBVIOUS
  <2> QED  BY Zenon, <1>8, <2>1
<1>10. HandlerSets(h, v) /\ HandlerMay(s, v)
  BY Zenon, <1>1, <1>4, <1>6 DEF HandlerSets, HandlerMay
<1>11. HandlerMoves(s, t, h, v)
  BY <1>4, <1>6, <1>8 DEF HandlerMoves
<1>12. ldHandler' \in [Handlers -> {0, -1} \cup Lines] /\ WithHandlers(t)'
  BY Zenon, <1>0, <1>1, <1>10, <1>11, HandlerHolds
<1>13. \A g \in Handlers : ldHandler'[g] = IF g = h THEN v ELSE ldHandler[g]
  BY Zenon, <1>0, <1>10, OtherHandlers
<1>14. /\ ReaderOK' /\ InputOK' /\ CnqOK'
       /\ InFile(t)' /\ InBuffer(t)' /\ InInput(t)' /\ WithParsers(t)' /\ InCnq(t)'
  BY Zenon, <1>0, <1>1, <1>9, SamePlaces
<1>15. GoroutinesOK' /\ CountersOK'
  BY Zenon, <1>0, <1>1, <1>2, <1>12 DEF GoroutinesOK, CountersOK
<1>16. LdTypes' /\ LdFlow(t)'
  BY Zenon, <1>2, <1>8, <1>12, <1>14, <1>15 DEF LdTypes, LdFlow
<1>17. LdFate(t)'
  <2>1. \A j \in Lines : t[j] = IF j = i THEN 6 ELSE s[j]
    BY <1>8
  <2> QED  BY <1>0, <1>1, <1>2, <1>5, <2>1 DEF LdFate
<1>18. LdCounts(t)'
  <2>1. 5 \in 0..6 /\ 6 \in 0..6
    OBVIOUS
  <2>2. /\ ctr.parsed + Cardinality(ToCount) + Cardinality(Below(t, 4)) <= Len(ldFile)
        /\ ctr.ignored + Cardinality(Below(t, 6)) <= Len(ldFile)
    BY Zenon, <1>0, <1>7, <2>1, FewerBelow
  <2> QED  BY Zenon, <1>0, <1>1, <1>2, <2>2 DEF LdCounts, LoadedLines, ToCount
<1>19. LdEnds'
  <2>1. ldCall # "idle" /\ ldCall # "returned"
    BY <1>3
  <2> QED  BY Zenon, <1>0, <1>1, <2>1 DEF LdEnds
<1> QED  BY <1>16, <1>17, <1>18, <1>19 DEF Flows

\* A step that moves no line and no goroutine.
LEMMA NoMove ==
  ASSUME NEW s, Flows(s), ldCall = "idle" => Init',
         UNCHANGED <<ldCall, ldFile, ldReader, input, cnq, ldParser, ldHandler, ldErr, ctr, loaded>>
  PROVE  Flows(s)'
<1>0. LdTypes /\ LdEnds /\ LdFlow(s) /\ LdFate(s) /\ LdCounts(s) /\ FileOK
  BY DEF Flows, LdTypes
<1>2. Lines' = Lines /\ FileOK' /\ \A t, c : Below(t, c)' = Below(t, c)
  BY <1>0, SameFile
<1>3. /\ ReaderOK' /\ InputOK' /\ CnqOK' /\ InFile(s)' /\ InBuffer(s)' /\ InInput(s)'
      /\ WithParsers(s)' /\ InCnq(s)' /\ WithHandlers(s)'
  BY Zenon, <1>0, SamePlaces
<1>4. GoroutinesOK' /\ CountersOK'
  BY Zenon, <1>0, <1>2 DEF LdTypes, GoroutinesOK, CountersOK
<1>5. LdTypes' /\ LdFlow(s)'
  BY Zenon, <1>0, <1>2, <1>3, <1>4 DEF LdTypes, LdFlow
<1>6. LdFate(s)'
  BY Zenon, <1>0, <1>2 DEF LdFate
<1>7. LdCounts(s)'
  BY Zenon, <1>0, <1>2 DEF LdCounts, LoadedLines, ToCount
<1>8. LdEnds'
  BY Zenon, <1>0 DEF LdEnds
<1> QED  BY <1>5, <1>6, <1>7, <1>8 DEF Flows

\* What AddMutation writes of, and to which list.
WriteOf(s, h, i) ==
  /\ i = ldHandler[h] /\ i \in Lines /\ s[i] = 5 /\ ldCall \in {"loading", "closed"}
  /\ Len(loaded[i]) \in Nat /\ Len(loaded[i]) < Writes(ldFile[i]) /\ Writes(ldFile[i]) \in 0..3
  /\ loaded' \in [Lines -> Seq({"live", "gone"})]
  /\ Len(loaded'[i]) = Len(loaded[i]) + 1
  /\ loaded'[i] = Append(loaded[i], ldPlist[h])
  /\ \A j \in Lines : j # i => loaded'[j] = loaded[j]

\* A handler that writes has a line with a write to come.
LEMMA HandlerWrites ==
  ASSUME NEW s, Flows(s), LdHeld, NEW h \in Handlers, AddMutation(h)
  PROVE  \E i : WriteOf(s, h, i)
<1> DEFINE i == ldHandler[h]
<1>0. LdTypes /\ LdEnds /\ LdFlow(s) /\ LdFate(s) /\ FileOK /\ GoroutinesOK /\ CountersOK
  BY DEF Flows, LdTypes
<1>1. /\ ldPlist[h] # "none" /\ ldPlist[h] \in {"live", "gone"}
      /\ loaded' = [loaded EXCEPT ![i] = Append(loaded[i], ldPlist[h])]
  BY DEF AddMutation, LdHeld
<1>2. i \in Lines /\ ldFile[i] # "badEdge" /\ ldHandler[h] # 0 /\ ldHandler[h] # -1
  BY <1>1 DEF LdHeld, Lines
<1>3. ldCall \in {"loading", "closed"}
  BY Zenon, <1>0, <1>2, HandlerAtWork
<1>4. s[i] = 5
  BY <1>0, <1>2 DEF LdFlow, WithHandlers, With, At, GoroutinesOK
<1>5. loaded \in [Lines -> Seq({"live", "gone"})]
  BY <1>0 DEF CountersOK
<1>6. /\ loaded[i] \in Seq({"live", "gone"}) /\ Len(loaded[i]) \in Nat
      /\ Append(loaded[i], ldPlist[h]) \in Seq({"live", "gone"})
      /\ Len(Append(loaded[i], ldPlist[h])) = Len(loaded[i]) + 1
  BY <1>1, <1>2, <1>5
<1>7. Len(loaded[i]) < Writes(ldFile[i])
  BY <1>0, <1>2, <1>4 DEF LdFate
<1>8. Writes(ldFile[i]) \in 0..3
  <2>1. ldFile[i] \in LineKinds
    BY <1>0, <1>2 DEF FileOK, Lines
  <2> QED  BY <2>1, WriteCounts
<1>9. /\ loaded' \in [Lines -> Seq({"live", "gone"})]
      /\ loaded'[i] = Append(loaded[i], ldPlist[h])
      /\ \A j \in Lines : j # i => loaded'[j] = loaded[j]
  BY Zenon, <1>1, <1>2, <1>5, <1>6
<1> QED  BY Zenon, <1>2, <1>3, <1>4, <1>6, <1>7, <1>8, <1>9 DEF WriteOf

\* handleNQuads writes of a line, which has more lists to go to.
LEMMA HandlerGoesOn ==
  ASSUME NEW s, Flows(s), LdHeld, NEW h \in Handlers, AddMutation(h),
         Len(loaded[ldHandler[h]]) + 1 # Writes(ldFile[ldHandler[h]])
  PROVE  Flows(s)'
<1>0. LdTypes /\ LdEnds /\ LdFlow(s) /\ LdFate(s) /\ LdCounts(s) /\ FileOK
  BY DEF Flows, LdTypes
<1>1. UNCHANGED <<ldCall, ldFile, ldReader, input, cnq, ldParser, ldHandler, ldErr, ctr>>
  BY DEF AddMutation
<1>2. /\ Lines' = Lines /\ FileOK' /\ \A t : /\ \A c : Below(t, c)' = Below(t, c)
                                             /\ \A a : At(t, a)' = At(t, a)
  BY <1>0, <1>1, SameFile
<1>3. PICK i : WriteOf(s, h, i)
  BY Zenon, HandlerWrites
<1>4. /\ i \in Lines /\ s[i] = 5 /\ ldCall \in {"loading", "closed"}
      /\ Len(loaded[i]) \in Nat /\ Len(loaded[i]) < Writes(ldFile[i]) /\ Writes(ldFile[i]) \in 0..3
      /\ loaded' \in [Lines -> Seq({"live", "gone"})]
      /\ Len(loaded'[i]) = Len(loaded[i]) + 1
      /\ \A j \in Lines : j # i => loaded'[j] = loaded[j]
  BY Zenon, <1>3 DEF WriteOf
<1>5. Len(loaded'[i]) < Writes(ldFile[i]) /\ Len(loaded[i]) # Writes(ldFile[i])
      /\ Len(loaded'[i]) # Writes(ldFile[i])
  <2>1. i = ldHandler[h]
    BY <1>3 DEF WriteOf
  <2> QED  BY <1>4, <2>1
<1>6. /\ ReaderOK' /\ InputOK' /\ CnqOK' /\ InFile(s)' /\ InBuffer(s)' /\ InInput(s)'
      /\ WithParsers(s)' /\ InCnq(s)' /\ WithHandlers(s)'
  BY Zenon, <1>0, <1>1, SamePlaces
<1>7. GoroutinesOK' /\ CountersOK'
  BY Zenon, <1>0, <1>1, <1>2, <1>4 DEF LdTypes, GoroutinesOK, CountersOK
<1>8. LdTypes' /\ LdFlow(s)'
  BY Zenon, <1>0, <1>2, <1>6, <1>7 DEF LdTypes, LdFlow
<1>9. LdFate(s)'
  <2>1. LdFate(s) /\ \A j \in Lines : j # i => loaded'[j] = loaded[j]
    BY <1>0, <1>4
  <2>2. Len(loaded'[i]) < Writes(ldFile[i]) /\ s[i] = 5 /\ ~(s[i] < 5) /\ s[i] # 6
    BY <1>4, <1>5
  <2> QED  BY Zenon, <1>1, <1>2, <2>1, <2>2 DEF LdFate
<1>10. LoadedLines' = LoadedLines
  <2>1. \A j \in Lines : Len(loaded'[j]) = Writes(ldFile[j]) <=> Len(loaded[j]) = Writes(ldFile[j])
    BY Zenon, <1>4, <1>5
  <2> QED  BY Zenon, <1>1, <1>2, <2>1 DEF LoadedLines
<1>11. LdCounts(s)'
  BY Zenon, <1>0, <1>1, <1>2, <1>10 DEF LdCounts, ToCount
<1>12. LdEnds'
  <2>1. ldCall # "idle"
    BY <1>4
  <2> QED  BY Zenon, <1>0, <1>1, <2>1 DEF LdEnds
<1> QED  BY <1>8, <1>9, <1>11, <1>12 DEF Flows

\* handleNQuads writes to the last list of its line and counts it as processed.
LEMMA HandlerLoads ==
  ASSUME IsFiniteSet(Parsers), NEW s, Flows(s), LdHeld, NEW h \in Handlers, AddMutation(h),
         Len(loaded[ldHandler[h]]) + 1 = Writes(ldFile[ldHandler[h]])
  PROVE  \E t : Flows(t)'
<1>0. /\ LdTypes /\ LdEnds /\ LdFlow(s) /\ LdFate(s) /\ LdCounts(s) /\ FileOK
      /\ GoroutinesOK /\ CountersOK /\ s \in [Lines -> 0..6]
  BY DEF Flows, LdTypes, LdFlow
<1>1. /\ ldHandler' = [ldHandler EXCEPT ![h] = 0]
      /\ ctr' = [ctr EXCEPT !.processed = @ + 1]
      /\ UNCHANGED <<ldCall, ldFile, ldReader, input, cnq, ldParser, ldErr>>
  BY Zenon DEF AddMutation, Idle
<1>2. /\ Lines' = Lines /\ FileOK' /\ \A t : /\ \A c : Below(t, c)' = Below(t, c)
                                             /\ \A a : At(t, a)' = At(t, a)
  BY Zenon, <1>0, <1>1, SameFile
<1>b. PICK i : WriteOf(s, h, i)
  BY Zenon, HandlerWrites
<1>4. PICK v : i = ldHandler[h] /\ v = 0
  BY Zenon, <1>b DEF WriteOf
<1>a. /\ i \in Lines /\ s[i] = 5 /\ ldCall \in {"loading", "closed"}
      /\ Len(loaded[i]) \in Nat /\ Len(loaded[i]) < Writes(ldFile[i]) /\ Writes(ldFile[i]) \in 0..3
      /\ loaded' \in [Lines -> Seq({"live", "gone"})]
      /\ Len(loaded'[i]) = Len(loaded[i]) + 1
      /\ \A j \in Lines : j # i => loaded'[j] = loaded[j]
  BY Zenon, <1>b DEF WriteOf
<1>3. ldCall \in {"loading", "closed"}
  BY <1>a
<1>5. i \in Lines /\ s[i] = 5
  BY <1>a
<1>6. v \notin Lines /\ v # -1 /\ v \in {0, -1} \cup Lines
  BY <1>4 DEF Lines
<1>7. PICK t : Moved(s, t, i, 5, 6)
  BY <1>0, <1>5, Moves
<1>8. /\ t \in [Lines -> 0..6] /\ \A j \in Lines : t[j] = IF j = i THEN 6 ELSE s[j]
      /\ At(t, 5) = At(s, 5) \ {i} /\ \A k : k # 6 /\ k # 5 => At(t, k) = At(s, k)
  BY Zenon, <1>7 DEF Moved
<1>9. /\ At(t, 0) = At(s, 0) /\ At(t, 1) = At(s, 1) /\ At(t, 2) = At(s, 2)
      /\ At(t, 3) = At(s, 3) /\ At(t, 4) = At(s, 4)
  <2>1. ASSUME NEW k \in {0, 1, 2, 3, 4} PROVE k # 6 /\ k # 5
    OBVIOUS
  <2> QED  BY Zenon, <1>8, <2>1
<1>10. HandlerSets(h, v) /\ HandlerMay(s, v)
  BY Zenon, <1>1, <1>4, <1>6 DEF HandlerSets, HandlerMay
<1>11. HandlerMoves(s, t, h, v)
  BY <1>4, <1>6, <1>8 DEF HandlerMoves
<1>12. ldHandler' \in [Handlers -> {0, -1} \cup Lines] /\ WithHandlers(t)'
  BY Zenon, <1>0, <1>1, <1>10, <1>11, HandlerHolds
<1>13. \A g \in Handlers : ldHandler'[g] = IF g = h THEN v ELSE ldHandler[g]
  BY Zenon, <1>0, <1>10, OtherHandlers
<1>14. /\ ReaderOK' /\ InputOK' /\ CnqOK'
       /\ InFile(t)' /\ InBuffer(t)' /\ InInput(t)' /\ WithParsers(t)' /\ InCnq(t)'
  BY Zenon, <1>0, <1>1, <1>9, SamePlaces
<1>15. /\ Len(loaded'[i]) = Writes(ldFile[i]) /\ Writes(ldFile[i]) > 0
       /\ Len(loaded[i]) # Writes(ldFile[i]) /\ ldFile[i] \notin {"garbage", "badEdge"}
  <2>1. Len(loaded'[i]) = Writes(ldFile[i]) /\ Writes(ldFile[i]) > 0 /\ Len(loaded[i]) # Writes(ldFile[i])
    BY <1>4, <1>a
  <2> QED  BY <2>1, WriteCounts
<1>16. /\ loaded' \in [Lines -> Seq({"live", "gone"})]
       /\ \A j \in Lines : j # i => loaded'[j] = loaded[j]
  BY <1>a
<1>17. /\ ctr'.read = ctr.read /\ ctr'.parsed = ctr.parsed /\ ctr'.ignored = ctr.ignored
       /\ ctr'.processed = ctr.processed + 1
       /\ ctr' \in [read : Nat, parsed : Nat, processed : Nat, ignored : Nat]
  <2>1. ctr \in [read : Nat, parsed : Nat, processed : Nat, ignored : Nat]
    BY <1>0 DEF CountersOK
  <2> QED  BY <1>1, <2>1
<1>18. GoroutinesOK' /\ CountersOK'
  BY Zenon, <1>0, <1>1, <1>2, <1>12, <1>16, <1>17 DEF GoroutinesOK, CountersOK
<1>19. LdTypes' /\ LdFlow(t)'
  BY Zenon, <1>2, <1>8, <1>12, <1>14, <1>18 DEF LdTypes, LdFlow
<1>20. LdFate(t)'
  <2>1. \A j \in Lines : t[j] = IF j = i THEN 6 ELSE s[j]
    BY <1>8
  <2> QED  BY <1>0, <1>1, <1>2, <1>5, <1>15, <1>16, <2>1 DEF LdFate
<1>21. LdCounts(t)'
  <2>1. 5 \in 0..6 /\ 6 \in 0..6
    OBVIOUS
  <2>2. /\ ctr.parsed + Cardinality(ToCount) + Cardinality(Below(t, 4)) <= Len(ldFile)
        /\ ctr.ignored + Cardinality(Below(t, 6)) <= Len(ldFile)
    BY Zenon, <1>0, <1>7, <2>1, FewerBelow
  <2>3. LoadedLines' = LoadedLines \cup {i} /\ i \notin LoadedLines
    <3>1. \A j \in Lines : j # i => loaded'[j] = loaded[j]
      BY <1>16
    <3>2. ldFile' = ldFile
      BY <1>1
    <3>3. LoadedLines' = {j \in Lines : Writes(ldFile[j]) > 0 /\ Len(loaded'[j]) = Writes(ldFile[j])}
      BY Zenon, <1>2, <3>2 DEF LoadedLines
    <3> QED  BY Zenon, <1>5, <1>15, <3>1, <3>3 DEF LoadedLines
  <2>4. IsFiniteSet(LoadedLines)
    <3>0. Len(ldFile) \in Int /\ 1 \in Int
      BY <1>0 DEF FileOK
    <3>1. IsFiniteSet(Lines)
      BY Zenon, <3>0, FS_Interval DEF Lines
    <3>2. LoadedLines \subseteq Lines
      BY Zenon DEF LoadedLines
    <3> QED  BY <3>1, <3>2, FS_Subset
  <2>5. Cardinality(LoadedLines') = Cardinality(LoadedLines) + 1
    BY Zenon, <2>3, <2>4, FS_AddElement
  <2> QED  BY Zenon, <1>0, <1>1, <1>2, <1>17, <2>2, <2>5 DEF LdCounts, ToCount
<1>22. LdEnds'
  <2>1. ldCall # "idle" /\ ldCall # "returned"
    BY <1>3
  <2> QED  BY Zenon, <1>0, <1>1, <1>6, <1>13, <2>1 DEF LdEnds
<1> QED  BY Zenon, <1>19, <1>20, <1>21, <1>22 DEF Flows

\* The call of LoadEdges: the reader's buffer is full of the first lines.
LEMMA LoadStarts ==
  ASSUME ChanCap \in Nat, ShuffleSize \in Nat, MaxLines \in Nat, LdTypes, LdEnds, LoadEdges
  PROVE  \E t : Flows(t)'
<1>0. PICK n \in 0..MaxLines : \E f \in [1..n -> LineKinds] : \E k :
        /\ k = IF n < ShuffleSize THEN n ELSE ShuffleSize
        /\ ldCall = "idle" /\ ldCall' = "loading" /\ ldFile' = f
        /\ ldReader' = [pos |-> k + 1, buf |-> [i \in 1..k |-> i], closed |-> FALSE]
        /\ ctr' = [ctr EXCEPT !.read = k]
        /\ loaded' = [i \in 1..n |-> <<>>]
        /\ UNCHANGED <<input, cnq, ldParser, ldHandler, ldErr>>
  BY Zenon DEF LoadEdges
<1>1. PICK f \in [1..n -> LineKinds] : \E k :
        /\ k = IF n < ShuffleSize THEN n ELSE ShuffleSize
        /\ ldCall = "idle" /\ ldCall' = "loading" /\ ldFile' = f
        /\ ldReader' = [pos |-> k + 1, buf |-> [i \in 1..k |-> i], closed |-> FALSE]
        /\ ctr' = [ctr EXCEPT !.read = k]
        /\ loaded' = [i \in 1..n |-> <<>>]
        /\ UNCHANGED <<input, cnq, ldParser, ldHandler, ldErr>>
  BY Zenon, <1>0
<1>1a. PICK k :
        /\ k = IF n < ShuffleSize THEN n ELSE ShuffleSize
        /\ ldCall = "idle" /\ ldCall' = "loading" /\ ldFile' = f
        /\ ldReader' = [pos |-> k + 1, buf |-> [i \in 1..k |-> i], closed |-> FALSE]
        /\ ctr' = [ctr EXCEPT !.read = k]
        /\ loaded' = [i \in 1..n |-> <<>>]
        /\ UNCHANGED <<input, cnq, ldParser, ldHandler, ldErr>>
  BY Zenon, <1>1
<1>2. Init
  BY <1>1a DEF LdEnds
<1>3. /\ input' = <<>> /\ cnq' = <<>> /\ ldErr' = FALSE
      /\ ldParser' = [p \in Parsers |-> 0] /\ ldHandler' = [h \in Handlers |-> 0]
      /\ ctr' = [read |-> k, parsed |-> 0, processed |-> 0, ignored |-> 0]
  BY <1>1a, <1>2 DEF Init, Idle
<1>4. n \in Nat /\ n <= MaxLines /\ k \in Nat /\ k <= n /\ k <= ShuffleSize
  BY <1>1a
<1>5. f \in Seq(LineKinds) /\ Len(f) = n
  BY <1>4
<1>6. Lines' = 1..n /\ FileOK' /\ Len(ldFile)' = n
  BY <1>1a, <1>4, <1>5 DEF Lines, FileOK
<1>7. PICK b : b = [i \in 1..k |-> i]
  BY Zenon
<1>8. /\ b \in Seq(1..n) /\ Len(b) = k /\ IsInjective(b) /\ Range(b) = 1..k
  <2>1. b \in [1..k -> 1..n] /\ DOMAIN b = 1..k /\ \A i \in 1..k : b[i] = i
    BY <1>4, <1>7
  <2>2. b \in Seq(1..n) /\ Len(b) = k
    BY <1>4, <2>1
  <2> QED  BY <2>1, <2>2 DEF IsInjective, Range
<1>9. ldReader' = [pos |-> k + 1, buf |-> b, closed |-> FALSE]
  BY Zenon, <1>1a, <1>7
<1>10. ReaderOK'
  <2>1. ldReader' \in [pos : 1..(n + 1), buf : Seq(1..n), closed : BOOLEAN] /\ ldReader'.buf = b
    BY <1>4, <1>8, <1>9
  <2>2. Len(b) <= ShuffleSize
    BY <1>4, <1>8
  <2> QED  BY Zenon, <1>6, <2>1, <2>2 DEF ReaderOK
<1>11. InputOK' /\ CnqOK'
  BY <1>3 DEF InputOK, CnqOK
<1>12. GoroutinesOK'
  BY Zenon, <1>1a, <1>3 DEF GoroutinesOK
<1>13. CountersOK'
  <2>0. <<>> \in Seq({"live", "gone"})
    OBVIOUS
  <2>1. loaded' \in [1..n -> Seq({"live", "gone"})]
    BY Zenon, <1>1a, <2>0
  <2>2. ctr' \in [read : Nat, parsed : Nat, processed : Nat, ignored : Nat]
    BY <1>3, <1>4
  <2> QED  BY Zenon, <1>6, <2>1, <2>2 DEF CountersOK
<1>14. LdTypes'
  BY Zenon, <1>6, <1>10, <1>11, <1>12, <1>13 DEF LdTypes
<1>15. PICK t : t = [i \in 1..n |-> IF i <= k THEN 1 ELSE 0]
  BY Zenon
<1>16. t \in [1..n -> 0..6] /\ \A i \in 1..n : t[i] = IF i <= k THEN 1 ELSE 0
  BY <1>15
<1>17. InFile(t)' /\ InBuffer(t)'
  <2>1. ldReader'.pos = k + 1 /\ ldReader'.buf = b
    BY <1>9
  <2>2. {i \in 1..n : t[i] = 0} = (k + 1)..n /\ {i \in 1..n : t[i] = 1} = 1..k
    BY <1>4, <1>16
  <2> QED  BY Zenon, <1>6, <1>8, <2>1, <2>2 DEF InFile, InBuffer, At
<1>18. InInput(t)' /\ InCnq(t)'
  BY <1>3, <1>6, <1>16 DEF InInput, InCnq, At, Range, IsInjective
<1>19. WithParsers(t)'
  BY <1>3, <1>6, <1>16 DEF WithParsers, With, At
<1>20. WithHandlers(t)'
  BY <1>3, <1>6, <1>16 DEF WithHandlers, With, At
<1>21. LdFlow(t)'
  BY Zenon, <1>6, <1>16, <1>17, <1>18, <1>19, <1>20 DEF LdFlow
<1>22. LdFate(t)'
  BY <1>1a, <1>6, <1>16 DEF LdFate
<1>23. LdCounts(t)'
  <2>1. ToCount' = {} /\ LoadedLines' = {}
    <3>1. \A i \in 1..n : loaded'[i] = <<>>
      BY Zenon, <1>1a
    <3>2. Len(<<>>) = 0
      OBVIOUS
    <3>3. LoadedLines' = {}
      BY <1>6, <3>1, <3>2 DEF LoadedLines
    <3> QED  BY <1>3, <3>3 DEF ToCount
  <2>2. Below(t, 4)' = 1..n /\ Below(t, 6)' = 1..n
    BY <1>6, <1>16 DEF Below
  <2>3. Cardinality(1..n) = n /\ Cardinality({}) = 0
    BY <1>4, FS_Interval, FS_EmptySet
  <2>4. ldReader'.pos = k + 1
    BY <1>9
  <2> QED  BY <1>3, <1>4, <1>6, <2>1, <2>2, <2>3, <2>4 DEF LdCounts
<1>24. LdEnds'
  <2>1. /\ ldReader'.closed = FALSE /\ \A p \in Parsers : ldParser'[p] # -1
        /\ \A h \in Handlers : ldHandler'[h] # -1
    BY <1>3, <1>9
  <2> QED  BY <1>1a, <2>1 DEF LdEnds
<1> QED  BY <1>14, <1>21, <1>22, <1>23, <1>24 DEF Flows

\* Every step of the call and of its goroutines keeps the invariant.
LEMMA LdStep ==
  ASSUME ChanCap \in Nat, ShuffleSize \in Nat, MaxLines \in Nat, IsFiniteSet(Parsers),
         NEW s, Flows(s), LdHeld, [Next]_ldVars
  PROVE  \E t : Flows(t)'
<1>1. CASE LoadEdges
  BY <1>1, LoadStarts DEF Flows
<1>2. CASE readLines
  BY Zenon, <1>2, SwapStep, SendStep, ReaderCloses
<1>3. CASE closeCnq \/ loadReturns
  BY Zenon, <1>3, Waits
<1>4. ASSUME NEW p \in Parsers, parseTake(p) PROVE \E t : Flows(t)'
  BY Zenon, <1>4, ParserEnds, ParserTakes
<1>5. ASSUME NEW p \in Parsers, parseStream(p) PROVE \E t : Flows(t)'
  BY Zenon, <1>5, ParserFails, ParserSends, ParserCounts
<1>6. ASSUME NEW h \in Handlers, handleTake(h) PROVE \E t : Flows(t)'
  BY Zenon, <1>6, HandlerEnds, HandlerTakes
<1>7. ASSUME NEW h \in Handlers, handleNQuads(h) PROVE \E t : Flows(t)'
  <2>1. CASE ldFile[ldHandler[h]] = "badEdge"
    BY Zenon, <1>7, <2>1, HandlerFails
  <2>2. CASE ldFile[ldHandler[h]] # "badEdge"
    <3>1. /\ UNCHANGED <<ldCall, ldFile, ldReader, input, cnq, ldParser, ldHandler, ldErr, ctr, loaded>>
          /\ ldHandler[h] > 0
      BY <1>7, <2>2 DEF handleNQuads
    <3>2. ldHandler[h] # 0 /\ ldHandler[h] # -1 /\ LdEnds /\ LdTypes
      BY <3>1 DEF Flows, LdTypes, GoroutinesOK
    <3>3. ldCall # "idle"
      BY <3>2, HandlerAtWork
    <3> QED  BY Zenon, <3>1, <3>3, NoMove
  <2> QED  BY <2>1, <2>2
<1>8. ASSUME NEW h \in Handlers, AddMutation(h) PROVE \E t : Flows(t)'
  BY Zenon, <1>8, HandlerGoesOn, HandlerLoads
<1>9. CASE aggressivelyEvict
  <2>1. PICK h \in Handlers : ldPlist[h] = "live"
    BY <1>9 DEF aggressivelyEvict
  <2>2. ldHandler[h] # 0 /\ ldHandler[h] # -1 /\ LdEnds /\ LdTypes
    BY <2>1 DEF LdHeld, Lines, Flows
  <2>3. ldCall # "idle"
    BY <2>2, HandlerAtWork
  <2>4. UNCHANGED <<ldCall, ldFile, ldReader, input, cnq, ldParser, ldHandler, ldErr, ctr, loaded>>
    BY <1>9 DEF aggressivelyEvict
  <2> QED  BY Zenon, <2>3, <2>4, NoMove
<1>10. CASE UNCHANGED ldVars
  <2>1. UNCHANGED <<ldCall, ldFile, ldReader, input, cnq, ldParser, ldHandler, ldErr, ctr, loaded>>
    BY <1>10 DEF ldVars
  <2>2. Init' = Init
    BY <1>10 DEF ldVars, Init
  <2>3. ldCall = "idle" => Init
    BY DEF Flows, LdEnds
  <2> QED  BY Zenon, <2>1, <2>2, <2>3, NoMove
<1> QED  BY Zenon, <1>1, <1>2, <1>3, <1>4, <1>5, <1>6, <1>7, <1>8, <1>9, <1>10 DEF Next, Goroutines

\* A handler without a line to write has no list, whatever the others do.
LEMMA HeldStep ==
  ASSUME NEW s, Flows(s), LdHeld, [Next]_ldVars
  PROVE  LdHeld'
<1>0. LdTypes /\ LdEnds /\ LdFate(s) /\ FileOK /\ GoroutinesOK
  BY DEF Flows, LdTypes
<1>1. CASE UNCHANGED <<ldPlist, ldHandler, ldFile>>
  <2>1. Lines' = Lines
    BY <1>1 DEF Lines
  <2> QED  BY Zenon, <1>1, <2>1 DEF LdHeld
<1>2. CASE LoadEdges
  <2>1. Init
    BY <1>0, <1>2 DEF LdEnds, LoadEdges
  <2>2. ldPlist' = [h \in Handlers |-> "none"]
    BY <1>2, <2>1 DEF Init, LoadEdges
  <2> QED  BY <2>2 DEF LdHeld
<1>3. ASSUME NEW h \in Handlers, handleTake(h) PROVE LdHeld'
  <2>1. ldHandler[h] = 0 /\ UNCHANGED <<ldFile, ldPlist>>
    BY <1>3 DEF handleTake, Idle
  <2>2. \A g \in Handlers : g # h => ldHandler'[g] = ldHandler[g]
    BY <1>0, <1>3 DEF handleTake, GoroutinesOK
  <2>3. ldPlist[h] = "none" /\ Lines' = Lines
    BY <2>1 DEF LdHeld, Lines
  <2> QED  BY Zenon, <2>1, <2>2, <2>3 DEF LdHeld
<1>4. ASSUME NEW h \in Handlers, handleNQuads(h) PROVE LdHeld'
  <2>1. UNCHANGED ldFile /\ ldPlist[h] = "none" /\ Lines' = Lines
    BY <1>4 DEF handleNQuads, Lines
  <2>2. CASE ldFile[ldHandler[h]] = "badEdge"
    <3>1. UNCHANGED ldPlist /\ \A g \in Handlers : g # h => ldHandler'[g] = ldHandler[g]
      BY <1>0, <1>4, <2>2 DEF handleNQuads, GoroutinesOK
    <3> QED  BY Zenon, <2>1, <3>1 DEF LdHeld
  <2>3. CASE ldFile[ldHandler[h]] # "badEdge"
    <3>1. /\ UNCHANGED ldHandler /\ ldPlist' = [ldPlist EXCEPT ![h] = "live"]
          /\ ldHandler[h] > 0
      BY <1>4, <2>3 DEF handleNQuads
    <3>2. ldHandler[h] \in Lines
      BY <1>0, <3>1 DEF GoroutinesOK
    <3> QED  BY Zenon, <2>1, <2>3, <3>1, <3>2 DEF LdHeld
  <2> QED  BY <2>2, <2>3
<1>5. ASSUME NEW h \in Handlers, AddMutation(h) PROVE LdHeld'
  <2>1. UNCHANGED ldFile /\ ldPlist' = [ldPlist EXCEPT ![h] = "none"] /\ Lines' = Lines
    BY <1>5 DEF AddMutation, Lines
  <2>2. \A g \in Handlers : g # h => ldHandler'[g] = ldHandler[g]
    BY <1>0, <1>5 DEF AddMutation, GoroutinesOK
  <2> QED  BY Zenon, <2>1, <2>2 DEF LdHeld
<1>6. CASE aggressivelyEvict
  <2>1. /\ UNCHANGED <<ldFile, ldHandler>> /\ Lines' = Lines
        /\ ldPlist' = [h \in Handlers |-> IF ldPlist[h] = "none" THEN "none" ELSE "gone"]
    BY Zenon, <1>6 DEF aggressivelyEvict, Lines
  <2> QED  BY <2>1 DEF LdHeld
<1>7. CASE readLines \/ closeCnq \/ loadReturns
  BY Zenon, <1>1, <1>7 DEF readLines, closeCnq, loadReturns
<1>8. ASSUME NEW p \in Parsers, parseTake(p) \/ parseStream(p) PROVE LdHeld'
  BY <1>1, <1>8 DEF parseTake, parseStream
<1>9. CASE UNCHANGED ldVars
  BY <1>1, <1>9 DEF ldVars
<1> QED  BY Zenon, <1>2, <1>3, <1>4, <1>5, <1>6, <1>7, <1>8, <1>9 DEF Next, Goroutines

\* There are finitely many writes to lose.
LEMMA FewLosses ==
  ASSUME FileOK
  PROVE  IsFiniteSet(LostWrites) /\ Cardinality(LostWrites) \in Nat
<1>0. DOMAIN ldFile = 1..Len(ldFile) /\ Len(ldFile) \in Int /\ 1 \in Int /\ 3 \in Int
  BY DEF FileOK
<1>1. IsFiniteSet(DOMAIN ldFile) /\ IsFiniteSet(1..3)
  BY Zenon, <1>0, FS_Interval
<1>2. IsFiniteSet((DOMAIN ldFile) \X (1..3))
  BY <1>1, FS_Product
<1>3. LostWrites \subseteq (DOMAIN ldFile) \X (1..3)
  BY DEF LostWrites
<1> QED  BY <1>2, <1>3, FS_Subset, FS_CardinalityType

\* One eviction more, and the bound that a sum keeps for its parts.
LEMMA PartOfProduct ==
  ASSUME NEW a \in Nat, NEW b \in Nat, NEW e \in Nat, NEW c \in Nat
  PROVE  /\ (e + 1) * c = e * c + c /\ e * c \in Nat
         /\ a + b <= e * c => a <= e * c
OBVIOUS

\* A list is gone by an eviction, which leaves each handler at most one such list,
\* and a write is lost by giving one of them up.
LEMMA LossStep ==
  ASSUME IsFiniteSet(Handlers), NEW s, Flows(s), LdHeld, LdLosses, [Next]_ldVars
  PROVE  LdLosses'
<1>0. LdTypes /\ LdEnds /\ FileOK /\ CountersOK
  BY DEF Flows, LdTypes
<1>a. /\ IsFiniteSet(LostWrites) /\ Cardinality(LostWrites) \in Nat
      /\ Stale \subseteq Handlers /\ IsFiniteSet(Stale) /\ Cardinality(Stale) \in Nat
      /\ Cardinality(Handlers) \in Nat /\ ldEvicted \in Nat
  BY <1>0, FewLosses, FS_Subset, FS_CardinalityType DEF Stale, LdLosses
<1>1. CASE UNCHANGED <<ldFile, loaded, ldEvicted>> /\ Stale' = Stale
  <2>1. LostWrites' = LostWrites
    BY <1>1 DEF LostWrites
  <2> QED  BY Zenon, <1>1, <2>1 DEF LdLosses
<1>2. CASE LoadEdges
  <2>1. Init
    BY <1>0, <1>2 DEF LdEnds, LoadEdges
  <2>2. ldPlist' = [h \in Handlers |-> "none"] /\ ldEvicted' = 0
    BY <1>2, <2>1 DEF Init, LoadEdges
  <2>3. Stale' = {}
    BY <2>2 DEF Stale
  <2>4. PICK n : DOMAIN ldFile' = 1..n /\ loaded' = [i \in 1..n |-> <<>>]
    BY <1>2 DEF LoadEdges
  <2>5. LostWrites' = {}
    <3>1. \A i \in 1..n : DOMAIN loaded'[i] = {}
      BY <2>4
    <3> QED  BY <2>4, <3>1 DEF LostWrites
  <2>6. Cardinality({}) = 0
    BY FS_EmptySet
  <2> QED  BY <1>a, <2>2, <2>3, <2>5, <2>6 DEF LdLosses
<1>3. ASSUME NEW h \in Handlers, handleTake(h) PROVE LdLosses'
  BY <1>1, <1>3 DEF handleTake, Stale
<1>4. ASSUME NEW h \in Handlers, handleNQuads(h) PROVE LdLosses'
  <2>1. UNCHANGED <<ldFile, loaded, ldEvicted>>
    BY <1>4 DEF handleNQuads
  <2>2. Stale' = Stale
    BY <1>4 DEF handleNQuads, Stale, LdHeld
  <2> QED  BY <1>1, <2>1, <2>2
<1>5. ASSUME NEW h \in Handlers, AddMutation(h) PROVE LdLosses'
  <2>1. UNCHANGED <<ldFile, ldEvicted>> /\ ldPlist' = [ldPlist EXCEPT ![h] = "none"]
    BY <1>5 DEF AddMutation
  <2>2. Stale' = Stale \ {h}
    BY <2>1 DEF Stale, LdHeld
  <2>3. PICK i : WriteOf(s, h, i)
    BY Zenon, <1>5, HandlerWrites
  <2>4. /\ i \in Lines /\ Len(loaded[i]) \in Nat /\ Len(loaded[i]) < Writes(ldFile[i])
        /\ Writes(ldFile[i]) \in 0..3
        /\ loaded'[i] = Append(loaded[i], ldPlist[h])
        /\ \A j \in Lines : j # i => loaded'[j] = loaded[j]
    BY Zenon, <2>3 DEF WriteOf
  <2>5. PICK n : n = Len(loaded[i]) + 1
    BY Zenon
  <2>6. /\ n \in 1..3 /\ n \notin DOMAIN loaded[i] /\ DOMAIN ldFile = Lines
        /\ DOMAIN loaded'[i] = DOMAIN loaded[i] \cup {n} /\ loaded'[i][n] = ldPlist[h]
        /\ \A k \in DOMAIN loaded[i] : loaded'[i][k] = loaded[i][k]
    <3>1. loaded[i] \in Seq({"live", "gone"}) /\ DOMAIN ldFile = Lines
      BY <1>0, <2>4 DEF CountersOK, FileOK, Lines
    <3>2. n \in 1..3
      BY <2>4, <2>5
    <3> QED  BY <2>4, <2>5, <3>1, <3>2
  <2>7. CASE ldPlist[h] = "gone"
    <3>1. LostWrites' = LostWrites \cup {<<i, n>>} /\ <<i, n>> \notin LostWrites
      BY <2>1, <2>4, <2>6, <2>7 DEF LostWrites
    <3>2. Cardinality(LostWrites') = Cardinality(LostWrites) + 1
      BY Zenon, <1>a, <3>1, FS_AddElement
    <3>0. h \in Stale
      BY <2>7 DEF Stale
    <3>3. Cardinality(Stale') = Cardinality(Stale) - 1
      BY Zenon, <1>a, <2>2, <3>0, FS_RemoveElement
    <3>4. PICK c : c = ldEvicted * Cardinality(Handlers)
      BY Zenon
    <3>5. Cardinality(LostWrites') + Cardinality(Stale') <= c
      BY <1>a, <3>2, <3>3, <3>4 DEF LdLosses
    <3> QED  BY Zenon, <1>a, <2>1, <3>4, <3>5 DEF LdLosses
  <2>8. CASE ldPlist[h] # "gone"
    <3>0. \A j \in Lines, k \in 1..3 :
            (k \in DOMAIN loaded'[j] /\ loaded'[j][k] = "gone")
              <=> (k \in DOMAIN loaded[j] /\ loaded[j][k] = "gone")
      BY Zenon, <2>4, <2>6, <2>8
    <3>1. LostWrites' = LostWrites
      BY <2>1, <2>6, <3>0 DEF LostWrites
    <3>2. Stale' = Stale
      BY <2>2, <2>8 DEF Stale
    <3> QED  BY Zenon, <2>1, <3>1, <3>2 DEF LdLosses
  <2> QED  BY <2>7, <2>8
<1>6. CASE aggressivelyEvict
  <2>1. UNCHANGED <<ldFile, loaded>> /\ ldEvicted' = ldEvicted + 1
    BY Zenon, <1>6 DEF aggressivelyEvict
  <2>2. LostWrites' = LostWrites
    BY <2>1 DEF LostWrites
  <2>3. Stale' \subseteq Handlers
    BY DEF Stale
  <2>4. Cardinality(Stale') \in Nat /\ Cardinality(Stale') <= Cardinality(Handlers)
    BY <2>3, FS_Subset, FS_CardinalityType
  <2>5. /\ (ldEvicted + 1) * Cardinality(Handlers) = ldEvicted * Cardinality(Handlers) + Cardinality(Handlers)
        /\ ldEvicted * Cardinality(Handlers) \in Nat
        /\ Cardinality(LostWrites) <= ldEvicted * Cardinality(Handlers)
    BY Zenon, <1>a, PartOfProduct DEF LdLosses
  <2>6. PICK c : c = ldEvicted * Cardinality(Handlers)
    BY Zenon
  <2>7. c \in Nat /\ Cardinality(LostWrites) + Cardinality(Stale') <= c + Cardinality(Handlers)
    BY <1>a, <2>4, <2>5, <2>6
  <2>8. ldEvicted + 1 \in Nat
    BY <1>a
  <2> QED  BY Zenon, <2>1, <2>2, <2>5, <2>6, <2>7, <2>8 DEF LdLosses
<1>7. CASE readLines \/ closeCnq \/ loadReturns
  BY Zenon, <1>1, <1>7 DEF readLines, closeCnq, loadReturns, Stale
<1>8. ASSUME NEW p \in Parsers, parseTake(p) \/ parseStream(p) PROVE LdLosses'
  BY <1>1, <1>8 DEF parseTake, parseStream, Stale
<1>9. CASE UNCHANGED ldVars
  BY <1>1, <1>9 DEF ldVars, Stale
<1> QED  BY Zenon, <1>2, <1>3, <1>4, <1>5, <1>6, <1>7, <1>8, <1>9 DEF Next, Goroutines

\* Before the call nobody has a list and nothing is lost.
LEMMA LdInitLosses ==
  ASSUME Init, IsFiniteSet(Handlers)
  PROVE  LdHeld /\ LdLosses
<1>1. ldPlist = [h \in Handlers |-> "none"] /\ ldFile = <<>> /\ ldEvicted = 0
  BY DEF Init
<1>2. LostWrites = {} /\ Stale = {} /\ Cardinality({}) = 0 /\ Cardinality(Handlers) \in Nat
  BY <1>1, FS_EmptySet, FS_CardinalityType DEF LostWrites, Stale
<1> QED  BY <1>1, <1>2 DEF LdHeld, LdLosses

\* Before the call nothing is anywhere.
LEMMA LdInit ==
  ASSUME ChanCap \in Nat, ShuffleSize \in Nat, MaxLines \in Nat, Init
  PROVE  \E t : Flows(t)
<1>1. /\ ldCall = "idle" /\ ldFile = <<>> /\ input = <<>> /\ cnq = <<>> /\ ldErr = FALSE
      /\ ldReader = [pos |-> 1, buf |-> <<>>, closed |-> FALSE]
      /\ ldParser = [p \in Parsers |-> 0] /\ ldHandler = [h \in Handlers |-> 0]
      /\ ctr = [read |-> 0, parsed |-> 0, processed |-> 0, ignored |-> 0] /\ loaded = <<>>
  BY DEF Init, Idle
<1>2. Lines = {} /\ Len(ldFile) = 0
  BY <1>1 DEF Lines
<1>3. LdTypes
  <2>1. FileOK /\ InputOK /\ CnqOK
    BY <1>1 DEF FileOK, InputOK, CnqOK
  <2>2. ReaderOK
    BY <1>1, <1>2 DEF ReaderOK
  <2>3. GoroutinesOK
    BY Zenon, <1>1 DEF GoroutinesOK
  <2>4. loaded \in [Lines -> Seq({"live", "gone"})]
    BY <1>1, <1>2
  <2>5. CountersOK
    BY <1>1, <2>4 DEF CountersOK
  <2> QED  BY <2>1, <2>2, <2>3, <2>5 DEF LdTypes
<1>4. LdEnds
  BY <1>1 DEF LdEnds
<1>5. PICK t : t \in [Lines -> 0..6]
  <2>1. [i \in Lines |-> 0] \in [Lines -> 0..6]
    OBVIOUS
  <2> QED  BY Zenon, <2>1
<1>6. \A k : At(t, k) = {} /\ Below(t, k) = {}
  BY <1>2 DEF At, Below
<1>7. LdFlow(t)
  <2>1. InFile(t)
    BY <1>1, <1>2, <1>6 DEF InFile
  <2>2. InBuffer(t) /\ InInput(t) /\ InCnq(t)
    BY <1>1, <1>6 DEF InBuffer, InInput, InCnq, Range, IsInjective
  <2>3. WithParsers(t) /\ WithHandlers(t)
    BY <1>2, <1>6 DEF WithParsers, WithHandlers, With
  <2> QED  BY <1>5, <2>1, <2>2, <2>3 DEF LdFlow
<1>8. LdFate(t)
  BY <1>2 DEF LdFate
<1>9. LdCounts(t)
  <2>1. ToCount = {} /\ LoadedLines = {} /\ Cardinality({}) = 0
    BY <1>1, <1>2, FS_EmptySet DEF ToCount, LoadedLines
  <2>2. /\ ctr.read = 0 /\ ctr.parsed = 0 /\ ctr.ignored = 0 /\ ctr.processed = 0
        /\ ldReader.pos = 1
    BY <1>1
  <2>3. Below(t, 4) = {} /\ Below(t, 6) = {}
    BY <1>6
  <2>4. 0 = 1 - 1 /\ 0 + 0 <= 0 /\ 0 + 0 + 0 <= 0
    OBVIOUS
  <2> QED  BY Zenon, <1>2, <2>1, <2>2, <2>3, <2>4 DEF LdCounts
<1> QED  BY <1>3, <1>4, <1>7, <1>8, <1>9 DEF Flows

\* A counter and the lines that are still to be counted.
LEMMA PartOf ==
  ASSUME NEW a \in Nat, NEW b \in Nat, NEW n \in Nat
  PROVE  (a + b <= n => a <= n) /\ \A c \in Nat : a + b + c <= n => a <= n
OBVIOUS

\* What LoadEdges promises follows: all the lines are done with when it returns.
LEMMA LdPromise ==
  ASSUME MaxLines \in Nat, Parsers # {}, Handlers # {}, IsFiniteSet(Parsers),
         IsFiniteSet(Handlers), NEW s, Flows(s), LdHeld, LdLosses
  PROVE  LoadIsComplete
<1>0. /\ LdTypes /\ LdEnds /\ LdFlow(s) /\ LdFate(s) /\ LdCounts(s) /\ FileOK /\ ReaderOK
      /\ GoroutinesOK /\ CountersOK /\ InputOK /\ CnqOK
  BY DEF Flows, LdTypes
<1>1. Len(ldFile) \in Nat /\ Len(ldFile) <= MaxLines /\ DOMAIN ldFile = Lines
      /\ ldFile \in Seq(LineKinds) /\ Lines \subseteq 1..MaxLines
  BY <1>0 DEF FileOK, Lines
<1>2. IsFiniteSet(Lines) /\ Cardinality(Lines) = Len(ldFile)
  <2>1. Cardinality(1..Len(ldFile)) = Len(ldFile) /\ IsFiniteSet(1..Len(ldFile))
    <3>1. PICK n : n = Len(ldFile)
      BY Zenon
    <3>2. n \in Nat
      BY <1>1, <3>1
    <3>3. IsFiniteSet(1..n) /\ Cardinality(1..n) = n
      BY <3>2, FS_Interval
    <3> QED  BY Zenon, <3>1, <3>3
  <2> QED  BY Zenon, <2>1 DEF Lines
<1>3. /\ Cardinality(LoadedLines) \in Nat /\ Cardinality(LoadedLines) <= Len(ldFile)
  <2>1. LoadedLines \subseteq Lines
    BY DEF LoadedLines
  <2> QED  BY <1>2, <2>1, FS_Subset, FS_CardinalityType
<1>4. /\ Cardinality(ToCount) \in Nat
      /\ Cardinality(Below(s, 4)) \in Nat /\ Cardinality(Below(s, 6)) \in Nat
  <2>1. ToCount \subseteq Parsers /\ Below(s, 4) \subseteq Lines /\ Below(s, 6) \subseteq Lines
    BY DEF ToCount, Below
  <2> QED  BY <1>2, <2>1, FS_Subset, FS_CardinalityType
<1>5. ldReader.pos \in 1..(Len(ldFile) + 1) /\ Len(ldReader.buf) <= ShuffleSize
  BY <1>0 DEF ReaderOK
<1>6. /\ ctr \in [read : Nat, parsed : Nat, processed : Nat, ignored : Nat]
      /\ loaded \in [Lines -> Seq({"live", "gone"})]
  BY <1>0 DEF CountersOK
<1>7. /\ ctr.read = ldReader.pos - 1
      /\ ctr.parsed + Cardinality(ToCount) + Cardinality(Below(s, 4)) <= Len(ldFile)
      /\ ctr.ignored + Cardinality(Below(s, 6)) <= Len(ldFile)
      /\ ctr.processed = Cardinality(LoadedLines)
  BY <1>0 DEF LdCounts
<1>8. /\ ctr.read \in 0..MaxLines /\ ctr.parsed \in 0..MaxLines
      /\ ctr.processed \in 0..MaxLines /\ ctr.ignored \in 0..MaxLines
  <2>1. /\ ctr.read \in Nat /\ ctr.parsed \in Nat /\ ctr.processed \in Nat /\ ctr.ignored \in Nat
    BY <1>6
  <2>2. PICK n : n = Len(ldFile)
    BY Zenon
  <2>3. n \in Nat /\ n <= MaxLines
    BY <1>1, <2>2
  <2>4. ctr.read <= n
    BY <1>5, <1>7, <2>2, <2>3
  <2>5. ctr.parsed <= n
    <3>1. ctr.parsed + Cardinality(ToCount) + Cardinality(Below(s, 4)) <= n
      BY Zenon, <1>7, <2>2
    <3> QED  BY Zenon, <1>4, <2>1, <2>3, <3>1, PartOf
  <2>6. ctr.ignored <= n
    <3>1. ctr.ignored + Cardinality(Below(s, 6)) <= n
      BY Zenon, <1>7, <2>2
    <3> QED  BY Zenon, <1>4, <2>1, <2>3, <3>1, PartOf
  <2>7. ctr.processed <= n
    BY <1>3, <1>7, <2>2
  <2> QED  BY <2>1, <2>3, <2>4, <2>5, <2>6, <2>7
<1>9. \A k \in DOMAIN ctr : ctr[k] \in 0..MaxLines
  BY <1>6, <1>8
<1>10. TypeOK
  <2>1. ldReader.pos \in 1..(MaxLines + 1)
    BY <1>1, <1>5
  <2>2. /\ ldParser \in [Parsers -> {0, -1, -2} \cup Lines]
        /\ ldHandler \in [Handlers -> {0, -1} \cup Lines]
    BY <1>0 DEF GoroutinesOK
  <2>3. {0, -1, -2} \cup Lines \subseteq {0, -1, -2} \cup (1..MaxLines)
    BY <1>1
  <2>4. ldParser \in [Parsers -> {0, -1, -2} \cup (1..MaxLines)]
    BY <2>2, <2>3
  <2>5. ldHandler \in [Handlers -> {0, -1} \cup (1..MaxLines)]
    BY <1>1, <2>2
  <2>6. DOMAIN loaded = DOMAIN ldFile /\ ldEvicted \in Nat
        /\ ldPlist \in [Handlers -> {"none", "live", "gone"}]
    BY <1>1, <1>6 DEF LdHeld, LdLosses
  <2> QED  BY Zenon, <1>0, <1>1, <1>5, <1>9, <2>1, <2>4, <2>5, <2>6
             DEF TypeOK, Idle, Done, Counting, GoroutinesOK, InputOK, CnqOK
<1>11. ASSUME ldCall = "returned", ~ldErr
       PROVE  /\ \A i \in DOMAIN ldFile : ldFile[i] \notin {"garbage", "badEdge"}
              /\ \A i \in DOMAIN ldFile : Len(loaded[i]) = Writes(ldFile[i])
              /\ ctr.processed = Cardinality({i \in DOMAIN ldFile : Writes(ldFile[i]) > 0})
  <2>1. \A i \in Lines : s[i] = 6
    BY Zenon, <1>0, <1>11, AllDone
  <2>2. \A i \in Lines : /\ ldFile[i] \notin {"garbage", "badEdge"}
                         /\ Len(loaded[i]) = Writes(ldFile[i])
    BY <1>0, <1>11, <2>1 DEF LdFate
  <2>3. LoadedLines = {i \in DOMAIN ldFile : Writes(ldFile[i]) > 0}
    BY <1>1, <2>2 DEF LoadedLines
  <2> QED  BY Zenon, <1>1, <1>7, <2>2, <2>3
<1>12. Cardinality(LostWrites) <= ldEvicted * Cardinality(Handlers)
  <2>1. Cardinality(LostWrites) \in Nat
    BY <1>0, FewLosses
  <2>2. Cardinality(Stale) \in Nat
    BY FS_Subset, FS_CardinalityType DEF Stale
  <2>3. Cardinality(Handlers) \in Nat /\ ldEvicted \in Nat
    BY FS_CardinalityType DEF LdLosses
  <2> QED  BY <2>1, <2>2, <2>3, PartOfProduct DEF LdLosses
<1> QED  BY <1>10, <1>11, <1>12 DEF LoadIsComplete

(* LoadEdges, for any file, any number of goroutines and any channel and buffer
   sizes: when it returns without an error every line of a loaded group was written
   to its lists, once, and the count it returns is the number of those lines; and the
   writes that failed are at most as many as there were evictions, times the number
   of handlers: none, when there was no eviction. *)
THEOREM LoadsEveryLine ==
  ASSUME ChanCap \in Nat, ShuffleSize \in Nat, MaxLines \in Nat,
         Parsers # {}, Handlers # {}, IsFiniteSet(Parsers), IsFiniteSet(Handlers)
  PROVE  Init /\ [][Next]_ldVars => []LoadIsComplete
<1>1. Init => LdInv
  BY LdInit, LdInitLosses DEF LdInv
<1>2. LdInv /\ [Next]_ldVars => LdInv'
  <2> SUFFICES ASSUME LdInv, [Next]_ldVars PROVE LdInv'
    OBVIOUS
  <2>1. PICK s : Flows(s)
    BY DEF LdInv
  <2>2. LdHeld /\ LdLosses
    BY DEF LdInv
  <2>3. \E t : Flows(t)'
    BY <2>1, <2>2, LdStep
  <2>4. LdHeld' /\ LdLosses'
    BY <2>1, <2>2, HeldStep, LossStep
  <2> QED  BY <2>3, <2>4 DEF LdInv
<1>3. LdInv => LoadIsComplete
  BY LdPromise DEF LdInv
<1> QED  BY <1>1, <1>2, <1>3, PTL

==============================================================================
