----------------------------- MODULE ChunkerProofs -----------------------------
(***************************************************************************)
(* Proofs about Chunker, for any settings, any text and any separators.     *)
(***************************************************************************)
EXTENDS Chunker, SequenceTheorems, TLAPS

(* The invariant of the proofs: ChunkInv says what the loop keeps, ChunkSizes *)
(* what the chunks show, a fragment folded in or not.                       *)
SplitInv == ChunkInv /\ ChunkSizes

Piece == [tokens : Nat, level : Nat \ {0}]

-----------------------------------------------------------------------------
(* Sequences and sizes. *)

(* What appending does to a sequence. *)
LEMMA AppendPart ==
  ASSUME NEW S, NEW s \in Seq(S), NEW e \in S
  PROVE  /\ Len(s) \in Nat
         /\ Append(s, e) \in Seq(S) /\ Len(Append(s, e)) = Len(s) + 1
         /\ \A i \in 1..Len(s) : Append(s, e)[i] = s[i]
         /\ Append(s, e)[Len(s) + 1] = e
         /\ Append(s, e) # <<>>
OBVIOUS

(* The settings are naturals, and the overlap is the smaller. *)
LEMMA LimitsNat ==
  ASSUME ChunkTypeOK
  PROVE  /\ max \in Nat \ {0} /\ limits.overlap \in Nat /\ limits.min \in Nat
         /\ limits.overlap < max /\ Slack \in Nat
BY ChunkerAssumption DEF ChunkTypeOK, max

(* Products grow with their factors. *)
LEMMA TimesMonotonic ==
  ASSUME NEW a \in Nat, NEW b \in Nat, NEW m \in Nat, a <= b
  PROVE  a * m <= b * m
<1>1. b = a + (b - a) /\ b - a \in Nat
  OBVIOUS
<1>2. (b - a) * m \in Nat
  BY <1>1
<1>3. b * m = a * m + (b - a) * m
  OBVIOUS
<1>. QED  BY <1>2, <1>3

(* Texts cut from one of n tokens: as many counts, none of them zero. *)
LEMMA CountedSeq ==
  ASSUME NEW k \in Nat, NEW n \in Nat, Slack \in Nat, NEW p \in Counted(k, n)
  PROVE  /\ p \in Seq(Nat \ {0}) /\ Len(p) = k
         /\ \A i \in 1..k : p[i] \in Nat \ {0} /\ p[i] <= n + Slack
<1>1. p \in [1..k -> Nat \ {0}]
  BY DEF Counted
<1>2. p \in Seq(Nat \ {0}) /\ Len(p) = k
  BY <1>1, SeqDef, LenProperties
<1>. QED  BY <1>1, <1>2 DEF Counted

(* What the loop adds up bounds what the text of a chunk may count. *)
LEMMA SizedBounds ==
  ASSUME ChunkTypeOK, NEW c \in Chunk, Sized(c)
  PROVE  LET most == c.tokens + Slack * c.parts IN
         /\ most \in Nat
         /\ \/ most <= max + max * Slack
            \/ c.first = c.last /\ most <= max + limits.overlap + 4 * Slack
<1>1. /\ max \in Nat /\ limits.overlap \in Nat /\ Slack \in Nat
      /\ c.tokens \in Nat /\ c.parts \in Nat
  BY LimitsNat DEF Chunk
<1>2. Slack * c.parts = c.parts * Slack /\ c.parts * Slack \in Nat
  BY <1>1
<1>3. CASE c.tokens <= max /\ c.parts <= c.tokens
  <2>1. c.parts * Slack <= max * Slack
    BY <1>1, <1>3, TimesMonotonic
  <2>2. max * Slack \in Nat
    BY <1>1
  <2>. QED  BY <1>1, <1>2, <1>3, <2>1, <2>2
<1>4. CASE /\ c.first = c.last /\ c.parts <= 2
           /\ c.tokens <= max + limits.overlap + 2 * Slack
  <2>1. c.parts * Slack <= 2 * Slack
    BY <1>1, <1>4, TimesMonotonic
  <2>. QED  BY <1>1, <1>2, <1>4, <2>1
<1>. QED  BY <1>3, <1>4 DEF Sized

(* Chunks no fragment was folded into fit. *)
LEMMA SizedFits ==
  ASSUME ChunkTypeOK, NEW c \in Chunk, Sized(c), ~c.folded
  PROVE  Fits(c)
<1>1. /\ max \in Nat /\ limits.overlap \in Nat /\ Slack \in Nat
      /\ max * Slack \in Nat
  BY LimitsNat
<1>2. /\ c.tokens + Slack * c.parts \in Nat
      /\ \/ c.tokens + Slack * c.parts <= max + max * Slack
         \/ /\ c.first = c.last
            /\ c.tokens + Slack * c.parts <= max + limits.overlap + 4 * Slack
  BY SizedBounds
<1>3. ASSUME NEW n \in CountsOf(c)
      PROVE  n \in Nat /\ n <= c.tokens + Slack * c.parts
  BY <1>2 DEF CountsOf
<1>4. ASSUME NEW n \in CountsOf(c)
      PROVE  \/ n <= max + max * Slack
             \/ c.first = c.last /\ n <= max + limits.overlap + 4 * Slack
  <2>. DEFINE most == c.tokens + Slack * c.parts
              small == max + max * Slack
              large == max + limits.overlap + 4 * Slack
  <2>1. most \in Nat /\ small \in Nat /\ large \in Nat /\ n \in Nat /\ n <= most
    BY <1>1, <1>2, <1>3
  <2>2. most <= small \/ (c.first = c.last /\ most <= large)
    BY <1>2
  <2>. HIDE DEF most, small, large
  <2>3. n <= small \/ (c.first = c.last /\ n <= large)
    BY <2>1, <2>2
  <2>. QED  BY <2>3 DEF small, large
<1>. QED  BY <1>4 DEF Fits

(* A fragment adds less than min_tokens, whatever the joined text counts. *)
LEMMA JoinedFits ==
  ASSUME ChunkTypeOK, NEW c \in Chunk, Sized(c), NEW d \in Chunk,
         NEW n \in Nat, n < limits.min
  PROVE  Fits(Joined(c, d, n))
<1>. DEFINE j == Joined(c, d, n)
            most == c.tokens + Slack * c.parts
            small == max + max * Slack
            large == max + limits.overlap + 4 * Slack
<1>1. /\ max \in Nat /\ limits.overlap \in Nat /\ limits.min \in Nat /\ Slack \in Nat
      /\ max * Slack \in Nat /\ c.tokens \in Nat /\ c.parts \in Nat
  BY LimitsNat DEF Chunk
<1>2. /\ most \in Nat /\ small \in Nat /\ large \in Nat
      /\ most <= small \/ most <= large
  BY <1>1, SizedBounds
<1>3. j.folded /\ j.tokens = c.tokens + n /\ j.parts = c.parts + 2
  BY DEF Joined, Chunk
<1>4. Slack * (c.parts + 2) = Slack * c.parts + 2 * Slack
  BY <1>1
<1>5. CountsOf(j) = 1..(most + n + 2 * Slack)
  <2>1. Slack * c.parts \in Nat /\ 2 * Slack \in Nat
    BY <1>1
  <2>. DEFINE u == Slack * c.parts
              v == 2 * Slack
  <2>2. CountsOf(j) = 1..(c.tokens + n + Slack * (c.parts + 2))
    BY <1>3 DEF CountsOf
  <2>3. Slack * (c.parts + 2) = u + v
    BY <1>4
  <2>4. u \in Nat /\ v \in Nat
    BY <2>1
  <2>. HIDE DEF u, v
  <2>5. c.tokens + n + Slack * (c.parts + 2) = c.tokens + u + n + v
    BY <1>1, <2>3, <2>4
  <2>. QED  BY <2>2, <2>5 DEF u, v
<1>. HIDE DEF j, most, small, large
<1>6. ASSUME NEW i \in CountsOf(j)
      PROVE  i - limits.min - 2 * Slack <= small \/ i - limits.min - 2 * Slack <= large
  BY <1>1, <1>2, <1>5
<1>7. Fits(j)
  BY <1>3, <1>6 DEF Fits, small, large
<1>. QED  BY <1>7 DEF j

(* While no fragment has been folded, the sizes are what the loop keeps. *)
LEMMA AllFit ==
  ASSUME ChunkTypeOK, NEW s \in Seq(Chunk),
         \A i \in 1..Len(s) : Sized(s[i]) /\ ~s[i].folded
  PROVE  \A i \in 1..Len(s) : Fits(s[i])
<1>. SUFFICES ASSUME NEW i \in 1..Len(s) PROVE Fits(s[i])
  OBVIOUS
<1>1. s[i] \in Chunk
  BY ElementOfSeq
<1>. QED  BY <1>1, SizedFits

(* The chain goes on with a chunk that follows the last one. *)
LEMMA ChainGrows ==
  ASSUME NEW s \in Seq(Chunk), Chained(s), NEW c \in Chunk,
         c.first = LastSegment(s) + 1, c.first <= c.last
  PROVE  Chained(Append(s, c)) /\ LastSegment(Append(s, c)) = c.last
<1>1. /\ Len(s) \in Nat /\ Len(Append(s, c)) = Len(s) + 1 /\ Append(s, c) # <<>>
      /\ \A i \in 1..Len(s) : Append(s, c)[i] = s[i]
      /\ Append(s, c)[Len(s) + 1] = c
  BY AppendPart
<1>2. LastSegment(s) = IF Len(s) = 0 THEN 0 ELSE s[Len(s)].last
  BY EmptySeq DEF LastSegment
<1>3. ASSUME NEW i \in 1..Len(s) + 1
      PROVE  /\ Append(s, c)[i].first = (IF i = 1 THEN 1 ELSE Append(s, c)[i - 1].last + 1)
             /\ Append(s, c)[i].first <= Append(s, c)[i].last
  <2>1. CASE i <= Len(s)
    BY <1>1, <2>1 DEF Chained
  <2>2. CASE i = Len(s) + 1
    BY <1>1, <1>2, <2>2
  <2>. QED  BY <1>1, <2>1, <2>2
<1>. QED  BY <1>1, <1>3 DEF Chained, LastSegment

-----------------------------------------------------------------------------
(* The steps. *)

(* It holds at first. *)
LEMMA InitSplit == ChunkInit => SplitInv
<1>. SUFFICES ASSUME ChunkInit PROVE SplitInv
  OBVIOUS
<1>1. Nothing \in Chunk
  BY DEF Nothing, Chunk
<1>2. ChunkTypeOK
  BY <1>1 DEF ChunkInit, ChunkTypeOK
<1>3. PackInv
  BY DEF ChunkInit, PackInv, Chained
<1>4. ChunkSizes
  BY DEF ChunkInit, ChunkSizes
<1>. QED  BY <1>2, <1>3, <1>4 DEF SplitInv, ChunkInv

(* split of a short text yields one chunk. *)
LEMMA SplitKeeps ==
  ASSUME SplitInv, NEW n \in 0..MaxText, Split(n)
  PROVE  SplitInv'
<1>0. ChunkTypeOK /\ PackInv /\ n \in Nat /\ max \in Nat \ {0} /\ Slack \in Nat
  BY LimitsNat, ChunkerAssumption DEF SplitInv, ChunkInv
<1>1. /\ splitAt = "start" /\ chunks = <<>> /\ current = Nothing /\ segments = <<>>
      /\ limits' = limits /\ current' = current /\ max' = max
  BY <1>0 DEF Split, PackInv, max
<1>. DEFINE whole == [Nothing EXCEPT !.last = 1, !.tokens = n, !.parts = 1]
<1>2. /\ whole \in Chunk
      /\ whole.first = 1 /\ whole.last = 1 /\ whole.tokens = n /\ whole.parts = 1
      /\ ~whole.folded
  <2>1. Nothing \in Chunk /\ Nothing.first = 1 /\ ~Nothing.folded
    BY DEF Nothing, Chunk
  <2>. QED  BY <1>0, <2>1 DEF Chunk
<1>. HIDE DEF whole
<1>3. CASE n <= max
  <2>1. /\ splitAt' = "end" /\ todo' = todo
        /\ segments' = IF n = 0 THEN <<>> ELSE <<n>>
        /\ chunks' = IF n = 0 THEN <<>> ELSE <<whole>>
    BY <1>3 DEF Split, whole
  <2>2. /\ segments' \in Seq(Nat \ {0}) /\ chunks' \in Seq(Chunk)
        /\ \A i \in 1..Len(segments') : segments'[i] <= max + Slack
    <3>1. CASE n = 0
      BY <2>1, <3>1
    <3>2. CASE n # 0
      BY <1>0, <1>2, <1>3, <2>1, <3>2
    <3>. QED  BY <3>1, <3>2
  <2>6. ChunkTypeOK'
    BY <1>0, <1>1, <2>1, <2>2 DEF ChunkTypeOK
  <2>3. Chained(chunks') /\ LastSegment(chunks') = Len(segments')
    BY <1>0, <1>2, <2>1 DEF Chained, LastSegment
  <2>4. PackInv'
    BY <1>1, <2>1, <2>3 DEF PackInv
  <2>5. ChunkSizes'
    <3>1. n # 0 => Fits(whole)
      BY <1>0, <1>2, <1>3, SizedFits DEF Sized
    <3>2. n # 0 => Fits(whole)'
      BY <1>1, <3>1 DEF Fits, CountsOf
    <3>. QED  BY <2>1, <3>2 DEF ChunkSizes
  <2>. QED  BY <2>4, <2>5, <2>6 DEF SplitInv, ChunkInv
<1>4. CASE ~(n <= max)
  <2>1. /\ splitAt' = "atomise" /\ todo' = <<[tokens |-> n, level |-> 1]>>
        /\ segments' = segments /\ chunks' = chunks
    BY <1>4 DEF Split
  <2>2. ChunkTypeOK'
    BY <1>0, <1>1, <2>1 DEF ChunkTypeOK
  <2>3. PackInv'
    BY <1>1, <2>1 DEF PackInv, Chained
  <2>4. ChunkSizes'
    BY <1>1, <2>1 DEF ChunkSizes
  <2>. QED  BY <2>2, <2>3, <2>4 DEF SplitInv, ChunkInv
<1>. QED  BY <1>3, <1>4

(* While pieces are broken down, nothing is packed. *)
LEMMA AtomiseKeeps ==
  ASSUME SplitInv, splitAt = "atomise", splitAt' \in {"atomise", "pack"},
         UNCHANGED <<limits, chunks, current>>,
         todo' \in Seq(Piece), segments' \in Seq(Nat \ {0}),
         \A i \in 1..Len(segments') : segments'[i] <= max + Slack
  PROVE  SplitInv'
<1>0. ChunkTypeOK /\ PackInv /\ max' = max /\ chunks = <<>> /\ current = Nothing
  BY DEF SplitInv, ChunkInv, PackInv, max
<1>1. ChunkTypeOK'
  BY <1>0 DEF ChunkTypeOK, Piece
<1>2. /\ Nothing.last = 0 /\ Nothing.first = 1 /\ Nothing.tokens = 0
      /\ Nothing.parts = 0 /\ ~Nothing.folded
  BY DEF Nothing
<1>3. Sized(Nothing)'
  BY <1>0, <1>2, LimitsNat DEF Sized
<1>4. Len(segments') \in Nat
  BY LenProperties
<1>5. PackInv'
  BY <1>0, <1>2, <1>3, <1>4 DEF PackInv, Chained, LastSegment
<1>6. ChunkSizes'
  BY <1>0 DEF ChunkSizes
<1>. QED  BY <1>1, <1>5, <1>6 DEF SplitInv, ChunkInv

(* Each way to treat the piece at hand leaves segments that fit. *)
LEMMA PieceKeeps ==
  ASSUME SplitInv, Keep \/ Break \/ NextSeparator \/ HardSplit \/ AtomiseDone
  PROVE  SplitInv'
<1>0. /\ ChunkTypeOK /\ splitAt = "atomise"
      /\ todo \in Seq(Piece) /\ segments \in Seq(Nat \ {0})
      /\ \A i \in 1..Len(segments) : segments[i] <= max + Slack
      /\ max \in Nat \ {0} /\ Slack \in Nat
  BY LimitsNat DEF SplitInv, ChunkInv, ChunkTypeOK, Piece, Keep, Break, NextSeparator, HardSplit,
                   AtomiseDone, AtPiece
<1>1. todo # <<>> =>
        /\ Head(todo) \in Piece /\ Tail(todo) \in Seq(Piece)
        /\ Head(todo).tokens \in Nat /\ Head(todo).level \in Nat \ {0}
  <2>1. todo # <<>> => Head(todo) \in Piece /\ Tail(todo) \in Seq(Piece)
    BY <1>0, HeadTailProperties
  <2>. QED  BY <2>1 DEF Piece
<1>2. CASE Keep
  <2>1. /\ Head(todo).tokens <= max /\ todo # <<>>
        /\ segments' = IF Head(todo).tokens = 0 THEN segments
                       ELSE Append(segments, Head(todo).tokens)
        /\ todo' = Tail(todo) /\ splitAt' = splitAt
        /\ UNCHANGED <<limits, chunks, current>>
    BY <1>2 DEF Keep, AtPiece
  <2>2. CASE Head(todo).tokens = 0
    BY <1>0, <1>1, <2>1, <2>2, AtomiseKeeps
  <2>3. CASE Head(todo).tokens # 0
    <3>1. segments' = Append(segments, Head(todo).tokens) /\ Head(todo).tokens \in Nat \ {0}
      BY <1>1, <2>1, <2>3
    <3>2. /\ segments' \in Seq(Nat \ {0})
          /\ \A i \in 1..Len(segments') : segments'[i] <= max + Slack
      BY <1>0, <2>1, <3>1, AppendPart
    <3>. QED  BY <1>0, <1>1, <2>1, <3>2, AtomiseKeeps
  <2>. QED  BY <2>2, <2>3
<1>3. CASE Break
  <2>2. PICK k \in 2..MaxParts : \E p \in Counted(k, Head(todo).tokens) :
          /\ todo # <<>>
          /\ todo' = [i \in 1..k |-> [tokens |-> p[i], level |-> Head(todo).level + 1]]
                     \o Tail(todo)
          /\ UNCHANGED <<limits, splitAt, segments, chunks, current>>
    BY <1>3 DEF Break, AtPiece
  <2>1. PICK p \in Counted(k, Head(todo).tokens) :
          /\ todo # <<>>
          /\ todo' = [i \in 1..k |-> [tokens |-> p[i], level |-> Head(todo).level + 1]]
                     \o Tail(todo)
          /\ UNCHANGED <<limits, splitAt, segments, chunks, current>>
    BY <2>2
  <2>3. k \in Nat
    BY ChunkerAssumption
  <2>5. \A i \in 1..k : p[i] \in Nat
    BY <1>0, <1>1, <2>1, <2>3, CountedSeq
  <2>6. \A i \in 1..k : [tokens |-> p[i], level |-> Head(todo).level + 1] \in Piece
    BY SMTT(30), <1>1, <2>1, <2>5 DEF Piece
  <2>7. [i \in 1..k |-> [tokens |-> p[i], level |-> Head(todo).level + 1]] \in Seq(Piece)
    BY <2>3, <2>6, SeqDef
  <2>8. todo' \in Seq(Piece)
    BY <1>1, <2>1, <2>7, ConcatProperties
  <2>. QED  BY <1>0, <2>1, <2>8, AtomiseKeeps
<1>4. CASE NextSeparator
  <2>1. /\ todo # <<>>
        /\ todo' = <<[Head(todo) EXCEPT !.level = @ + 1]>> \o Tail(todo)
        /\ UNCHANGED <<limits, splitAt, segments, chunks, current>>
    BY <1>4 DEF NextSeparator, AtPiece
  <2>2. [Head(todo) EXCEPT !.level = @ + 1] \in Piece
    <3>1. PICK h \in Piece : h = Head(todo)
      BY <1>1, <2>1
    <3>2. [h EXCEPT !.level = @ + 1] \in Piece
      BY DEF Piece
    <3>. QED  BY <3>1, <3>2
  <2>3. todo' \in Seq(Piece)
    BY <1>1, <2>1, <2>2, ConcatProperties
  <2>. QED  BY <1>0, <2>1, <2>3, AtomiseKeeps
<1>5. CASE HardSplit
  <2>1. /\ todo # <<>> /\ todo' = Tail(todo)
        /\ UNCHANGED <<limits, splitAt, chunks, current>>
    BY <1>5 DEF HardSplit, AtPiece
  <2>. DEFINE slices == (Head(todo).tokens + max - 1) \div max
  <2>5. PICK k \in slices..(2 * slices) : \E p \in Counted(k, max) : segments' = segments \o p
    BY <1>5 DEF HardSplit
  <2>6. PICK p \in Counted(k, max) : segments' = segments \o p
    BY <2>5
  <2>2. k \in Nat
    <3>1. slices \in Nat
      BY <1>0, <1>1, <2>1
    <3>. HIDE DEF slices
    <3>. QED  BY <3>1
  <2>3. /\ p \in Seq(Nat \ {0}) /\ Len(p) = k
        /\ \A i \in 1..k : p[i] <= max + Slack
    BY <1>0, <2>2, <2>6, CountedSeq
  <2>4. /\ segments' \in Seq(Nat \ {0})
        /\ \A i \in 1..Len(segments') : segments'[i] <= max + Slack
    BY <1>0, <2>3, <2>6, ConcatProperties, LenProperties
  <2>. QED  BY <1>0, <1>1, <2>1, <2>4, AtomiseKeeps
<1>6. CASE AtomiseDone
  BY <1>0, <1>6, AtomiseKeeps DEF AtomiseDone
<1>. QED  BY <1>2, <1>3, <1>4, <1>5, <1>6

(* The chunk being filled, and those before it, as the loop has them. *)
LEMMA Packing ==
  ASSUME ChunkTypeOK, PackInv, splitAt = "pack"
  PROVE  /\ chunks \in Seq(Chunk) /\ Len(chunks) \in Nat /\ Chained(chunks)
         /\ segments \in Seq(Nat \ {0}) /\ Len(segments) \in Nat
         /\ \A i \in 1..Len(segments) : segments[i] \in Nat \ {0} /\ segments[i] <= max + Slack
         /\ current \in Chunk /\ current.parts \in Nat /\ current.first \in Nat \ {0}
         /\ current.last \in Nat /\ current.tokens \in Nat /\ ~current.folded
         /\ \A i \in 1..Len(chunks) : Sized(chunks[i]) /\ ~chunks[i].folded
         /\ Sized(current) /\ current.first = LastSegment(chunks) + 1
         /\ current.last <= Len(segments)
         /\ IF current.last = 0 THEN current = Nothing ELSE current.first <= current.last
         /\ chunks # <<>> => current.first <= current.last
         /\ current.parts > 0 <=> current.first <= current.last
         /\ Len(chunks) > 0 <=> chunks # <<>>
<1>1. /\ chunks \in Seq(Chunk) /\ segments \in Seq(Nat \ {0}) /\ current \in Chunk
      /\ \A i \in 1..Len(segments) : segments[i] <= max + Slack
  BY DEF ChunkTypeOK
<1>2. Len(chunks) \in Nat /\ Len(segments) \in Nat /\ (Len(chunks) > 0 <=> chunks # <<>>)
  BY <1>1, LenProperties, EmptySeq
<1>3. \A i \in 1..Len(segments) : segments[i] \in Nat \ {0}
  BY <1>1, ElementOfSeq
<1>4. /\ current.parts \in Nat /\ current.first \in Nat \ {0}
      /\ current.last \in Nat /\ current.tokens \in Nat
  BY <1>1 DEF Chunk
<1>. QED  BY <1>1, <1>2, <1>3, <1>4 DEF PackInv

(* The next chunk begins behind a tail no longer than the overlap. *)
LEMMA BehindSized ==
  ASSUME ChunkTypeOK, NEW i \in 1..Len(segments), NEW carry \in Carry(current),
         segments[i] \in Nat \ {0}, segments[i] <= max + Slack
  PROVE  LET c == With(Behind(i, carry), i) IN
         c \in Chunk /\ c.first = i /\ c.last = i /\ c.parts > 0 /\ ~c.folded /\ Sized(c)
<1>. DEFINE c == With(Behind(i, carry), i)
<1>1. /\ max \in Nat \ {0} /\ limits.overlap \in Nat /\ Slack \in Nat
      /\ i \in Nat \ {0} /\ segments[i] \in Nat
  BY LimitsNat
<1>2. carry \in Nat /\ carry <= limits.overlap + Slack
  BY <1>1 DEF Carry
<1>. DEFINE t == carry + segments[i]
            k == (IF carry = 0 THEN 0 ELSE 1) + 1
<1>3. c = [first |-> i, last |-> i, tokens |-> t, parts |-> k, folded |-> FALSE]
  <2>1. PICK b : b = Behind(i, carry)
    OBVIOUS
  <2>2. b = [first |-> i, last |-> i - 1, tokens |-> carry,
             parts |-> IF carry = 0 THEN 0 ELSE 1, folded |-> FALSE]
    BY <2>1 DEF Behind
  <2>3. c = [b EXCEPT !.last = i, !.tokens = @ + segments[i], !.parts = @ + 1]
    BY <2>1 DEF With
  <2>. QED  BY <2>2, <2>3
<1>4. t \in Nat /\ k \in 1..2 /\ k <= t /\ t <= max + limits.overlap + 2 * Slack
  <2>1. PICK m \in Nat \ {0} : m = segments[i]
    OBVIOUS
  <2>2. m <= max + Slack /\ t = carry + m
    BY <2>1
  <2>. HIDE DEF t
  <2>3. t \in Nat /\ k \in 1..2 /\ k <= t
    BY <1>2, <2>2
  <2>4. t <= max + limits.overlap + 2 * Slack
    BY <1>1, <1>2, <2>2
  <2>. QED  BY <2>3, <2>4
<1>. HIDE DEF c, t, k
<1>5. c \in Chunk
  BY <1>1, <1>3, <1>4 DEF Chunk
<1>6. c.first = i /\ c.last = i /\ c.tokens = t /\ c.parts = k /\ ~c.folded
  BY <1>3
<1>7. Sized(c) /\ c.parts > 0
  BY <1>4, <1>6 DEF Sized
<1>. QED  BY <1>5, <1>6, <1>7 DEF c

(* A segment is added to the chunk, or begins the next one behind a tail. *)
LEMMA PackSegmentKeeps ==
  ASSUME SplitInv, PackSegment
  PROVE  SplitInv'
<1>. DEFINE i == current.last + 1
            n == segments[i]
<1>0. /\ ChunkTypeOK /\ PackInv /\ splitAt = "pack" /\ splitAt' = "pack" /\ max' = max
      /\ max \in Nat \ {0} /\ limits.overlap \in Nat /\ Slack \in Nat
      /\ UNCHANGED <<limits, todo, segments>> /\ i <= Len(segments)
  BY LimitsNat DEF SplitInv, ChunkInv, PackSegment, max
<1>1. i \in 1..Len(segments) /\ n \in Nat \ {0} /\ n <= max + Slack
  BY SMTT(30), <1>0, Packing
<1>9. SUFFICES
        /\ current' \in Chunk /\ Sized(current') /\ ~current'.folded
        /\ current'.last = i /\ current'.parts > 0
        /\ current'.first = LastSegment(chunks') + 1 /\ current'.first <= i
        /\ chunks' \in Seq(Chunk) /\ Chained(chunks')
        /\ \A j \in 1..Len(chunks') : Sized(chunks'[j]) /\ ~chunks'[j].folded
  <2>1. ChunkTypeOK'
    BY <1>0, <1>9 DEF ChunkTypeOK
  <2>2. \A j \in 1..Len(chunks') : Sized(chunks[j])' /\ ~chunks'[j].folded
    BY <1>0, <1>9 DEF Sized
  <2>3. Sized(current)'
    BY <1>0, <1>9 DEF Sized
  <2>4. i \in Nat \ {0}
    BY SMTT(30), <1>0, Packing
  <2>5. PackInv'
    BY <1>0, <1>9, <2>2, <2>3, <2>4 DEF PackInv
  <2>6. \A j \in 1..Len(chunks') : Fits(chunks'[j])
    BY <1>0, <1>9, AllFit
  <2>7. ChunkSizes'
    BY <1>0, <2>6 DEF ChunkSizes, Fits, CountsOf
  <2>. QED  BY <2>1, <2>5, <2>7 DEF SplitInv, ChunkInv
<1>. HIDE DEF n
<1>2. CASE current.parts > 0 /\ current.tokens + n > max
  <2>1. PICK carry \in Carry(current) :
          /\ chunks' = Append(chunks, current)
          /\ current' = With(Behind(i, carry), i)
    BY <1>2 DEF PackSegment, n
  <2>2. /\ current' \in Chunk /\ current'.first = i /\ current'.last = i
        /\ current'.parts > 0 /\ ~current'.folded /\ Sized(current')
    BY <1>0, <1>1, <2>1, BehindSized DEF n
  <2>3. Chained(chunks') /\ LastSegment(chunks') = current.last
    BY <1>0, <1>2, <2>1, Packing, ChainGrows
  <2>4. /\ chunks' \in Seq(Chunk)
        /\ \A j \in 1..Len(chunks') : Sized(chunks'[j]) /\ ~chunks'[j].folded
    BY SMTT(30), <1>0, <2>1, Packing, AppendPart
  <2>5. i = current.last + 1 /\ i \in Nat
    BY <1>1
  <2>. QED  BY <2>2, <2>3, <2>4, <2>5
<1>3. CASE ~(current.parts > 0 /\ current.tokens + n > max)
  <2>1. chunks' = chunks /\ current' = With(current, i)
    BY <1>3 DEF PackSegment, n
  <2>2. /\ current \in Chunk /\ current.last \in Nat /\ current.tokens \in Nat
        /\ current.first \in Nat \ {0} /\ current.parts \in Nat
        /\ ~current.folded /\ current.first = LastSegment(chunks) + 1
        /\ IF current.last = 0 THEN current = Nothing ELSE current.first <= current.last
        /\ current.parts > 0 <=> current.first <= current.last
        /\ chunks \in Seq(Chunk) /\ Chained(chunks)
        /\ \A j \in 1..Len(chunks) : Sized(chunks[j]) /\ ~chunks[j].folded
    BY <1>0, Packing
  <2>3. /\ current'.first = current.first /\ current'.last = i
        /\ current'.tokens = current.tokens + n /\ current'.parts = current.parts + 1
        /\ ~current'.folded /\ current' \in Chunk
    <3>1. i \in Nat /\ current.tokens + n \in Nat /\ current.parts + 1 \in Nat
      BY <1>1, <2>2
    <3>. HIDE DEF i
    <3>2. /\ current'.first = current.first /\ current'.last = i
          /\ current'.tokens = current.tokens + n /\ current'.parts = current.parts + 1
          /\ ~current'.folded
      BY <2>1, <2>2 DEF With, Chunk, n
    <3>3. current' \in Chunk
      BY <2>1, <2>2, <3>1 DEF With, Chunk, n
    <3>. QED  BY <3>2, <3>3
  <2>4. CASE current.last = 0
    <3>1. current.first = 1 /\ current.tokens = 0 /\ current.parts = 0 /\ i = 1
      BY <2>2, <2>4 DEF Nothing
    <3>2. current'.tokens = n /\ current'.parts = 1 /\ current'.first = current'.last
      BY <1>1, <2>3, <3>1
    <3>3. Sized(current')
      BY <1>0, <1>1, <3>2 DEF Sized
    <3>. QED  BY <2>1, <2>2, <2>3, <3>1, <3>2, <3>3
  <2>5. CASE current.last # 0
    <3>1. current.parts > 0 /\ current.tokens + n <= max
      BY <1>0, <1>1, <1>3, <2>2, <2>5
    <3>2. current.parts <= current.tokens
      BY <1>0, Packing DEF Sized
    <3>3. Sized(current')
      BY <1>0, <1>1, <2>2, <2>3, <3>1, <3>2 DEF Sized
    <3>. QED  BY <1>1, <2>1, <2>2, <2>3, <2>5, <3>3
  <2>. QED  BY <2>4, <2>5
<1>. QED  BY <1>2, <1>3

(* What is left becomes a chunk, or joins the last one. *)
LEMMA PackEndKeeps ==
  ASSUME SplitInv, PackEnd
  PROVE  SplitInv'
<1>. DEFINE k == Len(chunks)
<1>0. /\ ChunkTypeOK /\ PackInv /\ splitAt = "pack" /\ splitAt' = "end" /\ max' = max
      /\ UNCHANGED <<limits, todo, segments>> /\ current.last = Len(segments)
      /\ current' = Nothing /\ Nothing \in Chunk
  BY DEF SplitInv, ChunkInv, PackEnd, max, Nothing, Chunk
<1>1. SUFFICES
        /\ chunks' \in Seq(Chunk) /\ Chained(chunks')
        /\ LastSegment(chunks') = Len(segments)
        /\ \A i \in 1..Len(chunks') : Fits(chunks'[i])
  <2>1. ChunkTypeOK'
    BY <1>0, <1>1 DEF ChunkTypeOK
  <2>2. PackInv'
    BY <1>0, <1>1 DEF PackInv
  <2>3. ChunkSizes'
    BY <1>0, <1>1 DEF ChunkSizes, Fits, CountsOf
  <2>. QED  BY <2>1, <2>2, <2>3 DEF SplitInv, ChunkInv
<1>2. CASE current.parts = 0
  <2>1. chunks' = chunks
    BY <1>2 DEF PackEnd
  <2>2. chunks = <<>> /\ current.last = 0
    BY <1>0, <1>2, Packing
  <2>. QED  BY <1>0, <2>1, <2>2, Packing DEF LastSegment
<1>3. CASE current.parts # 0 /\ chunks' = Append(chunks, current)
  <2>1. current.first <= current.last
    BY <1>0, <1>3, Packing
  <2>2. Chained(chunks') /\ LastSegment(chunks') = current.last
    BY <1>0, <1>3, <2>1, Packing, ChainGrows
  <2>3. /\ chunks' \in Seq(Chunk)
        /\ \A j \in 1..Len(chunks') : Sized(chunks'[j]) /\ ~chunks'[j].folded
    BY <1>0, <1>3, Packing, AppendPart
  <2>. QED  BY <1>0, <2>2, <2>3, AllFit
<1>4. ASSUME current.parts # 0, NEW n \in CountsOf(current), k > 0, n < limits.min,
             chunks' = [chunks EXCEPT ![k] = Joined(@, current, n)]
      PROVE  /\ chunks' \in Seq(Chunk) /\ Chained(chunks')
             /\ LastSegment(chunks') = Len(segments)
             /\ \A i \in 1..Len(chunks') : Fits(chunks'[i])
  <2>. DEFINE c == chunks[k]
              j == Joined(c, current, n)
  <2>1. chunks' = [chunks EXCEPT ![k] = j]
    BY <1>4
  <2>2. /\ k \in 1..Len(chunks) /\ c \in Chunk /\ Sized(c) /\ ~c.folded /\ chunks # <<>>
        /\ c.tokens \in Nat /\ c.first \in Nat \ {0} /\ c.last \in Nat /\ c.parts \in Nat
    <3>1. k \in 1..Len(chunks) /\ chunks # <<>>
      BY <1>0, <1>4, Packing
    <3>2. c \in Chunk
      BY <1>0, <3>1, Packing, ElementOfSeq
    <3>. QED  BY <1>0, <3>1, <3>2, Packing DEF Chunk
  <2>3. /\ current.first <= current.last /\ current.first = c.last + 1 /\ c.first <= c.last
    BY <1>0, <2>2, Packing DEF LastSegment, Chained
  <2>9. n \in Nat
    <3>1. current.tokens \in Nat /\ current.parts \in Nat /\ Slack \in Nat
      BY <1>0, Packing, LimitsNat
    <3>2. current.tokens + Slack * current.parts \in Nat
      BY <3>1
    <3>. QED  BY <3>2 DEF CountsOf
  <2>4. /\ j.first = c.first /\ j.last = current.last
        /\ j \in Chunk
    <3>1. current.last \in Nat
      BY <1>0, Packing
    <3>2. c.tokens + n \in Nat /\ c.parts + 2 \in Nat
      BY <2>2, <2>9
    <3>. QED  BY <2>2, <3>1, <3>2 DEF Joined, Chunk
  <2>5. Fits(j)
    BY <1>0, <1>4, <2>2, <2>9, JoinedFits, Packing
  <2>. HIDE DEF j
  <2>7. /\ chunks' \in Seq(Chunk) /\ Len(chunks') = k
        /\ \A i \in 1..k : chunks'[i] = IF i = k THEN j ELSE chunks[i]
    BY SMTT(30), <1>0, <2>1, <2>2, <2>4, Packing, ExceptSeq
  <2>8. Chained(chunks') /\ LastSegment(chunks') = current.last
    <3>1. chunks' # <<>>
      BY <2>2, <2>7
    <3>2. LastSegment(chunks') = current.last
      BY <2>2, <2>4, <2>7, <3>1 DEF LastSegment
    <3>3. ASSUME NEW i \in 1..k
          PROVE  /\ chunks'[i].first = (IF i = 1 THEN 1 ELSE chunks'[i - 1].last + 1)
                 /\ chunks'[i].first <= chunks'[i].last
      <4>1. /\ chunks[i].first = (IF i = 1 THEN 1 ELSE chunks[i - 1].last + 1)
            /\ chunks[i].first <= chunks[i].last
        BY <1>0, Packing DEF Chained
      <4>2. chunks'[i].first = chunks[i].first
        BY <2>4, <2>7
      <4>3. i # 1 => i - 1 \in 1..k /\ i - 1 # k
        BY <1>0, Packing
      <4>4. chunks'[i].first <= chunks'[i].last
        <5>1. current.first \in Nat /\ current.last \in Nat
          BY <1>0, Packing
        <5>2. i = k => c.first <= current.last
          BY <2>2, <2>3, <5>1
        <5>. QED  BY <2>4, <2>7, <4>1, <5>2
      <4>. QED  BY <2>7, <4>1, <4>2, <4>3, <4>4
    <3>. QED  BY <2>7, <3>2, <3>3 DEF Chained
  <2>10. \A i \in 1..k : Fits(chunks[i])
    BY <1>0, Packing, AllFit
  <2>. QED  BY <1>0, <2>5, <2>7, <2>8, <2>10
<1>. QED  BY <1>2, <1>3, <1>4 DEF PackEnd

(* Every step keeps it. *)
LEMMA NextSplit == SplitInv /\ [ChunkNext]_chunkVars => SplitInv'
<1>. SUFFICES ASSUME SplitInv, [ChunkNext]_chunkVars PROVE SplitInv'
  OBVIOUS
<1>1. CASE UNCHANGED chunkVars
  BY <1>1 DEF chunkVars, SplitInv, ChunkInv, ChunkTypeOK, PackInv, ChunkSizes,
              Fits, CountsOf, Sized, max
<1>2. CASE \E n \in 0..MaxText : Split(n)
  BY <1>2, SplitKeeps
<1>3. CASE ChunkStep
  BY <1>3, PieceKeeps, PackSegmentKeeps, PackEndKeeps DEF ChunkStep
<1>. QED  BY <1>1, <1>2, <1>3 DEF ChunkNext

(* The invariant holds throughout. *)
LEMMA SplitHolds == ChunkSpec => []SplitInv
BY InitSplit, NextSplit, PTL DEF ChunkSpec

(* What the chunks cover follows from how they are chained. *)
LEMMA PackCovers == SplitInv => ChunksCover
<1>. SUFFICES ASSUME ChunkTypeOK, PackInv PROVE ChunksCover
  BY DEF SplitInv, ChunkInv
<1>1. CASE current = Nothing
  BY <1>1 DEF PackInv, ChunksCover
<1>2. CASE current # Nothing
  <2>1. splitAt = "pack"
    BY <1>2 DEF ChunkTypeOK, PackInv
  <2>2. Chained(Append(chunks, current))
    BY <1>2, <2>1, Packing, ChainGrows
  <2>. QED  BY <1>2, <2>1, <2>2 DEF ChunksCover
<1>. QED  BY <1>1, <1>2

-----------------------------------------------------------------------------
(* The theorems. *)

(* For any settings, any text and any counts within Slack of each other, no   *)
(* chunk counts more than Fits allows (_pack 150-175, __init__ 84-96).       *)
THEOREM ChunksFit == ChunkSpec => []ChunkSizes
<1>1. SplitInv => ChunkSizes
  BY DEF SplitInv
<1>. QED  BY SplitHolds, <1>1, PTL

(* No segment is lost, doubled or moved by the packing (_pack 150-175).     *)
THEOREM SegmentsCovered == ChunkSpec => []ChunksCover
BY SplitHolds, PackCovers, PTL
=============================================================================
