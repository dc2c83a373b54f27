------------------------------- MODULE Chunker -------------------------------
(***************************************************************************)
(* TokenChunker.split over token counts.  Counts do not add up: the loop     *)
(* adds those of the segments, and the joined text may count more (Slack for  *)
(* each text joined) or less (it is stripped).  So a part, a slice or a tail  *)
(* gets any count the text it is cut from allows.  _atomise is a stack of    *)
(* pieces still to be broken down, _pack one step for every turn of its loop. *)
(* Left out: slices of a hard split that are only white space (135-148),     *)
(* which are joined as nothing.                                             *)
(***************************************************************************)
EXTENDS Integers, Sequences
LOCAL INSTANCE Functions

CONSTANTS
  Limits,        \* the settings an instance tries: records of max, overlap, min
  Separators,    \* number of separators before the hard split
  Slack,         \* how much more a text may count than what it was made from,
                 \* per text joined or cut: 2 for HeuristicTokenizer
  MaxText,       \* bound: tokens of a text
  MaxParts,      \* bound: parts a separator splits a piece into
  MaxSlices      \* bound: slices of a hard split

ASSUME ChunkerAssumption ==
  /\ \A l \in Limits : /\ l.max \in Nat \ {0} /\ l.overlap \in Nat /\ l.min \in Nat
                       /\ l.overlap < l.max
  /\ Separators \in Nat
  /\ Slack \in Nat
  /\ MaxText \in Nat
  /\ MaxParts \in Nat
  /\ MaxSlices \in Nat

VARIABLES
  limits,     \* max_tokens, overlap_tokens, min_tokens
  splitAt,    \* where split is
  todo,       \* pieces not yet broken down: tokens, and the next separator
  segments,   \* tokens of each segment _atomise yields
  chunks,     \* chunks packed
  current     \* the chunk being filled

chunkVars == <<limits, splitAt, todo, segments, chunks, current>>

max == limits.max

(* Segments first..last, behind the tail of the chunk before: `tokens` is     *)
(* what the loop has added up for them (current_tokens), `parts` the texts it  *)
(* joins, the tail one of them.                                             *)
Chunk == [first : Nat \ {0}, last : Nat, tokens : Nat, parts : Nat, folded : BOOLEAN]

Nothing == [first |-> 1, last |-> 0, tokens |-> 0, parts |-> 0, folded |-> FALSE]

(* What the joined text of a chunk may count.                               *)
CountsOf(c) == 1..(c.tokens + Slack * c.parts)

ChunkTypeOK ==
  /\ limits \in Limits
  /\ splitAt \in {"start", "atomise", "pack", "end"}
  /\ todo \in Seq([tokens : Nat, level : Nat \ {0}])
  /\ segments \in Seq(Nat \ {0})
  /\ chunks \in Seq(Chunk)
  /\ current \in Chunk
  /\ splitAt # "start" => \A i \in 1..Len(segments) : segments[i] <= max + Slack

(* What the packing loop keeps: how large the chunks are by what it adds up,  *)
(* of how many texts, and that they follow each other.                      *)
Chained(s) ==
  \A i \in 1..Len(s) : /\ s[i].first = (IF i = 1 THEN 1 ELSE s[i - 1].last + 1)
                       /\ s[i].first <= s[i].last

LastSegment(s) == IF s = <<>> THEN 0 ELSE s[Len(s)].last

Sized(c) ==
  /\ c.parts <= c.tokens
  /\ \/ c.tokens <= max
     \/ /\ c.first = c.last /\ c.parts <= 2
        /\ c.tokens <= max + limits.overlap + 2 * Slack

PackInv ==
  /\ Chained(chunks)
  /\ splitAt \in {"start", "atomise"} => chunks = <<>> /\ current = Nothing
  /\ splitAt = "start" => segments = <<>>
  /\ splitAt = "pack" =>
       /\ \A i \in 1..Len(chunks) : Sized(chunks[i]) /\ ~chunks[i].folded
       /\ ~current.folded /\ Sized(current)
       /\ current.first = LastSegment(chunks) + 1
       /\ current.last <= Len(segments)
       /\ IF current.last = 0 THEN current = Nothing ELSE current.first <= current.last
       /\ chunks # <<>> => current.first <= current.last
       /\ current.parts > 0 <=> current.first <= current.last
  /\ splitAt = "end" => current = Nothing /\ LastSegment(chunks) = Len(segments)

ChunkInit ==
  /\ limits \in Limits
  /\ splitAt = "start"
  /\ todo = <<>>
  /\ segments = <<>>
  /\ chunks = <<>>
  /\ current = Nothing

(* split: nothing, one chunk, or the two passes. *)
Split(n) ==
  /\ splitAt = "start"
  /\ IF n <= max
     THEN /\ splitAt' = "end"
          /\ segments' = IF n = 0 THEN <<>> ELSE <<n>>
          /\ chunks' = IF n = 0 THEN <<>>
                       ELSE <<[Nothing EXCEPT !.last = 1, !.tokens = n, !.parts = 1]>>
          /\ UNCHANGED todo
     ELSE /\ splitAt' = "atomise"
          /\ todo' = <<[tokens |-> n, level |-> 1]>>
          /\ UNCHANGED <<segments, chunks>>
  /\ UNCHANGED <<limits, current>>

-----------------------------------------------------------------------------
(* _atomise *)

AtPiece == splitAt = "atomise" /\ todo # <<>>

(* The piece fits, or is blank. *)
Keep ==
  /\ AtPiece
  /\ Head(todo).tokens <= max
  /\ segments' = IF Head(todo).tokens = 0 THEN segments
                 ELSE Append(segments, Head(todo).tokens)
  /\ todo' = Tail(todo)
  /\ UNCHANGED <<limits, splitAt, chunks, current>>

(* What k texts cut from one of n tokens may count each.  Together they    *)
(* may count less, as a separator of white space is not put back.           *)
Counted(k, n) == [1..k -> 1..(n + Slack)]

Total(p) == FoldFunction(+, 0, p)

(* The separator occurs: every part goes on with the next one. *)
Break ==
  /\ AtPiece
  /\ LET piece == Head(todo) IN
     /\ piece.tokens > max
     /\ piece.level <= Separators
     /\ \E k \in 2..MaxParts : \E p \in Counted(k, piece.tokens) :
          /\ Total(p) <= piece.tokens + k * Slack
          /\ todo' = [i \in 1..k |-> [tokens |-> p[i], level |-> piece.level + 1]]
                     \o Tail(todo)
  /\ UNCHANGED <<limits, splitAt, segments, chunks, current>>

(* The separator does not occur: the same piece with the next one. *)
NextSeparator ==
  /\ AtPiece
  /\ Head(todo).tokens > max
  /\ Head(todo).level <= Separators
  /\ todo' = <<[Head(todo) EXCEPT !.level = @ + 1]>> \o Tail(todo)
  /\ UNCHANGED <<limits, splitAt, segments, chunks, current>>

(* Variant of HardSplit: the start of the slice never moves. *)
HardSplitStuck == AtPiece /\ UNCHANGED chunkVars

(* _hard_split: slices of max tokens, which may count otherwise when _pack     *)
(* counts them; the heuristic cuts characters, a little more often.         *)
HardSplit ==
  /\ AtPiece
  /\ LET n == Head(todo).tokens
         slices == (n + max - 1) \div max
     IN
     /\ n > max
     /\ Head(todo).level > Separators
     /\ \E k \in slices..(2 * slices) : \E p \in Counted(k, max) :
          /\ k <= MaxSlices
          /\ segments' = segments \o p
  /\ todo' = Tail(todo)
  /\ UNCHANGED <<limits, splitAt, chunks, current>>

AtomiseDone ==
  /\ splitAt = "atomise" /\ todo = <<>>
  /\ splitAt' = "pack"
  /\ UNCHANGED <<limits, todo, segments, chunks, current>>

-----------------------------------------------------------------------------
(* _pack *)

(* Variant of Carry: the chunk is carried over whole. *)
CarryAll(c) == CountsOf(c)

(* _overlap_tail: the last overlap_tokens or all there is, stripped on the    *)
(* left and counted anew.                                                   *)
Carry(c) == IF limits.overlap = 0 THEN {0} ELSE 1..(limits.overlap + Slack)

(* The next chunk, behind a tail of `carry` tokens; an empty one is no part.  *)
Behind(i, carry) ==
  [first |-> i, last |-> i - 1, tokens |-> carry,
   parts |-> IF carry = 0 THEN 0 ELSE 1, folded |-> FALSE]

With(c, i) ==
  [c EXCEPT !.last = i, !.tokens = @ + segments[i], !.parts = @ + 1]

(* Variant of PackSegment: a segment that does not fit is only made room for.*)
PackAndSkip ==
  LET i == current.last + 1 IN
  /\ splitAt = "pack"
  /\ i <= Len(segments)
  /\ IF current.parts > 0 /\ current.tokens + segments[i] > max
     THEN \E carry \in Carry(current) :
            /\ chunks' = Append(chunks, current)
            /\ current' = Behind(i + 1, carry)
     ELSE /\ current' = With(current, i)
          /\ UNCHANGED chunks
  /\ UNCHANGED <<limits, splitAt, todo, segments>>

(* One turn of the loop: emit the chunk if the segment does not fit, carry    *)
(* its tail over, and add the segment in any case.                           *)
PackSegment ==
  LET i == current.last + 1 IN
  /\ splitAt = "pack"
  /\ i <= Len(segments)
  /\ IF current.parts > 0 /\ current.tokens + segments[i] > max
     THEN \E carry \in Carry(current) :
            /\ chunks' = Append(chunks, current)
            /\ current' = With(Behind(i, carry), i)
     ELSE /\ current' = With(current, i)
          /\ UNCHANGED chunks
  /\ UNCHANGED <<limits, splitAt, todo, segments>>

(* The last chunk, which counts n, joins the one before it.                 *)
Joined(c, d, n) ==
  [c EXCEPT !.last = d.last, !.tokens = @ + n, !.parts = @ + 2, !.folded = TRUE]

(* What is left is a chunk, or too little for one by the count of its text.  *)
PackEnd ==
  LET k == Len(chunks) IN
  /\ splitAt = "pack"
  /\ current.last = Len(segments)
  /\ IF current.parts = 0
     THEN UNCHANGED chunks
     ELSE \E n \in CountsOf(current) :
            chunks' = IF k > 0 /\ n < limits.min
                      THEN [chunks EXCEPT ![k] = Joined(@, current, n)]
                      ELSE Append(chunks, current)
  /\ current' = Nothing
  /\ splitAt' = "end"
  /\ UNCHANGED <<limits, todo, segments>>

ChunkStep ==
  \/ Keep \/ Break \/ NextSeparator \/ HardSplit \/ AtomiseDone
  \/ PackSegment \/ PackEnd

ChunkNext == (\E n \in 0..MaxText : Split(n)) \/ ChunkStep

ChunkFairness == WF_chunkVars(ChunkStep)

ChunkSpec == ChunkInit /\ [][ChunkNext]_chunkVars /\ ChunkFairness

ChunkInv == ChunkTypeOK /\ PackInv

-----------------------------------------------------------------------------
(* Properties. *)

Fits(c) ==
  \A n \in CountsOf(c) :
    LET whole == IF c.folded THEN n - limits.min - 2 * Slack ELSE n IN
    \/ whole <= max + max * Slack
    \/ (c.folded \/ c.first = c.last) /\ whole <= max + limits.overlap + 4 * Slack

(* How much the text of a chunk may count: what counts that do not add up     *)
(* allow for max_tokens, or, for one segment behind a tail, max_tokens and     *)
(* the overlap; a fragment folded in adds less than min_tokens.  The tail,     *)
(* the segment, each text joined may count Slack more (_pack 150-175).       *)
ChunkSizes == \A i \in 1..Len(chunks) : Fits(chunks[i])

(* The segments are in the chunks once each and in order, carried tails      *)
(* apart: no text is lost or duplicated at a boundary.                       *)
ChunksCover ==
  LET all == IF current = Nothing THEN chunks ELSE Append(chunks, current) IN
  /\ Chained(all)
  /\ splitAt = "end" => LastSegment(all) = Len(segments)

(* Splitting comes to an end, whatever the text. *)
SplitEnds == splitAt = "atomise" ~> splitAt = "end"

=============================================================================
