----------------------------- MODULE AwaitResult -----------------------------
(***************************************************************************)
(* RagEventPublisher.request_retrieval and await_result: callers that share   *)
(* one reply stream. The service that answers is external here: it answers a  *)
(* request at any time, more than once when the request is delivered again.   *)
(***************************************************************************)
EXTENDS Integers, Sequences

CONSTANTS
  Callers,     \* callers, each with a correlation id of its own
  Nobody,      \* the correlation id of an entry no caller here asked for
  ReadCount,   \* the count of XREAD, 16 in the code
  MaxReplies   \* bound: entries of the reply stream

ASSUME AwaitAssumption ==
  /\ Nobody \notin Callers
  /\ ReadCount \in Nat \ {0}
  /\ MaxReplies \in Nat

VARIABLES
  caller,    \* where each caller is
  replies,   \* correlation ids of the entries of the reply stream
  lastId,    \* last_id, Dollar until entries are read
  readFrom,  \* where the XREAD under way began
  since      \* history: the tail its latest "$" stood for

awaitVars == <<caller, replies, lastId, readFrom, since>>

(* last_id = "$": the tail of the stream when XREAD is called. *)
Dollar == -1

Positions == {Dollar} \cup 0..MaxReplies

AwaitTypeOK ==
  /\ caller \in [Callers -> {"idle", "looping", "blocked", "got", "gave up", "raised"}]
  /\ replies \in Seq(Callers \cup {Nobody})
  /\ Len(replies) <= MaxReplies
  /\ lastId \in [Callers -> Positions]
  /\ readFrom \in [Callers -> Positions]
  /\ since \in [Callers -> Positions]

(* Every answer a caller has not got came before its latest "$", or is ahead *)
(* of what it has read.                                                     *)
Unread(c) == \A i \in 1..Len(replies) : replies[i] = c => i <= since[c] \/ i > lastId[c]

AwaitInv ==
  /\ AwaitTypeOK
  /\ \A c \in Callers :
       /\ lastId[c] <= Len(replies)
       /\ caller[c] # "got" => Unread(c)
       /\ caller[c] = "blocked" =>
            /\ readFrom[c] \in 0..Len(replies)
            /\ readFrom[c] = IF lastId[c] = Dollar THEN since[c] ELSE lastId[c]

AwaitInit ==
  /\ caller = [c \in Callers |-> "idle"]
  /\ replies = <<>>
  /\ lastId = [c \in Callers |-> Dollar]
  /\ readFrom = [c \in Callers |-> Dollar]
  /\ since = [c \in Callers |-> Dollar]

(* request_retrieval, then await_result. *)
Ask(c) ==
  /\ caller[c] = "idle"
  /\ caller' = [caller EXCEPT ![c] = "looping"]
  /\ UNCHANGED <<replies, lastId, readFrom, since>>

(* An answer to a request made, or somebody else's. *)
Publishes(c) ==
  /\ Len(replies) < MaxReplies
  /\ c # Nobody => caller[c] # "idle"
  /\ replies' = Append(replies, c)
  /\ UNCHANGED <<caller, lastId, readFrom, since>>

(* XREAD is called: "$" is the tail of this moment. *)
Listen(c) ==
  /\ caller[c] = "looping"
  /\ caller' = [caller EXCEPT ![c] = "blocked"]
  /\ readFrom' = [readFrom EXCEPT ![c] =
       IF lastId[c] = Dollar THEN Len(replies) ELSE lastId[c]]
  /\ since' = [since EXCEPT ![c] = IF lastId[c] = Dollar THEN Len(replies) ELSE @]
  /\ UNCHANGED <<replies, lastId>>

(* The last entry an XREAD returns. *)
LastRead(c) ==
  IF Len(replies) <= readFrom[c] + ReadCount THEN Len(replies)
  ELSE readFrom[c] + ReadCount

(* Variant of Read: only the newest entry of a batch is looked at. *)
ReadNewest(c) ==
  /\ caller[c] = "blocked"
  /\ Len(replies) > readFrom[c]
  /\ lastId' = [lastId EXCEPT ![c] = LastRead(c)]
  /\ caller' = [caller EXCEPT ![c] = IF replies[LastRead(c)] = c THEN "got" ELSE "looping"]
  /\ UNCHANGED <<replies, readFrom, since>>

(* XREAD returns entries: they are searched for the answer, in order. *)
Read(c) ==
  LET mine == {i \in (readFrom[c] + 1)..LastRead(c) : replies[i] = c} IN
  /\ caller[c] = "blocked"
  /\ Len(replies) > readFrom[c]
  /\ IF mine # {}
     THEN /\ caller' = [caller EXCEPT ![c] = "got"]
          /\ \E i \in mine : /\ \A j \in mine : i <= j
                             /\ lastId' = [lastId EXCEPT ![c] = i]
     ELSE /\ caller' = [caller EXCEPT ![c] = "looping"]
          /\ lastId' = [lastId EXCEPT ![c] = LastRead(c)]
  /\ UNCHANGED <<replies, readFrom, since>>

(* XREAD times out; if a moment is left, `continue` calls it again, and a "$"  *)
(* moves to the tail.                                                       *)
TimesOut(c) ==
  /\ caller[c] = "blocked"
  /\ Len(replies) = readFrom[c]
  /\ caller' = [caller EXCEPT ![c] = "looping"]
  /\ UNCHANGED <<replies, lastId, readFrom, since>>

(* XREAD fails, or it returns, before any answer, an entry that cannot be      *)
(* decoded: await_result raises.                                             *)
Breaks(c) ==
  /\ caller[c] = "blocked"
  /\ caller' = [caller EXCEPT ![c] = "raised"]
  /\ UNCHANGED <<replies, lastId, readFrom, since>>

(* The deadline has passed. *)
GiveUp(c) ==
  /\ caller[c] = "looping"
  /\ caller' = [caller EXCEPT ![c] = "gave up"]
  /\ UNCHANGED <<replies, lastId, readFrom, since>>

AwaitNext ==
  \/ \E c \in Callers :
       Ask(c) \/ Listen(c) \/ Read(c) \/ TimesOut(c) \/ Breaks(c) \/ GiveUp(c)
  \/ \E c \in Callers \cup {Nobody} : Publishes(c)

AwaitSpec == AwaitInit /\ [][AwaitNext]_awaitVars

-----------------------------------------------------------------------------
(* Properties. *)

(* A caller that gave up although the stream holds its answer either did not   *)
(* listen yet when the answer came, "$" being taken after the request was       *)
(* published (156-159), or left before reading that far: a batch of entries    *)
(* for other callers never hides it.                                         *)
MissedExplained ==
  \A c \in Callers :
    caller[c] = "gave up" => Unread(c)

=============================================================================
