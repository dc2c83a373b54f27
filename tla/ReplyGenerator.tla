--------------------------- MODULE ReplyGenerator ---------------------------
(***************************************************************************)
(* ChatCompletionReplyGenerator.generate: one reply, with its retries, its   *)
(* rounds of tool calls and call_tool.  What messages say is left out; the    *)
(* transcript keeps what the provider checks, that every tool call of an     *)
(* assistant's turn is answered by the tool messages that follow it.         *)
(***************************************************************************)
EXTENDS Integers, Sequences

CONSTANTS
  MaxAttempts,    \* settings.reply_max_retries
  MaxRounds,      \* settings.tool_max_iterations
  ToolsOffered,   \* are any tools configured
  MaxCalls        \* bound: tool calls of one turn

ASSUME GeneratorAssumption ==
  /\ MaxAttempts \in Nat \ {0}
  /\ MaxRounds \in Nat \ {0}
  /\ ToolsOffered \in BOOLEAN
  /\ MaxCalls \in Nat \ {0}

VARIABLES
  genAt,     \* where generate is
  attempt,   \* attempts begun
  round,     \* rounds of tool calls of this attempt
  working,   \* the turns _run_completion appended to the base messages
  owed,      \* calls of the last turn still to be executed
  reply,     \* what generate returns
  requests,  \* history: completions asked for
  ran        \* history: how often the j-th call of round i was executed

genVars == <<genAt, attempt, round, working, owed, reply, requests, ran>>

(* An assistant's turn asks for calls 1..calls; a tool's answers call `id`. *)
Turn(k)    == [role |-> "assistant", calls |-> k, id |-> 0]
Answer(id) == [role |-> "tool", calls |-> 0, id |-> id]

(* The messages a transcript may hold. *)
Messages == {Turn(k) : k \in 1..MaxCalls} \cup {Answer(j) : j \in 1..MaxCalls}

GenTypeOK ==
  /\ genAt \in {"idle", "request", "tools", "done"}
  /\ attempt \in 0..MaxAttempts
  /\ round \in 0..MaxRounds
  /\ working \in Seq(Messages)
  /\ owed \in 0..MaxCalls
  /\ reply \in {"none", "", "text"}
  /\ requests \in Nat
  /\ ran \in [1..MaxRounds -> [1..MaxCalls -> Nat]]

(* What an attempt has cost so far: a request for each round, and the last. *)
Cost(n) == (MaxRounds + 1) * n

EffortInv ==
  /\ genAt = "idle" =>
       /\ attempt = 0 /\ requests = 0 /\ round = 0 /\ owed = 0 /\ working = <<>>
       /\ \A i \in 1..MaxRounds, j \in 1..MaxCalls : ran[i][j] = 0
  /\ genAt # "idle" => attempt > 0
  /\ genAt \in {"request", "tools"} => requests <= Cost(attempt - 1) + round
  /\ genAt = "done" => requests <= Cost(attempt)
  /\ Len(working) <= round * (MaxCalls + 1) - owed
  /\ genAt = "request" => owed = 0

(* The i-th message is the turn whose last calls are owed. *)
AtTurn(i) ==
  /\ working[i].role = "assistant"
  /\ i + working[i].calls = Len(working) + owed
  /\ owed <= working[i].calls

(* Calls and answers as they follow each other while answers are owed, and   *)
(* what the owed calls have not done yet in this attempt.                    *)
TranscriptInv ==
  /\ \A i \in 1..Len(working) :
       working[i].role = "assistant" =>
         /\ i + working[i].calls <= Len(working) + owed
         /\ \A j \in 1..working[i].calls :
              i + j <= Len(working) => working[i + j] = Answer(j)
  /\ \A i \in 1..Len(working) :
       working[i].role = "tool" =>
         i > 1 /\ working[i - 1] \in
           IF working[i].id = 1 THEN {Turn(k) : k \in 1..MaxCalls}
           ELSE {Answer(working[i].id - 1)}
  /\ genAt = "tools" => round > 0
  /\ genAt # "done" /\ owed > 0 =>
       \E i \in 1..Len(working) :
         /\ AtTurn(i)
         /\ \A j \in 1..MaxCalls : j > working[i].calls - owed => ran[round][j] <= attempt - 1

GenInit ==
  /\ genAt = "idle"
  /\ attempt = 0
  /\ round = 0
  /\ working = <<>>
  /\ owed = 0
  /\ reply = "none"
  /\ requests = 0
  /\ ran = [i \in 1..MaxRounds |-> [j \in 1..MaxCalls |-> 0]]

Returns(text) ==
  /\ genAt' = "done"
  /\ reply' = text

Generate ==
  /\ genAt = "idle"
  /\ genAt' = "request"
  /\ attempt' = 1
  /\ UNCHANGED <<round, working, owed, reply, requests, ran>>

-----------------------------------------------------------------------------
(* A request for a completion, with tools unless the rounds are used up. *)

AtRequest == genAt = "request" /\ requests' = requests + 1

WithTools == ToolsOffered /\ round < MaxRounds

(* The model answers, perhaps with nothing but white space. *)
Completed ==
  /\ AtRequest
  /\ \E text \in {"", "text"} : Returns(text)
  /\ UNCHANGED <<attempt, round, working, owed, ran>>

(* The model's turn goes back on the transcript before the results do. *)
AskedForTools ==
  /\ AtRequest
  /\ WithTools
  /\ genAt' = "tools"
  /\ \E k \in 1..MaxCalls : owed' = k /\ working' = Append(working, Turn(k))
  /\ round' = round + 1
  /\ UNCHANGED <<attempt, reply, ran>>

(* Variant of Transient: the retry goes on with the transcript so far, and    *)
(* its rounds count from zero.                                              *)
TransientKeeps ==
  /\ AtRequest
  /\ IF attempt < MaxAttempts
     THEN /\ attempt' = attempt + 1 /\ round' = 0
          /\ UNCHANGED <<genAt, reply, working>>
     ELSE Returns("") /\ UNCHANGED <<attempt, round, working>>
  /\ UNCHANGED <<owed, ran>>

(* A transient error: the whole exchange from the base messages, or silence. *)
Transient ==
  /\ AtRequest
  /\ IF attempt < MaxAttempts
     THEN /\ attempt' = attempt + 1
          /\ round' = 0
          /\ working' = <<>>
          /\ UNCHANGED <<genAt, reply>>
     ELSE Returns("") /\ UNCHANGED <<attempt, round, working>>
  /\ UNCHANGED <<owed, ran>>

(* Anything else the provider raises is not retried. *)
Rejected ==
  /\ AtRequest
  /\ Returns("")
  /\ UNCHANGED <<attempt, round, working, owed, ran>>

-----------------------------------------------------------------------------
(* The calls of a turn, one after the other. *)

(* The call at hand: the last turn's calls less those owed, plus one. *)
TurnAt == CHOOSE i \in 1..Len(working) :
            /\ working[i].role = "assistant"
            /\ \A j \in (i + 1)..Len(working) : working[j].role = "tool"

CallAt == working[TurnAt].calls - owed + 1

AtCall == genAt = "tools" /\ owed > 0

(* Variant of Executed: a call that failed is made once more. *)
ExecutedTwice(i, j) == \E n \in {1, 2} : ran' = [ran EXCEPT ![i][j] = @ + n]

Executed(i, j) == ran' = [ran EXCEPT ![i][j] = @ + 1]

(* The tool's payload, or the error object call_tool makes of its failure. *)
ToolAnswers ==
  /\ AtCall
  /\ Executed(round, CallAt)
  /\ working' = Append(working, Answer(CallAt))
  /\ owed' = owed - 1
  /\ UNCHANGED <<genAt, attempt, round, reply, requests>>

(* Variant of NoSuchTool: the call is passed over. *)
UnknownSkipped ==
  /\ AtCall
  /\ owed' = owed - 1
  /\ UNCHANGED <<genAt, attempt, round, working, reply, requests, ran>>

(* A name no tool has: an error object, and nothing is executed. *)
NoSuchTool ==
  /\ AtCall
  /\ working' = Append(working, Answer(CallAt))
  /\ owed' = owed - 1
  /\ UNCHANGED <<genAt, attempt, round, reply, requests, ran>>

(* call_tool lets through what its handlers do not name (arguments that are    *)
(* no object are a TypeError, before the request; a reset connection after    *)
(* it): generate ends with silence.                                          *)
ToolRaises ==
  /\ AtCall
  /\ Executed(round, CallAt) \/ UNCHANGED ran
  /\ Returns("")
  /\ UNCHANGED <<attempt, round, working, owed, requests>>

AllAnswered ==
  /\ genAt = "tools" /\ owed = 0
  /\ genAt' = "request"
  /\ UNCHANGED <<attempt, round, working, owed, reply, requests, ran>>

GenNext ==
  \/ Generate \/ Completed \/ AskedForTools \/ Transient \/ Rejected
  \/ ToolAnswers \/ NoSuchTool \/ ToolRaises \/ AllAnswered

GenSpec == GenInit /\ [][GenNext]_genVars

-----------------------------------------------------------------------------
(* Properties. *)

(* Whenever a completion is asked for, the transcript is one the provider      *)
(* accepts: every turn that called tools is followed by the answers to its    *)
(* calls, each once and in order, and nothing else (_run_completion 300-317). *)
(* Retries, unknown tools and failing tools must all keep it so.             *)
TranscriptAnswered ==
  genAt = "request" =>
    /\ \A i \in 1..Len(working) :
         working[i].role = "assistant" =>
           \A j \in 1..working[i].calls :
             i + j <= Len(working) /\ working[i + j] = Answer(j)
    /\ \A i \in 1..Len(working) :
         working[i].role = "tool" =>
           i > 1 /\ working[i - 1] \in
             IF working[i].id = 1 THEN {Turn(k) : k \in 1..MaxCalls}
             ELSE {Answer(working[i].id - 1)}

(* A call is executed at most once in every attempt that reaches it: it runs again *)
(* only because a transient error, after it ran, threw its attempt away       *)
(* (_generate_with_retry 267-277 retries all of _run_completion).             *)
RerunsNeedRetry ==
  genAt # "idle" =>
    \A i \in 1..MaxRounds, j \in 1..MaxCalls :
      ran[i][j] <= IF i <= round THEN attempt ELSE attempt - 1

(* One mention costs a bounded number of completions, whatever the model asks  *)
(* for (the cap of 319-329 and the retry limit together): each attempt makes  *)
(* its rounds and one more request, and the transcript never holds more than  *)
(* the rounds of one attempt.                                               *)
EffortBounded ==
  /\ requests <= MaxAttempts * (MaxRounds + 1)
  /\ Len(working) <= MaxRounds * (MaxCalls + 1)

(* The inductive invariant of the proofs. *)
GenInv == GenTypeOK /\ EffortInv /\ TranscriptInv /\ RerunsNeedRetry

=============================================================================
