----------------------------- MODULE MCPipelines -----------------------------
(***************************************************************************)
(* The parts that work within one call or one process, and share no state     *)
(* with each other: a behaviour is a behaviour of one of them.                *)
(***************************************************************************)
EXTENDS Chunker, Embedder, ReplyGenerator, BotProcess, AwaitResult, Retrieval

CONSTANTS
  short, long, huge,           \* texts
  p1, p2, p3, botA, botB,      \* two processes of a bot, and one of another
  c1, c2, nobody,              \* callers
  u1, u2, u3, u4, d1, d2       \* turns and documents

VARIABLE part   \* the part this behaviour is about

pipelineVars == <<part, chunkVars, embedVars, genVars, procVars, awaitVars, retVars>>

(* No overlap, some, and all but one token of it; fragments are folded back    *)
(* below, at and above the overlap.                                         *)
SomeLimits ==
  {[max |-> 3, overlap |-> 0, min |-> 2], [max |-> 3, overlap |-> 1, min |-> 3],
   [max |-> 3, overlap |-> 2, min |-> 2]}

Weights == [t \in Texts |-> CASE t = short -> 1 [] t = long -> 2 [] OTHER -> 5]

(* The two bots' ids hash to one port. *)
BotOfProcess == [p \in Processes |-> IF p = p3 THEN botB ELSE botA]
SamePort == [b \in Bots |-> 20000]

Doubled == [n \in 0..MaxCounted |-> BaseDelay * 2 ^ n]

(* u2 and u3 were sent in the same millisecond; d1 and d2 are near-duplicates; *)
(* the conversation has one turn more than the window holds.                 *)
Times == [t \in Turns |-> CASE t = u1 -> 1 [] t = u4 -> 3 [] OTHER -> 2]
SomeWords ==
  [c \in Chunks |-> CASE c = u1 -> {"no"} [] c = u2 -> {} [] c \in {u3, u4} -> {"yes"}
                      [] OTHER -> {"refund", "policy"}]
SomeRelevance == [c \in Chunks |-> CASE c \in {d1, d2} -> 9 [] c = u1 -> 5 [] OTHER -> 2]
SomeAlike ==
  [c \in Chunks |-> [d \in Chunks |-> IF c = d \/ {c, d} = {d1, d2} THEN 10 ELSE 3]]

Init ==
  /\ part \in {"chunker", "embedder", "generator", "process", "await", "retrieval"}
  /\ ChunkInit /\ EmbedInit /\ GenInit /\ ProcInit /\ AwaitInit /\ RetInit
  /\ part # "chunker" => limits = CHOOSE l \in Limits : TRUE

ChunkerPart ==
  /\ part = "chunker" /\ ChunkNext
  /\ UNCHANGED <<part, embedVars, genVars, procVars, awaitVars, retVars>>

EmbedderPart ==
  /\ part = "embedder" /\ EmbedNext
  /\ UNCHANGED <<part, chunkVars, genVars, procVars, awaitVars, retVars>>

GeneratorPart ==
  /\ part = "generator" /\ GenNext
  /\ UNCHANGED <<part, chunkVars, embedVars, procVars, awaitVars, retVars>>

ProcessPart ==
  /\ part = "process" /\ ProcNext
  /\ UNCHANGED <<part, chunkVars, embedVars, genVars, awaitVars, retVars>>

AwaitPart ==
  /\ part = "await" /\ AwaitNext
  /\ UNCHANGED <<part, chunkVars, embedVars, genVars, procVars, retVars>>

RetrievalPart ==
  /\ part = "retrieval" /\ RetNext
  /\ UNCHANGED <<part, chunkVars, embedVars, genVars, procVars, awaitVars>>

Next ==
  \/ ChunkerPart \/ EmbedderPart \/ GeneratorPart
  \/ ProcessPart \/ AwaitPart \/ RetrievalPart

Spec == Init /\ [][Next]_pipelineVars /\ ChunkFairness /\ ProcFairness

(* What the six parts keep: the inductive invariants of their proofs, or what  *)
(* these say of types, with the limits of a request and the growth of a delay. *)
PipelinesInv ==
  /\ ChunkInv /\ EmbedTypeOK /\ GenInv
  /\ ProcInv /\ AwaitInv /\ RetTypeOK
  /\ BatchWithinLimits /\ BackoffGrows
=============================================================================
