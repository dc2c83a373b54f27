---------------------------- MODULE PipelinesProofs ----------------------------
(***************************************************************************)
(* The parts of MCPipelines share no state: a behaviour of the whole is a    *)
(* behaviour of each of them, and what is proved of a part holds in it.      *)
(***************************************************************************)
EXTENDS MCPipelines, ChunkerProofs, ReplyGeneratorProofs, ProcessProofs, QueryProofs

(* Every part begins as it would alone. *)
LEMMA PartsInit ==
  Init => ChunkInit /\ EmbedInit /\ GenInit /\ ProcInit /\ AwaitInit /\ RetInit
BY DEF Init

(* A step of one part is a step of that part, and leaves the others alone. *)
LEMMA PartsStep ==
  ASSUME [Next]_pipelineVars
  PROVE  /\ [ChunkNext]_chunkVars /\ [EmbedNext]_embedVars /\ [GenNext]_genVars
         /\ [ProcNext]_procVars /\ [AwaitNext]_awaitVars /\ [RetNext]_retVars
<1>1. CASE ChunkerPart
  BY <1>1 DEF ChunkerPart
<1>2. CASE EmbedderPart
  BY <1>2 DEF EmbedderPart
<1>3. CASE GeneratorPart
  BY <1>3 DEF GeneratorPart
<1>4. CASE ProcessPart
  BY <1>4 DEF ProcessPart
<1>5. CASE AwaitPart
  BY <1>5 DEF AwaitPart
<1>6. CASE RetrievalPart
  BY <1>6 DEF RetrievalPart
<1>7. CASE UNCHANGED pipelineVars
  BY <1>7 DEF pipelineVars
<1>. QED  BY <1>1, <1>2, <1>3, <1>4, <1>5, <1>6, <1>7 DEF Next

(* The run that checks the parts together checks each of them: whatever is    *)
(* proved of a part's own specification holds in the run's.                  *)
THEOREM PartsAreTheRun ==
  Spec => ChunkSpec /\ EmbedSpec /\ GenSpec /\ ProcSpec /\ AwaitSpec /\ RetSpec
BY PartsInit, PartsStep, PTL
DEF Spec, ChunkSpec, EmbedSpec, GenSpec, ProcSpec, AwaitSpec, RetSpec

(* No part ever leaves its types, the cache its size, a request its limits, or  *)
(* the inductive invariant that its other properties rest on.                *)
THEOREM PartsKeepInvariants == Spec => []PipelinesInv
<1>1. SplitInv /\ EmbedTypeOK /\ GenInv /\ ProcInv /\ AwaitInv /\ RetInv
      /\ BatchWithinLimits /\ BackoffGrows => PipelinesInv
  BY DEF PipelinesInv, SplitInv, RetInv
<1>. QED
  BY <1>1, PartsAreTheRun, SplitHolds, EmbedTyped, GenerationInvariant, LockExcludes,
     CallersKeepPlace, RetCorrect, RequestsWithinLimits, BackoffDoubles, PTL
=============================================================================
