------------------------- MODULE MCCoredumpPipeline -------------------------
(* Dumps for model checking CoredumpPipeline.                                *)
EXTENDS CoredumpPipeline

CONSTANTS app, foreign, third
=============================================================================
