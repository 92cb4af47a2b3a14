------------------------ MODULE MCEnrichmentPipeline ------------------------
(* Columns 1, 2 and 3 go to the default tier, column 4 to the cryptic one. *)
EXTENDS EnrichmentPipeline

MCTier == [c \in 1 .. Cols |-> IF c = 4 THEN "cryptic" ELSE "default"]
OneEach == [t \in {"default", "cryptic"} |-> 1]
=============================================================================
