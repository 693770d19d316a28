--------------------------- MODULE MCActionPipeline ---------------------------
(* ActionPipeline with symmetric captures and spots.                        *)
EXTENDS ActionPipeline, TLC

Symmetry == Permutations(Spots) \cup Permutations(Captures)

=============================================================================
