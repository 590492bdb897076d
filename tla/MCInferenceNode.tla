------------------------- MODULE MCInferenceNode -------------------------
(* Instances of InferenceNode for TLC.                                     *)
EXTENDS InferenceNode

(* One policy that observes the interrupt, no motion.                      *)
NoMotion  == [p \in {0} |-> 0]
NoIndices == <<>>

(* Policy 0 with a motion of 2 frames, a shorter motion and one as long.   *)
ThreeMotions == [p \in 0 .. 2 |-> IF p = 1 THEN 1 ELSE 2]
ThreeIndices == <<0, 1, 2>>
==========================================================================
