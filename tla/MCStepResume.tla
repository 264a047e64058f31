---------------------------- MODULE MCStepResume ----------------------------
(* StepResume with symmetric container ids.                                *)
EXTENDS StepResume, TLC
Symmetry == Permutations(Cid)
=============================================================================
