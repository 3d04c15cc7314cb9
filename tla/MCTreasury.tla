----------------------------- MODULE MCTreasury -----------------------------
(***************************************************************************)
(* Two batches, three operators of whom two must sign.                     *)
(***************************************************************************)
EXTENDS Treasury, TLC

MCRequiredConfs == [asset \in Assets |-> 2]

Symmetric == Permutations(BatchIds) \cup Permutations(Operators)
=============================================================================
