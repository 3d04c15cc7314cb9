----------------------------- MODULE MCClaimApi -----------------------------
(***************************************************************************)
(* Two replicas; one wallet is also sent with white space around it.       *)
(***************************************************************************)
EXTENDS ClaimApi, TLC

CONSTANTS alice, paddedAlice

MCStrip == [w \in Wallets |-> IF w = paddedAlice THEN alice ELSE w]

Symmetric == Permutations(Replicas) \cup Permutations(ClaimIds) \cup Permutations(Pins)
=============================================================================
