----------------------------- MODULE MCRedemption -----------------------------
(***************************************************************************)
(* Three ways to bound the redemption flow, chosen by the first state: the *)
(* claims on their own, with splits and merges of several values and       *)
(* assets; the receipts of two claims of one asset, on a running clock and *)
(* without batches; and the batches, with requests of both rails.          *)
(***************************************************************************)
EXTENDS Redemption, TLC

CONSTANT Plans    \* the plans followed, among "claims", "receipts" and "batches"

VARIABLE plan

\* split_claim and create_claim accept a negative amount.
MCDenominations == {-1, 1, 2}

MCRails == Assets \X Chains

MCRequiredConfs == [rail \in Rails |-> 2]

Symmetric == Permutations(ClaimIds) \cup Permutations(ReceiptIds)
             \cup Permutations(Users) \cup Permutations(Operators) \cup Permutations(Keys)

MCInit == Init /\ plan \in Plans

TwoClaims == Cardinality(DOMAIN claims \cup deleted) <= 2

OneAsset == CHOOSE a \in Assets : TRUE

\* No expiry, no receipt and no clock.
ClaimsNext ==
  /\ CreateNext(Assets, Denominations, {0}) \/ ClaimCall
  /\ UNCHANGED <<settlementVars, receipts>>

\* Every claim expires, so none is merged; a merge may still fail and destroy.
ReceiptsNext ==
  /\ \/ /\ CreateNext({OneAsset}, {1, 2}, {1}) \/ ClaimCall \/ Tick
        /\ UNCHANGED <<settlementVars, receipts>>
     \/ RedemptionNext
  /\ TwoClaims'
  /\ Cardinality(retired') <= 1
  /\ \A c \in DOMAIN claims' : claims'[c].denomination > 0 /\ claims'[c].expiry # None
  /\ Cardinality({claims'[c].issuer : c \in DOMAIN claims'}) <= 1

\* Claims are only created by their owners and redeemed.
BatchesNext ==
  /\ \/ CreateNext(Assets, {1}, {0}) /\ UNCHANGED <<settlementVars, receipts>>
     \/ SettlementNext /\ UNCHANGED <<claimVars, receipts>>
     \/ RedemptionNext
  /\ TwoClaims'
  /\ \A c \in DOMAIN claims' : claims'[c].issuer = claims'[c].owner

MCNext ==
  /\ \/ plan = "claims" /\ ClaimsNext
     \/ plan = "receipts" /\ ReceiptsNext
     \/ plan = "batches" /\ BatchesNext
  /\ UNCHANGED plan

MCSpec == MCInit /\ [][MCNext]_<<vars, plan>>
=============================================================================
