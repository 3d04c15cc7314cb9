----------------------------- MODULE Redemption -----------------------------
(***************************************************************************)
(* backend/services/redemption_service.py composed with the two services   *)
(* it writes to: redeem and approve_redemption burn the claim in           *)
(* ClaimNotes and submit a request to Settlement in one step.  A receipt   *)
(* pending approval does not lock its claim: owners and issuers may act on *)
(* it until the operators do.                                              *)
(*                                                                         *)
(* The tables kept beside _receipts are read off the receipts: a receipt's *)
(* idempotency key is taken, its created_at is its user's entry in         *)
(* _user_timestamps, and its approvals are those of _pending_approval.     *)
(* The fraud score cannot reach the threshold (redeem passes velocity 0)   *)
(* and the compliance check never refuses, so neither can stop a call.  A  *)
(* call with a known idempotency key returns the old receipt: no step.     *)
(***************************************************************************)
EXTENDS ClaimNotes, Settlement

CONSTANTS
  ReceiptIds,     \* uuids a receipt can get
  Keys,           \* idempotency keys
  Operators,      \* operator ids
  Chains,         \* chains
  LargeTx,        \* _LARGE_TX_SATS
  RateLimit,      \* _RATE_LIMIT_PER_HOUR
  Window,         \* 3600
  RequiredArgs    \* values passed for required_approvals

ASSUME RedemptionAssumption ==
  /\ Rails = Assets \X Chains
  /\ LargeTx \in Nat
  /\ RateLimit \in Nat
  /\ Window \in Nat
  /\ RequiredArgs \subseteq Nat
  /\ NoReceipt \notin ReceiptIds

VARIABLE receipts   \* _receipts

vars == <<claimVars, settlementVars, receipts>>

\* required is no field of the code's receipt: the required_approvals of the
\* call that settled it, 0 as long as none did.
Receipt == [claim : ClaimIds, user : Users, key : Keys, amount : Int, rail : Rails,
            status : {"pending_approval", "processing", "rejected"},
            created_at : Nat, approvals : Seq(Operators), required : Nat]

TypeOK ==
  /\ ClaimTypeOK
  /\ SettlementTypeOK(ReceiptIds)
  /\ DOMAIN receipts \subseteq ReceiptIds
  /\ \A r \in DOMAIN receipts : receipts[r] \in Receipt

Init ==
  /\ ClaimInit
  /\ SettlementInit
  /\ receipts = [r \in {} |-> r]

-----------------------------------------------------------------------------
\* Burn the claim and submit the settlement request of receipt r.
Settle(r, c, rail) ==
  /\ c \in DOMAIN claims
  /\ claims' = Burned(c)
  /\ SubmitRequest(r, rail)
  /\ UNCHANGED <<deleted, now, issued, lost, retired>>

\* Mutant of KeyUnknown: repeated keys are not noticed.
AnyKey(key) == TRUE

KeyUnknown(key) == \A r \in DOMAIN receipts : receipts[r].key # key

RecentReceipts(user) ==
  {r \in DOMAIN receipts : receipts[r].user = user /\ receipts[r].created_at > now - Window}

\* Mutant of UnderRateLimit: one redemption too many.
AtRateLimit(user) == Cardinality(RecentReceipts(user)) <= RateLimit

UnderRateLimit(user) == Cardinality(RecentReceipts(user)) < RateLimit

\* Mutant of Redeemable: validate_claim forgets the owner.
AnyoneRedeems(c, user) ==
  ~Expired(c) /\ claims[c].state \notin {"redeemed", "burned", "revoked"}

Redeemable(c, user) ==
  /\ ~Expired(c)
  /\ claims[c].state \notin {"redeemed", "burned", "revoked"}
  /\ claims[c].owner = user

Large(amount) == amount >= LargeTx

AddReceipt(r, c, user, key, chain, status) ==
  receipts' = [q \in DOMAIN receipts \cup {r} |->
    IF q # r THEN receipts[q]
    ELSE [claim |-> c, user |-> user, key |-> key, amount |-> claims[c].denomination,
          rail |-> <<claims[c].asset, chain>>, status |-> status,
          created_at |-> now, approvals |-> <<>>, required |-> 0]]

Redeem(r, c, user, key, chain) ==
  /\ r \in ReceiptIds \ DOMAIN receipts
  /\ KeyUnknown(key)
  /\ UnderRateLimit(user)
  /\ c \in DOMAIN claims
  /\ Redeemable(c, user)
  /\ \/ /\ Large(claims[c].denomination)
        /\ AddReceipt(r, c, user, key, chain, "pending_approval")
        /\ UNCHANGED <<claimVars, settlementVars>>
     \/ /\ ~Large(claims[c].denomination)
        /\ AddReceipt(r, c, user, key, chain, "processing")
        /\ Settle(r, c, <<claims[c].asset, chain>>)

\* Mutant of Undecided: a rejected receipt can still be approved.
NotProcessing(r) == receipts[r].status # "processing"

Undecided(r) == receipts[r].status = "pending_approval"

\* Mutant of NotApprovedBy: an operator approves again.
ApprovesAgain(r, operator) == TRUE

NotApprovedBy(r, operator) ==
  operator \notin {receipts[r].approvals[i] : i \in DOMAIN receipts[r].approvals}

\* approve_redemption: the approval is recorded first.  At the threshold the
\* claim is burned and settled; burn_claim raises if the claim was split or
\* merged meanwhile, and the approval stays on a receipt still pending.
ApproveRedemption(r, operator, required_approvals) ==
  LET approvals == Append(receipts[r].approvals, operator)
      claim_id == receipts[r].claim
  IN /\ Undecided(r)
     /\ NotApprovedBy(r, operator)
     /\ \/ /\ Len(approvals) >= required_approvals
           /\ Settle(r, claim_id, receipts[r].rail)
           /\ receipts' = [receipts EXCEPT ![r].approvals = approvals,
                                           ![r].status = "processing",
                                           ![r].required = required_approvals]
        \/ /\ Len(approvals) < required_approvals \/ claim_id \notin DOMAIN claims
           /\ receipts' = [receipts EXCEPT ![r].approvals = approvals]
           /\ UNCHANGED <<claimVars, settlementVars>>

RejectRedemption(r) ==
  /\ receipts[r].status = "pending_approval"
  /\ receipts' = [receipts EXCEPT ![r].status = "rejected"]
  /\ UNCHANGED <<claimVars, settlementVars>>

RedemptionNext ==
  \/ \E r \in ReceiptIds, c \in DOMAIN claims, user \in Users, key \in Keys, chain \in Chains :
       Redeem(r, c, user, key, chain)
  \/ \E r \in DOMAIN receipts :
       \/ \E operator \in Operators, required \in RequiredArgs :
            ApproveRedemption(r, operator, required)
       \/ RejectRedemption(r)

Next ==
  \/ ClaimNext /\ UNCHANGED <<settlementVars, receipts>>
  \/ SettlementNext /\ UNCHANGED <<claimVars, receipts>>
  \/ RedemptionNext

Spec == Init /\ [][Next]_vars

-----------------------------------------------------------------------------
(***************************************************************************)
(* Properties of the flow.                                                 *)
(***************************************************************************)

ClaimOf(i) == receipts[requests[i].receipt].claim

\* A redemption takes the claim away with the payment: the claim behind every
\* request made for a receipt is burned and on record, and a claim is burned
\* only by such a request or by burn_claim itself, whatever was transferred,
\* split, merged, revoked or burned in between (redemption_service.py:241).
SettledIffBurned ==
  /\ \A i \in Paying :
       ClaimOf(i) \in DOMAIN claims /\ claims[ClaimOf(i)].state = "burned"
  /\ \A c \in DOMAIN claims \ retired :
       claims[c].state = "burned" => \E i \in Paying : ClaimOf(i) = c

\* A claim below the approval threshold is paid to its owner, and no two
\* requests are for the same one.
SmallClaimsPaidOnce ==
  \A i \in Paying :
    ~Large(receipts[requests[i].receipt].amount) =>
      /\ claims[ClaimOf(i)].owner = receipts[requests[i].receipt].user
      /\ \A j \in Paying : ClaimOf(j) = ClaimOf(i) => j = i

\* A settled large redemption was approved by at least as many different
\* operators as the call that settled it asked for: none is counted twice,
\* and none is lost on a receipt that a failing burn left pending.  Two is
\* only the default of required_approvals (redemption_service.py:220), which
\* is an argument of the endpoint.
ApprovalsReached ==
  \A i \in Paying :
    LET receipt == receipts[requests[i].receipt]
        approvers == {receipt.approvals[k] : k \in DOMAIN receipt.approvals}
    IN Large(receipt.amount) => Cardinality(approvers) >= receipt.required

\* A retried call never leaves a second receipt under the same key.
OneReceiptPerKey ==
  \A r, q \in DOMAIN receipts : receipts[r].key = receipts[q].key => r = q

\* In no window of Window seconds did a user get more than RateLimit
\* receipts, wherever the window is placed.
RateLimitHolds ==
  \A user \in Users, t \in 0..now :
    Cardinality({r \in DOMAIN receipts :
                   /\ receipts[r].user = user
                   /\ receipts[r].created_at \in (t - Window + 1)..t}) <= RateLimit

\* redemption_service.py:43 raises "Claim already consumed": a claim is
\* settled at most once.
ClaimSettledOnce ==
  \A i, j \in Paying : ClaimOf(i) = ClaimOf(j) => i = j

\* A receipt as Payouts sees it.
PayoutStatus(status) ==
  CASE status = "pending_approval" -> "waiting"
    [] status = "processing" -> "paid"
    [] status = "rejected" -> "rejected"

Abstract ==
  INSTANCE Payouts WITH
    Receipts <- ReceiptIds,
    status <- [r \in DOMAIN receipts |-> PayoutStatus(receipts[r].status)],
    payments <- [r \in ReceiptIds |->
                   Cardinality({i \in DOMAIN requests : requests[i].receipt = r})]

\* Each receipt is paid at most once and never after a rejection.
ImplementsPayouts == Abstract!Spec
=============================================================================
