-------------------------- MODULE RedemptionProofs --------------------------
(***************************************************************************)
(* Theorems about the redemption flow, for every set of claims, receipts,  *)
(* users, operators, thresholds and limits.                                *)
(*                                                                         *)
(* The invariant here, FlowInv, follows receipts, requests and claims and  *)
(* carries the shape of a claim without the type of its denomination; the  *)
(* sums of denominations and everything else that counts is in             *)
(* RedemptionCountProofs.                                                  *)
(***************************************************************************)
EXTENDS Redemption, SequenceTheorems, FiniteSetTheorems, TLAPS

-----------------------------------------------------------------------------
(***************************************************************************)
(* The inductive invariant.                                                *)
(***************************************************************************)

\* A claim has the fields of create_claim.
Shaped(x) ==
  /\ x = [issuer |-> x.issuer, asset |-> x.asset, denomination |-> x.denomination,
          owner |-> x.owner, expiry |-> x.expiry, state |-> x.state]
  /\ x.asset \in Assets

ClaimsOK ==
  /\ DOMAIN claims \cap deleted = {}
  /\ \A c \in DOMAIN claims : Shaped(claims[c])

\* A receipt has the fields of redeem, and waits for approval only if its
\* value is large.
ShapedReceipt(x) ==
  /\ x = [claim |-> x.claim, user |-> x.user, key |-> x.key, amount |-> x.amount,
          rail |-> x.rail, status |-> x.status, created_at |-> x.created_at,
          approvals |-> x.approvals, required |-> x.required]
  /\ x.rail \in Rails
  /\ x.status \in {"pending_approval", "processing", "rejected"}
  /\ x.status = "pending_approval" => Large(x.amount)

\* Its claim was on record, and as long as it is, has the receipt's value.
ReceiptsOK ==
  \A r \in DOMAIN receipts :
    /\ r \in ReceiptIds
    /\ ShapedReceipt(receipts[r])
    /\ receipts[r].claim \in DOMAIN claims \cup deleted
    /\ receipts[r].claim \in DOMAIN claims =>
         receipts[r].amount = claims[receipts[r].claim].denomination

\* The requests that have a receipt are those of the receipts in processing,
\* one each.
RequestsOK ==
  /\ requests \in Seq(Request(ReceiptIds))
  /\ \A i \in Paying :
       /\ requests[i].receipt \in DOMAIN receipts
       /\ receipts[requests[i].receipt].status = "processing"
  /\ \A i, j \in Paying : requests[i].receipt = requests[j].receipt => i = j

FlowInv == ClaimsOK /\ ReceiptsOK /\ RequestsOK /\ SettledIffBurned /\ SmallClaimsPaidOnce

-----------------------------------------------------------------------------
(***************************************************************************)
(* What ClaimNotes does to the claims.                                     *)
(***************************************************************************)

\* Only created claims leave the dictionary; those that stay keep value and
\* asset, those out of "created" keep their owner, ids are never reused, and
\* nothing is unburned, or burned without being recorded as retired.
ClaimsEvolve ==
  /\ ClaimsOK'
  /\ DOMAIN claims \cup deleted \subseteq DOMAIN claims' \cup deleted'
  /\ retired \subseteq retired'
  /\ \A c \in DOMAIN claims :
       claims[c].state # "created" =>
         c \in DOMAIN claims' /\ claims'[c].owner = claims[c].owner
  /\ \A c \in DOMAIN claims :
       claims[c].state = "burned" => c \in DOMAIN claims' /\ claims'[c].state = "burned"
  /\ \A c \in DOMAIN claims' :
       \/ /\ c \in DOMAIN claims
          /\ claims'[c].denomination = claims[c].denomination
          /\ claims'[c].state = "burned" => claims[c].state = "burned" \/ c \in retired'
       \/ c \notin DOMAIN claims \cup deleted /\ claims'[c].state # "burned"

LEMMA ReplacedEvolves ==
  ASSUME ClaimsOK, NEW gone \in SUBSET DOMAIN claims, NEW new,
         DOMAIN new \cap (DOMAIN claims \cup deleted) = {},
         \A c \in gone : claims[c].state = "created",
         \A c \in DOMAIN new : Shaped(new[c]) /\ new[c].state = "created",
         claims' = Replaced(gone, new),
         deleted' = deleted \cup gone,
         retired' = retired
  PROVE  ClaimsEvolve
  <1>1. DOMAIN claims' = (DOMAIN claims \ gone) \cup DOMAIN new
    BY DEF Replaced
  <1>2. \A c \in DOMAIN new : claims'[c] = new[c]
    BY DEF Replaced
  <1>3. \A c \in DOMAIN claims \ gone : claims'[c] = claims[c]
    BY DEF Replaced
  <1>4. ClaimsOK'
    BY <1>1, <1>2, <1>3 DEF ClaimsOK, Shaped
  <1>5. DOMAIN claims \cup deleted \subseteq DOMAIN claims' \cup deleted'
    BY <1>1
  <1> QED
    BY <1>1, <1>2, <1>3, <1>4, <1>5 DEF ClaimsEvolve

LEMMA NewClaimShaped ==
  ASSUME NEW i, NEW a \in Assets, NEW d, NEW o, NEW m
  PROVE  Shaped(NewClaim(i, a, d, o, m)) /\ NewClaim(i, a, d, o, m).state = "created"
  BY DEF Shaped, NewClaim

\* Rewriting the owner or the state of one claim: none is unburned, and one
\* that is burned is retired.
LEMMA UpdateEvolves ==
  ASSUME ClaimsOK, NEW c \in DOMAIN claims, NEW o, NEW s,
         claims[c].state = "burned" => s = "burned",
         s = "burned" => c \in retired',
         retired \subseteq retired',
         claims[c].state = "created" \/ o = claims[c].owner,
         DOMAIN claims' = DOMAIN claims,
         claims'[c] = [claims[c] EXCEPT !.owner = o, !.state = s],
         \A d \in DOMAIN claims : d # c => claims'[d] = claims[d],
         deleted' = deleted
  PROVE  ClaimsEvolve
  <1>1. Shaped(claims[c])
    BY DEF ClaimsOK
  <1>2. /\ Shaped(claims'[c])
        /\ claims'[c].owner = o
        /\ claims'[c].state = s
        /\ claims'[c].denomination = claims[c].denomination
    BY <1>1 DEF Shaped
  <1>3. ClaimsOK'
    BY <1>2 DEF ClaimsOK, Shaped
  <1> QED
    BY <1>2, <1>3 DEF ClaimsEvolve

LEMMA QuietEvolves ==
  ASSUME ClaimsOK, UNCHANGED <<claims, deleted, retired>>
  PROVE  ClaimsEvolve
  BY DEF ClaimsOK, ClaimsEvolve, Shaped

LEMMA MergedCreated ==
  ASSUME NEW ids \in ClaimLists
  PROVE  /\ MergedIds(ids) \subseteq DOMAIN claims
         /\ \A c \in MergedIds(ids) : claims[c].state = "created"
  <1>1. PICK n \in 1..MaxMerge : ids \in [1..n -> ClaimIds]
    BY DEF ClaimLists
  <1>2. n \in Nat
    BY <1>1, ClaimAssumption
  <1>3. ASSUME NEW k \in DOMAIN ids, MergesThrough(ids, k)
        PROVE  ids[k] \in DOMAIN claims /\ claims[ids[k]].state = "created"
    <2>1. k \in 1..k
      BY <1>1, <1>2
    <2> QED
      BY <1>3, <2>1 DEF MergesThrough
  <1> QED
    BY <1>3 DEF MergedIds

LEMMA ClaimStepEvolves ==
  ASSUME ClaimsOK, ClaimNext
  PROVE  ClaimsEvolve
  <1>1. ASSUME NEW id \in ClaimIds, NEW issuer \in Users, NEW owner \in Users,
               NEW asset \in Assets, NEW d, NEW minutes,
               CreateClaim(id, issuer, asset, d, owner, minutes)
        PROVE  ClaimsEvolve
    <2> DEFINE new == [c \in {id} |-> NewClaim(issuer, asset, d, owner, minutes)]
    <2>1. /\ id \notin DOMAIN claims \cup deleted
          /\ claims' = Replaced({}, new) /\ deleted' = deleted \cup {} /\ retired' = retired
      BY <1>1 DEF CreateClaim, FreshIds
    <2>2. \A c \in DOMAIN new : Shaped(new[c]) /\ new[c].state = "created"
      BY NewClaimShaped
    <2> QED
      BY <2>1, <2>2, ReplacedEvolves
  <1>2. ASSUME NEW c \in DOMAIN claims, NEW to_user \in Users, TransferClaim(c, to_user)
        PROVE  ClaimsEvolve
    <2>1. /\ claims[c].state = "created"
          /\ claims' = [claims EXCEPT ![c].owner = to_user, ![c].state = "transferred"]
          /\ deleted' = deleted /\ retired' = retired
      BY <1>2 DEF TransferClaim, Transferable
    <2>2. PICK s : /\ s = "transferred"
                   /\ claims'[c] = [claims[c] EXCEPT !.owner = to_user, !.state = s]
      BY <2>1
    <2>3. s # "burned"
      BY <2>2
    <2> QED
      BY <2>1, <2>2, <2>3, UpdateEvolves
  <1>3. ASSUME NEW c \in DOMAIN claims, NEW ids \in SUBSET FreshIds,
               NEW parts \in [ids -> Denominations], SplitClaim(c, parts)
        PROVE  ClaimsEvolve
    <2> DEFINE new == [p \in DOMAIN parts |->
                        NewClaim(claims[c].issuer, claims[c].asset, parts[p],
                                 claims[c].owner, claims[c].expiry)]
    <2>1. /\ claims[c].state = "created"
          /\ claims' = Replaced({c}, new) /\ deleted' = deleted \cup {c} /\ retired' = retired
          /\ DOMAIN new \cap (DOMAIN claims \cup deleted) = {}
      BY <1>3 DEF SplitClaim, FreshIds
    <2>2. claims[c].asset \in Assets
      BY DEF ClaimsOK, Shaped
    <2>3. \A p \in DOMAIN new : Shaped(new[p]) /\ new[p].state = "created"
      BY <2>2, NewClaimShaped
    <2> QED
      BY <2>1, <2>3, ReplacedEvolves
  <1>4. ASSUME NEW ids \in ClaimLists, MergeFails(ids)
        PROVE  ClaimsEvolve
    <2> DEFINE new == [c \in {} |-> c]
    <2>1. /\ claims' = Replaced(MergedIds(ids), new)
          /\ deleted' = deleted \cup MergedIds(ids) /\ retired' = retired
      BY <1>4 DEF MergeFails
    <2> QED
      BY <2>1, MergedCreated, ReplacedEvolves
  <1>5. ASSUME NEW ids \in ClaimLists, NEW id \in ClaimIds, NEW owner \in Users,
               MergeClaims(ids, id, owner)
        PROVE  ClaimsEvolve
    <2> DEFINE new == [c \in {id} |-> NewClaim(System, claims[ids[1]].asset,
                          Value(claims, MergedIds(ids)), owner, None)]
    <2>1. /\ claims' = Replaced(MergedIds(ids), new)
          /\ deleted' = deleted \cup MergedIds(ids) /\ retired' = retired
          /\ id \notin DOMAIN claims \cup deleted
          /\ MergesThrough(ids, Len(ids))
      BY <1>5 DEF MergeClaims, FreshIds
    <2>2. claims[ids[1]].asset \in Assets
      <3>1. PICK n \in 1..MaxMerge : ids \in [1..n -> ClaimIds]
        BY DEF ClaimLists
      <3>2. n \in Nat /\ n >= 1
        BY <3>1, ClaimAssumption
      <3>3. ids \in Seq(ClaimIds) /\ Len(ids) = n
        BY <3>1, <3>2
      <3>4. ids[1] \in DOMAIN claims
        BY <2>1, <3>2, <3>3 DEF MergesThrough
      <3> QED
        BY <3>4 DEF ClaimsOK, Shaped
    <2>3. \A c \in DOMAIN new : Shaped(new[c]) /\ new[c].state = "created"
      BY <2>2, NewClaimShaped
    <2> QED
      BY <2>1, <2>3, MergedCreated, ReplacedEvolves
  <1>6. ASSUME NEW c \in DOMAIN claims, NEW issuer_id \in Users \cup {System},
               RevokeClaim(c, issuer_id)
        PROVE  ClaimsEvolve
    <2>1. /\ claims[c].state # "burned"
          /\ claims' = [claims EXCEPT ![c].state = "revoked"]
          /\ deleted' = deleted /\ retired' = retired
      BY <1>6 DEF RevokeClaim, Revocable
    <2>2. claims'[c] = [claims[c] EXCEPT !.owner = claims[c].owner, !.state = "revoked"]
      BY <2>1 DEF ClaimsOK, Shaped
    <2> QED
      BY <2>1, <2>2, UpdateEvolves
  <1>7. CASE Tick
    BY <1>7, QuietEvolves DEF Tick
  <1>8. ASSUME NEW c \in DOMAIN claims, BurnClaim(c)
        PROVE  ClaimsEvolve
    <2>1. /\ claims' = [claims EXCEPT ![c].state = "burned"]
          /\ retired' = retired \cup {c}
          /\ deleted' = deleted
      BY <1>8 DEF BurnClaim, Burned
    <2>2. claims'[c] = [claims[c] EXCEPT !.owner = claims[c].owner, !.state = "burned"]
      BY <2>1 DEF ClaimsOK, Shaped
    <2> QED
      BY <2>1, <2>2, UpdateEvolves
  <1>9. CASE ClaimCall
    BY <1>2, <1>3, <1>4, <1>5, <1>6, <1>8, <1>9 DEF ClaimCall
  <1> QED
    BY <1>1, <1>7, <1>9 DEF ClaimNext, CreateNext

\* The flow's invariant survives whatever ClaimNotes does.
LEMMA ClaimsFlowStep ==
  ASSUME FlowInv, ClaimsEvolve, UNCHANGED <<requests, receipts>>
  PROVE  FlowInv'
  <1>1. ClaimsOK'
    BY DEF ClaimsEvolve
  <1>2. ReceiptsOK'
    BY DEF FlowInv, ReceiptsOK, ClaimsEvolve, ShapedReceipt, Large
  <1>3. RequestsOK'
    BY DEF FlowInv, RequestsOK, Paying
  <1>4. SettledIffBurned'
    BY DEF FlowInv, SettledIffBurned, ClaimsEvolve, ClaimOf, Paying
  <1>5. SmallClaimsPaidOnce'
    BY DEF FlowInv, SettledIffBurned, SmallClaimsPaidOnce, ClaimsEvolve, ClaimOf, Paying
  <1> QED
    BY <1>1, <1>2, <1>3, <1>4, <1>5 DEF FlowInv

-----------------------------------------------------------------------------
(***************************************************************************)
(* Settlement keeps the receipt of every request.                          *)
(***************************************************************************)

\* Appending a request.
LEMMA SubmitFacts ==
  ASSUME requests \in Seq(Request(ReceiptIds)), NEW r \in ReceiptIds \cup {NoReceipt},
         NEW rail \in Rails, SubmitRequest(r, rail)
  PROVE  /\ requests' \in Seq(Request(ReceiptIds))
         /\ Len(requests) \in Nat
         /\ DOMAIN requests = 1..Len(requests)
         /\ DOMAIN requests' = 1..(Len(requests) + 1)
         /\ \A i \in DOMAIN requests : requests'[i] = requests[i]
         /\ requests'[Len(requests) + 1].receipt = r
         /\ Len(requests) + 1 \notin DOMAIN requests
  <1> DEFINE req == [receipt |-> r, rail |-> rail, status |-> "pending"]
  <1>1. req \in Request(ReceiptIds)
    BY DEF Request
  <1>2. requests' = Append(requests, req)
    BY DEF SubmitRequest
  <1>3. req.receipt = r
    OBVIOUS
  <1> HIDE DEF req
  <1>4. Len(requests) \in Nat /\ DOMAIN requests = 1..Len(requests)
    OBVIOUS
  <1> QED
    BY <1>1, <1>2, <1>3, <1>4

\* No step of the engine itself adds, drops or changes a request that has a
\* receipt, but for its status.
LEMMA SettlementKeeps ==
  ASSUME requests \in Seq(Request(ReceiptIds)), SettlementNext
  PROVE  /\ requests' \in Seq(Request(ReceiptIds))
         /\ Paying' = Paying
         /\ \A i \in Paying : requests'[i].receipt = requests[i].receipt
  <1>1. CASE UNCHANGED requests
    BY <1>1 DEF Paying
  <1>2. ASSUME NEW rail \in Rails, BuildBatch(rail)
        PROVE  /\ requests' \in Seq(Request(ReceiptIds))
               /\ Paying' = Paying
               /\ \A i \in Paying : requests'[i].receipt = requests[i].receipt
    <2>1. requests' = Batched(Collected(rail))
      BY <1>2 DEF BuildBatch
    <2>2. /\ Len(requests) \in Nat /\ DOMAIN requests = 1..Len(requests)
          /\ \A i \in DOMAIN requests : requests[i] \in Request(ReceiptIds)
      OBVIOUS
    <2>3. \A i \in DOMAIN requests :
            /\ requests'[i] \in Request(ReceiptIds)
            /\ requests'[i].receipt = requests[i].receipt
      BY <2>1, <2>2 DEF Batched, Request
    <2>4. DOMAIN requests' = 1..Len(requests) /\
            requests' = [i \in 1..Len(requests) |-> requests'[i]]
      BY <2>1, <2>2 DEF Batched
    <2>5. requests' \in Seq(Request(ReceiptIds))
      BY <2>2, <2>3, <2>4
    <2> QED
      BY <2>2, <2>3, <2>4, <2>5 DEF Paying
  <1>3. ASSUME NEW rail \in Rails, SubmitDirectly(rail)
        PROVE  /\ requests' \in Seq(Request(ReceiptIds))
               /\ Paying' = Paying
               /\ \A i \in Paying : requests'[i].receipt = requests[i].receipt
    <2> DEFINE n == Len(requests) + 1
    <2>1. SubmitRequest(NoReceipt, rail)
      BY <1>3 DEF SubmitDirectly
    <2>2. /\ requests' \in Seq(Request(ReceiptIds))
          /\ Len(requests) \in Nat
          /\ DOMAIN requests = 1..Len(requests)
          /\ DOMAIN requests' = 1..n
          /\ \A i \in DOMAIN requests : requests'[i] = requests[i]
          /\ requests'[n].receipt = NoReceipt
          /\ n \notin DOMAIN requests
      BY <2>1, SubmitFacts
    <2>3. DOMAIN requests' = DOMAIN requests \cup {n}
      BY <2>2
    <2> HIDE DEF n
    <2> QED
      BY <2>2, <2>3 DEF Paying
  <1> QED
    BY <1>1, <1>2, <1>3
    DEF SettlementNext, ApproveBatch, BroadcastBatch, ConfirmBatch, SetStatus

LEMMA SettlementFlowStep ==
  ASSUME FlowInv, SettlementNext, UNCHANGED <<claimVars, receipts>>
  PROVE  FlowInv'
  <1>1. /\ requests' \in Seq(Request(ReceiptIds))
        /\ Paying' = Paying
        /\ \A i \in Paying : requests'[i].receipt = requests[i].receipt
    BY SettlementKeeps DEF FlowInv, RequestsOK
  <1>2. /\ claims' = claims /\ deleted' = deleted /\ retired' = retired
        /\ receipts' = receipts
    BY DEF claimVars
  <1>3. ClaimsOK' /\ ReceiptsOK'
    BY <1>2 DEF FlowInv, ClaimsOK, ReceiptsOK, Shaped, ShapedReceipt, Large
  <1>4. RequestsOK'
    BY <1>1, <1>2 DEF FlowInv, RequestsOK
  <1>5. SettledIffBurned' /\ SmallClaimsPaidOnce'
    BY <1>1, <1>2 DEF FlowInv, SettledIffBurned, SmallClaimsPaidOnce, ClaimOf, Large
  <1> QED
    BY <1>3, <1>4, <1>5 DEF FlowInv

-----------------------------------------------------------------------------
(***************************************************************************)
(* Receipts.                                                               *)
(***************************************************************************)

\* A receipt with no request yet is paid: it is in processing after the step,
\* its claim was on record and is burned by it.  If the amount is small the
\* claim was not burned before and belongs to the receipt's user.
LEMMA SettleStep ==
  ASSUME FlowInv, NEW r \in ReceiptIds, NEW c, NEW rail \in Rails,
         Settle(r, c, rail),
         DOMAIN receipts' = DOMAIN receipts \cup {r},
         \A q \in DOMAIN receipts : q # r => receipts'[q] = receipts[q],
         r \in DOMAIN receipts => receipts[r].status # "processing",
         ReceiptsOK',
         receipts'[r].claim = c,
         receipts'[r].status = "processing",
         ~Large(receipts'[r].amount) =>
           claims[c].state # "burned" /\ claims[c].owner = receipts'[r].user
  PROVE  FlowInv'
  <1> DEFINE n == Len(requests) + 1
  <1>1. /\ c \in DOMAIN claims
        /\ claims' = [claims EXCEPT ![c].state = "burned"]
        /\ deleted' = deleted /\ retired' = retired
        /\ SubmitRequest(r, rail)
    BY DEF Settle, Burned
  <1>2. Shaped(claims[c])
    BY <1>1 DEF FlowInv, ClaimsOK
  <1>3. /\ DOMAIN claims' = DOMAIN claims
        /\ claims'[c] = [claims[c] EXCEPT !.state = "burned"]
        /\ \A d \in DOMAIN claims : d # c => claims'[d] = claims[d]
    BY <1>1
  <1>4. /\ claims'[c].state = "burned"
        /\ claims'[c].owner = claims[c].owner
        /\ Shaped(claims'[c])
    BY <1>2, <1>3 DEF Shaped
  <1>5. /\ requests' \in Seq(Request(ReceiptIds))
        /\ n \in Nat
        /\ DOMAIN requests = 1..(n - 1) /\ DOMAIN requests' = 1..n
        /\ \A i \in DOMAIN requests : requests'[i] = requests[i]
        /\ requests'[n].receipt = r
    BY <1>1, SubmitFacts DEF FlowInv, RequestsOK
  <1>6. /\ n \in Paying' /\ n \notin Paying
        /\ \A i \in Paying' : (i = n \/ i \in Paying)
        /\ Paying \subseteq Paying'
        /\ \A i \in Paying : requests'[i] = requests[i]
    <2>1. /\ n \in DOMAIN requests' /\ n \notin DOMAIN requests
          /\ \A i \in DOMAIN requests' : (i = n \/ i \in DOMAIN requests)
          /\ DOMAIN requests \subseteq DOMAIN requests'
      BY <1>5
    <2>2. requests'[n].receipt # NoReceipt
      BY <1>5, RedemptionAssumption
    <2> HIDE DEF n
    <2> QED
      BY <1>5, <2>1, <2>2 DEF Paying
  <1> HIDE DEF n
  <1>7. \A i \in Paying :
          requests[i].receipt \in DOMAIN receipts /\ requests[i].receipt # r
    BY DEF FlowInv, RequestsOK
  <1>8. /\ receipts'[requests'[n].receipt] = receipts'[r]
        /\ \A i \in Paying :
             receipts'[requests'[i].receipt] = receipts[requests[i].receipt]
    BY <1>5, <1>6, <1>7
  <1>9. ClaimsOK'
    BY <1>1, <1>3, <1>4 DEF FlowInv, ClaimsOK, Shaped
  <1>10. RequestsOK'
    BY <1>5, <1>6, <1>7 DEF FlowInv, RequestsOK
  <1>11. SettledIffBurned'
    <2>1. \A i \in Paying' :
            LET d == receipts'[requests'[i].receipt].claim
            IN d \in DOMAIN claims' /\ claims'[d].state = "burned"
      BY <1>1, <1>3, <1>4, <1>6, <1>8 DEF FlowInv, SettledIffBurned, ClaimOf
    <2>2. \A d \in DOMAIN claims' \ retired' : claims'[d].state = "burned" =>
            \E i \in Paying' : receipts'[requests'[i].receipt].claim = d
      BY <1>1, <1>3, <1>6, <1>8 DEF FlowInv, SettledIffBurned, ClaimOf
    <2> QED
      BY <2>1, <2>2 DEF SettledIffBurned, ClaimOf
  <1>12. claims[c].denomination = receipts'[r].amount
    <2>1. r \in DOMAIN receipts' /\ c \in DOMAIN claims'
      BY <1>1, <1>3
    <2>2. claims'[c].denomination = claims[c].denomination
      BY <1>2, <1>3 DEF Shaped
    <2> QED
      BY <2>1, <2>2 DEF ReceiptsOK
  <1>13. ASSUME NEW i \in Paying, receipts[requests[i].receipt].claim = c
         PROVE  Large(receipts'[r].amount) /\ Large(receipts[requests[i].receipt].amount)
    <2>1. receipts[requests[i].receipt].amount = receipts'[r].amount
      BY <1>1, <1>7, <1>12, <1>13 DEF FlowInv, ReceiptsOK
    <2>2. claims[c].state = "burned"
      BY <1>13 DEF FlowInv, SettledIffBurned, ClaimOf
    <2> QED
      BY <2>1, <2>2
  <1>14. SmallClaimsPaidOnce'
    <2> SUFFICES ASSUME NEW i \in Paying',
                        ~Large(receipts'[requests'[i].receipt].amount)
                 PROVE  LET x == receipts'[requests'[i].receipt]
                        IN /\ claims'[x.claim].owner = x.user
                           /\ \A j \in Paying' :
                                receipts'[requests'[j].receipt].claim = x.claim => j = i
      BY DEF SmallClaimsPaidOnce, ClaimOf, Large
    <2>1. CASE i = n
      <3>1. claims'[c].owner = receipts'[r].user
        BY <1>4, <1>8, <2>1
      <3>2. \A j \in Paying : receipts[requests[j].receipt].claim # c
        BY <1>8, <1>13, <2>1
      <3> QED
        BY <1>6, <1>8, <2>1, <3>1, <3>2
    <2>2. CASE i \in Paying
      <3> DEFINE x == receipts[requests[i].receipt]
      <3>1. receipts'[requests'[i].receipt] = x /\ ~Large(x.amount)
        BY <1>8, <2>2
      <3>2. /\ x.claim \in DOMAIN claims
            /\ claims[x.claim].owner = x.user
            /\ \A j \in Paying :
                 receipts[requests[j].receipt].claim = x.claim => j = i
        BY <2>2, <3>1 DEF FlowInv, SettledIffBurned, SmallClaimsPaidOnce, ClaimOf
      <3>3. x.claim # c
        BY <1>13, <2>2, <3>1
      <3>4. claims'[x.claim] = claims[x.claim]
        BY <1>3, <3>2, <3>3
      <3> QED
        BY <1>6, <1>8, <3>1, <3>2, <3>3, <3>4
    <2> QED
      BY <1>6, <2>1, <2>2
  <1> QED
    BY <1>9, <1>10, <1>11, <1>14 DEF FlowInv

\* A step that pays nothing: requests and claims stand still, the receipts in
\* processing are untouched, and the others keep their claim and amount.
LEMMA UnpaidStep ==
  ASSUME FlowInv, UNCHANGED <<claims, deleted, retired, requests>>, ReceiptsOK',
         DOMAIN receipts \subseteq DOMAIN receipts',
         \A r \in DOMAIN receipts :
           receipts[r].status = "processing" => receipts'[r] = receipts[r]
  PROVE  FlowInv'
  <1>1. ClaimsOK'
    BY DEF FlowInv, ClaimsOK, Shaped
  <1>2. \A i \in Paying :
          /\ requests[i].receipt \in DOMAIN receipts'
          /\ receipts'[requests[i].receipt] = receipts[requests[i].receipt]
          /\ receipts'[requests[i].receipt].status = "processing"
    BY DEF FlowInv, RequestsOK
  <1>3. RequestsOK'
    BY <1>2 DEF FlowInv, RequestsOK, Paying
  <1>4. SettledIffBurned' /\ SmallClaimsPaidOnce'
    BY <1>2 DEF FlowInv, SettledIffBurned, SmallClaimsPaidOnce, ClaimOf, Large, Paying
  <1> QED
    BY <1>1, <1>3, <1>4 DEF FlowInv

\* No claim comes, goes or changes value.
ValuesKept ==
  /\ DOMAIN claims' = DOMAIN claims
  /\ deleted' = deleted
  /\ \A c \in DOMAIN claims : claims'[c].denomination = claims[c].denomination

\* A receipt for the same claim and amount.
SameDebt(x, y) == ShapedReceipt(y) /\ y.claim = x.claim /\ y.amount = x.amount

\* Updating one receipt keeps the receipts in order.
LEMMA UpdatedReceipt ==
  ASSUME ReceiptsOK, NEW r \in DOMAIN receipts,
         DOMAIN receipts' = DOMAIN receipts,
         SameDebt(receipts[r], receipts'[r]),
         \A q \in DOMAIN receipts : q # r => receipts'[q] = receipts[q],
         ValuesKept
  PROVE  ReceiptsOK'
  BY DEF ReceiptsOK, ValuesKept, ShapedReceipt, Large, SameDebt

\* Burning keeps the dictionary and the denominations.
LEMMA SettleFacts ==
  ASSUME ClaimsOK, NEW r, NEW c, NEW rail, Settle(r, c, rail)
  PROVE  /\ c \in DOMAIN claims
         /\ ValuesKept
  BY DEF Settle, Burned, ClaimsOK, Shaped, ValuesKept

\* Adding a receipt for a claim on record, valued as the claim is.
LEMMA AddedReceipt ==
  ASSUME FlowInv, NEW r \in ReceiptIds, r \notin DOMAIN receipts,
         NEW c \in DOMAIN claims, NEW user, NEW key, NEW chain \in Chains, NEW st,
         st = (IF Large(claims[c].denomination) THEN "pending_approval" ELSE "processing"),
         AddReceipt(r, c, user, key, chain, st), ValuesKept
  PROVE  /\ ReceiptsOK'
         /\ DOMAIN receipts' = DOMAIN receipts \cup {r}
         /\ \A q \in DOMAIN receipts : receipts'[q] = receipts[q]
         /\ receipts'[r].claim = c /\ receipts'[r].status = st
         /\ receipts'[r].user = user /\ receipts'[r].key = key
         /\ receipts'[r].amount = claims[c].denomination
         /\ <<claims[c].asset, chain>> \in Rails
  <1>1. <<claims[c].asset, chain>> \in Rails
    BY RedemptionAssumption DEF FlowInv, ClaimsOK, Shaped
  <1>2. /\ DOMAIN receipts' = DOMAIN receipts \cup {r}
        /\ \A q \in DOMAIN receipts : receipts'[q] = receipts[q]
        /\ receipts'[r] = [claim |-> c, user |-> user, key |-> key,
                           amount |-> claims[c].denomination,
                           rail |-> <<claims[c].asset, chain>>, status |-> st,
                           created_at |-> now, approvals |-> <<>>, required |-> 0]
    BY DEF AddReceipt
  <1>3. ShapedReceipt(receipts'[r]) /\ receipts'[r].claim = c
        /\ receipts'[r].amount = claims[c].denomination
    BY <1>1, <1>2 DEF ShapedReceipt
  <1>4. ReceiptsOK'
    BY <1>2, <1>3 DEF FlowInv, ReceiptsOK, ValuesKept, ShapedReceipt, Large
  <1> QED
    BY <1>1, <1>2, <1>3, <1>4

LEMMA RedeemStep ==
  ASSUME FlowInv, NEW r \in ReceiptIds, NEW c \in DOMAIN claims, NEW user \in Users,
         NEW key \in Keys, NEW chain \in Chains, Redeem(r, c, user, key, chain)
  PROVE  FlowInv'
  <1>1. r \notin DOMAIN receipts /\ Redeemable(c, user)
    BY DEF Redeem
  <1>2. CASE /\ Large(claims[c].denomination)
             /\ AddReceipt(r, c, user, key, chain, "pending_approval")
             /\ UNCHANGED <<claimVars, settlementVars>>
    <2>1. UNCHANGED <<claims, deleted, retired, requests>> /\ ValuesKept
      BY <1>2 DEF claimVars, settlementVars, ValuesKept
    <2>2. /\ ReceiptsOK'
          /\ DOMAIN receipts' = DOMAIN receipts \cup {r}
          /\ \A q \in DOMAIN receipts : receipts'[q] = receipts[q]
      BY <1>1, <1>2, <2>1, AddedReceipt
    <2> QED
      BY <2>1, <2>2, UnpaidStep
  <1>3. CASE /\ ~Large(claims[c].denomination)
             /\ AddReceipt(r, c, user, key, chain, "processing")
             /\ Settle(r, c, <<claims[c].asset, chain>>)
    <2>1. ValuesKept
      <3>1. ClaimsOK
        BY DEF FlowInv
      <3> QED
        BY <1>3, <3>1, SettleFacts
    <2>2. /\ ReceiptsOK'
          /\ DOMAIN receipts' = DOMAIN receipts \cup {r}
          /\ \A q \in DOMAIN receipts : receipts'[q] = receipts[q]
          /\ receipts'[r].claim = c /\ receipts'[r].status = "processing"
          /\ receipts'[r].user = user
          /\ <<claims[c].asset, chain>> \in Rails
      <3>1. PICK st : /\ st = (IF Large(claims[c].denomination) THEN "pending_approval"
                                                                ELSE "processing")
                      /\ st = "processing"
                      /\ AddReceipt(r, c, user, key, chain, st)
        BY <1>3
      <3>2. /\ ReceiptsOK'
            /\ DOMAIN receipts' = DOMAIN receipts \cup {r}
            /\ \A q \in DOMAIN receipts : receipts'[q] = receipts[q]
            /\ receipts'[r].claim = c /\ receipts'[r].status = st
            /\ receipts'[r].user = user
            /\ <<claims[c].asset, chain>> \in Rails
        BY <1>1, <2>1, <3>1, AddedReceipt
      <3> QED
        BY <3>1, <3>2
    <2>3. claims[c].state # "burned" /\ claims[c].owner = user
      BY <1>1 DEF Redeemable
    <2> QED
      BY <1>1, <1>3, <2>2, <2>3, SettleStep
  <1> QED
    BY <1>2, <1>3 DEF Redeem

LEMMA DecideStep ==
  ASSUME FlowInv, NEW r \in DOMAIN receipts,
         \/ \E operator \in Operators, required \in RequiredArgs :
              ApproveRedemption(r, operator, required)
         \/ RejectRedemption(r)
  PROVE  FlowInv'
  <1>1. /\ ReceiptsOK /\ ClaimsOK
        /\ r \in ReceiptIds /\ receipts[r].rail \in Rails
        /\ ShapedReceipt(receipts[r])
    BY DEF FlowInv, ReceiptsOK, ShapedReceipt
  <1>2. CASE RejectRedemption(r)
    <2>1. /\ receipts[r].status = "pending_approval"
          /\ receipts' = [receipts EXCEPT ![r].status = "rejected"]
          /\ UNCHANGED <<claims, deleted, retired, requests>> /\ ValuesKept
      BY <1>2 DEF RejectRedemption, claimVars, settlementVars, ValuesKept
    <2>2. SameDebt(receipts[r], receipts'[r])
      BY <1>1, <2>1 DEF SameDebt, ShapedReceipt
    <2>3. ReceiptsOK'
      BY <1>1, <2>1, <2>2, UpdatedReceipt
    <2> QED
      BY <2>1, <2>3, UnpaidStep
  <1>3. ASSUME NEW operator \in Operators, NEW required \in RequiredArgs,
               ApproveRedemption(r, operator, required)
        PROVE  FlowInv'
    <2>1. receipts[r].status = "pending_approval" /\ Large(receipts[r].amount)
      BY <1>1, <1>3 DEF ApproveRedemption, Undecided, ReceiptsOK, ShapedReceipt
    <2>2. PICK approvals : approvals = Append(receipts[r].approvals, operator)
      OBVIOUS
    <2>3. CASE /\ receipts' = [receipts EXCEPT ![r].approvals = approvals]
               /\ UNCHANGED <<claimVars, settlementVars>>
      <3>1. UNCHANGED <<claims, deleted, retired, requests>> /\ ValuesKept
        BY <2>3 DEF claimVars, settlementVars, ValuesKept
      <3>2. SameDebt(receipts[r], receipts'[r])
        BY <1>1, <2>1, <2>3 DEF SameDebt, ShapedReceipt
      <3>3. ReceiptsOK'
        BY <1>1, <2>3, <3>1, <3>2, UpdatedReceipt
      <3> QED
        BY <2>1, <2>3, <3>1, <3>3, UnpaidStep
    <2>4. CASE /\ Settle(r, receipts[r].claim, receipts[r].rail)
               /\ receipts' = [receipts EXCEPT ![r].approvals = approvals,
                                               ![r].status = "processing",
                                               ![r].required = required]
      <3>1. ValuesKept
        BY <1>1, <2>4, SettleFacts
      <3>2. DOMAIN receipts' = DOMAIN receipts
            /\ \A q \in DOMAIN receipts : q # r => receipts'[q] = receipts[q]
        BY <2>4
      <3>3. /\ SameDebt(receipts[r], receipts'[r])
            /\ receipts'[r].status = "processing"
        BY <1>1, <2>1, <2>4 DEF SameDebt, ShapedReceipt
      <3>4. ReceiptsOK'
        BY <1>1, <3>1, <3>2, <3>3, UpdatedReceipt
      <3> QED
        BY <1>1, <2>1, <2>4, <3>2, <3>3, <3>4, SettleStep DEF Large, SameDebt
    <2> QED
      BY <1>3, <2>2, <2>3, <2>4 DEF ApproveRedemption
  <1> QED
    BY <1>2, <1>3

-----------------------------------------------------------------------------
(***************************************************************************)
(* The theorems.                                                           *)
(***************************************************************************)

LEMMA InitFlowInv == Init => FlowInv
  <1> SUFFICES ASSUME Init PROVE FlowInv
    OBVIOUS
  <1>1. requests = <<>> /\ receipts = [r \in {} |-> r] /\ claims = [c \in {} |-> c]
    BY DEF Init, SettlementInit, ClaimInit
  <1>2. ClaimsOK /\ ReceiptsOK
    BY <1>1 DEF ClaimsOK, ReceiptsOK
  <1>3. RequestsOK
    BY <1>1 DEF RequestsOK, Paying
  <1>4. SettledIffBurned /\ SmallClaimsPaidOnce
    BY <1>1 DEF SettledIffBurned, SmallClaimsPaidOnce, Paying
  <1> QED
    BY <1>2, <1>3, <1>4 DEF FlowInv

LEMMA FlowInvStep == FlowInv /\ [Next]_vars => FlowInv'
  <1> SUFFICES ASSUME FlowInv, [Next]_vars PROVE FlowInv'
    OBVIOUS
  <1>1. ClaimsOK
    BY DEF FlowInv
  <1>2. CASE UNCHANGED vars
    BY <1>1, <1>2, QuietEvolves, ClaimsFlowStep DEF vars, claimVars, settlementVars
  <1>3. CASE ClaimNext /\ UNCHANGED <<settlementVars, receipts>>
    BY <1>1, <1>3, ClaimStepEvolves, ClaimsFlowStep DEF settlementVars
  <1>4. CASE SettlementNext /\ UNCHANGED <<claimVars, receipts>>
    BY <1>4, SettlementFlowStep
  <1>5. CASE RedemptionNext
    BY <1>5, RedeemStep, DecideStep DEF RedemptionNext
  <1> QED
    BY <1>2, <1>3, <1>4, <1>5 DEF Next

\* Every settlement request of a receipt stands for a burned claim on record,
\* and every claim burned otherwise than by burn_claim itself for such a
\* request.  The transfers, splits, merges, revocations, burns and expiries of
\* any number of claims, and requests submitted without a receipt, cannot
\* break this.
THEOREM RedemptionSound == Spec => []SettledIffBurned
  <1>1. FlowInv => SettledIffBurned
    BY DEF FlowInv
  <1> QED
    BY <1>1, InitFlowInv, FlowInvStep, PTL DEF Spec

\* A claim below the approval threshold is paid to its owner and only once,
\* though nothing locks it between two calls.
THEOREM SmallPaidOnce == Spec => []SmallClaimsPaidOnce
  <1>1. FlowInv => SmallClaimsPaidOnce
    BY DEF FlowInv
  <1> QED
    BY <1>1, InitFlowInv, FlowInvStep, PTL DEF Spec

\* A new receipt has a new key; no step changes the key of an old one.
LEMMA KeyStep ==
  ASSUME FlowInv, OneReceiptPerKey, [Next]_vars
  PROVE  OneReceiptPerKey'
  <1>1. ASSUME DOMAIN receipts' = DOMAIN receipts,
               \A r \in DOMAIN receipts : receipts'[r].key = receipts[r].key
        PROVE  OneReceiptPerKey'
    BY <1>1 DEF OneReceiptPerKey
  <1>2. CASE UNCHANGED receipts
    BY <1>1, <1>2
  <1>3. ASSUME NEW r \in ReceiptIds, NEW c \in DOMAIN claims, NEW user \in Users,
               NEW key \in Keys, NEW chain \in Chains, Redeem(r, c, user, key, chain)
        PROVE  OneReceiptPerKey'
    <2>1. /\ r \notin DOMAIN receipts
          /\ \A q \in DOMAIN receipts : receipts[q].key # key
          /\ \/ AddReceipt(r, c, user, key, chain, "pending_approval")
             \/ AddReceipt(r, c, user, key, chain, "processing")
      BY <1>3 DEF Redeem, KeyUnknown
    <2>2. /\ DOMAIN receipts' = DOMAIN receipts \cup {r}
          /\ receipts'[r].key = key
          /\ \A q \in DOMAIN receipts : receipts'[q] = receipts[q]
      BY <2>1 DEF AddReceipt
    <2> QED
      BY <2>1, <2>2 DEF OneReceiptPerKey
  <1>4. ASSUME NEW r \in DOMAIN receipts,
               \/ \E operator \in Operators, required \in RequiredArgs :
                    ApproveRedemption(r, operator, required)
               \/ RejectRedemption(r)
        PROVE  OneReceiptPerKey'
    <2>1. ShapedReceipt(receipts[r])
      BY DEF FlowInv, ReceiptsOK
    <2>2. CASE RejectRedemption(r)
      <3>1. receipts' = [receipts EXCEPT ![r].status = "rejected"]
        BY <2>2 DEF RejectRedemption
      <3>2. receipts'[r].key = receipts[r].key
        BY <2>1, <3>1 DEF ShapedReceipt
      <3> QED
        BY <1>1, <3>1, <3>2
    <2>3. ASSUME NEW operator \in Operators, NEW required \in RequiredArgs,
                 ApproveRedemption(r, operator, required)
          PROVE  OneReceiptPerKey'
      <3>1. PICK a, st : a = Append(receipts[r].approvals, operator) /\ st = "processing"
        OBVIOUS
      <3>2. \/ receipts' = [receipts EXCEPT ![r].approvals = a, ![r].status = st,
                                             ![r].required = required]
            \/ receipts' = [receipts EXCEPT ![r].approvals = a]
        BY <2>3, <3>1 DEF ApproveRedemption
      <3>3. DOMAIN receipts' = DOMAIN receipts
            /\ \A q \in DOMAIN receipts : q # r => receipts'[q] = receipts[q]
        BY <3>2
      <3>4. receipts'[r].key = receipts[r].key
        BY <2>1, <3>2 DEF ShapedReceipt
      <3> QED
        BY <1>1, <3>3, <3>4
    <2> QED
      BY <1>4, <2>2, <2>3
  <1> QED
    BY <1>2, <1>3, <1>4 DEF Next, vars, RedemptionNext

\* Retrying redeem with one key never yields two receipts.
THEOREM KeysAreIdempotent == Spec => []OneReceiptPerKey
  <1>1. Init => OneReceiptPerKey
    BY DEF Init, OneReceiptPerKey
  <1>2. FlowInv /\ OneReceiptPerKey /\ [Next]_vars => OneReceiptPerKey'
    BY KeyStep
  <1> QED
    BY <1>1, <1>2, InitFlowInv, FlowInvStep, PTL DEF Spec

-----------------------------------------------------------------------------
(***************************************************************************)
(* The flow implements Payouts.                                            *)
(***************************************************************************)

\* The refinement mapping, named.
statusOf == [r \in DOMAIN receipts |-> PayoutStatus(receipts[r].status)]
paymentsOf == [r \in ReceiptIds |->
                 Cardinality({i \in DOMAIN requests : requests[i].receipt = r})]

\* One more request of receipt r is one more payment of r.
LEMMA PaymentAdded ==
  ASSUME FlowInv, NEW r \in ReceiptIds, NEW rail \in Rails, SubmitRequest(r, rail)
  PROVE  paymentsOf' = [paymentsOf EXCEPT ![r] = @ + 1]
  <1> DEFINE n == Len(requests) + 1
             Of(q) == {i \in DOMAIN requests : requests[i].receipt = q}
             OfAfter(q) == {i \in DOMAIN requests' : requests'[i].receipt = q}
  <1>1. /\ Len(requests) \in Nat
        /\ DOMAIN requests = 1..Len(requests)
        /\ DOMAIN requests' = 1..n
        /\ \A i \in DOMAIN requests : requests'[i] = requests[i]
        /\ requests'[n].receipt = r
        /\ n \notin DOMAIN requests
    BY SubmitFacts DEF FlowInv, RequestsOK
  <1>2. DOMAIN requests' = DOMAIN requests \cup {n}
    BY <1>1
  <1>3. IsFiniteSet(DOMAIN requests)
    BY <1>1, FS_Interval
  <1>4. \A q \in ReceiptIds : IsFiniteSet(Of(q)) /\ n \notin Of(q)
    BY <1>1, <1>3, FS_Subset
  <1> HIDE DEF n
  <1>5. OfAfter(r) = Of(r) \cup {n} /\ \A q \in ReceiptIds : q # r => OfAfter(q) = Of(q)
    BY <1>1, <1>2
  <1>6. /\ paymentsOf = [q \in ReceiptIds |-> Cardinality(Of(q))]
        /\ paymentsOf' = [q \in ReceiptIds |-> Cardinality(OfAfter(q))]
    BY DEF paymentsOf
  <1> HIDE DEF Of, OfAfter
  <1>7. Cardinality(OfAfter(r)) = Cardinality(Of(r)) + 1
    BY <1>4, <1>5, FS_AddElement
  <1> QED
    BY <1>5, <1>6, <1>7

LEMMA RedeemImplements ==
  ASSUME FlowInv, NEW r \in ReceiptIds, NEW c \in DOMAIN claims, NEW user \in Users,
         NEW key \in Keys, NEW chain \in Chains, Redeem(r, c, user, key, chain)
  PROVE  Abstract!Next
  <1>1. r \notin DOMAIN statusOf
    BY DEF Redeem, statusOf
  <1>2. ASSUME NEW st, AddReceipt(r, c, user, key, chain, st), r \notin DOMAIN receipts
        PROVE  statusOf' = [q \in DOMAIN statusOf \cup {r} |->
                              IF q = r THEN PayoutStatus(st) ELSE statusOf[q]]
    BY <1>2 DEF AddReceipt, statusOf
  <1>3. CASE /\ AddReceipt(r, c, user, key, chain, "pending_approval")
             /\ UNCHANGED settlementVars
    <2>1. paymentsOf' = paymentsOf
      BY <1>3 DEF settlementVars, paymentsOf
    <2>2. statusOf' = [q \in DOMAIN statusOf \cup {r} |->
                         IF q = r THEN "waiting" ELSE statusOf[q]]
      <3>1. PayoutStatus("pending_approval") = "waiting" /\ r \notin DOMAIN receipts
        BY <1>1 DEF PayoutStatus, statusOf
      <3> QED
        BY <1>2, <1>3, <3>1
    <2>3. Abstract!Issue(r, "waiting")
      BY <1>1, <2>1, <2>2 DEF Abstract!Issue, Abstract!PaidIf, statusOf, paymentsOf
    <2> QED
      BY <2>3 DEF Abstract!Next
  <1>4. CASE /\ AddReceipt(r, c, user, key, chain, "processing")
             /\ Settle(r, c, <<claims[c].asset, chain>>)
    <2>1. <<claims[c].asset, chain>> \in Rails
      BY RedemptionAssumption DEF FlowInv, ClaimsOK, Shaped
    <2>2. paymentsOf' = [paymentsOf EXCEPT ![r] = @ + 1]
      BY <1>4, <2>1, PaymentAdded DEF Settle
    <2>3. statusOf' = [q \in DOMAIN statusOf \cup {r} |->
                         IF q = r THEN "paid" ELSE statusOf[q]]
      <3>1. PayoutStatus("processing") = "paid" /\ r \notin DOMAIN receipts
        BY <1>1 DEF PayoutStatus, statusOf
      <3> QED
        BY <1>2, <1>4, <3>1
    <2>4. Abstract!Issue(r, "paid")
      BY <1>1, <2>2, <2>3 DEF Abstract!Issue, Abstract!PaidIf, statusOf, paymentsOf
    <2> QED
      BY <2>4 DEF Abstract!Next
  <1> QED
    BY <1>3, <1>4 DEF Redeem

LEMMA DecideImplements ==
  ASSUME FlowInv, NEW r \in DOMAIN receipts,
         \/ \E operator \in Operators, required \in RequiredArgs :
              ApproveRedemption(r, operator, required)
         \/ RejectRedemption(r)
  PROVE  Abstract!Next \/ UNCHANGED <<statusOf, paymentsOf>>
  <1>1. /\ r \in ReceiptIds /\ receipts[r].rail \in Rails
        /\ ShapedReceipt(receipts[r])
    BY DEF FlowInv, ReceiptsOK, ShapedReceipt
  <1>2. receipts[r].status = "pending_approval" => r \in DOMAIN statusOf /\
          statusOf[r] = "waiting"
    BY DEF statusOf, PayoutStatus
  <1>3. ASSUME NEW st, DOMAIN receipts' = DOMAIN receipts, receipts'[r].status = st,
               \A q \in DOMAIN receipts : q # r => receipts'[q] = receipts[q]
        PROVE  statusOf' = [statusOf EXCEPT ![r] = PayoutStatus(st)]
    <2>1. \A q \in DOMAIN receipts : statusOf'[q] =
            IF q = r THEN PayoutStatus(st) ELSE statusOf[q]
      BY <1>3 DEF statusOf
    <2>2. /\ DOMAIN statusOf = DOMAIN receipts /\ DOMAIN statusOf' = DOMAIN receipts
          /\ statusOf' = [q \in DOMAIN statusOf' |-> statusOf'[q]]
      BY <1>3 DEF statusOf
    <2> QED
      BY <2>1, <2>2
  <1>4. CASE RejectRedemption(r)
    <2>1. /\ receipts[r].status = "pending_approval"
          /\ receipts' = [receipts EXCEPT ![r].status = "rejected"]
          /\ requests' = requests
      BY <1>4 DEF RejectRedemption, settlementVars
    <2>2. receipts'[r].status = "rejected"
      BY <1>1, <2>1 DEF ShapedReceipt
    <2>3. statusOf' = [statusOf EXCEPT ![r] = PayoutStatus("rejected")]
      BY <1>3, <2>1, <2>2
    <2>4. Abstract!Decide(r, "rejected")
      BY <1>2, <2>1, <2>3 
         DEF Abstract!Decide, Abstract!PaidIf, PayoutStatus, statusOf, paymentsOf
    <2> QED
      BY <1>1, <2>4 DEF Abstract!Next
  <1>5. ASSUME NEW operator \in Operators, NEW required \in RequiredArgs,
               ApproveRedemption(r, operator, required)
        PROVE  Abstract!Next \/ UNCHANGED <<statusOf, paymentsOf>>
    <2>1. receipts[r].status = "pending_approval"
      BY <1>5 DEF ApproveRedemption, Undecided
    <2>2. PICK a : a = Append(receipts[r].approvals, operator)
      OBVIOUS
    <2>3. CASE receipts' = [receipts EXCEPT ![r].approvals = a] /\ UNCHANGED settlementVars
      <3>1. receipts'[r].status = receipts[r].status
        BY <1>1, <2>3 DEF ShapedReceipt
      <3>2. statusOf' = statusOf
        BY <2>3, <3>1 DEF statusOf
      <3>3. paymentsOf' = paymentsOf
        BY <2>3 DEF settlementVars, paymentsOf
      <3> QED
        BY <3>2, <3>3
    <2>4. CASE /\ Settle(r, receipts[r].claim, receipts[r].rail)
               /\ receipts' = [receipts EXCEPT ![r].approvals = a, ![r].status = "processing",
                                               ![r].required = required]
      <3>1. statusOf' = [statusOf EXCEPT ![r] = "paid"]
        <4>1. /\ DOMAIN receipts' = DOMAIN receipts
              /\ \A q \in DOMAIN receipts : q # r => receipts'[q] = receipts[q]
          BY <2>4
        <4>2. receipts'[r].status = "processing"
          BY <1>1, <2>4 DEF ShapedReceipt
        <4>3. PayoutStatus("processing") = "paid"
          BY DEF PayoutStatus
        <4> QED
          BY <1>3, <4>1, <4>2, <4>3
      <3>2. paymentsOf' = [paymentsOf EXCEPT ![r] = @ + 1]
        BY <1>1, <2>4, PaymentAdded DEF Settle
      <3>3. Abstract!Decide(r, "paid")
        BY <1>2, <2>1, <3>1, <3>2 
           DEF Abstract!Decide, Abstract!PaidIf, statusOf, paymentsOf
      <3> QED
        BY <1>1, <3>3 DEF Abstract!Next
    <2> QED
      BY <1>5, <2>2, <2>3, <2>4 DEF ApproveRedemption
  <1> QED
    BY <1>4, <1>5

\* What the engine does by itself pays no receipt.
LEMMA SettlementImplements ==
  ASSUME FlowInv, SettlementNext, UNCHANGED receipts
  PROVE  UNCHANGED <<statusOf, paymentsOf>>
  <1>1. /\ Paying' = Paying
        /\ \A i \in Paying : requests'[i].receipt = requests[i].receipt
    BY SettlementKeeps DEF FlowInv, RequestsOK
  <1>2. \A r \in ReceiptIds :
          /\ {i \in DOMAIN requests : requests[i].receipt = r}
               = {i \in Paying : requests[i].receipt = r}
          /\ {i \in DOMAIN requests' : requests'[i].receipt = r}
               = {i \in Paying' : requests'[i].receipt = r}
    BY RedemptionAssumption DEF Paying
  <1>3. \A r \in ReceiptIds :
          {i \in DOMAIN requests' : requests'[i].receipt = r}
            = {i \in DOMAIN requests : requests[i].receipt = r}
    BY <1>1, <1>2
  <1> QED
    BY <1>3 DEF statusOf, paymentsOf

\* Every behaviour of the redemption flow, with its claims, batches, clock and
\* operators, is a behaviour of Payouts: a receipt is paid at most once, and
\* never after it was rejected.
THEOREM FlowImplementsPayouts == Spec => ImplementsPayouts
  <1>1. Init => Abstract!Init
    <2> SUFFICES ASSUME Init PROVE Abstract!Init
      OBVIOUS
    <2>1. requests = <<>> /\ receipts = [r \in {} |-> r]
      BY DEF Init, SettlementInit
    <2>2. statusOf = [r \in {} |-> r]
      BY <2>1 DEF statusOf
    <2>3. paymentsOf = [r \in ReceiptIds |-> 0]
      <3>1. \A r \in ReceiptIds : {i \in DOMAIN requests : requests[i].receipt = r} = {}
        BY <2>1
      <3> QED
        BY <3>1, FS_EmptySet DEF paymentsOf
    <2> QED
      BY <2>2, <2>3 DEF Abstract!Init, statusOf, paymentsOf
  <1>2. FlowInv /\ [Next]_vars => [Abstract!Next]_<<statusOf, paymentsOf>>
    <2> SUFFICES ASSUME FlowInv, [Next]_vars
                 PROVE  Abstract!Next \/ UNCHANGED <<statusOf, paymentsOf>>
      OBVIOUS
    <2>1. CASE UNCHANGED <<requests, receipts>>
      BY <2>1 DEF statusOf, paymentsOf
    <2>2. CASE SettlementNext /\ UNCHANGED <<claimVars, receipts>>
      BY <2>2, SettlementImplements
    <2>3. CASE RedemptionNext
      BY <2>3, RedeemImplements, DecideImplements DEF RedemptionNext
    <2> QED
      BY <2>1, <2>2, <2>3 DEF Next, vars, settlementVars
  <1> QED
    BY <1>1, <1>2, InitFlowInv, FlowInvStep, PTL
    DEF Spec, ImplementsPayouts, Abstract!Spec, statusOf, paymentsOf
=============================================================================
