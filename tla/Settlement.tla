----------------------------- MODULE Settlement -----------------------------
(***************************************************************************)
(* backend/services/settlement_engine.py: requests are submitted, gathered *)
(* in batches by asset and chain, approved, broadcast and confirmed.       *)
(* Only approve_batch looks at the status of its batch.  A request may     *)
(* also be submitted without a redemption, as the tests do; it belongs to  *)
(* no receipt.                                                             *)
(***************************************************************************)
EXTENDS Integers, FiniteSets, Sequences

CONSTANTS
  Rails,               \* <<asset, chain>> pairs of the requests
  RequiredConfs,       \* _required_confs, per rail
  ConfirmationArgs,    \* numbers passed to confirm_batch
  NoReceipt,           \* stands for the receipt of a request that has none
  MaxBatches,          \* batches built in a behaviour (bound)
  MaxDirect            \* requests without a receipt in a behaviour (bound)

ASSUME SettlementAssumption ==
  /\ RequiredConfs \in [Rails -> Nat]
  /\ ConfirmationArgs \subseteq Nat
  /\ MaxBatches \in Nat
  /\ MaxDirect \in Nat

VARIABLES
  requests,   \* _pending, a list nothing is ever removed from
  batches     \* _batches, in the order they were built

settlementVars == <<requests, batches>>

BatchStates == {"collecting", "approved", "broadcasting", "completed"}

\* receipt: the receipt the caller stores the request_id in, if it has one.
Request(Receipts) ==
  [receipt : Receipts \cup {NoReceipt}, rail : Rails, status : {"pending", "batched"}]

Batch == [rail : Rails, requests : SUBSET (1..Len(requests)), status : BatchStates]

SettlementTypeOK(Receipts) ==
  /\ requests \in Seq(Request(Receipts))
  /\ batches \in Seq(Batch)

SettlementInit == requests = <<>> /\ batches = <<>>

SubmitRequest(receipt, rail) ==
  /\ requests' = Append(requests, [receipt |-> receipt, rail |-> rail,
                                   status |-> "pending"])
  /\ UNCHANGED batches

\* The requests made for a receipt.
Paying == {i \in DOMAIN requests : requests[i].receipt # NoReceipt}

SubmitDirectly(rail) ==
  /\ Cardinality(DOMAIN requests \ Paying) < MaxDirect
  /\ SubmitRequest(NoReceipt, rail)

Collected(rail) ==
  {i \in DOMAIN requests : requests[i].rail = rail /\ requests[i].status = "pending"}

\* Mutant of Batched: the requests stay pending.
StillPending(ids) == requests

Batched(ids) ==
  [i \in DOMAIN requests |->
     IF i \in ids THEN [requests[i] EXCEPT !.status = "batched"] ELSE requests[i]]

BuildBatch(rail) ==
  /\ Len(batches) < MaxBatches
  /\ Collected(rail) # {}
  /\ batches' = Append(batches, [rail |-> rail, requests |-> Collected(rail),
                                 status |-> "collecting"])
  /\ requests' = Batched(Collected(rail))

SetStatus(b, status) ==
  /\ batches' = [batches EXCEPT ![b].status = status]
  /\ UNCHANGED requests

ApproveBatch(b) ==
  /\ batches[b].status = "collecting"
  /\ SetStatus(b, "approved")

BroadcastBatch(b) == SetStatus(b, "broadcasting")

\* Too few confirmations are only recorded, which nothing reads.
ConfirmBatch(b, confirmations) ==
  /\ confirmations >= RequiredConfs[batches[b].rail]
  /\ SetStatus(b, "completed")

SettlementNext ==
  \/ \E rail \in Rails : SubmitDirectly(rail) \/ BuildBatch(rail)
  \/ \E b \in DOMAIN batches :
       \/ ApproveBatch(b)
       \/ BroadcastBatch(b)
       \/ \E n \in ConfirmationArgs : ConfirmBatch(b, n)

-----------------------------------------------------------------------------
\* A request is paid through one batch: it is in exactly one from the moment
\* it is marked batched, in none before, and always in one of its own rail.
OneBatchPerRequest ==
  \A i \in DOMAIN requests :
    LET in == {b \in DOMAIN batches : i \in batches[b].requests}
    IN /\ Cardinality(in) = IF requests[i].status = "batched" THEN 1 ELSE 0
       /\ \A b \in in : batches[b].rail = requests[i].rail
=============================================================================
