------------------------------ MODULE Treasury ------------------------------
(***************************************************************************)
(* backend/services/treasury_service.py: settlement batches collect        *)
(* operator signatures for SigningWindow seconds; the signature that makes *)
(* Required approves the batch, which is then broadcast and confirmed.     *)
(* Every method is one step of the backend's event loop.                   *)
(*                                                                         *)
(* Left out of the record: the amounts, the fee estimate and the           *)
(* confirmations (no method reads them), the signature bytes (never        *)
(* verified) and the registry's names and keys.  The wallets and the       *)
(* reserve attestations share no state with the batches.                   *)
(***************************************************************************)
EXTENDS Integers, FiniteSets, Sequences

CONSTANTS
  BatchIds,           \* uuids a batch can get
  Operators,          \* operator ids
  Assets,             \* asset types
  Required,           \* _MULTISIG_REQUIRED_DEFAULT
  SigningWindow,      \* _BATCH_EXPIRY_SECONDS
  RequiredConfs,      \* confirmations confirm_batch waits for, per asset
  ConfirmationArgs,   \* numbers passed to confirm_batch
  Horizon             \* last second the clock is followed to (bound)

ASSUME TreasuryAssumption ==
  /\ Required \in Nat \ {0}
  /\ SigningWindow \in Nat
  /\ RequiredConfs \in [Assets -> Nat]
  /\ ConfirmationArgs \subseteq Nat
  /\ Horizon \in Nat

VARIABLES
  batches,     \* _settlements
  operators,   \* _operators
  now          \* datetime.now(timezone.utc).timestamp()

vars == <<batches, operators, now>>

Statuses == {"pending_signatures", "approved", "rejected", "expired",
             "broadcasting", "completed"}

Signature == [operator : Operators, signed_at : Nat]

\* tx_hash: whether broadcast_batch has set one.
Batch == [asset : Assets, status : Statuses, expires_at : Nat, tx_hash : BOOLEAN,
          signatures : Seq(Signature), rejections : SUBSET Operators]

TypeOK ==
  /\ DOMAIN batches \subseteq BatchIds
  /\ \A b \in DOMAIN batches : batches[b] \in Batch
  /\ operators \subseteq Operators
  /\ now \in Nat

Init ==
  /\ batches = [b \in {} |-> b]
  /\ operators = {}
  /\ now = 0

-----------------------------------------------------------------------------
\* Mutant of ExpiresAt: the window lies in the past.
OpenedAt == now - SigningWindow

ExpiresAt == now + SigningWindow

CreateSettlementBatch(b, asset) ==
  /\ b \in BatchIds \ DOMAIN batches
  /\ batches' = [c \in DOMAIN batches \cup {b} |->
       IF c # b THEN batches[c]
       ELSE [asset |-> asset, status |-> "pending_signatures", expires_at |-> ExpiresAt,
             tx_hash |-> FALSE, signatures |-> <<>>, rejections |-> {}]]
  /\ UNCHANGED <<operators, now>>

\* The registry is kept but no other method consults it.
RegisterOperator(o) ==
  /\ operators' = operators \cup {o}
  /\ UNCHANGED <<batches, now>>

Signers(batch) == {batch.signatures[i].operator : i \in DOMAIN batch.signatures}

\* Mutant of MaySign: an operator signs twice.
SignsAgain(b, o) == o \notin batches[b].rejections

MaySign(b, o) == o \notin Signers(batches[b]) \cup batches[b].rejections

\* Mutant of Quorate: one signature too few.
AlmostQuorate(signatures) == Len(signatures) + 1 >= Required

Quorate(signatures) == Len(signatures) >= Required

\* Mutant of Collecting: an approved batch still takes signatures.
NotYetSent(b) == batches[b].status \in {"pending_signatures", "approved"}

Collecting(b) == batches[b].status = "pending_signatures"

\* sign_batch: past the window the call raises, but first marks the batch.
SignBatch(b, o) ==
  /\ Collecting(b)
  /\ IF now > batches[b].expires_at
       THEN batches' = [batches EXCEPT ![b].status = "expired"]
       ELSE LET signatures == Append(batches[b].signatures,
                                     [operator |-> o, signed_at |-> now])
            IN /\ MaySign(b, o)
               /\ batches' = [batches EXCEPT
                    ![b].signatures = signatures,
                    ![b].status = IF Quorate(signatures) THEN "approved" ELSE @]
  /\ UNCHANGED <<operators, now>>

\* reject_batch: anyone, a signer included, and without regard to the window.
RejectBatch(b, o) ==
  /\ batches[b].status = "pending_signatures"
  /\ batches' = [batches EXCEPT ![b].rejections = @ \cup {o}, ![b].status = "rejected"]
  /\ UNCHANGED <<operators, now>>

BroadcastBatch(b) ==
  /\ batches[b].status = "approved"
  /\ batches' = [batches EXCEPT ![b].status = "broadcasting", ![b].tx_hash = TRUE]
  /\ UNCHANGED <<operators, now>>

\* confirm_batch: any batch, in any status.
ConfirmBatch(b, confirmations) ==
  /\ confirmations >= RequiredConfs[batches[b].asset]
  /\ batches' = [batches EXCEPT ![b].status = "completed"]
  /\ UNCHANGED <<operators, now>>

Tick ==
  /\ now < Horizon
  /\ now' = now + 1
  /\ UNCHANGED <<batches, operators>>

Next ==
  \/ \E b \in BatchIds, asset \in Assets : CreateSettlementBatch(b, asset)
  \/ \E o \in Operators : RegisterOperator(o)
  \/ \E b \in DOMAIN batches :
       \/ \E o \in Operators : SignBatch(b, o) \/ RejectBatch(b, o)
       \/ BroadcastBatch(b)
       \/ \E n \in ConfirmationArgs : ConfirmBatch(b, n)
  \/ Tick

Spec == Init /\ [][Next]_vars

-----------------------------------------------------------------------------
(***************************************************************************)
(* Properties of the batches.                                              *)
(***************************************************************************)

\* Required different operators signed the batch, each inside its window.
HasQuorum(batch) ==
  /\ Len(batch.signatures) >= Required
  /\ \A i, j \in DOMAIN batch.signatures :
       batch.signatures[i].operator = batch.signatures[j].operator => i = j
  /\ \A i \in DOMAIN batch.signatures : batch.signatures[i].signed_at <= batch.expires_at

\* treasury_service.py:120, "requires M-of-N before broadcast": a batch with a
\* transaction had its quorum, in time, and no operator ever rejected it.
QuorumBeforeBroadcast ==
  \A b \in DOMAIN batches :
    batches[b].tx_hash => HasQuorum(batches[b]) /\ batches[b].rejections = {}

\* What was decided is what is executed: once a batch has left
\* "pending_signatures" it never returns, and nobody's signature or rejection
\* is added to it, whatever is called afterwards and however late.
DecisionFrozen ==
  [][\A b \in DOMAIN batches :
       batches[b].status # "pending_signatures" =>
         /\ batches'[b].status # "pending_signatures"
         /\ batches'[b].signatures = batches[b].signatures
         /\ batches'[b].rejections = batches[b].rejections]_vars

Abstract ==
  INSTANCE Multisig WITH
    Quorum <- Required,
    signers <- [b \in DOMAIN batches |-> Signers(batches[b])],
    refused <- {b \in DOMAIN batches : batches[b].rejections # {}},
    sent <- {b \in DOMAIN batches : batches[b].tx_hash}

\* The treasury implements the multi-signature protocol.
ImplementsMultisig == Abstract!Spec
=============================================================================
