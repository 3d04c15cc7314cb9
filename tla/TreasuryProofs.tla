--------------------------- MODULE TreasuryProofs ---------------------------
(***************************************************************************)
(* The treasury's batches never go out without their quorum, for any       *)
(* number of batches and operators and any quorum, window and clock.       *)
(*                                                                         *)
(* QuorumBeforeBroadcast is not inductive: it says nothing of the batch    *)
(* before it is broadcast.  BatchOK adds what sign_batch maintains while   *)
(* the signatures come in and what the status then stands for.             *)
(***************************************************************************)
EXTENDS Treasury, FiniteSetTheorems, SequenceTheorems, TLAPS

\* Different signers, in time, counted by the length of the list.
SignaturesOK(batch) ==
  /\ \A i, j \in DOMAIN batch.signatures :
       batch.signatures[i].operator = batch.signatures[j].operator => i = j
  /\ \A i \in DOMAIN batch.signatures : batch.signatures[i].signed_at <= batch.expires_at
  /\ IsFiniteSet(Signers(batch))
  /\ Cardinality(Signers(batch)) = Len(batch.signatures)

StatusOK(batch) ==
  /\ batch.status = "pending_signatures" =>
       /\ Len(batch.signatures) < Required
       /\ batch.rejections = {}
       /\ batch.tx_hash = FALSE
  /\ batch.status = "approved" => batch.tx_hash = FALSE
  /\ (batch.status = "approved" \/ batch.tx_hash = TRUE) =>
       /\ Len(batch.signatures) >= Required
       /\ batch.rejections = {}

BatchOK(batch) == batch \in Batch /\ SignaturesOK(batch) /\ StatusOK(batch)

TreasuryInv ==
  /\ DOMAIN batches \subseteq BatchIds
  /\ operators \subseteq Operators
  /\ now \in Nat
  /\ \A b \in DOMAIN batches : BatchOK(batches[b])

-----------------------------------------------------------------------------
(***************************************************************************)
(* One batch through each operation.                                       *)
(***************************************************************************)

\* A new batch is in order.
LEMMA CreateOK ==
  ASSUME TreasuryInv, NEW b \in BatchIds, NEW asset \in Assets,
         CreateSettlementBatch(b, asset)
  PROVE  /\ DOMAIN batches' = DOMAIN batches \cup {b}
         /\ BatchOK(batches'[b])
         /\ \A c \in DOMAIN batches : batches'[c] = batches[c]
  <1>1. /\ DOMAIN batches' = DOMAIN batches \cup {b}
        /\ \A c \in DOMAIN batches : batches'[c] = batches[c]
        /\ batches'[b] = [asset |-> asset, status |-> "pending_signatures",
                          expires_at |-> ExpiresAt, tx_hash |-> FALSE,
                          signatures |-> <<>>, rejections |-> {}]
    BY DEF CreateSettlementBatch
  <1>2. ExpiresAt \in Nat
    BY TreasuryAssumption DEF TreasuryInv, ExpiresAt
  <1>3. batches'[b] \in Batch
    BY <1>1, <1>2 DEF Batch, Statuses
  <1>4. SignaturesOK(batches'[b])
    <2>1. Signers(batches'[b]) = {} /\ Len(batches'[b].signatures) = 0
          /\ DOMAIN batches'[b].signatures = {}
      BY <1>1 DEF Signers
    <2> QED
      BY <2>1, FS_EmptySet DEF SignaturesOK
  <1>5. StatusOK(batches'[b])
    BY <1>1, TreasuryAssumption DEF StatusOK
  <1> QED
    BY <1>1, <1>3, <1>4, <1>5 DEF BatchOK

\* What a signature that is accepted does to its batch.
Signed(batch, o) == Append(batch.signatures, [operator |-> o, signed_at |-> now])

LEMMA SignaturesGrow ==
  ASSUME TreasuryInv, NEW b \in DOMAIN batches, NEW o \in Operators,
         MaySign(b, o), now <= batches[b].expires_at,
         NEW batch, batch.signatures = Signed(batches[b], o),
         batch.expires_at = batches[b].expires_at
  PROVE  /\ SignaturesOK(batch)
         /\ Len(batch.signatures) = Len(batches[b].signatures) + 1
         /\ Signers(batch) = Signers(batches[b]) \cup {o}
         /\ batch.signatures \in Seq(Signature)
  <1> DEFINE old == batches[b].signatures
             e == [operator |-> o, signed_at |-> now]
             n == Len(old)
  <1>1. /\ old \in Seq(Signature) /\ e \in Signature /\ n \in Nat
        /\ DOMAIN old = 1..n
    BY LenProperties DEF TreasuryInv, BatchOK, Batch, Signature
  <1>2. /\ batch.signatures \in Seq(Signature)
        /\ Len(batch.signatures) = n + 1
        /\ DOMAIN batch.signatures = 1..(n + 1)
        /\ \A i \in 1..n : batch.signatures[i] = old[i]
        /\ batch.signatures[n + 1] = e
    <2>1. Append(old, e) = batch.signatures
      BY DEF Signed
    <2> HIDE DEF old, e
    <2>2. /\ Append(old, e) \in Seq(Signature)
          /\ Len(Append(old, e)) = n + 1
          /\ \A i \in 1..n : Append(old, e)[i] = old[i]
          /\ Append(old, e)[n + 1] = e
      BY <1>1, AppendProperties
    <2> QED
      BY <2>1, <2>2, LenProperties
  <1>3. Signers(batches[b]) = {old[i].operator : i \in 1..n}
    BY <1>1 DEF Signers
  <1>4. Signers(batch) = Signers(batches[b]) \cup {o}
    <2>1. Signers(batch) = {batch.signatures[i].operator : i \in 1..(n + 1)}
      BY <1>2 DEF Signers
    <2>2. e.operator = o
      OBVIOUS
    <2> HIDE DEF old, e, n
    <2>3. ASSUME NEW x \in Signers(batch) PROVE x \in Signers(batches[b]) \cup {o}
      <3>1. PICK i \in 1..(n + 1) : x = batch.signatures[i].operator
        BY <2>1, <2>3
      <3>2. CASE i \in 1..n
        BY <3>1, <3>2, <1>2, <1>3
      <3>3. CASE i = n + 1
        BY <3>1, <3>3, <1>2, <2>2
      <3> QED
        BY <3>2, <3>3, <1>1
    <2>4. ASSUME NEW x \in Signers(batches[b]) PROVE x \in Signers(batch)
      <3>1. PICK i \in 1..n : x = old[i].operator
        BY <1>3, <2>4
      <3>2. i \in 1..(n + 1) /\ x = batch.signatures[i].operator
        BY <3>1, <1>1, <1>2
      <3> QED
        BY <3>2, <2>1
    <2>5. o \in Signers(batch)
      BY <1>1, <1>2, <2>1, <2>2
    <2> QED
      BY <2>3, <2>4, <2>5
  <1>5. o \notin Signers(batches[b])
    BY DEF MaySign
  <1>6. IsFiniteSet(Signers(batch)) /\ Cardinality(Signers(batch)) = n + 1
    <2>1. IsFiniteSet(Signers(batches[b])) /\ Cardinality(Signers(batches[b])) = n
      BY DEF TreasuryInv, BatchOK, SignaturesOK
    <2> QED
      BY <1>4, <1>5, <2>1, FS_AddElement
  <1>7. ASSUME NEW i \in 1..(n + 1), NEW j \in 1..(n + 1),
               batch.signatures[i].operator = batch.signatures[j].operator
        PROVE  i = j
    <2>1. \A k \in 1..n : batch.signatures[k].operator # o
      BY <1>2, <1>3, <1>5
    <2>2. batch.signatures[n + 1].operator = o
      BY <1>2
    <2>3. CASE i \in 1..n /\ j \in 1..n
      BY <1>1, <1>2, <1>7, <2>3 DEF TreasuryInv, BatchOK, SignaturesOK
    <2>4. CASE ~(i \in 1..n /\ j \in 1..n)
      BY <1>1, <1>7, <2>1, <2>2, <2>4
    <2> QED
      BY <2>3, <2>4
  <1>8. ASSUME NEW i \in 1..(n + 1)
        PROVE  batch.signatures[i].signed_at <= batch.expires_at
    <2>1. CASE i \in 1..n
      BY <1>1, <1>2, <2>1 DEF TreasuryInv, BatchOK, SignaturesOK
    <2>2. CASE i = n + 1
      BY <1>2, <2>2
    <2> QED
      BY <1>1, <2>1, <2>2
  <1> QED
    BY <1>2, <1>4, <1>6, <1>7, <1>8 DEF SignaturesOK

-----------------------------------------------------------------------------
\* Steps on one batch keep it in order, and are all that can happen to it.
LEMMA SignOK ==
  ASSUME TreasuryInv, NEW b \in DOMAIN batches, NEW o \in Operators, SignBatch(b, o)
  PROVE  /\ DOMAIN batches' = DOMAIN batches
         /\ BatchOK(batches'[b])
         /\ \A c \in DOMAIN batches \ {b} : batches'[c] = batches[c]
  <1>1. BatchOK(batches[b])
    BY DEF TreasuryInv
  <1>2. CASE now > batches[b].expires_at
    <2>1. batches' = [batches EXCEPT ![b].status = "expired"]
      BY <1>2 DEF SignBatch
    <2>2. batches'[b] = [batches[b] EXCEPT !.status = "expired"]
      BY <2>1
    <2>3. batches'[b] \in Batch
      BY <1>1, <2>2 DEF BatchOK, Batch, Statuses
    <2>4. SignaturesOK(batches'[b]) /\ StatusOK(batches'[b])
      BY <1>1, <2>2 DEF BatchOK, Batch, SignaturesOK, StatusOK, Signers
    <2> QED
      BY <2>1, <2>3, <2>4 DEF BatchOK
  <1>3. CASE ~(now > batches[b].expires_at)
    <2>1. /\ MaySign(b, o)
          /\ batches' = [batches EXCEPT
               ![b].signatures = Signed(batches[b], o),
               ![b].status = IF Quorate(Signed(batches[b], o)) THEN "approved" ELSE @]
      BY <1>3 DEF SignBatch, Signed
    <2>2. batches'[b] = [batches[b] EXCEPT
            !.signatures = Signed(batches[b], o),
            !.status = IF Quorate(Signed(batches[b], o)) THEN "approved" ELSE @]
      BY <2>1
    <2>3. /\ batches'[b].signatures = Signed(batches[b], o)
          /\ batches'[b].expires_at = batches[b].expires_at
          /\ batches'[b].rejections = batches[b].rejections
          /\ batches'[b].tx_hash = batches[b].tx_hash
          /\ batches'[b].status = IF Quorate(Signed(batches[b], o)) THEN "approved"
                                  ELSE batches[b].status
      BY <1>1, <2>2 DEF BatchOK, Batch
    <2>4. now <= batches[b].expires_at
      BY <1>1, <1>3 DEF TreasuryInv, BatchOK, Batch
    <2>5. /\ SignaturesOK(batches'[b])
          /\ Len(batches'[b].signatures) = Len(batches[b].signatures) + 1
          /\ batches'[b].signatures \in Seq(Signature)
      BY <2>1, <2>3, <2>4, SignaturesGrow
    <2>6. batches'[b] \in Batch
      <3>1. "approved" \in Statuses
        BY DEF Statuses
      <3> QED
        BY <1>1, <2>2, <2>3, <2>5, <3>1 DEF BatchOK, Batch
    <2>7. StatusOK(batches'[b])
      <3>1. /\ batches[b].status = "pending_signatures"
            /\ batches[b].rejections = {}
            /\ batches[b].tx_hash = FALSE
        BY <1>1 DEF SignBatch, Collecting, BatchOK, StatusOK
      <3>2. Quorate(Signed(batches[b], o)) <=> Len(batches'[b].signatures) >= Required
        BY <2>3 DEF Quorate
      <3>3. Len(batches'[b].signatures) \in Nat /\ Required \in Nat
        BY <2>5, LenProperties, TreasuryAssumption
      <3> QED
        BY <2>3, <3>1, <3>2, <3>3 DEF StatusOK
    <2> QED
      BY <2>1, <2>5, <2>6, <2>7 DEF BatchOK
  <1> QED
    BY <1>2, <1>3

LEMMA DecideOK ==
  ASSUME TreasuryInv, NEW b \in DOMAIN batches,
         \/ \E o \in Operators : RejectBatch(b, o)
         \/ BroadcastBatch(b)
         \/ \E n \in ConfirmationArgs : ConfirmBatch(b, n)
  PROVE  /\ DOMAIN batches' = DOMAIN batches
         /\ BatchOK(batches'[b])
         /\ \A c \in DOMAIN batches \ {b} : batches'[c] = batches[c]
  <1>1. BatchOK(batches[b])
    BY DEF TreasuryInv
  <1>2. ASSUME NEW o \in Operators, RejectBatch(b, o)
        PROVE  /\ DOMAIN batches' = DOMAIN batches
               /\ BatchOK(batches'[b])
               /\ \A c \in DOMAIN batches \ {b} : batches'[c] = batches[c]
    <2>1. batches'[b] = [batches[b] EXCEPT !.rejections = @ \cup {o}, !.status = "rejected"]
      BY <1>2 DEF RejectBatch
    <2>2. batches'[b] \in Batch
      <3>1. batches[b].rejections \cup {o} \in SUBSET Operators /\ "rejected" \in Statuses
        BY <1>1 DEF BatchOK, Batch, Statuses
      <3> QED
        BY <1>1, <2>1, <3>1 DEF BatchOK, Batch
    <2>3. /\ batches'[b].signatures = batches[b].signatures
          /\ batches'[b].expires_at = batches[b].expires_at
          /\ batches'[b].tx_hash = FALSE
          /\ batches'[b].status = "rejected"
      BY <1>1, <1>2, <2>1 DEF BatchOK, Batch, StatusOK, RejectBatch
    <2>4. SignaturesOK(batches'[b])
      BY <1>1, <2>3 DEF BatchOK, SignaturesOK, Signers
    <2>5. StatusOK(batches'[b])
      BY <2>3 DEF StatusOK
    <2> QED
      BY <1>2, <2>2, <2>4, <2>5 DEF BatchOK, RejectBatch
  <1>3. CASE BroadcastBatch(b)
    <2>1. batches'[b] = [batches[b] EXCEPT !.status = "broadcasting", !.tx_hash = TRUE]
      BY <1>3 DEF BroadcastBatch
    <2>2. batches'[b] \in Batch
      BY <1>1, <2>1 DEF BatchOK, Batch, Statuses
    <2>3. /\ batches'[b].signatures = batches[b].signatures
          /\ batches'[b].expires_at = batches[b].expires_at
          /\ batches'[b].rejections = batches[b].rejections
          /\ batches'[b].status = "broadcasting"
          /\ batches[b].status = "approved"
      BY <1>1, <1>3, <2>1 DEF BatchOK, Batch, BroadcastBatch
    <2>4. SignaturesOK(batches'[b])
      BY <1>1, <2>3 DEF BatchOK, SignaturesOK, Signers
    <2>5. StatusOK(batches'[b])
      BY <1>1, <2>3 DEF BatchOK, StatusOK
    <2> QED
      BY <1>3, <2>2, <2>4, <2>5 DEF BatchOK, BroadcastBatch
  <1>4. ASSUME NEW n \in ConfirmationArgs, ConfirmBatch(b, n)
        PROVE  /\ DOMAIN batches' = DOMAIN batches
               /\ BatchOK(batches'[b])
               /\ \A c \in DOMAIN batches \ {b} : batches'[c] = batches[c]
    <2>1. batches'[b] = [batches[b] EXCEPT !.status = "completed"]
      BY <1>4 DEF ConfirmBatch
    <2>2. batches'[b] \in Batch
      BY <1>1, <2>1 DEF BatchOK, Batch, Statuses
    <2>3. /\ batches'[b].signatures = batches[b].signatures
          /\ batches'[b].expires_at = batches[b].expires_at
          /\ batches'[b].rejections = batches[b].rejections
          /\ batches'[b].tx_hash = batches[b].tx_hash
          /\ batches'[b].status = "completed"
      BY <1>1, <2>1 DEF BatchOK, Batch
    <2>4. SignaturesOK(batches'[b])
      BY <1>1, <2>3 DEF BatchOK, SignaturesOK, Signers
    <2>5. StatusOK(batches'[b])
      BY <1>1, <2>3 DEF BatchOK, StatusOK
    <2> QED
      BY <1>4, <2>2, <2>4, <2>5 DEF BatchOK, ConfirmBatch
  <1> QED
    BY <1>2, <1>3, <1>4

-----------------------------------------------------------------------------
(***************************************************************************)
(* The invariant.                                                          *)
(***************************************************************************)

LEMMA InitTreasuryInv == Init => TreasuryInv
  BY DEF Init, TreasuryInv

LEMMA TreasuryInvStep == TreasuryInv /\ [Next]_vars => TreasuryInv'
  <1> SUFFICES ASSUME TreasuryInv, [Next]_vars PROVE TreasuryInv'
    OBVIOUS
  <1>1. ASSUME NEW b \in BatchIds, NEW asset \in Assets, CreateSettlementBatch(b, asset)
        PROVE  TreasuryInv'
    <2>1. UNCHANGED <<operators, now>>
      BY <1>1 DEF CreateSettlementBatch
    <2>2. \A c \in DOMAIN batches' : BatchOK(batches'[c])
      BY <1>1, CreateOK DEF TreasuryInv
    <2>3. DOMAIN batches' \subseteq BatchIds
      BY <1>1, CreateOK DEF TreasuryInv
    <2> QED
      BY <2>1, <2>2, <2>3 DEF TreasuryInv, BatchOK, SignaturesOK, StatusOK, Signers
  <1>2. ASSUME batches' = batches, operators' \subseteq Operators, now' \in Nat
        PROVE  TreasuryInv'
    <2>1. \A c \in DOMAIN batches' : BatchOK(batches'[c])
      BY <1>2 DEF TreasuryInv
    <2> QED
      BY <1>2, <2>1 DEF TreasuryInv, BatchOK, SignaturesOK, StatusOK, Signers
  <1>3. ASSUME NEW b \in DOMAIN batches,
               DOMAIN batches' = DOMAIN batches, BatchOK(batches'[b]),
               \A c \in DOMAIN batches \ {b} : batches'[c] = batches[c],
               UNCHANGED <<operators, now>>
        PROVE  TreasuryInv'
    <2>1. \A c \in DOMAIN batches' : BatchOK(batches'[c])
      BY <1>3 DEF TreasuryInv
    <2> QED
      BY <1>3, <2>1 DEF TreasuryInv, BatchOK, SignaturesOK, StatusOK, Signers
  <1>4. ASSUME NEW b \in DOMAIN batches, NEW o \in Operators, SignBatch(b, o)
        PROVE  TreasuryInv'
    <2>1. UNCHANGED <<operators, now>>
      BY <1>4 DEF SignBatch
    <2> QED
      BY <1>3, <1>4, <2>1, SignOK
  <1>5. ASSUME NEW b \in DOMAIN batches,
               \/ \E o \in Operators : RejectBatch(b, o)
               \/ BroadcastBatch(b)
               \/ \E n \in ConfirmationArgs : ConfirmBatch(b, n)
        PROVE  TreasuryInv'
    <2>1. UNCHANGED <<operators, now>>
      BY <1>5 DEF RejectBatch, BroadcastBatch, ConfirmBatch
    <2> QED
      BY <1>3, <1>5, <2>1, DecideOK
  <1>6. ASSUME NEW o \in Operators, RegisterOperator(o) PROVE TreasuryInv'
    BY <1>2, <1>6 DEF RegisterOperator, TreasuryInv
  <1>7. CASE Tick
    BY <1>2, <1>7 DEF Tick, TreasuryInv
  <1>8. CASE UNCHANGED vars
    BY <1>2, <1>8 DEF vars, TreasuryInv
  <1> QED
    BY <1>1, <1>4, <1>5, <1>6, <1>7, <1>8 DEF Next

\* Type correctness of the treasury.
THEOREM TreasuryTypes == Spec => []TypeOK
  <1>1. TreasuryInv => TypeOK
    BY DEF TreasuryInv, TypeOK, BatchOK
  <1> QED
    BY <1>1, InitTreasuryInv, TreasuryInvStep, PTL DEF Spec

\* No transaction without Required different signatures, in time, and none
\* for a rejected batch (treasury_service.py:120).
THEOREM QuorumHolds == Spec => []QuorumBeforeBroadcast
  <1>1. TreasuryInv => QuorumBeforeBroadcast
    BY DEF TreasuryInv, QuorumBeforeBroadcast, HasQuorum, BatchOK, SignaturesOK, StatusOK
  <1> QED
    BY <1>1, InitTreasuryInv, TreasuryInvStep, PTL DEF Spec

-----------------------------------------------------------------------------
(***************************************************************************)
(* The decision on a batch is final.                                       *)
(***************************************************************************)

LEMMA FrozenStep ==
  TreasuryInv /\ [Next]_vars =>
    \A b \in DOMAIN batches :
      batches[b].status # "pending_signatures" =>
        /\ batches'[b].status # "pending_signatures"
        /\ batches'[b].signatures = batches[b].signatures
        /\ batches'[b].rejections = batches[b].rejections
  <1> SUFFICES ASSUME TreasuryInv, [Next]_vars, NEW c \in DOMAIN batches,
                      batches[c].status # "pending_signatures"
               PROVE  /\ batches'[c].status # "pending_signatures"
                      /\ batches'[c].signatures = batches[c].signatures
                      /\ batches'[c].rejections = batches[c].rejections
    OBVIOUS
  <1>1. ASSUME NEW b \in BatchIds, NEW asset \in Assets, CreateSettlementBatch(b, asset)
        PROVE  batches'[c] = batches[c]
    BY <1>1, CreateOK
  <1>2. ASSUME NEW b \in DOMAIN batches, NEW o \in Operators,
               SignBatch(b, o) \/ RejectBatch(b, o)
        PROVE  batches'[c] = batches[c]
    <2>1. b # c
      BY <1>2 DEF SignBatch, Collecting, RejectBatch
    <2> QED
      BY <1>2, <2>1, SignOK, DecideOK
  <1>3. ASSUME NEW b \in DOMAIN batches, BroadcastBatch(b)
        PROVE  batches'[c] \in {batches[c],
                 [batches[c] EXCEPT !.status = "broadcasting", !.tx_hash = TRUE]}
    BY <1>3 DEF BroadcastBatch
  <1>4. ASSUME NEW b \in DOMAIN batches, NEW n \in ConfirmationArgs, ConfirmBatch(b, n)
        PROVE  batches'[c] \in {batches[c], [batches[c] EXCEPT !.status = "completed"]}
    BY <1>4 DEF ConfirmBatch
  <1>5. CASE (\E o \in Operators : RegisterOperator(o)) \/ Tick \/ UNCHANGED vars
    BY <1>5 DEF RegisterOperator, Tick, vars
  <1>6. batches[c] \in Batch
    BY DEF TreasuryInv, BatchOK
  <1> QED
    BY <1>1, <1>2, <1>3, <1>4, <1>5, <1>6 DEF Next, Batch

\* No signature, rejection or return after a batch left "pending_signatures".
THEOREM DecisionIsFinal == Spec => DecisionFrozen
  BY InitTreasuryInv, TreasuryInvStep, FrozenStep, PTL DEF Spec, DecisionFrozen

-----------------------------------------------------------------------------
(***************************************************************************)
(* The treasury implements Multisig.                                       *)
(***************************************************************************)

\* The refinement mapping, named.
signersOf == [b \in DOMAIN batches |-> Signers(batches[b])]
refusedOnes == {b \in DOMAIN batches : batches[b].rejections # {}}
sentOnes == {b \in DOMAIN batches : batches[b].tx_hash}

\* A step on batch b alone maps to the abstract variables at b alone.
LEMMA MappingAt ==
  ASSUME NEW b \in DOMAIN batches, DOMAIN batches' = DOMAIN batches,
         \A c \in DOMAIN batches \ {b} : batches'[c] = batches[c],
         NEW signers, signers = Signers(batches'[b])
  PROVE  /\ signersOf' = [signersOf EXCEPT ![b] = signers]
         /\ batches'[b].rejections = batches[b].rejections => refusedOnes' = refusedOnes
         /\ (batches'[b].rejections # {}) => refusedOnes' = refusedOnes \cup {b}
         /\ batches'[b].tx_hash = batches[b].tx_hash => sentOnes' = sentOnes
         /\ batches'[b].tx_hash = TRUE => sentOnes' = sentOnes \cup {b}
  <1>1. signersOf' = [c \in DOMAIN batches |-> Signers(batches'[c])]
    BY DEF signersOf, Signers
  <1>2. \A c \in DOMAIN batches : Signers(batches'[c]) =
          IF c = b THEN signers ELSE Signers(batches[c])
    OBVIOUS
  <1>3. signersOf' = [signersOf EXCEPT ![b] = signers]
    BY <1>1, <1>2 DEF signersOf
  <1>4. /\ batches'[b].rejections = batches[b].rejections => refusedOnes' = refusedOnes
        /\ (batches'[b].rejections # {}) => refusedOnes' = refusedOnes \cup {b}
    BY DEF refusedOnes
  <1>5. sentOnes' = {c \in DOMAIN batches : batches'[c].tx_hash}
    BY DEF sentOnes
  <1>6. ASSUME batches'[b].tx_hash = batches[b].tx_hash PROVE sentOnes' = sentOnes
    <2>1. \A c \in DOMAIN batches : batches'[c].tx_hash = batches[c].tx_hash
      BY <1>6
    <2>2. {c \in DOMAIN batches : batches'[c].tx_hash} = {c \in DOMAIN batches : batches[c].tx_hash}
      BY <2>1, Zenon
    <2> QED
      BY <1>5, <2>2 DEF sentOnes
  <1>7. ASSUME batches'[b].tx_hash = TRUE PROVE sentOnes' = sentOnes \cup {b}
    <2>1. \A c \in DOMAIN batches \ {b} : batches'[c].tx_hash = batches[c].tx_hash
      OBVIOUS
    <2>2. ASSUME NEW c \in sentOnes' PROVE c \in sentOnes \cup {b}
      BY <1>5, <2>1, <2>2, Zenon DEF sentOnes
    <2>3. ASSUME NEW c \in sentOnes PROVE c \in sentOnes'
      <3>1. c \in DOMAIN batches
        BY DEF sentOnes
      <3>2. CASE c = b
        BY <1>5, <1>7, <3>1, <3>2, Zenon
      <3>3. CASE c # b
        BY <1>5, <2>1, <3>1, <3>3, Zenon DEF sentOnes
      <3> QED
        BY <3>2, <3>3
    <2>4. b \in sentOnes'
      BY <1>5, <1>7, Zenon
    <2> QED
      BY <2>2, <2>3, <2>4
  <1> QED
    BY <1>3, <1>4, <1>6, <1>7

LEMMA CreateImplements ==
  ASSUME TreasuryInv, NEW b \in BatchIds, NEW asset \in Assets,
         CreateSettlementBatch(b, asset)
  PROVE  Abstract!Next
  <1>1. /\ b \notin DOMAIN batches
        /\ DOMAIN batches' = DOMAIN batches \cup {b}
        /\ \A c \in DOMAIN batches : batches'[c] = batches[c]
        /\ Signers(batches'[b]) = {}
        /\ batches'[b].rejections = {}
        /\ batches'[b].tx_hash = FALSE
    BY CreateOK DEF CreateSettlementBatch, Signers
  <1>2. signersOf' = [c \in DOMAIN signersOf \cup {b} |-> IF c = b THEN {} ELSE signersOf[c]]
    <2>1. signersOf' = [c \in DOMAIN batches \cup {b} |-> Signers(batches'[c])]
      BY <1>1 DEF signersOf, Signers
    <2>2. \A c \in DOMAIN batches \cup {b} : Signers(batches'[c]) =
            IF c = b THEN {} ELSE Signers(batches[c])
      BY <1>1
    <2> QED
      BY <2>1, <2>2 DEF signersOf
  <1>3. refusedOnes' = refusedOnes
    BY <1>1 DEF refusedOnes
  <1>4. sentOnes' = sentOnes
    BY <1>1 DEF sentOnes
  <1>5. Abstract!Open(b)
    BY <1>1, <1>2, <1>3, <1>4 DEF Abstract!Open, signersOf, refusedOnes, sentOnes
  <1> QED
    BY <1>5 DEF Abstract!Next

\* The instance has a Cardinality of its own, by the same definition.
LEMMA SameCardinality == \A S : Abstract!Cardinality(S) = Cardinality(S)
  BY Zenon DEF Abstract!Cardinality, Cardinality

\* What sign_batch and reject_batch find is undecided in Multisig too.
LEMMA StillUndecided ==
  ASSUME TreasuryInv, NEW b \in DOMAIN batches, batches[b].status = "pending_signatures"
  PROVE  Abstract!Undecided(b)
  <1>1. BatchOK(batches[b])
    BY DEF TreasuryInv
  <1>2. b \notin refusedOnes /\ Cardinality(signersOf[b]) < Required
    BY <1>1 DEF refusedOnes, signersOf, BatchOK, SignaturesOK, StatusOK
  <1> QED
    BY <1>2, SameCardinality DEF Abstract!Undecided, refusedOnes, signersOf

LEMMA SignImplements ==
  ASSUME TreasuryInv, NEW b \in DOMAIN batches, NEW o \in Operators, SignBatch(b, o)
  PROVE  Abstract!Next \/ UNCHANGED <<signersOf, refusedOnes, sentOnes>>
  <1>1. /\ BatchOK(batches[b])
        /\ DOMAIN batches' = DOMAIN batches
        /\ \A c \in DOMAIN batches \ {b} : batches'[c] = batches[c]
    BY SignOK DEF TreasuryInv
  <1>2. PICK signers : signers = Signers(batches'[b])
    OBVIOUS
  <1>3. /\ batches'[b].rejections = batches[b].rejections => refusedOnes' = refusedOnes
        /\ batches'[b].tx_hash = batches[b].tx_hash => sentOnes' = sentOnes
        /\ signersOf' = [signersOf EXCEPT ![b] = signers]
    BY <1>1, <1>2, MappingAt
  <1>4. CASE now > batches[b].expires_at
    <2>1. batches'[b] = [batches[b] EXCEPT !.status = "expired"]
      BY <1>4 DEF SignBatch
    <2>2. /\ batches'[b].signatures = batches[b].signatures
          /\ batches'[b].rejections = batches[b].rejections
          /\ batches'[b].tx_hash = batches[b].tx_hash
      BY <1>1, <2>1 DEF BatchOK, Batch
    <2>3. signers = Signers(batches[b])
      BY <1>2, <2>2 DEF Signers
    <2>4. signersOf' = signersOf
      BY <1>3, <2>3 DEF signersOf
    <2> QED
      BY <1>3, <2>2, <2>4
  <1>5. CASE ~(now > batches[b].expires_at)
    <2>1. /\ MaySign(b, o)
          /\ batches'[b] = [batches[b] EXCEPT
               !.signatures = Signed(batches[b], o),
               !.status = IF Quorate(Signed(batches[b], o)) THEN "approved" ELSE @]
      BY <1>5 DEF SignBatch, Signed
    <2>2. /\ batches'[b].signatures = Signed(batches[b], o)
          /\ batches'[b].expires_at = batches[b].expires_at
          /\ batches'[b].rejections = batches[b].rejections
          /\ batches'[b].tx_hash = batches[b].tx_hash
      BY <1>1, <2>1 DEF BatchOK, Batch
    <2>3. now <= batches[b].expires_at
      BY <1>1, <1>5 DEF TreasuryInv, BatchOK, Batch
    <2>4. signers = Signers(batches[b]) \cup {o}
      BY <1>2, <2>1, <2>2, <2>3, SignaturesGrow
    <2>5. signersOf' = [signersOf EXCEPT ![b] = @ \cup {o}]
      BY <1>3, <2>4 DEF signersOf
    <2>6. o \notin signersOf[b]
      BY <2>1 DEF MaySign, signersOf
    <2>7. Abstract!Undecided(b)
      BY StillUndecided DEF SignBatch, Collecting
    <2>8. Abstract!Sign(b, o)
      BY <1>3, <2>2, <2>5, <2>6, <2>7
         DEF Abstract!Sign, signersOf, refusedOnes, sentOnes
    <2>9. b \in DOMAIN signersOf
      BY DEF signersOf
    <2> QED
      BY <2>8, <2>9 DEF Abstract!Next, signersOf
  <1> QED
    BY <1>4, <1>5

LEMMA RejectImplements ==
  ASSUME TreasuryInv, NEW b \in DOMAIN batches, NEW o \in Operators, RejectBatch(b, o)
  PROVE  Abstract!Next
  <1>1. /\ BatchOK(batches[b])
        /\ DOMAIN batches' = DOMAIN batches
        /\ \A c \in DOMAIN batches \ {b} : batches'[c] = batches[c]
        /\ batches'[b] = [batches[b] EXCEPT !.rejections = @ \cup {o}, !.status = "rejected"]
    BY DEF TreasuryInv, RejectBatch
  <1>2. /\ batches'[b].signatures = batches[b].signatures
        /\ batches'[b].rejections # {}
        /\ batches'[b].tx_hash = batches[b].tx_hash
    BY <1>1 DEF BatchOK, Batch
  <1>3. PICK signers : signers = Signers(batches'[b])
    OBVIOUS
  <1>4. /\ refusedOnes' = refusedOnes \cup {b}
        /\ sentOnes' = sentOnes
        /\ signersOf' = [signersOf EXCEPT ![b] = signers]
    BY <1>1, <1>2, <1>3, MappingAt
  <1>5. signersOf' = signersOf
    <2>1. signers = Signers(batches[b])
      BY <1>2, <1>3 DEF Signers
    <2> QED
      BY <1>4, <2>1 DEF signersOf
  <1>6. Abstract!Undecided(b)
    BY StillUndecided DEF RejectBatch
  <1>7. Abstract!Refuse(b)
    BY <1>4, <1>5, <1>6 DEF Abstract!Refuse, signersOf, refusedOnes, sentOnes
  <1>8. b \in DOMAIN signersOf
    BY DEF signersOf
  <1> QED
    BY <1>7, <1>8 DEF Abstract!Next, signersOf

LEMMA BroadcastImplements ==
  ASSUME TreasuryInv, NEW b \in DOMAIN batches, BroadcastBatch(b)
  PROVE  Abstract!Next
  <1>1. /\ BatchOK(batches[b])
        /\ batches[b].status = "approved"
        /\ DOMAIN batches' = DOMAIN batches
        /\ \A c \in DOMAIN batches \ {b} : batches'[c] = batches[c]
        /\ batches'[b] = [batches[b] EXCEPT !.status = "broadcasting", !.tx_hash = TRUE]
    BY DEF TreasuryInv, BroadcastBatch
  <1>2. /\ batches'[b].signatures = batches[b].signatures
        /\ batches'[b].rejections = batches[b].rejections
        /\ batches'[b].tx_hash = TRUE
    BY <1>1 DEF BatchOK, Batch
  <1>3. PICK signers : signers = Signers(batches'[b])
    OBVIOUS
  <1>4. /\ refusedOnes' = refusedOnes
        /\ sentOnes' = sentOnes \cup {b}
        /\ signersOf' = [signersOf EXCEPT ![b] = signers]
    BY <1>1, <1>2, <1>3, MappingAt
  <1>5. signersOf' = signersOf
    <2>1. signers = Signers(batches[b])
      BY <1>2, <1>3 DEF Signers
    <2> QED
      BY <1>4, <2>1 DEF signersOf
  <1>6. /\ batches[b].tx_hash = FALSE
        /\ batches[b].rejections = {}
        /\ Cardinality(Signers(batches[b])) >= Required
    BY <1>1 DEF BatchOK, SignaturesOK, StatusOK
  <1>7. b \notin refusedOnes \cup sentOnes
    BY <1>6, Zenon DEF refusedOnes, sentOnes
  <1>8. Abstract!Cardinality(signersOf[b]) >= Required
    BY <1>6, SameCardinality DEF signersOf
  <1>9. Abstract!Send(b)
    BY <1>4, <1>5, <1>7, <1>8 DEF Abstract!Send, signersOf, refusedOnes, sentOnes
  <1>10. b \in DOMAIN signersOf
    BY DEF signersOf
  <1> QED
    BY <1>9, <1>10 DEF Abstract!Next, signersOf

LEMMA ConfirmImplements ==
  ASSUME TreasuryInv, NEW b \in DOMAIN batches, NEW n \in ConfirmationArgs,
         ConfirmBatch(b, n)
  PROVE  UNCHANGED <<signersOf, refusedOnes, sentOnes>>
  <1>1. /\ BatchOK(batches[b])
        /\ DOMAIN batches' = DOMAIN batches
        /\ \A c \in DOMAIN batches \ {b} : batches'[c] = batches[c]
        /\ batches'[b] = [batches[b] EXCEPT !.status = "completed"]
    BY DEF TreasuryInv, ConfirmBatch
  <1>2. /\ batches'[b].signatures = batches[b].signatures
        /\ batches'[b].rejections = batches[b].rejections
        /\ batches'[b].tx_hash = batches[b].tx_hash
    BY <1>1 DEF BatchOK, Batch
  <1>3. PICK signers : signers = Signers(batches'[b])
    OBVIOUS
  <1>4. /\ refusedOnes' = refusedOnes
        /\ sentOnes' = sentOnes
        /\ signersOf' = [signersOf EXCEPT ![b] = signers]
    BY <1>1, <1>2, <1>3, MappingAt
  <1>5. signers = Signers(batches[b])
    BY <1>2, <1>3 DEF Signers
  <1> QED
    BY <1>4, <1>5 DEF signersOf

\* Every batch goes through the multi-signature protocol, confirmations of
\* batches that never went out included.
THEOREM TreasuryImplementsMultisig == Spec => ImplementsMultisig
  <1>1. Init => Abstract!Init
    BY DEF Init, Abstract!Init
  <1>2. TreasuryInv /\ [Next]_vars => [Abstract!Next]_<<signersOf, refusedOnes, sentOnes>>
    <2> SUFFICES ASSUME TreasuryInv, [Next]_vars
                 PROVE  Abstract!Next \/ UNCHANGED <<signersOf, refusedOnes, sentOnes>>
      OBVIOUS
    <2>1. CASE \/ \E o \in Operators : RegisterOperator(o)
               \/ Tick
               \/ UNCHANGED vars
      BY <2>1 DEF RegisterOperator, Tick, vars, signersOf, refusedOnes, sentOnes
    <2> QED
      BY <2>1, CreateImplements, SignImplements, RejectImplements,
         BroadcastImplements, ConfirmImplements DEF Next
  <1> QED
    BY <1>1, <1>2, InitTreasuryInv, TreasuryInvStep, PTL
       DEF Spec, ImplementsMultisig, Abstract!Spec, signersOf, refusedOnes, sentOnes
=============================================================================
