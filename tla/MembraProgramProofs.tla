------------------------ MODULE MembraProgramProofs ------------------------
(***************************************************************************)
(* Theorems about the Anchor program, for every set of keys, every hash    *)
(* function, every choice of arguments and bounds, any number of notes and *)
(* both halves of the program at once.                                     *)
(***************************************************************************)
EXTENDS MembraProgram, TLAPS

-----------------------------------------------------------------------------
(***************************************************************************)
(* Helpers.                                                                *)
(***************************************************************************)

\* Creating an account adds its address and changes no other account.
LEMMA CreateFacts ==
  ASSUME NEW f, NEW a, NEW x
  PROVE  /\ DOMAIN Create(f, a, x) = DOMAIN f \cup {a}
         /\ Create(f, a, x)[a] = x
         /\ \A b \in DOMAIN f : b # a => Create(f, a, x)[b] = f[b]
  BY DEF Create

\* Handing a note over rewrites three fields of that note and no other note.
LEMMA GiveToFacts ==
  ASSUME TypeOK, NEW n \in DOMAIN notes, NEW k \in Keys, GiveTo(n, k)
  PROVE  /\ DOMAIN notes' = DOMAIN notes
         /\ notes'[n] = [notes[n] EXCEPT !.current_holder = k,
                                         !.state = "Transferred",
                                         !.replay_nonce = notes[n].replay_nonce + 1]
         /\ notes'[n] \in Note
         /\ \A m \in DOMAIN notes : m # n => notes'[m] = notes[m]
  <1>1. notes[n] \in Note
    BY DEF TypeOK, NotesTypeOK
  <1>2. DOMAIN notes' = DOMAIN notes /\ \A m \in DOMAIN notes : m # n => notes'[m] = notes[m]
    BY DEF GiveTo
  <1>3. notes'[n] = [notes[n] EXCEPT !.current_holder = k,
                                     !.state = "Transferred",
                                     !.replay_nonce = notes[n].replay_nonce + 1]
    BY DEF GiveTo, NextNonce
  <1>4. notes'[n] \in Note
    <2>1. notes[n].replay_nonce + 1 \in Nat /\ "Transferred" \in NoteStates
      BY <1>1 DEF Note, NoteStates
    <2> QED
      BY <1>1, <1>3, <2>1 DEF Note
  <1> QED
    BY <1>2, <1>3, <1>4

-----------------------------------------------------------------------------
(***************************************************************************)
(* Type correctness.                                                       *)
(***************************************************************************)

LEMMA InitTypeOK == Init => TypeOK
  <1> SUFFICES ASSUME Init PROVE TypeOK
    OBVIOUS
  <1>1. ProtocolTypeOK
    BY DEF Init, ProtocolInit, ProtocolTypeOK
  <1>2. NotesTypeOK
    BY DEF Init, NotesInit, NotesTypeOK
  <1>3. VaultTypeOK
    BY DEF Init, VaultInit, VaultTypeOK, NoVault, EmptyVault, GasVault, MembraMint
  <1> QED
    BY <1>1, <1>2, <1>3 DEF TypeOK

LEMMA ProtocolTypeStep ==
  ASSUME TypeOK, ProtocolNext, UNCHANGED <<noteVars, vaultVars>>
  PROVE  TypeOK'
  <1>1. ProtocolTypeOK'
    <2>1. CASE \E k \in Keys : InitializeProtocol(k)
      <3>1. /\ authority' \in Keys /\ note_counter' = 0 /\ clock' = clock
            /\ paused' \in BOOLEAN
        BY <2>1, ZenonT(20) DEF InitializeProtocol
      <3> QED
        BY <3>1 DEF TypeOK, ProtocolTypeOK
    <2>2. CASE \E k \in Keys : PauseProtocol(k)
      <3>1. UNCHANGED <<authority, note_counter, clock>> /\ paused' \in BOOLEAN
        BY <2>2, ZenonT(20) DEF PauseProtocol
      <3> QED
        BY <3>1 DEF TypeOK, ProtocolTypeOK
    <2>3. CASE \E k \in Keys : UnpauseProtocol(k)
      <3>1. UNCHANGED <<authority, note_counter, clock>> /\ paused' \in BOOLEAN
        BY <2>3, ZenonT(20) DEF UnpauseProtocol
      <3> QED
        BY <3>1 DEF TypeOK, ProtocolTypeOK
    <2>4. CASE Tick
      BY <2>4 DEF TypeOK, ProtocolTypeOK, Tick
    <2> QED
      BY <2>1, <2>2, <2>3, <2>4 DEF ProtocolNext
  <1>2. NotesTypeOK'
    BY DEF TypeOK, NotesTypeOK, noteVars
  <1>3. VaultTypeOK'
    BY DEF TypeOK, VaultTypeOK, vaultVars
  <1> QED
    BY <1>1, <1>2, <1>3 DEF TypeOK

\* One step of one existing note keeps the types.
LEMMA NoteTypeStep ==
  ASSUME TypeOK, NEW n \in DOMAIN notes, NoteStep(n)
  PROVE  /\ NotesTypeOK' /\ UNCHANGED <<protocolVars, attestations>>
         /\ DOMAIN notes' = DOMAIN notes
  <1>1. PICK k \in Keys :
          \/ \E to \in Keys : TransferNote(n, k, to)
          \/ \E preimage \in Preimages : ClaimNote(n, k, preimage)
          \/ RedeemNote(n, k)
          \/ BurnNote(n, k)
          \/ RevokeNote(n, k)
    BY DEF NoteStep
  <1>2. ASSUME NEW to \in Keys, TransferNote(n, k, to)
        PROVE  NotesTypeOK' /\ UNCHANGED <<protocolVars, attestations>>
               /\ DOMAIN notes' = DOMAIN notes
    <2>1. GiveTo(n, to) /\ UNCHANGED <<protocolVars, attestations, claims>>
      BY <1>2 DEF TransferNote
    <2> QED
      BY <2>1, GiveToFacts DEF TypeOK, NotesTypeOK
  <1>3. ASSUME NEW preimage \in Preimages, ClaimNote(n, k, preimage)
        PROVE  NotesTypeOK' /\ UNCHANGED <<protocolVars, attestations>>
               /\ DOMAIN notes' = DOMAIN notes
    <2>1. /\ GiveTo(n, k)
          /\ UNCHANGED <<protocolVars, attestations>>
          /\ claims' = [claims EXCEPT ![n] = @ + 1]
      BY <1>3 DEF ClaimNote
    <2>2. /\ DOMAIN claims' = DOMAIN claims
          /\ \A m \in DOMAIN claims : claims'[m] \in Nat
      BY <2>1 DEF TypeOK, NotesTypeOK
    <2> QED
      BY <2>1, <2>2, GiveToFacts DEF TypeOK, NotesTypeOK
  <1>4. ASSUME NEW s \in NoteStates, notes' = [notes EXCEPT ![n].state = s],
               UNCHANGED <<protocolVars, attestations, claims>>
        PROVE  NotesTypeOK' /\ UNCHANGED <<protocolVars, attestations>>
               /\ DOMAIN notes' = DOMAIN notes
    <2>1. notes[n] \in Note
      BY DEF TypeOK, NotesTypeOK
    <2>2. notes'[n] = [notes[n] EXCEPT !.state = s]
      BY <1>4
    <2>3. notes'[n] \in Note
      BY <1>4, <2>1, <2>2 DEF Note
    <2> QED
      BY <1>4, <2>3 DEF TypeOK, NotesTypeOK
  <1>5. RedeemNote(n, k) \/ BurnNote(n, k) \/ RevokeNote(n, k)
          => \E s \in NoteStates :
               /\ notes' = [notes EXCEPT ![n].state = s]
               /\ UNCHANGED <<protocolVars, attestations, claims>>
    BY DEF RedeemNote, BurnNote, RevokeNote, NoteStates
  <1> QED
    BY <1>1, <1>2, <1>3, <1>4, <1>5

\* A minted note is a note; the id comes from the counter.
LEMMA MintTypeStep ==
  ASSUME TypeOK, NEW k \in Keys, NEW recipient \in Keys, NEW d \in DenominationArgs,
         NEW h \in ClaimHashArgs, NEW e \in ExpiryArgs,
         MintNote(k, recipient, d, h, e)
  PROVE  NotesTypeOK' /\ ProtocolTypeOK'
  <1> DEFINE new == [denomination_sats |-> d, current_holder |-> recipient, issuer |-> k,
                     claim_hash |-> h, replay_nonce |-> 0, state |-> "Created",
                     created_at |-> clock, expires_at |-> clock + e]
  <1>1. /\ note_counter \in Nat /\ clock \in Nat /\ d \in Nat /\ h \in Hashes
        /\ e \in Int /\ e > 0
    BY NotesAssumption DEF TypeOK, ProtocolTypeOK, MintNote
  <1>2. new \in Note
    BY <1>1 DEF Note, NoteStates
  <1>3. /\ notes' = Create(notes, note_counter, new)
        /\ claims' = Create(claims, note_counter, 0)
        /\ attestations' = attestations
    BY DEF MintNote
  <1>4. ProtocolTypeOK'
    BY <1>1 DEF MintNote, AdvancedCounter, TypeOK, ProtocolTypeOK
  <1>5. NotesTypeOK'
    <2> HIDE DEF new
    <2>1. /\ DOMAIN notes' = DOMAIN notes \cup {note_counter}
          /\ DOMAIN claims' = DOMAIN claims \cup {note_counter}
      BY <1>3, CreateFacts
    <2>2. \A n \in DOMAIN notes' : notes'[n] \in Note
      BY <1>2, <1>3, <2>1 DEF Create, TypeOK, NotesTypeOK
    <2>3. \A n \in DOMAIN claims' : claims'[n] \in Nat
      BY <1>3, <2>1 DEF Create, TypeOK, NotesTypeOK
    <2> QED
      BY <1>1, <1>3, <2>1, <2>2, <2>3 DEF TypeOK, NotesTypeOK
  <1> QED
    BY <1>4, <1>5

LEMMA AttestTypeStep ==
  ASSUME TypeOK, NEW k \in Keys, NEW r \in RatioArgs, RecordReserveAttestation(k, r)
  PROVE  NotesTypeOK'
  <1>1. r \in 0..10000 /\ clock \in Nat /\ note_counter \in Nat
    BY NotesAssumption DEF RecordReserveAttestation, ValidRatio, TypeOK, ProtocolTypeOK
  <1>2. [reserve_ratio_bps |-> r, attested_at |-> clock] \in ReserveAttestation
    BY <1>1 DEF ReserveAttestation
  <1>3. attestations' = Create(attestations, note_counter,
                          [reserve_ratio_bps |-> r, attested_at |-> clock])
    BY DEF RecordReserveAttestation, AttestationSeed
  <1>4. /\ DOMAIN attestations' \subseteq Nat
        /\ \A c \in DOMAIN attestations' : attestations'[c] \in ReserveAttestation
    BY <1>1, <1>2, <1>3 DEF Create, TypeOK, NotesTypeOK
  <1>5. UNCHANGED <<notes, claims>>
    BY DEF RecordReserveAttestation
  <1> QED
    BY <1>4, <1>5 DEF TypeOK, NotesTypeOK

LEMMA NotesTypeStep ==
  ASSUME TypeOK, NotesNext, UNCHANGED vaultVars
  PROVE  TypeOK'
  <1>1. VaultTypeOK'
    BY DEF TypeOK, VaultTypeOK, vaultVars
  <1>2. ASSUME NEW k \in Keys, NEW recipient \in Keys, NEW d \in DenominationArgs,
               NEW h \in ClaimHashArgs, NEW e \in ExpiryArgs,
               MintNote(k, recipient, d, h, e)
        PROVE  TypeOK'
    BY <1>1, <1>2, MintTypeStep DEF TypeOK
  <1>3. ASSUME NEW n \in DOMAIN notes, NoteStep(n)
        PROVE  TypeOK'
    BY <1>1, <1>3, NoteTypeStep DEF TypeOK, ProtocolTypeOK, protocolVars
  <1>4. ASSUME NEW k \in Keys, NEW r \in RatioArgs, RecordReserveAttestation(k, r)
        PROVE  TypeOK'
    <2>1. ProtocolTypeOK'
      BY <1>4 DEF RecordReserveAttestation, TypeOK, ProtocolTypeOK, protocolVars
    <2> QED
      BY <1>1, <1>4, <2>1, AttestTypeStep DEF TypeOK
  <1> QED
    BY <1>2, <1>3, <1>4 DEF NotesNext

LEMMA VaultTypeStep ==
  ASSUME TypeOK, VaultNext, UNCHANGED noteVars
  PROVE  TypeOK'
  <1> USE ProtocolAssumption, VaultAssumption DEF TypeOK, VaultTypeOK, GasVault, MembraMint
  <1>1. UNCHANGED protocolVars
    BY DEF VaultNext, InitializeGasVault, DepositToGasVault, IssueFeeCredits,
           ReimburseRelayer, InitializeMembraMint, UpdateRebaseIndex,
           SpendFeeCredits, MintMembra
  <1>2. ProtocolTypeOK' /\ NotesTypeOK'
    BY <1>1 DEF ProtocolTypeOK, NotesTypeOK, protocolVars, noteVars
  <1>3. ASSUME NEW k \in Keys, InitializeGasVault(k)
        PROVE  VaultTypeOK'
    BY <1>3 DEF InitializeGasVault, EmptyVault
  <1>4. ASSUME NEW k \in Keys, NEW amount \in LamportArgs, DepositToGasVault(k, amount)
        PROVE  VaultTypeOK'
    BY <1>4 DEF DepositToGasVault
  <1>5. ASSUME NEW k \in Keys, NEW amount \in LamportArgs, IssueFeeCredits(k, amount)
        PROVE  VaultTypeOK'
    BY <1>5 DEF IssueFeeCredits
  <1>6. ASSUME NEW k \in Keys, NEW amount \in LamportArgs, NEW toVault \in BOOLEAN,
               ReimburseRelayer(k, amount, toVault)
        PROVE  VaultTypeOK'
    BY <1>6 DEF ReimburseRelayer, AfterWithdrawal, Reimbursed, NoVault, EmptyVault
  <1>7. ASSUME NEW k \in Keys, NEW cap \in SupplyCaps, InitializeMembraMint(k, cap)
        PROVE  VaultTypeOK'
    BY <1>7 DEF InitializeMembraMint
  <1>8. ASSUME NEW k \in Keys, NEW index \in IndexArgs, UpdateRebaseIndex(k, index)
        PROVE  VaultTypeOK'
    BY <1>8 DEF UpdateRebaseIndex
  <1>9. ASSUME NEW amount \in LamportArgs, SpendFeeCredits(amount)
        PROVE  VaultTypeOK'
    BY <1>9 DEF SpendFeeCredits
  <1>10. ASSUME NEW amount \in MembraArgs, MintMembra(amount)
         PROVE  VaultTypeOK'
    BY <1>10 DEF MintMembra
  <1>11. VaultTypeOK'
    BY <1>3, <1>4, <1>5, <1>6, <1>7, <1>8, <1>9, <1>10 DEF VaultNext
  <1> QED
    BY <1>2, <1>11

LEMMA TypeStep == TypeOK /\ [Next]_vars => TypeOK'
  <1> SUFFICES ASSUME TypeOK, [Next]_vars PROVE TypeOK'
    OBVIOUS
  <1>1. CASE UNCHANGED vars
    BY <1>1 DEF vars, protocolVars, noteVars, vaultVars, TypeOK, ProtocolTypeOK,
                NotesTypeOK, VaultTypeOK
  <1>2. CASE Next
    BY <1>2, ProtocolTypeStep, NotesTypeStep, VaultTypeStep DEF Next
  <1> QED
    BY <1>1, <1>2

\* Every account the program can reach is well typed; in particular no
\* attestation ever records a ratio above 100%.
THEOREM TypeCorrect == Spec => []TypeOK
  BY InitTypeOK, TypeStep, PTL DEF Spec

-----------------------------------------------------------------------------
(***************************************************************************)
(* The notes invariant.  NoteIdsDense, AttestationOrder and                *)
(* NonceCountsHandovers are not inductive alone: minting needs to know     *)
(* that a counter is zero before initialize_protocol sets it to zero, and  *)
(* both orders compare stored times with the clock.                        *)
(***************************************************************************)

\* The counter is within its width, and starts with the protocol.
CounterOK ==
  /\ note_counter <= MaxNoteCounter
  /\ ~Initialized => note_counter = 0

\* Nothing stored is later than the clock, and no instruction sets Expired.
Timeline ==
  /\ \A n \in DOMAIN notes : notes[n].created_at <= clock /\ notes[n].state # "Expired"
  /\ \A c \in DOMAIN attestations : attestations[c].attested_at <= clock

NotesInv ==
  CounterOK /\ Timeline /\ NoteIdsDense /\ AttestationOrder /\ NonceCountsHandovers

\* What a step of one existing note does: a handover of a live, unexpired
\* note, or a change of state alone, of a live note to Redeemed (unexpired)
\* or Revoked, or of a Redeemed one to Burned.
HandedOver(n) ==
  /\ Live(n) /\ ~Expired(n)
  /\ notes'[n].current_holder \in Keys
  /\ notes'[n].state = "Transferred"
  /\ notes'[n].replay_nonce = notes[n].replay_nonce + 1
  /\ claims'[n] \in {claims[n], claims[n] + 1}

StateChanged(n, from, to) ==
  /\ notes[n].state \in from
  /\ notes'[n] = [notes[n] EXCEPT !.state = to]
  /\ notes'[n].state = to
  /\ notes'[n].current_holder = notes[n].current_holder
  /\ notes'[n].replay_nonce = notes[n].replay_nonce
  /\ claims'[n] = claims[n]

\* What it leaves alone.
OnlyNote(n) ==
  /\ Running
  /\ UNCHANGED <<authority, paused, note_counter, clock, attestations>>
  /\ DOMAIN notes' = DOMAIN notes /\ DOMAIN claims' = DOMAIN claims
  /\ \A m \in DOMAIN notes : m # n => notes'[m] = notes[m] /\ claims'[m] = claims[m]
  /\ notes'[n].created_at = notes[n].created_at

LEMMA NoteStepEffect ==
  ASSUME TypeOK, NEW n \in DOMAIN notes, NoteStep(n)
  PROVE  /\ OnlyNote(n)
         /\ \/ HandedOver(n)
            \/ StateChanged(n, {"Created", "Transferred"}, "Redeemed") /\ ~Expired(n)
            \/ StateChanged(n, {"Redeemed"}, "Burned")
            \/ StateChanged(n, {"Created", "Transferred"}, "Revoked")
  <1>1. PICK k \in Keys :
          \/ \E to \in Keys : TransferNote(n, k, to)
          \/ \E preimage \in Preimages : ClaimNote(n, k, preimage)
          \/ RedeemNote(n, k)
          \/ BurnNote(n, k)
          \/ RevokeNote(n, k)
    BY DEF NoteStep
  <1>2. notes[n] \in Note /\ DOMAIN claims = DOMAIN notes /\ claims[n] \in Nat
    BY DEF TypeOK, NotesTypeOK
  <1>3. ASSUME NEW to \in Keys, Running, Live(n), ~Expired(n), GiveTo(n, to),
               UNCHANGED <<protocolVars, attestations>>,
               DOMAIN claims' = DOMAIN claims,
               claims'[n] \in {claims[n], claims[n] + 1},
               \A m \in DOMAIN notes : m # n => claims'[m] = claims[m]
        PROVE  OnlyNote(n) /\ HandedOver(n)
    <2>1. /\ DOMAIN notes' = DOMAIN notes
          /\ notes'[n] = [notes[n] EXCEPT !.current_holder = to,
                                          !.state = "Transferred",
                                          !.replay_nonce = notes[n].replay_nonce + 1]
          /\ \A m \in DOMAIN notes : m # n => notes'[m] = notes[m]
      BY <1>3, GiveToFacts
    <2>2. /\ notes'[n].current_holder = to
          /\ notes'[n].state = "Transferred"
          /\ notes'[n].replay_nonce = notes[n].replay_nonce + 1
          /\ notes'[n].created_at = notes[n].created_at
      BY <1>2, <2>1 DEF Note
    <2>3. OnlyNote(n)
      BY <1>3, <2>1, <2>2 DEF OnlyNote, protocolVars
    <2>4. HandedOver(n)
      BY <1>3, <2>2 DEF HandedOver
    <2> QED
      BY <2>3, <2>4
  <1>4. ASSUME NEW to \in Keys, TransferNote(n, k, to)
        PROVE  OnlyNote(n) /\ HandedOver(n)
    BY <1>3, <1>4 DEF TransferNote
  <1>5. ASSUME NEW preimage \in Preimages, ClaimNote(n, k, preimage)
        PROVE  OnlyNote(n) /\ HandedOver(n)
    <2>1. claims' = [claims EXCEPT ![n] = @ + 1]
      BY <1>5 DEF ClaimNote
    <2>2. /\ DOMAIN claims' = DOMAIN claims
          /\ claims'[n] = claims[n] + 1
          /\ \A m \in DOMAIN notes : m # n => claims'[m] = claims[m]
      BY <1>2, <2>1
    <2> QED
      BY <1>3, <1>5, <2>2 DEF ClaimNote
  <1>6. ASSUME NEW from, NEW to, Running, notes[n].state \in from,
               notes' = [notes EXCEPT ![n].state = to],
               UNCHANGED <<protocolVars, attestations, claims>>
        PROVE  OnlyNote(n) /\ StateChanged(n, from, to)
    <2>1. /\ DOMAIN notes' = DOMAIN notes
          /\ notes'[n] = [notes[n] EXCEPT !.state = to]
          /\ \A m \in DOMAIN notes : m # n => notes'[m] = notes[m]
      BY <1>6
    <2>2. /\ notes'[n].state = to
          /\ notes'[n].current_holder = notes[n].current_holder
          /\ notes'[n].replay_nonce = notes[n].replay_nonce
          /\ notes'[n].created_at = notes[n].created_at
      BY <1>2, <2>1 DEF Note
    <2>3. OnlyNote(n)
      BY <1>6, <2>1, <2>2 DEF OnlyNote, protocolVars
    <2>4. StateChanged(n, from, to)
      BY <1>6, <2>1, <2>2 DEF StateChanged
    <2> QED
      BY <2>3, <2>4
  <1>7. CASE RedeemNote(n, k)
    <2>1. /\ Running /\ notes[n].state \in {"Created", "Transferred"} /\ ~Expired(n)
          /\ notes' = [notes EXCEPT ![n].state = "Redeemed"]
          /\ UNCHANGED <<protocolVars, attestations, claims>>
      BY <1>7 DEF RedeemNote, Live
    <2>2. OnlyNote(n) /\ StateChanged(n, {"Created", "Transferred"}, "Redeemed")
      BY <1>6, <2>1
    <2> QED
      BY <2>1, <2>2
  <1>8. CASE BurnNote(n, k)
    <2>1. /\ Running /\ notes[n].state \in {"Redeemed"}
          /\ notes' = [notes EXCEPT ![n].state = "Burned"]
          /\ UNCHANGED <<protocolVars, attestations, claims>>
      BY <1>8 DEF BurnNote
    <2>2. OnlyNote(n) /\ StateChanged(n, {"Redeemed"}, "Burned")
      BY <1>6, <2>1
    <2> QED
      BY <2>2
  <1>9. CASE RevokeNote(n, k)
    <2>1. /\ Running /\ notes[n].state \in {"Created", "Transferred"}
          /\ notes' = [notes EXCEPT ![n].state = "Revoked"]
          /\ UNCHANGED <<protocolVars, attestations, claims>>
      BY <1>9 DEF RevokeNote, Live
    <2>2. OnlyNote(n) /\ StateChanged(n, {"Created", "Transferred"}, "Revoked")
      BY <1>6, <2>1
    <2> QED
      BY <2>2
  <1> QED
    BY <1>1, <1>4, <1>5, <1>7, <1>8, <1>9

LEMMA InitNotesInv == Init => NotesInv
  BY NotesAssumption
  DEF Init, ProtocolInit, NotesInit, NotesInv, CounterOK, Timeline, NoteIdsDense,
      AttestationOrder, NonceCountsHandovers, Initialized

\* Steps that touch neither notes nor attestations: the protocol's own, the
\* vault's, and stuttering.  initialize_protocol finds a counter of zero.
LEMMA QuietStep ==
  ASSUME TypeOK, NotesInv, UNCHANGED noteVars,
         ProtocolNext \/ UNCHANGED protocolVars
  PROVE  NotesInv'
  <1>1. /\ notes' = notes /\ attestations' = attestations /\ claims' = claims
        /\ note_counter \in Nat /\ clock \in Nat
        /\ \A n \in DOMAIN notes : notes[n].created_at \in Nat
        /\ \A c \in DOMAIN attestations : attestations[c].attested_at \in Nat
    BY DEF noteVars, TypeOK, NotesTypeOK, ProtocolTypeOK, Note, ReserveAttestation
  <1>2. note_counter' = note_counter /\ clock' >= clock /\ clock' \in Nat
        /\ (~Initialized' => ~Initialized)
    <2>1. ASSUME NEW k \in Keys, InitializeProtocol(k)
          PROVE  note_counter' = 0 /\ clock' = clock /\ authority' = k
      BY <2>1 DEF InitializeProtocol
    <2>2. ASSUME NEW k \in Keys, InitializeProtocol(k)
          PROVE  note_counter' = note_counter /\ clock' = clock /\ ~Initialized
      BY <2>1, <2>2, <1>1 DEF InitializeProtocol, NotesInv, CounterOK
    <2>3. ASSUME NEW k \in Keys, PauseProtocol(k) \/ UnpauseProtocol(k)
          PROVE  UNCHANGED <<note_counter, clock, authority>>
      BY <2>3 DEF PauseProtocol, UnpauseProtocol
    <2>4. CASE Tick
      BY <2>4, <1>1 DEF Tick, Initialized
    <2>5. CASE UNCHANGED protocolVars
      BY <2>5, <1>1 DEF protocolVars, Initialized
    <2> QED
      BY <2>2, <2>3, <2>4, <2>5, <1>1 DEF ProtocolNext, Initialized
  <1>3. CounterOK'
    BY <1>1, <1>2 DEF NotesInv, CounterOK
  <1>4. Timeline'
    BY <1>1, <1>2 DEF NotesInv, Timeline
  <1>5. NoteIdsDense' /\ AttestationOrder' /\ NonceCountsHandovers'
    BY <1>1, <1>2 DEF NotesInv, NoteIdsDense, AttestationOrder, NonceCountsHandovers
  <1> QED
    BY <1>3, <1>4, <1>5 DEF NotesInv

\* Minting takes the id just above the range in use, after every attestation.
LEMMA MintStep ==
  ASSUME TypeOK, NotesInv, NEW k \in Keys, NEW recipient \in Keys,
         NEW d \in DenominationArgs, NEW h \in ClaimHashArgs, NEW e \in ExpiryArgs,
         MintNote(k, recipient, d, h, e)
  PROVE  NotesInv'
  <1>1. /\ note_counter \in Nat /\ clock \in Nat /\ MaxNoteCounter \in Nat
        /\ note_counter < MaxNoteCounter
        /\ note_counter' = note_counter + 1
        /\ Initialized /\ authority' = authority
        /\ clock' = clock /\ attestations' = attestations
    BY NotesAssumption DEF TypeOK, ProtocolTypeOK, MintNote, AdvancedCounter, Running
  <1>2. /\ DOMAIN notes' = DOMAIN notes \cup {note_counter}
        /\ DOMAIN claims' = DOMAIN notes \cup {note_counter}
        /\ \A n \in DOMAIN notes : n # note_counter =>
             notes'[n] = notes[n] /\ claims'[n] = claims[n]
        /\ notes'[note_counter].created_at = clock
        /\ notes'[note_counter].state = "Created"
        /\ notes'[note_counter].replay_nonce = 0
        /\ claims'[note_counter] = 0
    BY DEF MintNote, Create, TypeOK, NotesTypeOK
  <1>3. CounterOK'
    BY <1>1 DEF CounterOK, Initialized
  <1>4. Timeline'
    BY <1>1, <1>2 DEF NotesInv, Timeline
  <1>5. NoteIdsDense'
    BY <1>1, <1>2 DEF NotesInv, NoteIdsDense
  <1>6. AttestationOrder'
    <2> SUFFICES ASSUME NEW c \in DOMAIN attestations
                 PROVE  /\ c <= note_counter'
                        /\ \A n \in DOMAIN notes' :
                             IF n < c THEN notes'[n].created_at <= attestations[c].attested_at
                                      ELSE attestations[c].attested_at <= notes'[n].created_at
      BY <1>1 DEF AttestationOrder
    <2>1. c \in Nat /\ c <= note_counter
      BY DEF NotesInv, AttestationOrder, TypeOK, NotesTypeOK
    <2>2. ASSUME NEW n \in DOMAIN notes, n # note_counter
          PROVE  IF n < c THEN notes'[n].created_at <= attestations[c].attested_at
                          ELSE attestations[c].attested_at <= notes'[n].created_at
      BY <2>2, <1>2 DEF NotesInv, AttestationOrder
    <2>3. ~(note_counter < c) /\ attestations[c].attested_at <= notes'[note_counter].created_at
      BY <1>1, <1>2, <2>1 DEF NotesInv, Timeline
    <2> QED
      BY <1>1, <1>2, <2>1, <2>2, <2>3
  <1>7. NonceCountsHandovers'
    BY <1>2 DEF NotesInv, NonceCountsHandovers
  <1> QED
    BY <1>3, <1>4, <1>5, <1>6, <1>7 DEF NotesInv

LEMMA NoteStepInv ==
  ASSUME TypeOK, NotesInv, NEW n \in DOMAIN notes, NoteStep(n)
  PROVE  NotesInv'
  <1>1. /\ OnlyNote(n)
        /\ \/ HandedOver(n)
           \/ StateChanged(n, {"Created", "Transferred"}, "Redeemed")
           \/ StateChanged(n, {"Redeemed"}, "Burned")
           \/ StateChanged(n, {"Created", "Transferred"}, "Revoked")
    BY NoteStepEffect
  <1>2. notes[n].replay_nonce \in Nat /\ claims[n] \in Nat
    BY DEF TypeOK, NotesTypeOK, Note
  <1>3. /\ notes'[n].state \in {"Transferred", "Redeemed", "Burned", "Revoked"}
        /\ claims'[n] <= notes'[n].replay_nonce
        /\ notes'[n].state = "Transferred" => notes'[n].replay_nonce > 0
    BY <1>1, <1>2 DEF HandedOver, StateChanged, NotesInv, NonceCountsHandovers
  <1>4. CounterOK'
    BY <1>1 DEF OnlyNote, NotesInv, CounterOK, Initialized
  <1>5. Timeline'
    BY <1>1, <1>3 DEF OnlyNote, NotesInv, Timeline
  <1>6. NoteIdsDense'
    BY <1>1 DEF OnlyNote, NotesInv, NoteIdsDense
  <1>7. AttestationOrder'
    BY <1>1 DEF OnlyNote, NotesInv, AttestationOrder
  <1>8. NonceCountsHandovers'
    BY <1>1, <1>3 DEF OnlyNote, NotesInv, NonceCountsHandovers
  <1> QED
    BY <1>4, <1>5, <1>6, <1>7, <1>8 DEF NotesInv

\* An attestation is taken at the counter, above every note in use.
LEMMA AttestStep ==
  ASSUME TypeOK, NotesInv, NEW k \in Keys, NEW r \in RatioArgs,
         RecordReserveAttestation(k, r)
  PROVE  NotesInv'
  <1>1. /\ UNCHANGED <<authority, note_counter, clock, notes, claims>>
        /\ note_counter \in Nat /\ clock \in Nat
    BY DEF RecordReserveAttestation, protocolVars, TypeOK, ProtocolTypeOK
  <1>2. /\ DOMAIN attestations' = DOMAIN attestations \cup {note_counter}
        /\ attestations'[note_counter].attested_at = clock
        /\ \A c \in DOMAIN attestations : c # note_counter => attestations'[c] = attestations[c]
    BY DEF RecordReserveAttestation, AttestationSeed, Create
  <1>3. CounterOK' /\ NoteIdsDense' /\ NonceCountsHandovers'
    BY <1>1 DEF NotesInv, CounterOK, NoteIdsDense, NonceCountsHandovers, Initialized
  <1>4. Timeline'
    BY <1>1, <1>2 DEF NotesInv, Timeline
  <1>5. AttestationOrder'
    <2>1. \A n \in DOMAIN notes : n < note_counter /\ notes[n].created_at <= clock
      BY <1>1 DEF NotesInv, NoteIdsDense, Timeline
    <2> QED
      BY <1>1, <1>2, <2>1 DEF NotesInv, AttestationOrder
  <1> QED
    BY <1>3, <1>4, <1>5 DEF NotesInv

LEMMA VaultQuiet == VaultNext => UNCHANGED protocolVars
  BY DEF VaultNext, InitializeGasVault, DepositToGasVault, IssueFeeCredits,
         ReimburseRelayer, InitializeMembraMint, UpdateRebaseIndex,
         SpendFeeCredits, MintMembra

LEMMA NotesInvStep == TypeOK /\ NotesInv /\ [Next]_vars => NotesInv'
  <1> SUFFICES ASSUME TypeOK, NotesInv, [Next]_vars PROVE NotesInv'
    OBVIOUS
  <1>1. CASE UNCHANGED vars
    BY <1>1, QuietStep DEF vars
  <1>2. CASE ProtocolNext /\ UNCHANGED <<noteVars, vaultVars>>
    BY <1>2, QuietStep
  <1>3. CASE VaultNext /\ UNCHANGED noteVars
    BY <1>3, QuietStep, VaultQuiet
  <1>4. CASE NotesNext
    BY <1>4, MintStep, NoteStepInv, AttestStep DEF NotesNext
  <1> QED
    BY <1>1, <1>2, <1>3, <1>4 DEF Next

\* Types and the invariant of the notes hold in every reachable state.
LEMMA NotesInvariant == Spec => [](TypeOK /\ NotesInv)
  BY InitTypeOK, TypeStep, InitNotesInv, NotesInvStep, PTL DEF Spec

\* The note ids handed out are exactly 0 .. note_counter - 1, for any number of
\* notes, keys and seconds.
THEOREM NotesCorrect == Spec => []NoteIdsDense
  <1>1. NotesInv => NoteIdsDense
    BY DEF NotesInv
  <1> QED
    BY <1>1, NotesInvariant, PTL

\* The counter an attestation takes as its seed stands between the notes it
\* covers and those minted after it.
THEOREM AttestationsInOrder == Spec => []AttestationOrder
  <1>1. NotesInv => AttestationOrder
    BY DEF NotesInv
  <1> QED
    BY <1>1, NotesInvariant, PTL

\* A note nobody has taken over has the nonce 0, a transferred one a positive
\* nonce, and the claims of a note never outnumber its nonce.
THEOREM NoncesCount == Spec => []NonceCountsHandovers
  <1>1. NotesInv => NonceCountsHandovers
    BY DEF NotesInv
  <1> QED
    BY <1>1, NotesInvariant, PTL

-----------------------------------------------------------------------------
(***************************************************************************)
(* What a step may do to a note.                                           *)
(***************************************************************************)

\* A step either leaves the existing notes alone or is a step of one of them.
LEMMA StepOfNotes ==
  ASSUME TypeOK, NotesInv, [Next]_vars
  PROVE  \/ UNCHANGED notes
         \/ \E n \in DOMAIN notes : NoteStep(n)
         \/ \A n \in DOMAIN notes : n \in DOMAIN notes' /\ notes'[n] = notes[n]
  <1>1. ASSUME NEW k \in Keys, NEW recipient \in Keys, NEW d \in DenominationArgs,
               NEW h \in ClaimHashArgs, NEW e \in ExpiryArgs,
               MintNote(k, recipient, d, h, e)
        PROVE  \A n \in DOMAIN notes : n \in DOMAIN notes' /\ notes'[n] = notes[n]
    BY <1>1 DEF MintNote, Create
  <1>2. ASSUME NEW k \in Keys, NEW r \in RatioArgs, RecordReserveAttestation(k, r)
        PROVE  UNCHANGED notes
    BY <1>2 DEF RecordReserveAttestation
  <1> QED
    BY <1>1, <1>2 DEF Next, NotesNext, vars, noteVars

\* While the nonce of a note stands still, so does its holder.
THEOREM NonceIsAVersion == Spec => NonceVersionsHolder
  <1> DEFINE A == \A n \in DOMAIN notes :
                    /\ notes'[n].replay_nonce >= notes[n].replay_nonce
                    /\ notes'[n].replay_nonce = notes[n].replay_nonce
                         => notes'[n].current_holder = notes[n].current_holder
  <1>1. TypeOK /\ NotesInv /\ [Next]_vars => [A]_noteVars
    <2> SUFFICES ASSUME TypeOK, NotesInv, [Next]_vars, NEW m \in DOMAIN notes
                 PROVE  /\ notes'[m].replay_nonce >= notes[m].replay_nonce
                        /\ notes'[m].replay_nonce = notes[m].replay_nonce
                             => notes'[m].current_holder = notes[m].current_holder
      OBVIOUS
    <2>1. notes[m].replay_nonce \in Nat
      BY DEF TypeOK, NotesTypeOK, Note
    <2>2. ASSUME NEW n \in DOMAIN notes, NoteStep(n)
          PROVE  notes'[m] = notes[m] \/ HandedOver(m)
                 \/ (/\ notes'[m].current_holder = notes[m].current_holder
                     /\ notes'[m].replay_nonce = notes[m].replay_nonce)
      BY <2>2, NoteStepEffect DEF OnlyNote, StateChanged
    <2>3. CASE UNCHANGED notes
      BY <2>1, <2>3
    <2> QED
      BY <2>1, <2>2, <2>3, StepOfNotes DEF HandedOver
  <1>2. Spec => [](TypeOK /\ NotesInv)
    BY InitTypeOK, TypeStep, InitNotesInv, NotesInvStep, PTL DEF Spec
  <1> QED
    BY <1>1, <1>2, PTL DEF Spec, NonceVersionsHolder

\* Once expired, a live note stays as it is or is revoked.
THEOREM ExpiryIsFinal == Spec => ExpiredNoteOnlyRevoked
  <1> DEFINE A == \A n \in DOMAIN notes :
                    /\ notes[n].state \in {"Created", "Transferred"}
                    /\ clock >= notes[n].expires_at
                    => notes'[n] \in {notes[n], [notes[n] EXCEPT !.state = "Revoked"]}
  <1>1. TypeOK /\ NotesInv /\ [Next]_vars => [A]_noteVars
    <2> SUFFICES ASSUME TypeOK, NotesInv, [Next]_vars, NEW m \in DOMAIN notes,
                        notes[m].state \in {"Created", "Transferred"},
                        clock >= notes[m].expires_at
                 PROVE  notes'[m] \in {notes[m], [notes[m] EXCEPT !.state = "Revoked"]}
      OBVIOUS
    <2>1. ASSUME NEW n \in DOMAIN notes, NoteStep(n)
          PROVE  notes'[m] \in {notes[m], [notes[m] EXCEPT !.state = "Revoked"]}
      <3>1. CASE n # m
        BY <2>1, <3>1, NoteStepEffect DEF OnlyNote
      <3>2. CASE n = m
        <4>1. StateChanged(m, {"Created", "Transferred"}, "Revoked")
          BY <2>1, <3>2, NoteStepEffect DEF HandedOver, StateChanged, Expired
        <4> QED
          BY <4>1 DEF StateChanged
      <3> QED
        BY <3>1, <3>2
    <2> QED
      BY <2>1, StepOfNotes
  <1>2. Spec => [](TypeOK /\ NotesInv)
    BY InitTypeOK, TypeStep, InitNotesInv, NotesInvStep, PTL DEF Spec
  <1> QED
    BY <1>1, <1>2, PTL DEF Spec, ExpiredNoteOnlyRevoked

-----------------------------------------------------------------------------
(***************************************************************************)
(* The vault and the token.  Both invariants are inductive with TypeOK.    *)
(***************************************************************************)

LEMMA VaultStep ==
  ASSUME TypeOK, VaultSolvent, SupplyCapped, VaultNext
  PROVE  VaultSolvent' /\ SupplyCapped'
  <1> USE VaultAssumption, ProtocolAssumption
      DEF TypeOK, VaultTypeOK, GasVault, MembraMint, VaultSolvent, SupplyCapped, VaultExists
  <1>1. ASSUME NEW k \in Keys, InitializeGasVault(k)
        PROVE  VaultSolvent' /\ SupplyCapped'
    BY <1>1 DEF InitializeGasVault, EmptyVault
  <1>2. ASSUME NEW k \in Keys, NEW amount \in LamportArgs, DepositToGasVault(k, amount)
        PROVE  VaultSolvent' /\ SupplyCapped'
    BY <1>2 DEF DepositToGasVault
  <1>3. ASSUME NEW k \in Keys, NEW amount \in LamportArgs, IssueFeeCredits(k, amount)
        PROVE  VaultSolvent' /\ SupplyCapped'
    BY <1>3 DEF IssueFeeCredits
  <1>4. ASSUME NEW k \in Keys, NEW amount \in LamportArgs, NEW toVault \in BOOLEAN,
               ReimburseRelayer(k, amount, toVault)
        PROVE  VaultSolvent' /\ SupplyCapped'
    BY <1>4 DEF ReimburseRelayer, AfterWithdrawal, Reimbursed, NoVault, EmptyVault
  <1>5. ASSUME NEW k \in Keys, NEW cap \in SupplyCaps, InitializeMembraMint(k, cap)
        PROVE  VaultSolvent' /\ SupplyCapped'
    BY <1>5 DEF InitializeMembraMint
  <1>6. ASSUME NEW k \in Keys, NEW index \in IndexArgs, UpdateRebaseIndex(k, index)
        PROVE  VaultSolvent' /\ SupplyCapped'
    BY <1>6 DEF UpdateRebaseIndex
  <1>7. ASSUME NEW amount \in LamportArgs, SpendFeeCredits(amount)
        PROVE  VaultSolvent' /\ SupplyCapped'
    BY <1>7 DEF SpendFeeCredits
  <1>8. ASSUME NEW amount \in MembraArgs, MintMembra(amount)
        PROVE  VaultSolvent' /\ SupplyCapped'
    BY <1>8 DEF MintMembra, WithinCap
  <1> QED
    BY <1>1, <1>2, <1>3, <1>4, <1>5, <1>6, <1>7, <1>8 DEF VaultNext

\* The books of the vault and the supply, together, are inductive.
LEMMA VaultInvariant == Spec => [](VaultSolvent /\ SupplyCapped)
  <1>1. Init => VaultSolvent /\ SupplyCapped
    BY DEF Init, VaultInit, VaultSolvent, SupplyCapped, VaultExists, NoVault, EmptyVault
  <1>2. TypeOK /\ VaultSolvent /\ SupplyCapped /\ [Next]_vars => (VaultSolvent /\ SupplyCapped)'
    <2> SUFFICES ASSUME TypeOK, VaultSolvent, SupplyCapped, [Next]_vars
                 PROVE  VaultSolvent' /\ SupplyCapped'
      OBVIOUS
    <2>1. CASE UNCHANGED vaultVars
      BY <2>1 DEF vaultVars, VaultSolvent, SupplyCapped, VaultExists
    <2>2. CASE VaultNext
      BY <2>2, VaultStep
    <2> QED
      BY <2>1, <2>2 DEF Next, vars
  <1> QED
    BY <1>1, <1>2, InitTypeOK, TypeStep, PTL DEF Spec

\* The vault holds its rent and everything deposited and not reimbursed.
THEOREM VaultCorrect == Spec => []VaultSolvent
  BY VaultInvariant, PTL

\* The MEMBRA supply stays under its cap.
THEOREM SupplyUnderCap == Spec => []SupplyCapped
  BY VaultInvariant, PTL

\* The pause switch freezes the notes, the attestations and the vault.
THEOREM PauseFreezes == Spec => PausedFreezes
  <1> DEFINE A == paused => /\ UNCHANGED <<notes, attestations, note_counter>>
                            /\ VaultExists => UNCHANGED <<gasvault, lamports>>
  <1>1. TypeOK /\ NotesInv /\ [Next]_vars => [A]_vars
    <2> SUFFICES ASSUME TypeOK, NotesInv, Next, paused
                 PROVE  /\ UNCHANGED <<notes, attestations, note_counter>>
                        /\ VaultExists => UNCHANGED <<gasvault, lamports>>
      OBVIOUS
    <2>1. ~Running
      BY DEF Running
    <2>2. ~NotesNext
      <3>1. ASSUME NEW n \in DOMAIN notes, NoteStep(n) PROVE Running
        BY <3>1, NoteStepEffect DEF OnlyNote
      <3> QED
        BY <2>1, <3>1 DEF NotesNext, MintNote, RecordReserveAttestation
    <2>3. CASE ProtocolNext /\ UNCHANGED <<noteVars, vaultVars>>
      <3>1. ASSUME NEW k \in Keys, InitializeProtocol(k)
            PROVE  note_counter' = note_counter
        BY <3>1 DEF InitializeProtocol, NotesInv, CounterOK
      <3>2. note_counter' = note_counter
        BY <2>3, <3>1 DEF ProtocolNext, PauseProtocol, UnpauseProtocol, Tick
      <3> QED
        BY <2>3, <3>2 DEF noteVars, vaultVars
    <2>4. CASE VaultNext /\ UNCHANGED noteVars
      <3>1. UNCHANGED <<notes, attestations, note_counter>>
        BY <2>4, VaultQuiet DEF noteVars, protocolVars
      <3>2. VaultExists => UNCHANGED <<gasvault, lamports>>
        BY <2>1, <2>4 DEF VaultNext, InitializeGasVault, DepositToGasVault,
           IssueFeeCredits, ReimburseRelayer, InitializeMembraMint,
           UpdateRebaseIndex, SpendFeeCredits, MintMembra
      <3> QED
        BY <3>1, <3>2
    <2> QED
      BY <2>2, <2>3, <2>4 DEF Next
  <1>2. Spec => [](TypeOK /\ NotesInv)
    BY InitTypeOK, TypeStep, InitNotesInv, NotesInvStep, PTL DEF Spec
  <1> QED
    BY <1>1, <1>2, PTL DEF Spec, PausedFreezes

-----------------------------------------------------------------------------
(***************************************************************************)
(* The program implements the abstract life cycle of a note.               *)
(***************************************************************************)

\* The refinement mapping, named.
lifeOfNotes == [n \in DOMAIN notes |-> LifeOf(notes[n].state)]
bearerOfNotes == [n \in DOMAIN notes |-> notes[n].current_holder]

LEMMA AbstractIds ==
  ASSUME TypeOK, NotesInv, NEW n \in DOMAIN notes
  PROVE  n \in 0..MaxNoteCounter
  BY NotesAssumption DEF TypeOK, ProtocolTypeOK, NotesInv, NoteIdsDense, CounterOK

LEMMA MintImplements ==
  ASSUME TypeOK, NotesInv, NEW k \in Keys, NEW recipient \in Keys,
         NEW d \in DenominationArgs, NEW h \in ClaimHashArgs, NEW e \in ExpiryArgs,
         MintNote(k, recipient, d, h, e)
  PROVE  Lifecycle!Next
  <1>1. /\ note_counter \in 0..MaxNoteCounter
        /\ note_counter \notin DOMAIN notes
    BY NotesAssumption DEF MintNote, TypeOK, ProtocolTypeOK
  <1>2. /\ DOMAIN notes' = DOMAIN notes \cup {note_counter}
        /\ \A n \in DOMAIN notes : n # note_counter => notes'[n] = notes[n]
        /\ notes'[note_counter].state = "Created"
        /\ notes'[note_counter].current_holder = recipient
    BY DEF MintNote, Create
  <1>3. lifeOfNotes' = [m \in DOMAIN lifeOfNotes \cup {note_counter} |->
                          IF m = note_counter THEN "live" ELSE lifeOfNotes[m]]
    BY <1>1, <1>2 DEF lifeOfNotes, LifeOf
  <1>4. bearerOfNotes' = [m \in DOMAIN lifeOfNotes \cup {note_counter} |->
                          IF m = note_counter THEN recipient ELSE bearerOfNotes[m]]
    BY <1>1, <1>2 DEF lifeOfNotes, bearerOfNotes
  <1>5. note_counter \notin DOMAIN lifeOfNotes
    BY <1>1 DEF lifeOfNotes
  <1>6. Lifecycle!Issue(note_counter, recipient)
    BY <1>3, <1>4, <1>5 DEF Lifecycle!Issue, lifeOfNotes, bearerOfNotes
  <1> QED
    BY <1>1, <1>6 DEF Lifecycle!Next

LEMMA NoteStepImplements ==
  ASSUME TypeOK, NotesInv, NEW n \in DOMAIN notes, NoteStep(n)
  PROVE  Lifecycle!Next
  <1>1. n \in 0..MaxNoteCounter
    BY AbstractIds
  <1>2. /\ DOMAIN notes' = DOMAIN notes
        /\ \A m \in DOMAIN notes : m # n => notes'[m] = notes[m]
    BY NoteStepEffect DEF OnlyNote
  <1>3. CASE HandedOver(n)
    <2>1. LifeOf(notes[n].state) = "live" /\ LifeOf(notes'[n].state) = "live"
      BY <1>3 DEF HandedOver, Live, LifeOf
    <2>2. PICK b \in Keys : notes'[n].current_holder = b
      BY <1>3 DEF HandedOver
    <2>3. lifeOfNotes' = lifeOfNotes
      BY <1>2, <2>1 DEF lifeOfNotes
    <2>4. bearerOfNotes' = [bearerOfNotes EXCEPT ![n] = b]
      BY <1>2, <2>2 DEF bearerOfNotes
    <2>5. n \in DOMAIN lifeOfNotes /\ lifeOfNotes[n] = "live"
      BY <2>1 DEF lifeOfNotes
    <2>6. Lifecycle!HandOver(n, b)
      BY <2>3, <2>4, <2>5 DEF Lifecycle!HandOver, lifeOfNotes, bearerOfNotes
    <2> QED
      BY <1>1, <2>6 DEF Lifecycle!Next
  <1>4. ASSUME NEW from, NEW to, StateChanged(n, from, to),
               NEW absFrom, LifeOf(notes[n].state) = absFrom,
               NEW absTo, LifeOf(to) = absTo
        PROVE  Lifecycle!Leave(n, absFrom, absTo)
    <2>1. notes'[n].state = to /\ notes'[n].current_holder = notes[n].current_holder
      BY <1>4 DEF StateChanged
    <2>2. lifeOfNotes' = [lifeOfNotes EXCEPT ![n] = absTo]
      BY <1>2, <1>4, <2>1 DEF lifeOfNotes
    <2>3. bearerOfNotes' = bearerOfNotes
      BY <1>2, <2>1 DEF bearerOfNotes
    <2>4. n \in DOMAIN lifeOfNotes /\ lifeOfNotes[n] = absFrom
      BY <1>4 DEF lifeOfNotes
    <2> QED
      BY <2>2, <2>3, <2>4 DEF Lifecycle!Leave, lifeOfNotes, bearerOfNotes
  <1>5. CASE StateChanged(n, {"Created", "Transferred"}, "Redeemed")
    <2>1. LifeOf(notes[n].state) = "live" /\ LifeOf("Redeemed") = "redeemed"
      BY <1>5 DEF StateChanged, LifeOf
    <2> QED
      BY <1>1, <1>4, <1>5, <2>1 DEF Lifecycle!Next
  <1>6. CASE StateChanged(n, {"Redeemed"}, "Burned")
    <2>1. LifeOf(notes[n].state) = "redeemed" /\ LifeOf("Burned") = "burned"
      BY <1>6 DEF StateChanged, LifeOf
    <2> QED
      BY <1>1, <1>4, <1>6, <2>1 DEF Lifecycle!Next
  <1>7. CASE StateChanged(n, {"Created", "Transferred"}, "Revoked")
    <2>1. LifeOf(notes[n].state) = "live" /\ LifeOf("Revoked") = "revoked"
      BY <1>7 DEF StateChanged, LifeOf
    <2> QED
      BY <1>1, <1>4, <1>7, <2>1 DEF Lifecycle!Next
  <1> QED
    BY <1>3, <1>5, <1>6, <1>7, NoteStepEffect

\* Every behaviour of the program, with its accounts, clock, counters and
\* vault, is a behaviour of NoteLifecycle under the mapping of states to lives.
THEOREM ProgramImplementsLifecycle == Spec => ImplementsLifecycle
  <1>1. Init => Lifecycle!Init
    BY DEF Init, NotesInit, Lifecycle!Init
  <1>2. TypeOK /\ NotesInv /\ [Next]_vars => [Lifecycle!Next]_<<lifeOfNotes, bearerOfNotes>>
    <2> SUFFICES ASSUME TypeOK, NotesInv, [Next]_vars
                 PROVE  Lifecycle!Next \/ UNCHANGED <<lifeOfNotes, bearerOfNotes>>
      OBVIOUS
    <2>1. CASE UNCHANGED notes
      BY <2>1 DEF lifeOfNotes, bearerOfNotes
    <2>2. ASSUME NEW k \in Keys, NEW r \in RatioArgs, RecordReserveAttestation(k, r)
          PROVE  UNCHANGED notes
      BY <2>2 DEF RecordReserveAttestation
    <2> QED
      BY <2>1, <2>2, MintImplements, NoteStepImplements DEF Next, NotesNext, vars, noteVars
  <1>3. Spec => [](TypeOK /\ NotesInv)
    BY InitTypeOK, TypeStep, InitNotesInv, NotesInvStep, PTL DEF Spec
  <1> QED
    BY <1>1, <1>2, <1>3, PTL
       DEF Spec, ImplementsLifecycle, Lifecycle!Spec, lifeOfNotes, bearerOfNotes
=============================================================================
