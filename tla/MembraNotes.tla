----------------------------- MODULE MembraNotes -----------------------------
(***************************************************************************)
(* The bearer-note and reserve-attestation instructions of the Anchor      *)
(* program.  A PDA is named by its seeds: the Note account of seed n is    *)
(* notes[n], and "the account exists" is n \in DOMAIN notes.               *)
(*                                                                         *)
(* Kept out of the Note record because no instruction reads them:          *)
(* nullifier, compliance_state (Pending for ever), asset_type,             *)
(* redemption_policy, reserve_ratio_bps and bump.                          *)
(***************************************************************************)
EXTENDS MembraProtocol

CONSTANTS
  Preimages,          \* 32-byte arguments of claim_note
  Hashes,             \* 32-byte claim hashes
  HashOf,             \* solana_program::hash::hash, as a function
  ClaimHashArgs,      \* the hashes minters pass to mint_note
  DenominationArgs,   \* u64 arguments of mint_note
  ExpiryArgs,         \* i64 arguments of mint_note
  RatioArgs,          \* u16 arguments of record_reserve_attestation
  MaxExpirySeconds,   \* MAX_EXPIRY_SECONDS
  MaxNoteCounter,     \* u64::MAX of note_counter (checked_add)
  MaxNonce            \* u64::MAX of replay_nonce (checked_add)

ASSUME NotesAssumption ==
  /\ HashOf \in [Preimages -> Hashes]
  /\ ClaimHashArgs \subseteq Hashes
  /\ DenominationArgs \subseteq Nat
  /\ ExpiryArgs \subseteq Int
  /\ RatioArgs \subseteq Nat
  /\ MaxExpirySeconds \in Nat \ {0}
  /\ MaxNoteCounter \in Nat
  /\ MaxNonce \in Nat

VARIABLES
  notes,          \* Note accounts by note_id
  attestations,   \* ReserveAttestation accounts by the note_counter in their seed
  claims          \* history: successful claim_note calls per note

noteVars == <<notes, attestations, claims>>

MIN_DENOMINATION == 1

NoteStates ==
  {"Created", "Transferred", "Redeemed", "Expired", "Burned", "Revoked"}

Note == [denomination_sats : Nat, current_holder : Keys, issuer : Keys,
         claim_hash : Hashes, replay_nonce : Nat, state : NoteStates,
         created_at : Nat, expires_at : Nat]

ReserveAttestation == [reserve_ratio_bps : 0..10000, attested_at : Nat]

NotesTypeOK ==
  /\ DOMAIN notes \subseteq Nat
  /\ \A n \in DOMAIN notes : notes[n] \in Note
  /\ DOMAIN attestations \subseteq Nat
  /\ \A c \in DOMAIN attestations : attestations[c] \in ReserveAttestation
  /\ DOMAIN claims = DOMAIN notes
  /\ \A n \in DOMAIN claims : claims[n] \in Nat

NotesInit ==
  /\ notes = [n \in {} |-> n]
  /\ attestations = [n \in {} |-> n]
  /\ claims = [n \in {} |-> n]

\* The map f with one more account, x, at address a.
Create(f, a, x) == [b \in DOMAIN f \cup {a} |-> IF b = a THEN x ELSE f[b]]

-----------------------------------------------------------------------------
\* Mutant of Live: only a redeemed note is refused.
NotRedeemed(n) == notes[n].state # "Redeemed"

Live(n) == notes[n].state \in {"Created", "Transferred"}

\* Mutant of Expired: the last second counts as valid.
ExpiredLate(n) == clock > notes[n].expires_at

Expired(n) == clock >= notes[n].expires_at

\* Mutant of AdvancedCounter: the counter is not advanced.
SameCounter == note_counter

AdvancedCounter == note_counter + 1

\* mint_note: any signer may call it and becomes the note's issuer.
MintNote(k, recipient, denomination_sats, claim_hash, expires_at) ==
  /\ Running
  /\ denomination_sats >= MIN_DENOMINATION
  /\ expires_at > 0 /\ expires_at <= MaxExpirySeconds
  /\ note_counter < MaxNoteCounter
  /\ note_counter \notin DOMAIN notes
  /\ note_counter' = AdvancedCounter
  /\ notes' = Create(notes, note_counter,
                [denomination_sats |-> denomination_sats,
                 current_holder |-> recipient, issuer |-> k,
                 claim_hash |-> claim_hash, replay_nonce |-> 0,
                 state |-> "Created", created_at |-> clock,
                 expires_at |-> clock + expires_at])
  /\ claims' = Create(claims, note_counter, 0)
  /\ UNCHANGED <<authority, paused, clock, attestations>>

\* Mutant of NextNonce: a handover leaves the nonce alone.
SameNonce(n) == notes[n].replay_nonce

NextNonce(n) == notes[n].replay_nonce + 1

\* The writes transfer_note and claim_note share.
GiveTo(n, k) ==
  /\ notes[n].replay_nonce < MaxNonce
  /\ notes' = [notes EXCEPT ![n].current_holder = k,
                            ![n].state = "Transferred",
                            ![n].replay_nonce = NextNonce(n)]

TransferNote(n, k, new_holder) ==
  /\ Running
  /\ n \in DOMAIN notes
  /\ notes[n].current_holder = k
  /\ Live(n)
  /\ ~Expired(n)
  /\ GiveTo(n, new_holder)
  /\ UNCHANGED <<protocolVars, attestations, claims>>

\* claim_note: the claimant need not be the holder, and the claim hash is
\* left in place.
ClaimNote(n, claimant, preimage) ==
  /\ Running
  /\ n \in DOMAIN notes
  /\ ~Expired(n)
  /\ Live(n)
  /\ HashOf[preimage] = notes[n].claim_hash
  /\ GiveTo(n, claimant)
  /\ claims' = [claims EXCEPT ![n] = @ + 1]
  /\ UNCHANGED <<protocolVars, attestations>>

RedeemNote(n, k) ==
  /\ Running
  /\ n \in DOMAIN notes
  /\ notes[n].current_holder = k
  /\ Live(n)
  /\ ~Expired(n)
  /\ notes' = [notes EXCEPT ![n].state = "Redeemed"]
  /\ UNCHANGED <<protocolVars, attestations, claims>>

BurnNote(n, k) ==
  /\ Running
  /\ authority = k
  /\ n \in DOMAIN notes
  /\ notes[n].state = "Redeemed"
  /\ notes' = [notes EXCEPT ![n].state = "Burned"]
  /\ UNCHANGED <<protocolVars, attestations, claims>>

\* revoke_note: no expiry check, so an expired note can still be revoked.
RevokeNote(n, k) ==
  /\ Running
  /\ n \in DOMAIN notes
  /\ notes[n].issuer = k
  /\ Live(n)
  /\ notes' = [notes EXCEPT ![n].state = "Revoked"]
  /\ UNCHANGED <<protocolVars, attestations, claims>>

\* Mutant of AttestationSeed: the seed does not depend on the counter.
FixedSeed == 0

\* seeds = [b"reserve_attestation", &note_counter.to_le_bytes()]
AttestationSeed == note_counter

\* Mutant of ValidRatio: the bound is one basis point off.
LooseRatio(bps) == bps <= 10001

ValidRatio(bps) == bps <= 10000

\* record_reserve_attestation: the account is `init` on the current
\* note_counter, so one attestation can exist per counter value.
RecordReserveAttestation(k, reserve_ratio_bps) ==
  /\ Running
  /\ authority = k
  /\ ValidRatio(reserve_ratio_bps)
  /\ AttestationSeed \notin DOMAIN attestations
  /\ attestations' = Create(attestations, AttestationSeed,
                       [reserve_ratio_bps |-> reserve_ratio_bps,
                        attested_at |-> clock])
  /\ UNCHANGED <<protocolVars, notes, claims>>

NoteStep(n) ==
  \E k \in Keys :
    \/ \E to \in Keys : TransferNote(n, k, to)
    \/ \E preimage \in Preimages : ClaimNote(n, k, preimage)
    \/ RedeemNote(n, k)
    \/ BurnNote(n, k)
    \/ RevokeNote(n, k)

NotesNext ==
  \/ \E k, recipient \in Keys, d \in DenominationArgs, h \in ClaimHashArgs, e \in ExpiryArgs :
       MintNote(k, recipient, d, h, e)
  \/ \E n \in DOMAIN notes : NoteStep(n)
  \/ \E k \in Keys, r \in RatioArgs : RecordReserveAttestation(k, r)

-----------------------------------------------------------------------------
(***************************************************************************)
(* Properties of the notes.                                                *)
(***************************************************************************)

\* The ids in use are exactly those below the counter, so the Note PDA that
\* mint_note must `init` never exists already and no id is minted twice.
NoteIdsDense == DOMAIN notes = 0..(note_counter - 1)

\* An attestation sits between the notes it covers and the later ones: the
\* one recorded under counter c was taken after every note below c was
\* created and before any other.  The seed is the only link the program
\* keeps between an attestation and the notes it is about.
AttestationOrder ==
  \A c \in DOMAIN attestations :
    /\ c <= note_counter
    /\ \A n \in DOMAIN notes :
         IF n < c THEN notes[n].created_at <= attestations[c].attested_at
                  ELSE attestations[c].attested_at <= notes[n].created_at

\* A note that was never handed over is Created with nonce 0, a Transferred
\* one has a positive nonce, and every claim is one of the handovers.
NonceCountsHandovers ==
  \A n \in DOMAIN notes :
    /\ notes[n].state = "Created" => notes[n].replay_nonce = 0
    /\ notes[n].state = "Transferred" => notes[n].replay_nonce > 0
    /\ claims[n] <= notes[n].replay_nonce

\* replay_nonce versions the holder: while the nonce stands still so does
\* the holder, and it never goes back, so a pair (note, nonce) names one
\* holder for ever.
NonceVersionsHolder ==
  [][\A n \in DOMAIN notes :
       /\ notes'[n].replay_nonce >= notes[n].replay_nonce
       /\ notes'[n].replay_nonce = notes[n].replay_nonce
            => notes'[n].current_holder = notes[n].current_holder]_noteVars

\* Past its expiry a live note has one way out, revocation by its issuer: it
\* is neither handed over nor redeemed, however the calls are ordered.
ExpiredNoteOnlyRevoked ==
  [][\A n \in DOMAIN notes :
       /\ notes[n].state \in {"Created", "Transferred"}
       /\ clock >= notes[n].expires_at
       => notes'[n] \in {notes[n], [notes[n] EXCEPT !.state = "Revoked"]}]_noteVars

\* SMART_CONTRACT_SPEC.md section 3.4 lists `!note.is_claimed` as a guard of
\* claim_note: a note is claimed at most once.
ClaimedAtMostOnce == \A n \in DOMAIN claims : claims[n] <= 1
=============================================================================
