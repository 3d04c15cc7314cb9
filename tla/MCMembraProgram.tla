--------------------------- MODULE MCMembraProgram ---------------------------
(***************************************************************************)
(* The program on two keys, two notes and a three-second clock.  The note  *)
(* half and the vault half write disjoint accounts and share only the      *)
(* ProtocolState that both read, so a behaviour exercises one half or the  *)
(* other; MembraProgramProofs proves the properties of both together.      *)
(***************************************************************************)
EXTENDS MembraProgram, TLC

MCHashOf == [p \in Preimages |-> p]

KeySymmetry == Permutations(Keys)

NotesUnused == notes = <<>> /\ attestations = <<>>

VaultUnused == ~VaultExists /\ lamports = 0 /\ ~MintExists

\* One note runs to every bound of the configuration; of two notes none
\* outlives its first second and two handovers are followed in all.
FewHandovers ==
  /\ clock <= 2
  /\ \A n \in DOMAIN notes : notes[n].expires_at <= 1 + notes[n].created_at
  /\ \A m, n \in DOMAIN notes : m # n => notes[m].replay_nonce + notes[n].replay_nonce <= 2

MCNext ==
  /\ Next
  /\ NotesUnused' \/ VaultUnused'
  /\ note_counter' > 1 => FewHandovers'

MCSpec == Init /\ [][MCNext]_vars
=============================================================================
