---------------------------- MODULE MembraProgram ----------------------------
(***************************************************************************)
(* The whole Anchor program: the note instructions and the vault and token *)
(* instructions, executed in some order by the cluster against one         *)
(* ProtocolState.                                                          *)
(***************************************************************************)
EXTENDS MembraNotes, MembraVault

vars == <<protocolVars, noteVars, vaultVars>>

Init == ProtocolInit /\ NotesInit /\ VaultInit

Next ==
  \/ ProtocolNext /\ UNCHANGED <<noteVars, vaultVars>>
  \/ NotesNext /\ UNCHANGED vaultVars
  \/ VaultNext /\ UNCHANGED noteVars

Spec == Init /\ [][Next]_vars

TypeOK == ProtocolTypeOK /\ NotesTypeOK /\ VaultTypeOK

\* The instructions that require!(!paused) (lib.rs:35 to :297) leave what
\* they write alone while the flag is up, wherever the pause lands between
\* them: no note, attestation or vault total moves.  mint_membra,
\* update_rebase_index and the initializers never look at the flag; they are
\* the subject of PauseStopsAll.
PausedFreezes ==
  [][paused => /\ UNCHANGED <<notes, attestations, note_counter>>
               /\ VaultExists => UNCHANGED <<gasvault, lamports>>]_vars

\* SMART_CONTRACT_SPEC.md:314, ProtocolPaused is raised by "Any mutating
\* instruction when `paused == true`": no account that exists changes while
\* the program is paused, except by lifting the pause.
PauseStopsAll ==
  [][paused => /\ UNCHANGED <<notes, attestations, note_counter, authority>>
               /\ VaultExists => UNCHANGED <<gasvault, lamports>>
               /\ MintExists => UNCHANGED membra_mint]_vars

\* The abstract life of a note, read off its state.
LifeOf(state) ==
  CASE state \in {"Created", "Transferred"} -> "live"
    [] state = "Redeemed" -> "redeemed"
    [] state = "Revoked" -> "revoked"
    [] state = "Burned" -> "burned"
    [] OTHER -> "expired"

Lifecycle ==
  INSTANCE NoteLifecycle WITH
    NoteIds <- 0..MaxNoteCounter,
    Bearers <- Keys,
    life <- [n \in DOMAIN notes |-> LifeOf(notes[n].state)],
    bearer <- [n \in DOMAIN notes |-> notes[n].current_holder]

\* The program implements the note life cycle.
ImplementsLifecycle == Lifecycle!Spec
=============================================================================
