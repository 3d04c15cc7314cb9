--------------------------- MODULE MembraProtocol ---------------------------
(***************************************************************************)
(* The account every instruction of the Anchor program reads: the          *)
(* ProtocolState PDA (authority, pause switch, note counter), together     *)
(* with the Clock sysvar.  MembraNotes and MembraVault extend this module  *)
(* and MembraProgram composes them.                                        *)
(*                                                                         *)
(* An instruction is atomic: either it returns Ok and all of its writes    *)
(* are kept, or a require!/constraint fails and none is.  A failing        *)
(* instruction is therefore no step of the model.                          *)
(***************************************************************************)
EXTENDS Integers, FiniteSets

CONSTANTS
  Keys,       \* public keys that can sign
  NoKey,      \* the authority of an account that does not exist yet
  Horizon     \* last second the Clock is followed to (bound)

ASSUME ProtocolAssumption == NoKey \notin Keys /\ Horizon \in Nat

VARIABLES
  authority,      \* ProtocolState.authority, NoKey until the PDA exists
  paused,         \* ProtocolState.paused
  note_counter,   \* ProtocolState.note_counter
  clock           \* Clock::get().unix_timestamp

protocolVars == <<authority, paused, note_counter, clock>>

ProtocolTypeOK ==
  /\ authority \in Keys \cup {NoKey}
  /\ paused \in BOOLEAN
  /\ note_counter \in Nat
  /\ clock \in Nat

ProtocolInit ==
  /\ authority = NoKey
  /\ paused = FALSE
  /\ note_counter = 0
  /\ clock = 0

\* The protocol_state account is required by every instruction but
\* initialize_protocol and initialize_membra_mint.
Initialized == authority # NoKey

\* require!(!protocol_state.paused), on an account that exists.
Running == Initialized /\ ~paused

\* #[account(init, seeds = [b"protocol_state"])]: whoever comes first.
InitializeProtocol(k) ==
  /\ ~Initialized
  /\ authority' = k
  /\ paused' = FALSE
  /\ note_counter' = 0
  /\ UNCHANGED clock

PauseProtocol(k) ==
  /\ Initialized
  /\ authority = k
  /\ paused' = TRUE
  /\ UNCHANGED <<authority, note_counter, clock>>

UnpauseProtocol(k) ==
  /\ Initialized
  /\ authority = k
  /\ paused' = FALSE
  /\ UNCHANGED <<authority, note_counter, clock>>

\* The cluster's clock never runs backwards, and several instructions may
\* execute in the same second.
Tick ==
  /\ clock < Horizon
  /\ clock' = clock + 1
  /\ UNCHANGED <<authority, paused, note_counter>>

ProtocolNext ==
  \/ \E k \in Keys :
       InitializeProtocol(k) \/ PauseProtocol(k) \/ UnpauseProtocol(k)
  \/ Tick
=============================================================================
