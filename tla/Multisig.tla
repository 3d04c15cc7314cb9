------------------------------ MODULE Multisig ------------------------------
(***************************************************************************)
(* What the treasury promises about each settlement batch: it is sent to   *)
(* the chain at most once, only after Quorum different operators signed    *)
(* it, and never after an operator refused it; a quorum, once reached, is  *)
(* final.                                                                  *)
(***************************************************************************)
EXTENDS Naturals, FiniteSets

CONSTANTS BatchIds, Operators, Quorum

VARIABLES
  signers,    \* [batches opened so far -> the operators who signed]
  refused,    \* batches an operator refused
  sent        \* batches handed to the chain

Init ==
  /\ signers = [b \in {} |-> {}]
  /\ refused = {}
  /\ sent = {}

Undecided(b) == b \notin refused /\ Cardinality(signers[b]) < Quorum

Open(b) ==
  /\ b \notin DOMAIN signers
  /\ signers' = [c \in DOMAIN signers \cup {b} |-> IF c = b THEN {} ELSE signers[c]]
  /\ UNCHANGED <<refused, sent>>

Sign(b, o) ==
  /\ Undecided(b)
  /\ o \notin signers[b]
  /\ signers' = [signers EXCEPT ![b] = @ \cup {o}]
  /\ UNCHANGED <<refused, sent>>

Refuse(b) ==
  /\ Undecided(b)
  /\ refused' = refused \cup {b}
  /\ UNCHANGED <<signers, sent>>

Send(b) ==
  /\ b \notin refused \cup sent
  /\ Cardinality(signers[b]) >= Quorum
  /\ sent' = sent \cup {b}
  /\ UNCHANGED <<signers, refused>>

Next ==
  \/ \E b \in BatchIds : Open(b)
  \/ \E b \in DOMAIN signers : (\E o \in Operators : Sign(b, o)) \/ Refuse(b) \/ Send(b)

Spec == Init /\ [][Next]_<<signers, refused, sent>>
=============================================================================
