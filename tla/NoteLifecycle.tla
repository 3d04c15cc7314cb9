---------------------------- MODULE NoteLifecycle ----------------------------
(***************************************************************************)
(* What the program promises about each bearer note, whatever the          *)
(* instructions, accounts and clock behind it: a note is issued once to a  *)
(* first bearer, passes from bearer to bearer while it is live, and leaves *)
(* that life exactly once, redeemed by its bearer or revoked; a redeemed   *)
(* note may then be burned.  No bearer is ever replaced after that.        *)
(***************************************************************************)
CONSTANTS NoteIds, Bearers

VARIABLES
  life,     \* [note ids issued so far -> "live", "redeemed", "revoked" or "burned"]
  bearer    \* [the same ids -> Bearers]

Init ==
  /\ life = [n \in {} |-> n]
  /\ bearer = [n \in {} |-> n]

Issue(n, b) ==
  /\ n \notin DOMAIN life
  /\ life' = [m \in DOMAIN life \cup {n} |-> IF m = n THEN "live" ELSE life[m]]
  /\ bearer' = [m \in DOMAIN life \cup {n} |-> IF m = n THEN b ELSE bearer[m]]

HandOver(n, b) ==
  /\ n \in DOMAIN life
  /\ life[n] = "live"
  /\ bearer' = [bearer EXCEPT ![n] = b]
  /\ UNCHANGED life

Leave(n, from, to) ==
  /\ n \in DOMAIN life
  /\ life[n] = from
  /\ life' = [life EXCEPT ![n] = to]
  /\ UNCHANGED bearer

Next ==
  \E n \in NoteIds :
    \/ \E b \in Bearers : Issue(n, b) \/ HandOver(n, b)
    \/ Leave(n, "live", "redeemed")
    \/ Leave(n, "live", "revoked")
    \/ Leave(n, "redeemed", "burned")

Spec == Init /\ [][Next]_<<life, bearer>>
=============================================================================
