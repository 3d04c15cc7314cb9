------------------------------- MODULE Payouts -------------------------------
(***************************************************************************)
(* What the redemption flow promises for each receipt it hands out: the    *)
(* receipt is paid when it is issued, or waits for a decision that is      *)
(* taken once; it is paid at most once and never after a rejection.        *)
(***************************************************************************)
EXTENDS Integers

CONSTANT Receipts

VARIABLES
  status,     \* [receipts issued so far -> "waiting", "paid" or "rejected"]
  payments    \* how often each receipt was paid

Init ==
  /\ status = [r \in {} |-> r]
  /\ payments = [r \in Receipts |-> 0]

PaidIf(r, verdict) ==
  payments' = IF verdict = "paid" THEN [payments EXCEPT ![r] = @ + 1] ELSE payments

Issue(r, first) ==
  /\ r \notin DOMAIN status
  /\ status' = [q \in DOMAIN status \cup {r} |-> IF q = r THEN first ELSE status[q]]
  /\ PaidIf(r, first)

Decide(r, verdict) ==
  /\ r \in DOMAIN status
  /\ status[r] = "waiting"
  /\ status' = [status EXCEPT ![r] = verdict]
  /\ PaidIf(r, verdict)

Next ==
  \E r \in Receipts :
    \/ Issue(r, "waiting") \/ Issue(r, "paid")
    \/ Decide(r, "paid") \/ Decide(r, "rejected")

Spec == Init /\ [][Next]_<<status, payments>>
=============================================================================
