-------------------------- MODULE GasVaultService --------------------------
(***************************************************************************)
(* backend/services/gasvault_service.py: the backend's vault of SOL, the   *)
(* fee credits of users, and the relayers it reimburses.  A balance is a   *)
(* number of parts of a lamport, so that vault_lamports truncates as int() *)
(* does in the code; the rounding of floats is not followed.  Times, keys  *)
(* and the event log, which nothing reads, are left out.                   *)
(***************************************************************************)
EXTENDS Integers, FiniteSets, Functions

CONSTANTS
  CreditUsers, Relayers, RequestIds,   \* user ids; uuids of relayers and requests
  Lamport,               \* parts in a lamport
  Transfers,             \* parts deposited or withdrawn at once
  CreditAmounts,         \* integers passed to issue_credits and spend_credits
  ReimbursementAmounts,  \* integers passed to request_reimbursement
  MaxCreditsPerUser,     \* MAX_CREDITS_PER_USER
  MaxPerBatch,           \* MAX_REIMBURSEMENT_PER_BATCH
  MaxTotal               \* totals are followed up to this size (bound)

ASSUME GasVaultServiceAssumption ==
  /\ Lamport \in Nat \ {0}
  /\ Transfers \subseteq Nat \ {0}
  /\ CreditAmounts \subseteq Int /\ ReimbursementAmounts \subseteq Int
  /\ MaxCreditsPerUser \in Nat /\ MaxPerBatch \in Nat /\ MaxTotal \in Nat

VARIABLES
  sol,          \* _vault_sol_balance
  credits,      \* _credits
  relayers,     \* _relayers
  requested,    \* _reimbursements
  net           \* history: deposits less withdrawals

gasVars == <<sol, credits, relayers, requested, net>>

CreditAccount == [balance : Int, earned : Nat, spent : Int]

Relayer == [reimbursed : Nat, pending : Int, active : BOOLEAN]

Reimbursement == [relayer : Relayers, amount : Nat, status : {"pending", "paid", "rejected"}]

GasTypeOK ==
  /\ sol \in Int /\ net \in Int
  /\ DOMAIN credits \subseteq CreditUsers
  /\ \A u \in DOMAIN credits : credits[u] \in CreditAccount
  /\ DOMAIN relayers \subseteq Relayers
  /\ \A r \in DOMAIN relayers : relayers[r] \in Relayer
  /\ DOMAIN requested \subseteq RequestIds
  /\ \A q \in DOMAIN requested : requested[q] \in Reimbursement

GasInit ==
  /\ sol = 0 /\ net = 0
  /\ credits = [u \in {} |-> u]
  /\ relayers = [r \in {} |-> r]
  /\ requested = [q \in {} |-> q]

-----------------------------------------------------------------------------
Added(f, x, y) == [z \in DOMAIN f \cup {x} |-> IF z = x THEN y ELSE f[z]]

VaultLamports == sol \div Lamport

DepositSol(parts) ==
  /\ sol + parts <= MaxTotal
  /\ sol' = sol + parts
  /\ net' = net + parts
  /\ UNCHANGED <<credits, relayers, requested>>

WithdrawSol(parts) ==
  /\ parts <= sol
  /\ sol' = sol - parts
  /\ net' = net - parts
  /\ UNCHANGED <<credits, relayers, requested>>

CreditsOf(u) ==
  IF u \in DOMAIN credits THEN credits[u] ELSE [balance |-> 0, earned |-> 0, spent |-> 0]

\* A refused issue has opened the account already.
IssueCredits(u, amount) ==
  /\ amount > 0
  /\ CreditsOf(u).earned + amount <= MaxTotal
  /\ credits' = Added(credits, u,
       IF CreditsOf(u).balance + amount > MaxCreditsPerUser THEN CreditsOf(u)
       ELSE [CreditsOf(u) EXCEPT !.balance = @ + amount, !.earned = @ + amount])
  /\ UNCHANGED <<sol, relayers, requested, net>>

\* A negative amount is spent like any other, beyond the cap of issue_credits.
SpendCredits(u, amount) ==
  /\ u \in DOMAIN credits
  /\ credits[u].balance >= amount
  /\ credits[u].spent + amount \in -MaxTotal..MaxTotal
  /\ credits' = [credits EXCEPT ![u].balance = @ - amount, ![u].spent = @ + amount]
  /\ UNCHANGED <<sol, relayers, requested, net>>

RegisterRelayer(r) ==
  /\ r \notin DOMAIN relayers
  /\ relayers' = Added(relayers, r, [reimbursed |-> 0, pending |-> 0, active |-> TRUE])
  /\ UNCHANGED <<sol, credits, requested, net>>

DeactivateRelayer(r) ==
  /\ relayers' = [relayers EXCEPT ![r].active = FALSE]
  /\ UNCHANGED <<sol, credits, requested, net>>

RequestReimbursement(q, r, amount) ==
  /\ q \notin DOMAIN requested
  /\ relayers[r].active
  /\ amount > 0
  /\ amount <= MaxPerBatch
  /\ requested' = Added(requested, q, [relayer |-> r, amount |-> amount, status |-> "pending"])
  /\ relayers' = [relayers EXCEPT ![r].pending = @ + amount]
  /\ UNCHANGED <<sol, credits, net>>

\* Whether the relayer is still active is not asked.
ApproveReimbursement(q) ==
  LET amount == requested[q].amount
      r == requested[q].relayer
  IN /\ requested[q].status = "pending"
     /\ amount <= VaultLamports
     /\ sol' = sol - amount * Lamport
     /\ relayers' = [relayers EXCEPT ![r].reimbursed = @ + amount, ![r].pending = @ - amount]
     /\ requested' = [requested EXCEPT ![q].status = "paid"]
     /\ UNCHANGED <<credits, net>>

\* Mutant of RejectReimbursement: a request that was paid is rejected too.
RejectUnchecked(q) ==
  /\ requested' = [requested EXCEPT ![q].status = "rejected"]
  /\ relayers' = [relayers EXCEPT ![requested[q].relayer].pending = @ - requested[q].amount]
  /\ UNCHANGED <<sol, credits, net>>

RejectReimbursement(q) ==
  /\ requested[q].status = "pending"
  /\ requested' = [requested EXCEPT ![q].status = "rejected"]
  /\ relayers' = [relayers EXCEPT ![requested[q].relayer].pending = @ - requested[q].amount]
  /\ UNCHANGED <<sol, credits, net>>

GasNext ==
  \/ \E parts \in Transfers : DepositSol(parts) \/ WithdrawSol(parts)
  \/ \E u \in CreditUsers, amount \in CreditAmounts :
       IssueCredits(u, amount) \/ SpendCredits(u, amount)
  \/ \E r \in Relayers : RegisterRelayer(r)
  \/ \E r \in DOMAIN relayers :
       \/ DeactivateRelayer(r)
       \/ \E q \in RequestIds, amount \in ReimbursementAmounts : RequestReimbursement(q, r, amount)
  \/ \E q \in DOMAIN requested : ApproveReimbursement(q) \/ RejectReimbursement(q)

-----------------------------------------------------------------------------
Total(r, status) ==
  SumFunctionOnSet([q \in DOMAIN requested |-> requested[q].amount],
    {q \in DOMAIN requested : requested[q].relayer = r /\ requested[q].status = status})

Paid == SumFunction([r \in DOMAIN relayers |-> relayers[r].reimbursed])

\* coverage_ratio >= n / d; a vault that owes nothing covers any ratio.
Covers(n, d) ==
  LET owed == SumFunction([u \in DOMAIN credits |-> credits[u].balance])
                + SumFunction([r \in DOMAIN relayers |-> relayers[r].pending])
  IN owed = 0 \/ VaultLamports * d >= n * owed

\* evaluate_need: what is proposed to governance.
Needs(feesHigh, priced, liquid) ==
  {need \in {"accumulate_sol", "refill_gasvault", "capped_membra_emission_for_gasvault"} :
     CASE need = "accumulate_sol" -> feesHigh /\ ~Covers(1, 2)
       [] need = "refill_gasvault" -> ~Covers(4, 5)
       [] OTHER -> priced /\ liquid /\ ~Covers(1, 1)}

\* The three books agree after any sequence of requests, decisions, deposits
\* and withdrawals (approve_reimbursement, gasvault_service.py:293): what a
\* relayer is owed and was paid are its pending and paid requests, the vault
\* holds what came in less what was paid and is never overdrawn, and credits
\* are what was earned less what was spent.  So a vault with no need to report
\* (evaluate_need, gasvault_service.py:406) can pay all its pending requests.
VaultBooksAgree ==
  /\ \A r \in DOMAIN relayers : /\ relayers[r].pending = Total(r, "pending")
                                /\ relayers[r].reimbursed = Total(r, "paid")
  /\ sol = net - Paid * Lamport
  /\ sol >= 0
  /\ \A u \in DOMAIN credits :
       credits[u].balance = credits[u].earned - credits[u].spent /\ credits[u].balance >= 0
  /\ Needs(TRUE, TRUE, TRUE) = {} =>
       SumFunction([r \in DOMAIN relayers |-> Total(r, "pending")]) <= VaultLamports
=============================================================================
