------------------------------ MODULE ClaimApi ------------------------------
(***************************************************************************)
(* The v1 claim endpoints of backend/main.py over backend/db/adapter.py.   *)
(*                                                                         *)
(* Each replica (k8s/backend-deployment.yaml runs two behind one service)  *)
(* keeps its own in-memory store: a handler is async but never awaits, so  *)
(* it runs as one step of its replica, and a restart empties the replica.  *)
(* Replays of a known idempotency key, and answers to claims that are      *)
(* unknown, consumed or expired, change nothing: they are no steps.        *)
(*                                                                         *)
(* A client may surround a wallet by white space.  Strip is what the       *)
(* sanitizer makes of it; the handlers compare the stripped wallet and     *)
(* store the one they were sent.  A PIN's salted hash is the PIN.          *)
(***************************************************************************)
EXTENDS Integers, Sequences, FiniteSets, FiniteSetsExt

CONSTANTS
  Replicas,      \* backend processes
  Wallets,       \* wallet_address as sent
  Strip,         \* _sanitize_wallet_address
  ClaimIds,      \* uuids a claim can get
  Keys,          \* idempotency keys
  NoKey,         \* a request without one
  Pins,          \* PINs drawn and guessed
  Minutes,       \* values of expires_minutes
  MaxAttempts,   \* MAX_BRUTE_FORCE_ATTEMPTS
  Window,        \* BRUTE_FORCE_WINDOW_SECONDS
  Horizon,       \* bound: last instant of the clock
  MaxEvents      \* bound: audit events of one replica

ASSUME ClaimApiAssumption ==
  /\ Strip \in [Wallets -> Wallets]
  /\ NoKey \notin Keys
  /\ Minutes \subseteq Nat \ {0}
  /\ MaxAttempts \in Nat \ {0}
  /\ Window \in Nat \ {0}
  /\ Horizon \in Nat
  /\ MaxEvents \in Nat

VARIABLES
  now,        \* the clock
  claims,     \* _claims of each replica
  accepted,   \* _risk_acceptances, for the current version
  audits,     \* _audit_events
  keys,       \* _idempotency_keys: the claim each key stands for
  attempts,   \* _brute_force_tracker: times of wrong PINs, by claim and wallet
  issued,     \* history: the key each claim was asked for with
  guesses     \* history: times of all PINs a replica compared since it started

vars == <<now, claims, accepted, audits, keys, attempts, issued, guesses>>

Nobody == "None"

Claim == [issuer_wallet : Wallets, pin : Pins, expires_at : Nat,
          claimed : BOOLEAN, claimant_wallet : Wallets \cup {Nobody}]

Event == [type : {"risk_disclosure_accepted"}, wallet : Wallets]
           \cup [type : {"claim_created", "claim_validated"},
                 claim : ClaimIds, wallet : Wallets]

BfKeys == ClaimIds \X Wallets

StoreTypeOK ==
  /\ now \in Nat
  /\ DOMAIN claims = Replicas
  /\ \A r \in Replicas :
       /\ DOMAIN claims[r] \subseteq DOMAIN issued
       /\ \A c \in DOMAIN claims[r] : claims[r][c] \in Claim
  /\ accepted \in [Replicas -> SUBSET Wallets]
  /\ audits \in [Replicas -> Seq(Event)]
  /\ DOMAIN keys = Replicas
  /\ \A r \in Replicas :
       /\ DOMAIN keys[r] \subseteq Keys
       /\ \A k \in DOMAIN keys[r] : keys[r][k] \in ClaimIds
  /\ DOMAIN issued \subseteq ClaimIds
  /\ \A c \in DOMAIN issued : issued[c] \in Keys \cup {NoKey}

TypeOK ==
  /\ StoreTypeOK
  /\ attempts \in [Replicas -> [BfKeys -> Seq(Nat)]]
  /\ guesses \in [Replicas -> [BfKeys -> Seq(Nat)]]

Nothing == [x \in {} |-> x]
NoTimes == [x \in BfKeys |-> <<>>]

Init ==
  /\ now = 0
  /\ claims = [r \in Replicas |-> Nothing]
  /\ accepted = [r \in Replicas |-> {}]
  /\ audits = [r \in Replicas |-> <<>>]
  /\ keys = [r \in Replicas |-> Nothing]
  /\ attempts = [r \in Replicas |-> NoTimes]
  /\ issued = Nothing
  /\ guesses = [r \in Replicas |-> NoTimes]

-----------------------------------------------------------------------------
Extend(f, x, y) == [z \in DOMAIN f \cup {x} |-> IF z = x THEN y ELSE f[z]]

\* _add_audit
AddAudit(r, event) ==
  /\ Len(audits[r]) < MaxEvents
  /\ audits' = [audits EXCEPT ![r] = Append(@, event)]

\* Only the current version is accepted; a repeated acceptance is kept once
\* and audited again.  The wallet is stored as it was sent.
AcceptRisk(r, w) ==
  /\ accepted' = [accepted EXCEPT ![r] = @ \cup {w}]
  /\ AddAudit(r, [type |-> "risk_disclosure_accepted", wallet |-> w])
  /\ UNCHANGED <<now, claims, keys, attempts, issued, guesses>>

\* has_risk_acceptance for the sanitized wallet
HasAccepted(r, w) == Strip[w] \in accepted[r]

\* Mutant of Remembered: the idempotency mapping is not stored.
NotRemembered(r, k, c) == keys

\* Mutant of Remembered: requests without a key share one.
RememberedAlways(r, k, c) == [keys EXCEPT ![r] = Extend(@, k, c)]

Remembered(r, k, c) ==
  IF k = NoKey THEN keys ELSE [keys EXCEPT ![r] = Extend(@, k, c)]

CreateClaim(r, w, k, minutes) ==
  /\ HasAccepted(r, w)
  /\ k \notin DOMAIN keys[r]
  /\ \E c \in ClaimIds \ DOMAIN issued, p \in Pins :
       /\ claims' = [claims EXCEPT ![r] = Extend(@, c,
            [issuer_wallet |-> w, pin |-> p, expires_at |-> now + minutes,
             claimed |-> FALSE, claimant_wallet |-> Nobody])]
       /\ AddAudit(r, [type |-> "claim_created", claim |-> c, wallet |-> w])
       /\ keys' = Remembered(r, k, c)
       /\ issued' = Extend(issued, c, k)
  /\ UNCHANGED <<now, accepted, attempts, guesses>>

\* Mutant of Open: the claimed flag is not looked at.
OpenAgain(r, c) == now <= claims[r][c].expires_at

Open(r, c) == ~claims[r][c].claimed /\ now <= claims[r][c].expires_at

\* Mutant of Recent: the window is one unit too short.
RecentShort(r, x) ==
  LET times == attempts[r][x]
      old   == {i \in DOMAIN times : now - times[i] >= Window - 1}
  IN SubSeq(times, Max({0} \cup old) + 1, Len(times))

\* The attempts _check_brute_force keeps.  They were appended while the clock
\* went on, so what the filter drops is what stands before the first young one.
Recent(r, x) ==
  LET times == attempts[r][x]
      old   == {i \in DOMAIN times : now - times[i] >= Window}
  IN SubSeq(times, Max({0} \cup old) + 1, Len(times))

\* bf_key: the claim and the stripped wallet
BfKey(c, w) == <<c, Strip[w]>>

\* _record_brute_force after a wrong PIN
WrongPin(r, c, w) ==
  /\ attempts' = [attempts EXCEPT ![r][BfKey(c, w)] =
                    Append(Recent(r, BfKey(c, w)), now)]
  /\ UNCHANGED <<claims, audits>>

Consume(r, c, w) ==
  /\ attempts' = [attempts EXCEPT ![r][BfKey(c, w)] = Recent(r, BfKey(c, w))]
  /\ claims' = [claims EXCEPT ![r][c].claimed = TRUE, ![r][c].claimant_wallet = w]
  /\ AddAudit(r, [type |-> "claim_validated", claim |-> c, wallet |-> w])

ValidateClaim(r, c, w, pin) ==
  /\ c \in DOMAIN claims[r]
  /\ Open(r, c)
  /\ Len(Recent(r, BfKey(c, w))) < MaxAttempts
  /\ guesses' = [guesses EXCEPT ![r][BfKey(c, w)] = Append(@, now)]
  /\ IF pin = claims[r][c].pin THEN Consume(r, c, w) ELSE WrongPin(r, c, w)
  /\ UNCHANGED <<now, accepted, keys, issued>>

\* A refused attempt leaves the tracker trimmed.
TooManyAttempts(r, c, w) ==
  /\ c \in DOMAIN claims[r]
  /\ Open(r, c)
  /\ Len(Recent(r, BfKey(c, w))) >= MaxAttempts
  /\ attempts' = [attempts EXCEPT ![r][BfKey(c, w)] = Recent(r, BfKey(c, w))]
  /\ UNCHANGED <<now, claims, accepted, audits, keys, issued, guesses>>

\* The process starts again with empty stores.
Restart(r) ==
  /\ claims' = [claims EXCEPT ![r] = Nothing]
  /\ accepted' = [accepted EXCEPT ![r] = {}]
  /\ audits' = [audits EXCEPT ![r] = <<>>]
  /\ keys' = [keys EXCEPT ![r] = Nothing]
  /\ attempts' = [attempts EXCEPT ![r] = NoTimes]
  /\ guesses' = [guesses EXCEPT ![r] = NoTimes]
  /\ UNCHANGED <<now, issued>>

Tick ==
  /\ now < Horizon
  /\ now' = now + 1
  /\ UNCHANGED <<claims, accepted, audits, keys, attempts, issued, guesses>>

Next ==
  \/ \E r \in Replicas :
       \/ Restart(r)
       \/ \E w \in Wallets :
            \/ AcceptRisk(r, w)
            \/ \E k \in Keys \cup {NoKey}, m \in Minutes : CreateClaim(r, w, k, m)
            \/ \E c \in ClaimIds :
                 \/ TooManyAttempts(r, c, w)
                 \/ \E pin \in Pins : ValidateClaim(r, c, w, pin)
  \/ Tick

Spec == Init /\ [][Next]_vars

-----------------------------------------------------------------------------
(* Properties *)

\* While a replica lives, each key it was asked with names the one claim made
\* for it, and each claim made with a key is the one its key names: a client
\* that retries at the same replica gets its claim back (create_claim's replay).
KeysNameClaims ==
  \A r \in Replicas :
    /\ \A c \in DOMAIN claims[r] : issued[c] # NoKey =>
         issued[c] \in DOMAIN keys[r] /\ keys[r][issued[c]] = c
    /\ \A k \in DOMAIN keys[r] :
         keys[r][k] \in DOMAIN claims[r] /\ issued[keys[r][k]] = k

EventsOf(r, type, c) ==
  {i \in DOMAIN audits[r] : audits[r][i].type = type /\ audits[r][i].claim = c}

\* The log of r tells the story of its claim c.
Told(r, c) ==
  LET claim   == claims[r][c]
      log     == audits[r]
      settled == EventsOf(r, "claim_validated", c)
  IN \E i \in DOMAIN log :
       /\ EventsOf(r, "claim_created", c) = {i}
       /\ log[i].wallet = claim.issuer_wallet
       /\ \E j \in 1..i : log[j] = [type |-> "risk_disclosure_accepted",
                                 wallet |-> Strip[claim.issuer_wallet]]
       /\ IF claim.claimed
          THEN \E j \in DOMAIN log : /\ settled = {j} /\ i < j
                                    /\ log[j].wallet = claim.claimant_wallet
          ELSE settled = {}

\* A replica's audit log tells each claim's story: the acceptance of its issuer's
\* stripped wallet, one creation by that issuer, and, exactly if the claim is
\* consumed, one later validation, by its claimant.  A claim that two calls
\* consume, or that is made without an acceptance, breaks it.
AuditTellsClaims ==
  \A r \in Replicas : \A c \in DOMAIN claims[r] : Told(r, c)

\* In no window does a replica compare more than MaxAttempts PINs for one claim
\* and one (stripped) wallet, however the tries are spaced (_check_brute_force).
GuessesBounded ==
  \A r \in Replicas, x \in BfKeys :
    \A i \in 1..(Len(guesses[r][x]) - MaxAttempts) :
      guesses[r][x][i + MaxAttempts] - guesses[r][x][i] >= Window

\* API_REFERENCE.md:167: a key that was used returns the original claim without
\* creating a new one.  Another replica, or the same one after a restart, does
\* not know the key.
KeyMakesOneClaim ==
  \A c, d \in DOMAIN issued : issued[c] = issued[d] /\ issued[c] # NoKey => c = d
=============================================================================
