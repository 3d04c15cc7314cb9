# MembraMoney: formal verification

TLA+ models of the MembraMoney protocol, the TLC runs that check them on small
instances and the theorems TLAPS proves about them for every instance. Paths
are relative to the repository; `lib.rs` is `programs/membramoney/src/lib.rs`.

## 1. The system

MembraMoney issues bearer notes denominated in satoshis. An Anchor program on
Solana holds the notes and two treasuries of lamports and tokens; a FastAPI
backend keeps an off-chain economy of claim notes that users split, merge,
transfer and redeem for coins on a chain; a file registry (FileLife) turns files
into collateral. The three do not call each other: the backend keeps its own
state in Python dictionaries (FileLife in a SQL database), and the frontends and
SDKs are clients of its HTTP interface.

### Inventory

| Component | State | Operations | What is hard | What makes it correct |
|---|---|---|---|---|
| Anchor program, notes (`lib.rs`) | `ProtocolState` (authority, pause flag, note counter), one `Note` account per id, one `ReserveAttestation` per counter value | initialize, pause, unpause; mint, transfer, claim, redeem, burn, revoke; record attestation | signers act in any order; the clock passes the expiry between two calls; accounts are addressed by the counter | ids dense, one way through the note states, holder versioned by the nonce, nothing but revocation after the expiry, a pause freezes what checks it (`mint_membra`, `update_rebase_index` and the initializers do not) |
| Anchor program, GasVault and MEMBRA (`lib.rs`) | `GasVault` books and its lamports, `MembraMint` | initialize, deposit, issue and spend credits, reimburse; initialize mint, mint, rebase | a withdrawal of everything erases the account; the relayer may be the vault | books covered by lamports, supply capped |
| Claim notes (`backend/services/claimnote_service.py`) | `_claims` | create, transfer, split, merge, burn, revoke | a merge that raises half-way, negative amounts, the expiry a split hands on | value conserved, a handed-over claim is final |
| Redemption (`redemption_service.py`) | receipts, idempotency keys, approval queue, per-user timestamps | redeem, approve, reject | a pending receipt does not lock its claim; approvals cross rejections; retries; a moving hourly window | one payment per receipt and none after a rejection; requests match burned claims; a key has one receipt; the limit holds in every window |
| Settlement (`settlement_engine.py`) | pending requests, batches | submit, build, approve, broadcast, confirm | requests arrive while batches are built; two calls ignore the status | a request is in one batch |
| Treasury (`treasury_service.py`) | batches with signatures, operators; wallets, attestations | create, sign, reject, broadcast, confirm; wallets; attest | signatures and rejections cross, at and after the end of the window | no broadcast without quorum; a decision is final |
| Claim API (`backend/main.py`, `db/adapter.py`) | per process: claims, risk acceptances, audit log, idempotency keys, brute-force counters | accept risk, create, validate | two replicas (k8s) that share nothing, restarts, a sliding window of attempts | a claim is consumed once, the audit log tells how, a key names one claim, guesses are bounded |
| Ledger (`ledger_service.py`; `reserve_service.py` answers with constants) | accounts, entries, events | create account, post entry | negative amounts, an account on both sides, repeated keys; the solvency figure reads it from outside | balances are the sums of the entries; a solvent asset covers what the house owes |
| FileLife (`backend/filelife/`) | files, events, appraisals, verifications, commits, anchors, collateral, liens | register, appraise, verify, commit, anchor, evaluate, pledge, release | an await between read and write; renaming of the key every other table refers to; one request, several transactions | the commit a SKU spells is the file's own; a stage has its event; the lien shown beside a certificate is on that certificate |
| GasVault service (`gasvault_service.py`) | balance, credits, relayers, requests | deposit, withdraw, credit, spend, request, approve, reject, evaluate need | shared balance, float arithmetic, negative amounts | the books agree; no need reported means all pending requests can be paid |
| Token routing (`token_routing.py`) | chains, tokens, adapters, routes, proofs | register, verify, enable, disable, create, pause | a route outlives the state its adapter had | an offered route leads through an adapter verified for its chains |
| Proof of volatility (`proof_of_volatility.py`) | feed windows, figures, gates, proofs | feed, report, evaluate, query | a gate is as old as the last signal | an open gate rests on the liquidity, coverage and volatility of now |
| Wallet authentication (`backend/auth/`, `core/redis_client.py`) | nonces and refresh tokens in redis, nonces in memory | nonce, authenticate, refresh, logout | any call to redis may fail; replicas share it; read and delete are two calls | a nonce opens one session, unless redis kept or deleted it otherwise than it said; a revoked token stays revoked |
| Circuit breaker (`core/circuit_breaker.py`) | state, counters | call | concurrent calls that end in any order | an open circuit admits calls again |
| Identity (`identity_service.py`) | users, tags, devices, nonces | register, resolve, rotate, devices, nonces | tags change, and a drawn tag may be in use | an identifier leads to a user who shows that tag |
| Proof of development (`proof_of_development.py`) | proofs, votes | push, tests, security, vote, approve, reject | tests are taken in any phase; votes survive a rejection | what is executed was tested, scanned and voted |
| Appraisal (`appraisal_service.py`, `api/appraisal_routes.py`) | snapshot files, value caches | run by the hour or on request; delta, proof | runs that overlap or share a second, a stop in the middle of a write | every proof leads to its root; a snapshot tells of the one before it |
| Middleware, metrics, flags, logging, configuration | buckets, counters | | | none the protocol depends on |
| Frontends, desktop apps, SDKs, infrastructure | | | | clients and deployment |

The components of the backend interact through direct method calls: `redeem` and
`approve_redemption` call `burn_claim` of the claim notes and `submit_request`
of the settlement engine in one go. Every service method is synchronous and
runs on one event loop, so a call is one atomic step; what interleaves is calls.
The treasury's batches and the settlement engine's batches are separate
objects. `main.py` wires the services and exposes some of the operations; the
models take every public method of a service as callable, as its tests do: a claim
is also burned and a request also submitted without a redemption.
FileLife, the wallet login and the appraisal are the exceptions to one call, one
step: the first awaits GitHub and Solana, the second asks redis, which other
replicas ask as well, and the third runs in a worker thread beside the hourly
task. The circuit breaker may be called from any thread.

## 2. Modules

| Module | Models |
|---|---|
| `MembraProtocol` | `ProtocolState`, pause, clock |
| `MembraNotes` | the note and attestation instructions |
| `MembraVault` | the GasVault and MEMBRA instructions |
| `MembraProgram` | the whole program, the three together |
| `NoteLifecycle` | abstract: the one-way life of a bearer note |
| `ClaimNotes` | `claimnote_service.py` |
| `Settlement` | `settlement_engine.py` |
| `Redemption` | `redemption_service.py` over `ClaimNotes` and `Settlement` |
| `Payouts` | abstract: a receipt is decided once and paid at most once |
| `Treasury` | the settlement batches of `treasury_service.py` |
| `Ledger` | `ledger_service.py` |
| `Reserves` | the wallets, attestations and solvency of `treasury_service.py`, over `Ledger` |
| `Identity` | `identity_service.py` and the account its endpoint opens, over `Ledger` |
| `GasVaultService` | `gasvault_service.py` |
| `TokenRouting` | `token_routing.py` |
| `ProofOfVolatility` | `proof_of_volatility.py` |
| `ProofOfDevelopment` | `proof_of_development.py` |
| `CircuitBreaker` | `core/circuit_breaker.py` |
| `WalletAuth` | `auth/wallet_auth.py` over `core/redis_client.py` |
| `FileLife` | `backend/filelife/` |
| `MerkleTree` | the tree and the proofs of `appraisal_service.py` |
| `Appraisal` | `appraisal_service.py` and its endpoint, over `MerkleTree` |
| `Services` | the ten above together, with the fairness of the breaker |
| `ClaimApi` | the v1 claim endpoints of `main.py` over `db/adapter.py` |
| `Multisig` | abstract: sending needs a quorum nobody refused |
| `MC...` | instances for TLC |
| `...Proofs` | theorems and proofs |

### The Anchor program

`notes` is a function from ids to `Note` records; its domain is the set of
existing accounts. `attestations` is indexed by the counter value that seeds
the account. Accounts that Anchor would refuse to `init` twice are guards, as
are `require!`, the signer constraints and `checked_add`. An instruction that
fails leaves no trace, so it is no step. Public keys are model values, a hash is
a function `HashOf` from preimages, `clock` is the sysvar and never goes back.
`claims` is a history variable: how often a note was claimed. `lamports` is the
balance of the vault's address; the runtime's rules that an account may not
become rent-paying and disappears at zero lamports are `AfterWithdrawal`, the
one external definition beside `init` and the clock. Fields no instruction reads
(asset type, policy, compliance, nullifier, bumps) are left out.

### Claims, redemption and settlement

`claims` is `_claims`. uuid4 never repeats an id, so the ids that split and merge
delete are kept in `deleted`. `issued`, `lost` and `retired` are history variables:
the value created, the value a merge deleted before it raised, and the claims that
`burn_claim` burned on its own. A receipt holds what the code spreads over four
dictionaries (its key, its user's timestamp, its approvals), and as `required` the
`required_approvals` of the call that settled it. A request holds the receipt the
caller files its id under, or `NoReceipt` when it was submitted directly. Not in
the model: the PIN (`validate_claim` takes it and compares nothing), the quarantine
(`redeem` passes velocity 0, so the fraud score cannot reach 50), the compliance
check (it always clears), merging an empty list, which creates a claim of no
asset and no value.

### Treasury

`batches` is `_settlements`. `expired` is written only by a signature that comes
late, as in the code. The operator registry is kept and, as in the code, no
operation consults it. The required number of signatures and the window are
constants. The wallets share nothing with the batches and are in `Reserves`.

### The other services

Each keeps its state in its own dictionaries and none calls another, but for the
identity endpoint, which opens a ledger account, and the solvency figure, which
reads the ledger. `Services` has all their variables and follows one of them in a
behaviour, `subject`, while the others rest: a product of states that never
influence each other would show nothing more. A call that raises before it
changed anything, or finds its work done, is no step; one that changes something
and then raises, like a refused `issue_credits`, is.

- Ledger, reserves: an account's balance and version, an entry's sequence number.
  `post_entry` takes any integer. The event list is represented by its numbers.
- Identity: `Canonical` is `lower()` and the stripping of `@`; tags are drawn
  without a look at the ones in use, so they repeat and may look like names.
- GasVault: balances count parts of a lamport, so that `vault_lamports` truncates
  as in the code; float rounding is not followed. `net` is a history variable.
- Token routing: nothing takes a verification back, and no route asks whether its
  chains are enabled.
- Proof of development: `scans` and `authorised` are history variables, the clean
  scans of a proof and the sum of what it was ever authorised to emit.
- Proof of volatility: the coefficient of variation is compared by its square over
  integers; liquidity and coverage enter as sufficient or not.
- Circuit breaker: admission and the bookkeeping of an end are one step each.
  `diluted` is a history variable: a success came in while the circuit was open.
- Wallet login: a call to redis works, fails without an effect, or takes effect and
  fails in its answer. The last makes a difference where the answer is looked at,
  in `generate_nonce` (`"unheard"`): the nonce is then in redis and in a memory.
  `deletes` and `keeps` say whether a deletion or a refresh token took effect,
  which nobody asks. `doubled`, `leaked` and `revoked` are history variables.
- FileLife: `Sku` has the parts of a SKU that change (stage, version, commit, anchor,
  score, collateral flag), since category, kind and jurisdiction are the same for
  all files of the model and the file's content is no part of it. A handler that
  awaits is split at its await, and keeps what it read before; SQLAlchemy
  writes only the columns that differ from what it read, which is `Rename`.
  `inFlight` numbers the handlers, so identical requests may cross.
  `record_event` commits on its own, so a crash may fall between; `untold` keeps the
  events lost so. A signature is determined by the memo and the blockhash, and the
  memo names neither the event nor the appraisal (`solana_service.py:170`): anchors of
  one file may get one signature, different memos never do. Commits and signatures
  are compared in full, though a SKU spells their first eight characters. The
  owner of a commit and of a lien, `evaluated`, `pledgedOver`, `reissued`, `crashed`
  and `untold` are history variables.
- Appraisal: a run's id is the second in which it starts; a snapshot is
  written in place, so a stop may leave half a file (`Torn`), at which every later
  run fails. The hourly run keeps the event loop busy: it may begin beside a
  requested one but not the other way around. A hash is the term it is
  the hash of, which is collision resistance. `disturbed` is a history variable.

### Claim API

Each replica has its own `claims`, `accepted`, `audits`, `keys` and `attempts`,
the dictionaries of `InMemoryStore` and `_brute_force_tracker`. A handler is
`async` but awaits nothing, so it is one step; `Restart` empties a replica.
`Strip` is the sanitizer, which the handlers apply to what they compare and not
to what they store. `issued` and `guesses` are history variables: the key each
claim was asked for with, and the times of all PINs compared. `_enforce_store_limits`
is never called, so no store is ever trimmed.

Not in the model: the PostgreSQL store of the adapter. `requirements.txt` names
no synchronous driver, so the image of `backend/Dockerfile` falls back to memory;
and with a driver no claim can be created, because `ClaimRepository.create` leaves
out two columns that `db/models/claim.py` declares `NOT NULL`. Also left out:
`risk_version`, which `create_claim` takes and does not read.

## 3. Runs

| Run | Checks | Shows |
|---|---|---|
| `program` | `TypeOK`, `NoteIdsDense`, `AttestationOrder`, `NonceCountsHandovers`, `NonceVersionsHolder`, `ExpiredNoteOnlyRevoked`, `PausedFreezes`, `VaultSolvent`, `SupplyCapped`, `ImplementsLifecycle` | the Anchor program keeps its promises under every order of calls |
| `redemption` | `TypeOK`, `ValueConserved`, `SettledIffBurned`, `SmallClaimsPaidOnce`, `ApprovalsReached`, `OneReceiptPerKey`, `RateLimitHolds`, `OneBatchPerRequest`, `HandedOverOnce`, `ImplementsPayouts` | redemption, approval and settlement agree with the claims whatever happens to them in between; splits and merges conserve value, except what a failed merge destroys, which is counted |
| `treasury` | `TypeOK`, `QuorumBeforeBroadcast`, `DecisionFrozen`, `ImplementsMultisig` | nothing is broadcast without a timely quorum |
| `claim_api` | `TypeOK`, `KeysNameClaims`, `AuditTellsClaims`, `GuessesBounded` | while a replica lives, a key names one claim, a claim is consumed once and logged truthfully, and PINs are rationed |
| `services` | `TypeOK`, `BooksAndReservesAgree`, `ResolvesToShownTag`, `VaultBooksAgree`, `OfferedRoutesAreSound`, `OpenGatesRestOnSignals`, `ExecutedWasReviewed`, `NonceOpensOneSession`, `ShownLiensAreReal`, `RecordsBackSku`, `SnapshotsHoldTogether`, `BreakerRecovers` | ten services keep their books, and what they show of them, consistent under every order of calls, awaits, failures and crashes |
| `double_claim` | `ClaimedAtMostOnce` | violated |
| `pause` | `PauseStopsAll` | violated |
| `double_settlement` | `ClaimSettledOnce` | violated |
| `retried_key` | `KeyMakesOneClaim` | violated |
| `inherited_collateral` | `PledgedWasEvaluated` | violated |
| `stale_gates` | `OpenGatesAreFresh` | violated |
| `repeated_emission` | `EmissionsCapped` | violated |

The seven violations are disagreements between the code and what the repository
says of it:

- `claim_note` (`lib.rs:104`) accepts a claimed note: the preimage is public after
  the first claim and the note stays claimable. The specification
  (`SMART_CONTRACT_SPEC.md:206`) has the guard `!note.is_claimed`.
- `approve_redemption` (`redemption_service.py:247`) does not look at the claim's
  state: two pending receipts for one claim both settle.
- `mint_membra` (`lib.rs:333`) and `update_rebase_index` (`lib.rs:347`) do not look at
  the pause flag, against `SMART_CONTRACT_SPEC.md:314` and `ARCHITECTURE.md:75`.
  `PausedFreezes` is what does hold.
- `set_idempotency` (`db/adapter.py:203`) keeps keys in one process: a retry at the
  other replica, or after a restart, creates a second claim, against
  `API_REFERENCE.md:167`.
- `pledge` (`filelife/routes.py:371`) finds collateral by SKU: an evaluation files
  it under the SKU the file had and renames the file, and the next file of the
  same kind is registered under that SKU and pledged without the evaluation that
  `routes.py:373` asks for.

- `is_unlocked` (`proof_of_volatility.py:333`) answers with the flag of the last
  evaluation, and only the arrival of a signal evaluates: gates stay open when oracles
  grow stale, against `MEMBRA_TOKENOMICS.md:38` and `test_gate_blocked_stale_oracles`.
  `OpenGatesRestOnSignals` is what holds, of the signals at the last evaluation.
- `record_tests` (`proof_of_development.py:85`) takes an executed proof back to the
  tests with its votes: after another scan and vote it authorises its cap again,
  where `MEMBRA_TOKENOMICS.md:96` says unlimited emissions are blocked.
  `ExecutedWasReviewed` says what bounds them: a clean scan for each.

Two more are modelled and have no run. `split_claim` (`claimnote_service.py:104`) hands
the expiry time on as a number of minutes, so the parts practically never expire,
where `main.py:792` says notes expire automatically. `confirm_batch`
(`treasury_service.py:227`) completes a batch in any status, one nobody signed
included; such a batch has no transaction, so `QuorumBeforeBroadcast` stands.

What the properties leave open, because no document promises it:

- `ApprovalsReached` counts against the `required_approvals` of the call that
  settles, an argument of the endpoint: with 1, one operator is enough, whatever
  the queue of `main.py:698` says of dual-operator approval. The default is 2.
- `ValueConserved` books what a failing merge destroys as `lost`; that it destroys
  it is not called an error.
- `GuessesBounded` is per claim and wallet, as the tracker is; per claim alone,
  guesses grow with the number of wallets.
- `spend_credits` takes a negative amount, which raises a balance past
  `MAX_CREDITS_PER_USER`; `VaultBooksAgree` speaks of relayers and the vault.
- `verify_route` makes a paused route active again, whatever became of its adapter.
- A nonce opens two sessions when redis kept it and only the answer was lost, and
  several when redis did not delete it or two replicas had read it before: the
  exceptions of `NonceOpensOneSession`. A refused nonce in memory never expires.
- A file's appraisals, liens and collateral stay under a SKU it no longer has. After
  a SKU is evaluated again, the certificate shows the lien made on the former one
  (`reissued`); after it was pledged twice at a time, a released lien is shown
  while the other stands (`pledgedOver`). Both are exceptions of
  `ShownLiensAreReal`, which says that there are no others.
- A stage whose event a crash lost stays without it (`untold`).
- Two appraisals that overlap may lose each other's entry (`disturbed`).
- A circuit breaker whose failure count was cleared by a late success can spend its
  half-open calls and refuse for good, which is why `BreakerRecovers` excepts it.

### Bounds

- `program`: two keys, two notes, a three-second clock, lives of 1 and 2 seconds
  (0 and 3 are refused), two preimages. Two keys are an issuer and another
  holder, or two rivals; the clock lets calls come before, at and after the
  expiry. A second mint takes the next id, before and after attestations and pauses;
  of two notes `FewHandovers` follows two hand-overs in all, within two seconds and
  lives of one, while a single note runs to every bound. `MCNext` keeps the note half and the vault half apart, which share
  only the pause flag; the proofs cover them together. The nonce is bounded by
  `MaxNonce`, the counter by `MaxNoteCounter`, the lamports by `MaxLamports`,
  which stands for `u64::MAX`: overflow aborts, which TLC exercises.
- `redemption`: the first state chooses one of three plans, each a bound of its own
  on the same specification (`MCRedemption`).
  "claims": three claims, two assets, amounts -1, 1 and 2, merges of up to two claims,
  no clock; a split in two and the merge of its parts is the longest chain that does
  anything new.
  "receipts": two claims of one asset that expire, two users, two receipts, two keys,
  two operators, one claim burned directly, a limit of one redemption in a window
  of two seconds; one claim below the threshold and one at it, and approvals
  asked for by one or by two. Two receipts are needed for a race on one claim, two
  operators for crossing decisions.
  "batches": two claims of two assets, thus two rails, two requests submitted
  directly (`MaxDirect`), two batches in every order of their operations.
- `treasury`: two batches, three operators of whom two must sign, a window of one
  second in a three-second clock: signatures at, before and after its end.
- `claim_api`: one replica, since replicas share nothing (`retried_key` has two);
  two claims, one key, one wallet that is sent with and without white space, two
  PINs, lives of 1 and 2, two attempts in a window of 2 and a clock to 2, so that
  attempts age out of the window while a claim is open and a claim expires; four
  audit events.

- `services`: the sum of ten small state spaces. Ledger: a reserve account and
  one that is opened as any type, two keys, amounts -1, 0 and 2, two wallets.
  Identity: three names, one of them spelled like a tag, and two tags, so
  that tags collide with each other and with names. GasVault: two requests of one
  relayer, amounts around the cap of 2 per request and per user, transfers of half
  a lamport and of two. Routing: one adapter and one route between two
  chains, every combination of ends. Volatility: a window of two prices that can
  make each of the four volatility states, an oracle age of 1 in a clock to 2.
  Development: three voters, two of whom suffice; two clean scans, hence two emissions of one proof. Breaker: four callers, three
  failures, two half-open calls: a late success leaves room for trials that
  all fail below the threshold. Login: two replicas, two nonces, three sessions, so that
  one nonce may open two.
  FileLife: two contents, two commits, two signatures, so that one may be given
  again for its memo and another for another; `Budgets` names four shapes of
  behaviour, five requests about one file with two handlers awaiting, four about
  two files with two handlers, four with one handler and a crash, seven about two
  files with two liens and no await, each enough for its hazard and together within
  reach. Handlers have numbers, so two of them may be identical. `Worths` is `{TRUE}`: the flag of a worthless file
  distinguishes nothing the properties read. Appraisal: trees of no, three and five files,
  so that layers of odd length occur on two levels, three runs in three seconds.

`CHECK_DEADLOCK FALSE` everywhere because bounded clocks and ids run out.

### Fairness

Only `Services` states fairness, `BreakerFairness`, and only of what is not a
choice of a client: time passes, and a function called through the breaker ends,
by returning or raising, which weak fairness of each caller's two endings says.
The breaker itself has no timer: it becomes half-open when somebody calls, so
`BreakerRecovers` speaks of whether a call made now would be admitted, and no
caller is obliged to call. Nothing in the code schedules the other operations
(a request submitted to the settlement engine waits until somebody builds a
batch, and nobody does), so no liveness is claimed of them. The hourly
appraisal is scheduled, but one torn snapshot makes every later run fail, so
that no run is bound to succeed.

## 4. Theorems

The proofs hold for every value of the constants that satisfies the assumption
named in each module; the bounds of the runs are among those constants and may
be as large as one likes. The assumptions give constants their types and say
what the code provides: `System` is no user, a quorum and a window are positive,
`Wired` accounts and the claim ids that will ever be drawn are finitely many,
GitHub's commits do not repeat, the files of a tree
are listed 1 to n. TLC evaluates all of them in the runs.

Every safety invariant and every action property of the passing runs is proved,
and so are the three refinements (`NoteLifecycle`, `Payouts`, `Multisig`):

| Module | Theorems |
|---|---|
| `MembraProgramProofs` | `TypeCorrect`, `NotesCorrect`, `AttestationsInOrder`, `NoncesCount`, `NonceIsAVersion`, `ExpiryIsFinal`, `VaultCorrect`, `SupplyUnderCap`, `PauseFreezes`, `ProgramImplementsLifecycle` |
| `RedemptionProofs` | `RedemptionSound`, `SmallPaidOnce`, `KeysAreIdempotent`, `FlowImplementsPayouts` |
| `RedemptionCountProofs` | `NoValueMade`, `ClaimsHandedOver`, `BatchesDisjoint`, `RateLimited`, `ApprovalsCounted`, `TypeCorrect` |
| `TreasuryProofs` | `TreasuryTypes`, `QuorumHolds`, `DecisionIsFinal`, `TreasuryImplementsMultisig` |
| `ClaimApiProofs` | `StoresSound`, `KeysSound`, `PinsRationed`, `StoresTyped` |
| `BooksProofs` | `BooksClose`, `VaultAccounted` |
| `ServicesProofs` | `TagsSound`, `RoutingSound`, `GatesSound`, `EmissionsReviewed`, `LoginsSound`, `SkusSound`, `LiensShown`, `SnapshotsSound`, `RefusalsEnd`, `FirstTrialDecides`, `ServicesTyped` |
| `SumLemmas` | lemmas on sums over finite sets, least and greatest elements |

### The invariants behind them

Few of the properties are inductive. What each needs besides, and why:

- Notes: `TypeOK /\ NotesInv`. The counter is zero until the protocol is
  initialized (`CounterOK`; a mint before it would be overwritten), and nothing
  stored is later than the clock (`Timeline`; an attestation could otherwise
  precede a note it covers). `VaultSolvent` and `SupplyCapped` are inductive
  with `TypeOK`.
- Redemption: `FlowInv` ties the tables together: the requests with a receipt are
  those of the receipts in processing, one each (`RequestsOK`); a receipt's claim is
  on record with the receipt's value or was deleted for good (`ReceiptsOK`); and
  such a request's claim is burned and cannot be deleted any more, because split and
  merge take only created claims (`SettledIffBurned`, which leaves the claims in
  `retired` to `burn_claim` itself). That deleted ids never return is part of
  `ClaimsOK`.
- Value, batches, approvals, rate limit (`RedemptionCountProofs`): sums and
  counts. `ValueInv` is conservation with the types of claims: the claim a merge
  makes is worth the distinct claims its list deletes, and a merge that raises
  half-way has deleted what it counts as lost. A request's
  batches are counted per request (`BatchesInv`). `ReceiptsInv` says that approvals
  have no operator twice, so their length is the number of people, that a settled
  receipt has as many as its `required`, and bounds the receipts of every window by the limit: a window's newest receipt was
  admitted when the window that ended with it had room.
- Treasury: `TreasuryInv` says of each batch that its signatures are of different
  operators and inside the window, that none is among the rejections while it
  collects, and that an approved or sent batch is quorate. `SameCardinality` turns
  the length of an injective sequence into the cardinality `Multisig` speaks of.
- Claim API: `StoreInv` adds that each acceptance on record was logged
  (`AcceptancesLogged`) and that the log speaks of no claim the replica does not
  hold (`LoggedClaimsKnown`), so that a new claim's story starts empty.
  `TrackerInv` relates the tries the tracker keeps to all the PINs that were ever
  compared: they come in order of time, and while a claim is not taken the tracker
  holds the last of them, all but those that left the window. So the refusal of
  the next try counts the right ones.
- Ledger and reserves (`BooksProofs`): `LedgerInv` adds that entries are between
  accounts on record, of which there are finitely many; then a posting moves one
  amount between two balances of a sum. `VaultBooksAgree` needs `GasInv`: each
  relayer's pending and paid totals are the sums over its requests, and the vault
  holds what came in less what all relayers were paid.
- Identity: a tag in the table is shown by a user (`TagsAreShown`). Routing: the
  adapter of every route was verified for its chains (`RoutesLead`). Volatility:
  gates say what the last evaluation decided on the signals of then
  (`GatesAreDecided`). Development: a phase was earned by what its predecessors
  require, votes are the members of a finite set, and what was authorised rests on
  scans, one of which a proof under review has not used yet (`WithinScans`).
- Wallet login: `LoginInv` says where a nonce can be. One that redis did not keep
  unheard is in redis and its readers or in a memory, and was used from no other
  place (`PlacesAreApart`); one in a memory is in one, and opened no session from it
  (`MemoryIsSpent`); one that did not leak has one reader at most, and opened no
  session from redis while it is there (`RedisIsSpent`). Then two logins with one
  nonce come from both places or from a leak (`LoginsAreApart`).
- FileLife: `FileInv` carries what a handler read before its await
  (`HandlersBacked`): the commit it will spell was made for its file, even if the
  file has meanwhile been renamed, by a handler like it included. With it the SKUs
  (`SkusBacked`) and the events (`EventsTold`) follow; commits are drawn in order
  (`RecordsInOrder`), so a new one is never an old one's. `LiensInv` says of a SKU
  with collateral that a newest lien no longer pledged leaves none standing, unless
  it was pledged over (`NewestStands`), that a pledged one names the certificate on
  record, unless that was reissued (`NewestOnCertificate`), and that collateral
  marked pledged has both (`ShownStands`); liens are on SKUs with collateral.
- Appraisal: `AppraisalInv` orders runs and snapshots: a run nobody disturbed is
  alone and younger than all snapshots, so the snapshot it found is the one before
  it. `RootsMatch` says that a snapshot's root is that of the files it lists, and
  `MerkleCorrect` that in a tree of any size the proof of any leaf leads to the
  root: climbing one step from a place reaches the hash at the place above
  (`OneStepUp`), layers shrink to one hash (`LayersShrink`), and so on upwards.

Each proof has one step per action, and beneath it one per conjunct the action
can disturb. The refinement theorems show that each step of the code is a step
of the abstract specification or a stutter. `Services` interleaves ten services;
a frame lemma for each (`IdentityFrame`, ...) says that a step of the composition is a
step of that service or leaves its variables, and the invariants are proved of
the services alone.

What induction over the data would give is obtained without it: a sum over a
finite set is compared at a smallest set on which the claim fails
(`SmallestOfFamily`), and a statement about the n-th layer, place or hash at the
least number at which it fails (`UpTo`, over the set of numbers for which it holds).
For the same reason the trees are recursive functions, not `RECURSIVE` operators,
and `_check_brute_force` drops a prefix of the tries, which is what filtering an
ordered list by age does.

### Only model-checked

- `BreakerRecovers`, a liveness property under fairness, out of the prover's
  reach. What it rests on is proved: a breaker that refuses waits for its timeout
  or for a caller inside (`RefusalsEnd`), and the first caller to end decides
  (`FirstTrialDecides`). `BreakerInv` says why: a circuit that opened has its
  failures counted in full, unless a late success cleared them, so that in the
  half-open state one failure opens it again.
- The seven violations: a counterexample is a behaviour, which TLC shows.
- That the invariants are not vacuous: the runs reach the states, and
  mutations of the modelled code break each property.

## 5. Plan

The models are complete as far as section 6 says. What is left:

1. what does hold where the other violated promises fail, as properties with
   proofs: how often a large claim can be settled (once per approved receipt), what
   a second claim of a note changes, who can inherit an evaluation;
2. abstract specifications of the wallet login (a nonce is a ticket used once) and
   of the FileLife handlers, and that `WalletAuth` and `FileLife` implement them.

## 6. Not modelled

- The PostgreSQL store of the claim API (section 2) and the endpoints that only
  read.
- In FileLife: the parser that takes a SKU apart for display, questions to the LLM,
  QR codes, risk and liquidity figures; lendable values beyond whether there are any.
- Heuristic and LLM valuations, which are an arbitrary value of a content.
- The desktop apps repeat the appraisal in JavaScript with a lock that admits one
  run at a time; they are clients here.
- The rate-limit middleware, a token bucket over a real-valued clock that nothing
  else reads; feature flags, metrics, logging, configuration.
- Stubs with fixed answers (compliance, security, fee sponsor), database
  declarations, user interfaces, SDKs and deployment.

They keep no state the properties above depend on.
