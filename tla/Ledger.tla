------------------------------- MODULE Ledger -------------------------------
(***************************************************************************)
(* backend/services/ledger_service.py: accounts and double entries.  The   *)
(* event list only grows and is told here by its sequence numbers; owner,  *)
(* metadata and times are never read back.  A call that raises or that     *)
(* finds its work done changes nothing and is no step.                     *)
(***************************************************************************)
EXTENDS Integers, FiniteSets, Sequences, Functions

CONSTANTS
  Accounts,       \* account ids
  Direct,         \* those that a caller of the service opens by itself
  LedgerAssets,   \* asset types
  Amounts,        \* integers passed to post_entry: the code has no lower bound
  EntryKeys,      \* idempotency keys; also bounds the entries
  Wired           \* the accounts main.py opens at start-up, with type and asset

AccountTypes == {"user", "reserve", "settlement", "fee"}

ASSUME LedgerAssumption ==
  /\ Amounts \subseteq Int
  /\ Direct \subseteq Accounts
  /\ \E ids \in SUBSET Accounts : Wired \in [ids -> [type : AccountTypes, asset : LedgerAssets]]
  /\ IsFiniteSet(DOMAIN Wired)

VARIABLES
  accounts,   \* _accounts
  entries,    \* _entries
  sequence    \* _global_sequence

ledgerVars == <<accounts, entries, sequence>>

Account == [type : AccountTypes, asset : LedgerAssets, balance : Int, version : Nat]

Entry == [debit : Accounts, credit : Accounts, amount : Int, asset : LedgerAssets,
          key : EntryKeys, number : Nat]

LedgerTypeOK ==
  /\ DOMAIN accounts \subseteq Accounts
  /\ \A a \in DOMAIN accounts : accounts[a] \in Account
  /\ entries \in Seq(Entry)
  /\ sequence \in Nat

Opened(type, asset) == [type |-> type, asset |-> asset, balance |-> 0, version |-> 1]

LedgerInit ==
  /\ accounts = [a \in DOMAIN Wired |-> Opened(Wired[a].type, Wired[a].asset)]
  /\ entries = <<>>
  /\ sequence = Cardinality(DOMAIN Wired)

-----------------------------------------------------------------------------
CreateAccount(a, type, asset) ==
  /\ a \notin DOMAIN accounts
  /\ accounts' = [b \in DOMAIN accounts \cup {a} |->
                    IF b = a THEN Opened(type, asset) ELSE accounts[b]]
  /\ sequence' = sequence + 1
  /\ UNCHANGED entries

\* Mutant of Posted: both balances are computed before either is written.
PostedFromCopies(debit, credit, amount) ==
  [a \in DOMAIN accounts |->
     [accounts[a] EXCEPT
        !.balance = IF a = credit THEN @ + amount ELSE IF a = debit THEN @ - amount ELSE @,
        !.version = @ + Cardinality({i \in {1, 2} : a = <<debit, credit>>[i]})]]

\* The debit is written before the credit is read, so an entry from an account
\* to itself changes its version twice and its balance not at all.
Posted(debit, credit, amount) ==
  LET debited == [accounts EXCEPT ![debit].balance = @ - amount, ![debit].version = @ + 1]
  IN [debited EXCEPT ![credit].balance = @ + amount, ![credit].version = @ + 1]

KeysPosted == {entries[i].key : i \in DOMAIN entries}

PostEntry(debit, credit, amount, asset, key) ==
  /\ key \notin KeysPosted
  /\ {debit, credit} \subseteq DOMAIN accounts
  /\ accounts[debit].asset = asset
  /\ accounts[credit].asset = asset
  /\ accounts[debit].balance >= amount
  /\ entries' = Append(entries, [debit |-> debit, credit |-> credit, amount |-> amount,
                                 asset |-> asset, key |-> key, number |-> sequence + 1])
  /\ accounts' = Posted(debit, credit, amount)
  /\ sequence' = sequence + 2

LedgerNext ==
  \/ \E a \in Direct, type \in AccountTypes, asset \in LedgerAssets :
       CreateAccount(a, type, asset)
  \/ \E debit, credit \in Accounts, amount \in Amounts, asset \in LedgerAssets,
        key \in EntryKeys : PostEntry(debit, credit, amount, asset, key)

-----------------------------------------------------------------------------
\* The entries an account was on one side of, and what they moved.
Posts(a, side) == {i \in DOMAIN entries : entries[i][side] = a}

Flow(a, side) == SumFunctionOnSet([i \in DOMAIN entries |-> entries[i].amount], Posts(a, side))

BalanceOf(ids) == SumFunction([a \in ids |-> accounts[a].balance])

OfAsset(asset) == {a \in DOMAIN accounts : accounts[a].asset = asset}

\* The books close whatever is posted (post_entry, ledger_service.py:55): an
\* account holds what its entries say and has one version per side it was on;
\* value is neither made nor lost in any asset, negative amounts and entries
\* from an account to itself included; no key was posted twice.
LedgerBooksClose ==
  /\ \A a \in DOMAIN accounts :
       /\ accounts[a].balance = Flow(a, "credit") - Flow(a, "debit")
       /\ accounts[a].version = 1 + Cardinality(Posts(a, "debit")) + Cardinality(Posts(a, "credit"))
  /\ \A asset \in LedgerAssets :
       BalanceOf(OfAsset(asset)) = 0
  /\ Cardinality(KeysPosted) = Len(entries)
=============================================================================
