------------------------------ MODULE Reserves ------------------------------
(***************************************************************************)
(* The wallet half of backend/services/treasury_service.py: balances that  *)
(* operators report, attestations made from them, and the solvency figure, *)
(* which reads the Ledger.  (The settlement batches are module Treasury.)  *)
(* A wallet is never deactivated, so is_active is left out.                *)
(***************************************************************************)
EXTENDS Ledger

CONSTANTS
  WalletIds,         \* uuids a wallet can get
  WalletBalances,    \* integers passed to update_balance
  FullRatio,         \* 10_000 basis points
  MaxAttestations    \* attestations made in a behaviour (bound)

ASSUME ReservesAssumption ==
  /\ WalletBalances \subseteq Int
  /\ FullRatio \in Nat \ {0}
  /\ MaxAttestations \in Nat

VARIABLES
  wallets,        \* _wallets
  attestations    \* _attestations

reservesVars == <<wallets, attestations>>

ReservesTypeOK ==
  /\ DOMAIN wallets \subseteq WalletIds
  /\ \A w \in DOMAIN wallets : wallets[w] \in [asset : LedgerAssets, balance : Int]
  /\ attestations \in Seq([asset : LedgerAssets, reserve : Int, liabilities : {0},
                           ratio : {0, FullRatio}])

ReservesInit == wallets = [w \in {} |-> w] /\ attestations = <<>>

AddWallet(w, asset) ==
  /\ w \notin DOMAIN wallets
  /\ wallets' = [v \in DOMAIN wallets \cup {w} |->
                   IF v = w THEN [asset |-> asset, balance |-> 0] ELSE wallets[v]]
  /\ UNCHANGED attestations

UpdateBalance(w, balance) ==
  /\ wallets' = [wallets EXCEPT ![w].balance = balance]
  /\ UNCHANGED attestations

ReserveTotal(asset) ==
  SumFunctionOnSet([w \in DOMAIN wallets |-> wallets[w].balance],
                   {w \in DOMAIN wallets : wallets[w].asset = asset})

Liabilities(asset) ==
  BalanceOf({a \in OfAsset(asset) : accounts[a].type = "user"})

\* get_solvency_ratio.
Solvent(asset) ==
  Liabilities(asset) > 0 =>
    (ReserveTotal(asset) * FullRatio) \div Liabilities(asset) >= FullRatio

\* An attestation does not ask the ledger: it states no liabilities.
AttestReserve(asset) ==
  /\ Len(attestations) < MaxAttestations
  /\ attestations' = Append(attestations,
       [asset |-> asset, reserve |-> ReserveTotal(asset), liabilities |-> 0,
        ratio |-> IF ReserveTotal(asset) > 0 THEN FullRatio ELSE 0])
  /\ UNCHANGED wallets

ReservesNext ==
  /\ \/ \E w \in WalletIds, asset \in LedgerAssets : AddWallet(w, asset)
     \/ \E w \in DOMAIN wallets, balance \in WalletBalances : UpdateBalance(w, balance)
     \/ \E asset \in LedgerAssets : AttestReserve(asset)
  /\ UNCHANGED ledgerVars

-----------------------------------------------------------------------------
\* The solvency figure (treasury_service.py:65) is about the whole ledger: an
\* asset found solvent has reserves for all that the accounts of the house owe
\* its users, however entries moved value between them.
SolvencyCoversLedger ==
  \A asset \in LedgerAssets :
    Solvent(asset) =>
      LET ours == {a \in OfAsset(asset) : accounts[a].type # "user"}
          owed == -BalanceOf(ours)
      IN owed > 0 => ReserveTotal(asset) >= owed

\* The books close, and the reserves are measured against all of them.
BooksAndReservesAgree == LedgerBooksClose /\ SolvencyCoversLedger
=============================================================================
