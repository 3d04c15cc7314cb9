----------------------------- MODULE MembraVault -----------------------------
(***************************************************************************)
(* The GasVault and MEMBRA token instructions of the Anchor program.  The  *)
(* vault's books (four running totals) are kept beside the lamports its    *)
(* PDA really holds; the program checks only the lamports.                 *)
(***************************************************************************)
EXTENDS MembraProtocol

CONSTANTS
  LamportArgs,    \* u64 arguments of the vault instructions
  MembraArgs,     \* u64 arguments of mint_membra
  SupplyCaps,     \* u64 arguments of initialize_membra_mint
  IndexArgs,      \* u32 arguments of update_rebase_index
  Rent,           \* lamports that make the GasVault account rent exempt
  MaxLamports     \* u64::MAX of the vault's totals (checked_add)

ASSUME VaultAssumption ==
  /\ LamportArgs \subseteq Nat
  /\ MembraArgs \subseteq Nat
  /\ SupplyCaps \subseteq Nat
  /\ IndexArgs \subseteq Nat
  /\ Rent \in Nat \ {0}
  /\ MaxLamports \in Nat

VARIABLES
  gasvault,     \* the GasVault account
  lamports,     \* lamports held by the GasVault PDA
  membra_mint   \* the MembraMint account

vaultVars == <<gasvault, lamports, membra_mint>>

GasVault == [authority : Keys \cup {NoKey}, total_deposited_lamports : Nat,
             total_credits_issued : Nat, total_credits_spent : Nat,
             total_reimbursed : Nat]

\* An account that does not exist is one without an authority.
EmptyVault(k) == [authority |-> k, total_deposited_lamports |-> 0,
                  total_credits_issued |-> 0, total_credits_spent |-> 0,
                  total_reimbursed |-> 0]

NoVault == EmptyVault(NoKey)

MembraMint == [authority : Keys \cup {NoKey}, supply_cap : Nat,
               current_supply : Nat, rebase_index : Nat]

VaultTypeOK ==
  /\ gasvault \in GasVault
  /\ lamports \in Nat
  /\ membra_mint \in MembraMint

VaultInit ==
  /\ gasvault = NoVault
  /\ lamports = 0
  /\ membra_mint = [authority |-> NoKey, supply_cap |-> 0,
                    current_supply |-> 0, rebase_index |-> 0]

VaultExists == gasvault.authority # NoKey

\* checked_add(amount).unwrap(): past u64::MAX the instruction aborts.
Fits(total, amount) == total + amount <= MaxLamports

-----------------------------------------------------------------------------
\* initialize_gasvault: the payer's key becomes the vault's authority; there
\* is no pause check and no link to ProtocolState.authority.
InitializeGasVault(k) ==
  /\ Initialized
  /\ ~VaultExists
  /\ gasvault' = EmptyVault(k)
  /\ lamports' = Rent
  /\ UNCHANGED <<protocolVars, membra_mint>>

DepositToGasVault(k, amount) ==
  /\ Running
  /\ VaultExists
  /\ gasvault.authority = k
  /\ amount > 0
  /\ Fits(gasvault.total_deposited_lamports, amount)
  /\ gasvault' = [gasvault EXCEPT !.total_deposited_lamports = @ + amount]
  /\ lamports' = lamports + amount
  /\ UNCHANGED <<protocolVars, membra_mint>>

IssueFeeCredits(k, amount) ==
  /\ Running
  /\ VaultExists
  /\ gasvault.authority = k
  /\ amount > 0
  /\ Fits(gasvault.total_credits_issued, amount)
  /\ gasvault' = [gasvault EXCEPT !.total_credits_issued = @ + amount]
  /\ UNCHANGED <<protocolVars, lamports, membra_mint>>

\* spend_fee_credits takes no signer and compares nothing with the credits
\* issued.
SpendFeeCredits(amount) ==
  /\ Running
  /\ VaultExists
  /\ amount > 0
  /\ Fits(gasvault.total_credits_spent, amount)
  /\ gasvault' = [gasvault EXCEPT !.total_credits_spent = @ + amount]
  /\ UNCHANGED <<protocolVars, lamports, membra_mint>>

\* The runtime's rent check at the end of a transaction: a rent-exempt
\* account may not become a rent-paying one, and an account left without
\* lamports ceases to exist, with its data.
AfterWithdrawal(vault, balance) ==
  /\ balance = 0 \/ balance >= Rent
  /\ lamports' = balance
  /\ gasvault' = IF balance = 0 THEN NoVault ELSE vault

\* Mutant of Reimbursed: the transfer is not booked.
Unbooked(amount) == gasvault

Reimbursed(amount) == [gasvault EXCEPT !.total_reimbursed = @ + amount]

\* reimburse_relayer: the relayer account is unchecked and may be the vault
\* itself, in which case the lamports leave and come back.
ReimburseRelayer(k, amount, toVault) ==
  /\ Running
  /\ VaultExists
  /\ gasvault.authority = k
  /\ amount > 0
  /\ lamports >= amount
  /\ Fits(gasvault.total_reimbursed, amount)
  /\ AfterWithdrawal(Reimbursed(amount),
                     IF toVault THEN lamports ELSE lamports - amount)
  /\ UNCHANGED <<protocolVars, membra_mint>>

MintExists == membra_mint.authority # NoKey

InitializeMembraMint(k, supply_cap) ==
  /\ ~MintExists
  /\ membra_mint' = [authority |-> k, supply_cap |-> supply_cap,
                     current_supply |-> 0, rebase_index |-> 10000]
  /\ UNCHANGED <<protocolVars, gasvault, lamports>>

\* Mutant of WithinCap: the cap is compared before the amount is added.
BelowCap(amount) == membra_mint.current_supply < membra_mint.supply_cap

WithinCap(amount) == membra_mint.current_supply + amount <= membra_mint.supply_cap

\* mint_membra: any signer, and no pause check.
MintMembra(amount) ==
  /\ Initialized
  /\ MintExists
  /\ Fits(membra_mint.current_supply, amount)
  /\ WithinCap(amount)
  /\ membra_mint' = [membra_mint EXCEPT !.current_supply = @ + amount]
  /\ UNCHANGED <<protocolVars, gasvault, lamports>>

UpdateRebaseIndex(k, new_index) ==
  /\ Initialized
  /\ MintExists
  /\ membra_mint.authority = k
  /\ membra_mint' = [membra_mint EXCEPT !.rebase_index = new_index]
  /\ UNCHANGED <<protocolVars, gasvault, lamports>>

VaultNext ==
  \/ \E k \in Keys :
       \/ InitializeGasVault(k)
       \/ \E amount \in LamportArgs :
            \/ DepositToGasVault(k, amount)
            \/ IssueFeeCredits(k, amount)
            \/ \E toVault \in BOOLEAN : ReimburseRelayer(k, amount, toVault)
       \/ \E cap \in SupplyCaps : InitializeMembraMint(k, cap)
       \/ \E index \in IndexArgs : UpdateRebaseIndex(k, index)
  \/ \E amount \in LamportArgs : SpendFeeCredits(amount)
  \/ \E amount \in MembraArgs : MintMembra(amount)

-----------------------------------------------------------------------------
\* The books never promise more than the PDA holds: what was deposited and
\* not reimbursed is there, on top of the rent, through self-reimbursements
\* and through a vault drained to nothing and initialized again.
VaultSolvent ==
  VaultExists =>
    lamports + gasvault.total_reimbursed >= Rent + gasvault.total_deposited_lamports

\* Whatever the cap, the rebases and the callers, the supply stays under it.
SupplyCapped == membra_mint.current_supply <= membra_mint.supply_cap
=============================================================================
