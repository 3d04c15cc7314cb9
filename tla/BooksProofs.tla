----------------------------- MODULE BooksProofs ----------------------------
(***************************************************************************)
(* Theorems about the double-entry ledger with its reserves, and about the *)
(* gas vault: what their balances, versions and totals add up to. The      *)
(* services are independent, so each has an invariant of its own, kept by  *)
(* every step of Services because the steps of the other services leave    *)
(* its state alone.                                                        *)
(***************************************************************************)
EXTENDS Services, SumLemmas, SequenceTheorems

-----------------------------------------------------------------------------
(***************************************************************************)
(* The ledger.                                                             *)
(***************************************************************************)

\* What a step of the composition does to the ledger.
LEMMA LedgerFrame ==
  [Next]_serviceVars =>
    \/ LedgerNext
    \/ \E u \in Usernames : CreateAccount(AccountOf[u], "user", "btc")
    \/ UNCHANGED ledgerVars
  <1> SUFFICES ASSUME [Next]_serviceVars
               PROVE  \/ LedgerNext
                      \/ \E u \in Usernames : CreateAccount(AccountOf[u], "user", "btc")
                      \/ UNCHANGED ledgerVars
    OBVIOUS
  <1>1. CASE LedgerStep
    BY <1>1 DEF LedgerStep, ReservesNext
  <1>2. CASE IdentityStep
    <2>1. ASSUME NEW name \in Spelled, NEW tag \in Tags, Register(name, tag)
          PROVE  \/ \E u \in Usernames : CreateAccount(AccountOf[u], "user", "btc")
                 \/ UNCHANGED ledgerVars
      BY <2>1 DEF Register
    <2>2. ASSUME IdentityNext,
                 ~ \E name \in Spelled, tag \in Tags : Register(name, tag)
          PROVE  UNCHANGED ledgerVars
      BY <2>2 DEF IdentityNext, RotateTag, RegisterDevice, RevokeDevice, GenerateNonce,
           VerifyNonce
    <2> QED BY <1>2, <2>1, <2>2 DEF IdentityStep
  <1>3. ASSUME \/ UNCHANGED serviceVars
               \/ GasStep \/ RoutingStep \/ VolatilityStep \/ DevelopmentStep
               \/ BreakerStep(BreakerNext) \/ LoginStep \/ FileStep \/ AppraisalStep
        PROVE  UNCHANGED ledgerVars
    BY <1>3 DEF serviceVars, GasStep, RoutingStep, VolatilityStep,
         DevelopmentStep, BreakerStep, LoginStep, FileStep, AppraisalStep, Rest
  <1> QED BY <1>1, <1>2, <1>3 DEF Next

\* The amounts of the entries.
EntryAmounts == [i \in DOMAIN entries |-> entries[i].amount]

\* The balances of the accounts.
Balances == [a \in DOMAIN accounts |-> accounts[a].balance]

\* The two accounts of an entry.
Sides == {"debit", "credit"}

\* Entries are between accounts on record; accounts and keys are finitely
\* many.
EntriesAreKnown ==
  /\ \A i \in DOMAIN entries : entries[i].debit \in DOMAIN accounts /\
       entries[i].credit \in DOMAIN accounts
  /\ IsFiniteSet(DOMAIN accounts) /\ IsFiniteSet(KeysPosted)

\* The ledger's half of BooksAndReservesAgree is inductive once the ledger is
\* typed.
LedgerInv == LedgerTypeOK /\ EntriesAreKnown /\ LedgerBooksClose

\* The entries on one side of an account are finitely many and sum to an
\* integer.
LEMMA PostsFinite ==
  ASSUME LedgerTypeOK, NEW a, NEW side \in Sides
  PROVE  /\ IsFiniteSet(Posts(a, side)) /\ Cardinality(Posts(a, side)) \in Nat
         /\ DOMAIN entries = 1..Len(entries) /\ Len(entries) \in Nat
         /\ \A i \in DOMAIN entries : entries[i] \in Entry /\ EntryAmounts[i] \in Int
         /\ Flow(a, side) \in Int
  <1>1. entries \in Seq(Entry)
    BY DEF LedgerTypeOK
  <1>2. DOMAIN entries = 1..Len(entries) /\ Len(entries) \in Nat
    BY <1>1, LenProperties
  <1>3. IsFiniteSet(DOMAIN entries)
    BY <1>2, FS_Interval
  <1>4. IsFiniteSet(Posts(a, side)) /\ Cardinality(Posts(a, side)) \in Nat
    <2>1. Posts(a, side) \in SUBSET DOMAIN entries
      BY DEF Posts
    <2> QED BY <1>3, <2>1, FS_Subset, FS_CardinalityType
  <1>5. \A i \in DOMAIN entries : entries[i] \in Entry
    BY <1>1, ElementOfSeq, <1>2
  <1>6. \A i \in DOMAIN entries : EntryAmounts[i] \in Int
    BY <1>5 DEF Entry, EntryAmounts
  <1>7. Flow(a, side) = SumFunctionOnSet(EntryAmounts, Posts(a, side))
    BY DEF Flow, EntryAmounts, Posts
  <1>8. Flow(a, side) \in Int
    <2>1. \A i \in Posts(a, side) : EntryAmounts[i] \in Int
      BY <1>6 DEF Posts
    <2> QED BY <1>4, <1>7, <2>1, SumIsInt
  <1> QED BY <1>2, <1>4, <1>5, <1>6, <1>8

\* An entry adds its amount to the flow of its own two accounts.
LEMMA FlowAppended ==
  ASSUME LedgerTypeOK, NEW entry \in Entry, entries' = Append(entries, entry),
         NEW a, NEW side \in Sides
  PROVE  /\ Flow(a, side)' = Flow(a, side) + IF entry[side] = a THEN entry.amount ELSE 0
         /\ Cardinality(Posts(a, side)') =
              Cardinality(Posts(a, side)) + IF entry[side] = a THEN 1 ELSE 0
  <1> DEFINE n == Len(entries) + 1
             P == Posts(a, side)
  <1>1. /\ entries' \in Seq(Entry) /\ Len(entries') = n /\ DOMAIN entries' = 1..n
        /\ n \in Nat /\ DOMAIN entries = 1..(n - 1) /\ n \notin DOMAIN entries
        /\ entries'[n] = entry /\ \A i \in DOMAIN entries : entries'[i] = entries[i]
    BY AppendProperties, LenProperties DEF LedgerTypeOK
  <1>2. DOMAIN entries' = DOMAIN entries \cup {n}
    BY <1>1
  <1>3. Posts(a, side)' = P \cup (IF entry[side] = a THEN {n} ELSE {})
    <2> HIDE DEF n
    <2> QED BY <1>1, <1>2 DEF Posts
  <1>4. /\ IsFiniteSet(P) /\ n \notin P
        /\ \A i \in P : EntryAmounts[i] \in Int
        /\ Flow(a, side) \in Int /\ Cardinality(P) \in Nat
    BY <1>1, PostsFinite DEF Posts
  <1>5. \A i \in P : EntryAmounts'[i] = EntryAmounts[i]
    BY <1>1, <1>2 DEF EntryAmounts, Posts
  <1>6. EntryAmounts'[n] = entry.amount /\ entry.amount \in Int
    BY <1>1, <1>2 DEF EntryAmounts, Entry
  <1>7. Flow(a, side) = SumFunctionOnSet(EntryAmounts, P)
    BY DEF Flow, EntryAmounts, Posts
  <1>8. Flow(a, side)' = SumFunctionOnSet(EntryAmounts', Posts(a, side)')
    BY DEF Flow, EntryAmounts, Posts
  <1>9. SumFunctionOnSet(EntryAmounts', P) = SumFunctionOnSet(EntryAmounts, P)
    BY <1>4, <1>5, SumOfSame
  <1> HIDE DEF n, P
  <1>10. CASE entry[side] = a
    <2>1. SumFunctionOnSet(EntryAmounts', P \cup {n}) =
            EntryAmounts'[n] + SumFunctionOnSet(EntryAmounts', P)
      BY <1>4, <1>5, <1>6, SumWith
    <2>2. Cardinality(P \cup {n}) = Cardinality(P) + 1
      BY <1>4, FS_AddElement
    <2> QED BY <1>3, <1>4, <1>6, <1>7, <1>8, <1>9, <1>10, <2>1, <2>2 DEF P
  <1>11. CASE entry[side] # a
    <2>1. Posts(a, side)' = P
      BY <1>3, <1>11
    <2> QED BY <1>4, <1>7, <1>8, <1>9, <1>11, <2>1 DEF P
  <1> QED BY <1>10, <1>11

\* The sum of the balances of some accounts is one over the accounts.
LEMMA SumOfBalances ==
  ASSUME NEW book, NEW ids \in SUBSET DOMAIN book, IsFiniteSet(ids)
  PROVE  SumFunction([a \in ids |-> book[a].balance]) =
           SumFunctionOnSet([a \in DOMAIN book |-> book[a].balance], ids)
  <1> DEFINE f == [a \in ids |-> book[a].balance]
             g == [a \in DOMAIN book |-> book[a].balance]
  <1>1. \A a \in ids : f[a] = g[a]
    OBVIOUS
  <1>2. SumFunction(f) = SumFunctionOnSet(f, ids)
    BY DEF SumFunction
  <1> HIDE DEF f, g
  <1>3. SumFunctionOnSet(f, ids) = SumFunctionOnSet(g, ids)
    BY <1>1, SumOfSame
  <1> QED BY <1>2, <1>3 DEF f, g

\* BalanceOf is an integer.
LEMMA BalanceIsSum ==
  ASSUME LedgerTypeOK, IsFiniteSet(DOMAIN accounts), NEW ids \in SUBSET DOMAIN accounts
  PROVE  /\ BalanceOf(ids) = SumFunctionOnSet(Balances, ids)
         /\ BalanceOf(ids) \in Int /\ IsFiniteSet(ids)
         /\ \A a \in DOMAIN accounts : Balances[a] \in Int
  <1>1. IsFiniteSet(ids)
    BY FS_Subset
  <1>2. \A a \in DOMAIN accounts : Balances[a] \in Int
    BY DEF LedgerTypeOK, Account, Balances
  <1>3. BalanceOf(ids) = SumFunctionOnSet(Balances, ids)
    BY <1>1, SumOfBalances DEF BalanceOf, Balances
  <1>4. SumFunctionOnSet(Balances, ids) \in Int
    BY <1>1, <1>2, SumIsInt
  <1> QED BY <1>1, <1>2, <1>3, <1>4

\* A new account has no entries, no balance and version 0.
LEMMA CreateAccountInv ==
  ASSUME LedgerInv, NEW a \in Accounts, NEW type \in AccountTypes, NEW asset \in LedgerAssets,
         CreateAccount(a, type, asset)
  PROVE  LedgerInv'
  <1>1. /\ a \notin DOMAIN accounts /\ DOMAIN accounts' = DOMAIN accounts \cup {a}
        /\ accounts'[a] = Opened(type, asset)
        /\ \A b \in DOMAIN accounts : accounts'[b] = accounts[b]
        /\ sequence' = sequence + 1 /\ entries' = entries
    BY DEF CreateAccount
  <1>2. Opened(type, asset) \in Account
    BY DEF Opened, Account
  <1>3. LedgerTypeOK /\ EntriesAreKnown /\ LedgerBooksClose
    BY DEF LedgerInv
  <1>4. LedgerTypeOK'
    BY <1>1, <1>2, <1>3 DEF LedgerTypeOK
  <1>5. IsFiniteSet(DOMAIN accounts')
    BY <1>1, <1>3, FS_AddElement DEF EntriesAreKnown
  <1>6. EntriesAreKnown'
    BY <1>1, <1>3, <1>5 DEF EntriesAreKnown, KeysPosted
  <1>7. \A b, side : Flow(b, side)' = Flow(b, side) /\ Posts(b, side)' = Posts(b, side)
    BY <1>1 DEF Flow, Posts
  <1>8. \A side \in Sides : Posts(a, side) = {}
    BY <1>1, <1>3 DEF Posts, EntriesAreKnown, Sides
  <1>9. \A side \in Sides : Flow(a, side) = 0
    BY <1>8, SumOfNone DEF Flow, Posts
  <1>10. \A b \in DOMAIN accounts' :
           /\ accounts'[b].balance = Flow(b, "credit")' - Flow(b, "debit")'
           /\ accounts'[b].version =
                1 + Cardinality(Posts(b, "debit")') + Cardinality(Posts(b, "credit")')
    <2>1. ASSUME NEW b \in DOMAIN accounts
          PROVE  /\ accounts'[b].balance = Flow(b, "credit")' - Flow(b, "debit")'
                 /\ accounts'[b].version =
                      1 + Cardinality(Posts(b, "debit")') + Cardinality(Posts(b, "credit")')
      BY <1>1, <1>3, <1>7 DEF LedgerBooksClose
    <2>2. /\ accounts'[a].balance = Flow(a, "credit")' - Flow(a, "debit")'
          /\ accounts'[a].version =
               1 + Cardinality(Posts(a, "debit")') + Cardinality(Posts(a, "credit")')
      <3>1. Posts(a, "debit")' = {} /\ Posts(a, "credit")' = {}
        BY <1>7, <1>8 DEF Sides
      <3>2. Flow(a, "credit")' = 0 /\ Flow(a, "debit")' = 0
        BY <1>7, <1>9 DEF Sides
      <3>3. accounts'[a].balance = 0 /\ accounts'[a].version = 1 /\ Cardinality({}) = 0
        BY <1>1, FS_EmptySet DEF Opened
      <3> QED BY <3>1, <3>2, <3>3
    <2> QED BY <1>1, <2>1, <2>2
  <1>11. ASSUME NEW s \in LedgerAssets PROVE BalanceOf(OfAsset(s))' = 0
    <2> DEFINE ids == OfAsset(s)
    <2>1. ids \in SUBSET DOMAIN accounts /\ BalanceOf(ids) = 0 /\ IsFiniteSet(DOMAIN accounts)
      BY <1>3 DEF OfAsset, LedgerBooksClose, EntriesAreKnown
    <2>2. ids' = ids \/ (ids' = ids \cup {a} /\ a \notin ids)
      BY <1>1 DEF OfAsset
    <2>3. /\ SumFunctionOnSet(Balances, ids) = 0 /\ IsFiniteSet(ids)
      BY <1>3, <2>1, BalanceIsSum
    <2>4. \A b \in ids : Balances'[b] = Balances[b]
      BY <1>1, <2>1 DEF Balances
    <2>5. Balances'[a] = 0
      BY <1>1 DEF Balances, Opened
    <2>6. SumFunctionOnSet(Balances', ids) = 0
      <3> HIDE DEF ids
      <3> QED BY <2>3, <2>4, SumOfSame
    <2>7. \A b \in ids : Balances[b] \in Int
      BY <1>3, <2>1, BalanceIsSum
    <2>8. a \notin ids => SumFunctionOnSet(Balances', ids \cup {a}) = 0
      <3> HIDE DEF ids
      <3>1. ASSUME a \notin ids
            PROVE  SumFunctionOnSet(Balances', ids \cup {a})
                     = Balances'[a] + SumFunctionOnSet(Balances', ids)
        BY <2>3, <2>4, <2>5, <2>7, <3>1, SumWith
      <3> QED BY <3>1, <2>5, <2>6
    <2>9. BalanceOf(ids)' = SumFunctionOnSet(Balances', ids')
      <3>1. ids' \in SUBSET DOMAIN accounts' /\ IsFiniteSet(ids')
        BY <1>5, FS_Subset DEF OfAsset
      <3>2. BalanceOf(ids)' = SumFunction([b \in ids' |-> accounts'[b].balance])
        BY DEF BalanceOf
      <3> HIDE DEF ids
      <3> QED BY <3>1, <3>2, SumOfBalances DEF Balances
    <2> QED BY <2>2, <2>6, <2>8, <2>9
  <1>12. LedgerBooksClose'
    BY <1>1, <1>3, <1>10, <1>11 DEF LedgerBooksClose, KeysPosted
  <1> QED BY <1>4, <1>6, <1>12 DEF LedgerInv

\* One side of post_entry written.
Written(f, a, amount) == [f EXCEPT ![a].balance = @ + amount, ![a].version = @ + 1]

\* It changes the balance and the version of its account, and nothing else.
LEMMA WrittenSide ==
  ASSUME NEW f, \A b \in DOMAIN f : f[b] \in Account, NEW a \in DOMAIN f, NEW amount \in Int,
         NEW g, g = Written(f, a, amount)
  PROVE  /\ DOMAIN g = DOMAIN f
         /\ \A b \in DOMAIN f :
              /\ g[b] \in Account /\ g[b].asset = f[b].asset /\ g[b].type = f[b].type
              /\ g[b].balance = f[b].balance + IF a = b THEN amount ELSE 0
              /\ g[b].version = f[b].version + IF a = b THEN 1 ELSE 0
  <1> DEFINE h == [f EXCEPT ![a].balance = @ + amount]
  <1>1. h = [f EXCEPT ![a] = [f[a] EXCEPT !.balance = @ + amount]]
    OBVIOUS
  <1>2. g = [h EXCEPT ![a] = [h[a] EXCEPT !.version = @ + 1]]
    BY DEF Written
  <1>3. DOMAIN h = DOMAIN f /\ DOMAIN g = DOMAIN f
    BY <1>1, <1>2
  <1>4. \A b \in DOMAIN f : f[b] \in Account
    OBVIOUS
  <1>5. h[a] = [f[a] EXCEPT !.balance = @ + amount] /\ f[a] \in Account
    BY <1>1, <1>4
  <1> HIDE DEF h
  <1>6. /\ h[a] \in Account /\ h[a].asset = f[a].asset /\ h[a].type = f[a].type
        /\ h[a].balance = f[a].balance + amount /\ h[a].version = f[a].version
    BY <1>5 DEF Account
  <1>7. g[a] = [h[a] EXCEPT !.version = @ + 1]
    BY <1>2, <1>3
  <1>8. /\ g[a] \in Account /\ g[a].asset = f[a].asset /\ g[a].type = f[a].type
        /\ g[a].balance = f[a].balance + amount /\ g[a].version = f[a].version + 1
    BY <1>6, <1>7 DEF Account
  <1>9. ASSUME NEW b \in DOMAIN f, b # a
        PROVE  g[b] = f[b] /\ f[b] \in Account
    BY <1>1, <1>2, <1>3, <1>4, <1>9 DEF h
  <1> QED BY <1>3, <1>8, <1>9 DEF Account

\* Both sides, debit first; a balance moved within one account comes back to
\* what it was, two versions on.
LEMMA PostedSides ==
  ASSUME LedgerTypeOK, NEW debit \in DOMAIN accounts, NEW credit \in DOMAIN accounts,
         NEW amount \in Int, accounts' = Posted(debit, credit, amount)
  PROVE  /\ DOMAIN accounts' = DOMAIN accounts
         /\ \A b \in DOMAIN accounts :
              /\ accounts'[b] \in Account
              /\ accounts'[b].asset = accounts[b].asset /\ accounts'[b].type = accounts[b].type
              /\ accounts'[b].balance = accounts[b].balance - (IF debit = b THEN amount ELSE 0)
                                          + (IF credit = b THEN amount ELSE 0)
              /\ accounts'[b].version = accounts[b].version + (IF debit = b THEN 1 ELSE 0)
                                          + (IF credit = b THEN 1 ELSE 0)
  <1> DEFINE once == [accounts EXCEPT ![debit].balance = @ - amount, ![debit].version = @ + 1]
             plus == [accounts EXCEPT ![debit].balance = @ + (-amount), ![debit].version = @ + 1]
  <1>1. \A b \in DOMAIN accounts : accounts[b] \in Account
    BY DEF LedgerTypeOK
  <1>2. once = plus
    <2>1. accounts[debit].balance \in Int
      BY <1>1 DEF Account
    <2>2. accounts[debit].balance - amount = accounts[debit].balance + (-amount)
      BY <2>1
    <2>3. [accounts EXCEPT ![debit].balance = @ - amount] =
            [accounts EXCEPT ![debit].balance = @ + (-amount)]
      BY <2>2
    <2> QED BY <2>3
  <1>3. accounts' = [once EXCEPT ![credit].balance = @ + amount, ![credit].version = @ + 1]
    BY DEF Posted
  <1> HIDE DEF once
  <1>4. /\ DOMAIN once = DOMAIN accounts
        /\ \A b \in DOMAIN accounts :
              /\ once[b] \in Account
              /\ once[b].asset = accounts[b].asset /\ once[b].type = accounts[b].type
              /\ once[b].balance = accounts[b].balance + IF debit = b THEN -amount ELSE 0
              /\ once[b].version = accounts[b].version + IF debit = b THEN 1 ELSE 0
    <2>1. once = Written(accounts, debit, -amount) /\ -amount \in Int
      BY <1>2 DEF Written
    <2> QED BY <1>1, <2>1, WrittenSide
  <1>5. /\ DOMAIN accounts' = DOMAIN once
        /\ \A b \in DOMAIN once :
              /\ accounts'[b] \in Account
              /\ accounts'[b].asset = once[b].asset /\ accounts'[b].type = once[b].type
              /\ accounts'[b].balance = once[b].balance + IF credit = b THEN amount ELSE 0
              /\ accounts'[b].version = once[b].version + IF credit = b THEN 1 ELSE 0
    <2>1. accounts' = Written(once, credit, amount)
      BY <1>3 DEF Written
    <2>2. credit \in DOMAIN once /\ \A b \in DOMAIN once : once[b] \in Account
      BY <1>4
    <2> QED BY <2>1, <2>2, WrittenSide
  <1>6. ASSUME NEW b \in DOMAIN accounts
        PROVE  accounts[b].balance \in Int /\ accounts[b].version \in Nat
    BY <1>1 DEF Account
  <1>7. ASSUME NEW b \in DOMAIN accounts
        PROVE  /\ accounts'[b].balance = accounts[b].balance - (IF debit = b THEN amount ELSE 0)
                                          + (IF credit = b THEN amount ELSE 0)
               /\ accounts'[b].version = accounts[b].version + (IF debit = b THEN 1 ELSE 0)
                                          + (IF credit = b THEN 1 ELSE 0)
    BY <1>4, <1>5, <1>6
  <1>8. ASSUME NEW b \in DOMAIN accounts
        PROVE  /\ accounts'[b] \in Account
               /\ accounts'[b].asset = accounts[b].asset /\ accounts'[b].type = accounts[b].type
    BY <1>4, <1>5
  <1> QED BY <1>4, <1>5, <1>7, <1>8

\* post_entry moves its amount between two balances and adds it to their two
\* flows.
LEMMA PostEntryInv ==
  ASSUME LedgerInv, NEW debit \in Accounts, NEW credit \in Accounts, NEW amount \in Amounts,
         NEW asset \in LedgerAssets, NEW key \in EntryKeys,
         PostEntry(debit, credit, amount, asset, key)
  PROVE  LedgerInv'
  <1> DEFINE entry == [debit |-> debit, credit |-> credit, amount |-> amount,
                       asset |-> asset, key |-> key, number |-> sequence + 1]
  <1>1. LedgerTypeOK /\ EntriesAreKnown /\ LedgerBooksClose
    BY DEF LedgerInv
  <1>2. /\ debit \in DOMAIN accounts /\ credit \in DOMAIN accounts /\ amount \in Int
        /\ accounts[debit].asset = asset /\ accounts[credit].asset = asset
        /\ accounts' = Posted(debit, credit, amount)
        /\ entries' = Append(entries, entry) /\ key \notin KeysPosted
        /\ sequence' = sequence + 2 /\ sequence \in Nat
    BY <1>1, LedgerAssumption DEF PostEntry, LedgerTypeOK
  <1>3. entry \in Entry /\ entry.debit = debit /\ entry.credit = credit /\ entry.amount = amount
        /\ entry["debit"] = debit /\ entry["credit"] = credit /\ entry.key = key
    BY <1>2 DEF Entry
  <1> HIDE DEF entry
  <1>4. /\ DOMAIN accounts' = DOMAIN accounts
        /\ \A b \in DOMAIN accounts :
              /\ accounts'[b] \in Account
              /\ accounts'[b].asset = accounts[b].asset /\ accounts'[b].type = accounts[b].type
              /\ accounts'[b].balance = accounts[b].balance - (IF debit = b THEN amount ELSE 0)
                                          + (IF credit = b THEN amount ELSE 0)
              /\ accounts'[b].version = accounts[b].version + (IF debit = b THEN 1 ELSE 0)
                                          + (IF credit = b THEN 1 ELSE 0)
    BY <1>1, <1>2, PostedSides
  <1>5. entries \in Seq(Entry)
    BY <1>1 DEF LedgerTypeOK
  <1>6. /\ entries' \in Seq(Entry) /\ Len(entries') = Len(entries) + 1
        /\ Len(entries) \in Nat /\ DOMAIN entries = 1..Len(entries)
        /\ DOMAIN entries' = DOMAIN entries \cup {Len(entries) + 1}
        /\ entries'[Len(entries) + 1] = entry
        /\ \A i \in DOMAIN entries : entries'[i] = entries[i]
    <2>1. Len(entries') = Len(entries) + 1 /\ entries' \in Seq(Entry)
          /\ DOMAIN entries' = 1..(Len(entries) + 1)
          /\ Len(entries) \in Nat /\ DOMAIN entries = 1..Len(entries)
      BY <1>2, <1>3, <1>5, AppendProperties, LenProperties
    <2>2. DOMAIN entries' = DOMAIN entries \cup {Len(entries) + 1}
      BY <2>1
    <2> QED BY <1>2, <1>3, <1>5, <2>1, <2>2, AppendProperties
  <1>7. LedgerTypeOK'
    BY <1>1, <1>2, <1>4, <1>6 DEF LedgerTypeOK
  <1>8. KeysPosted' = KeysPosted \cup {key}
    BY <1>3, <1>6 DEF KeysPosted
  <1>9. EntriesAreKnown'
    <2>1. IsFiniteSet(KeysPosted') /\ IsFiniteSet(DOMAIN accounts')
      BY <1>1, <1>4, <1>8, FS_AddElement DEF EntriesAreKnown
    <2>2. \A i \in DOMAIN entries' :
            entries'[i].debit \in DOMAIN accounts' /\ entries'[i].credit \in DOMAIN accounts'
      BY <1>1, <1>2, <1>3, <1>4, <1>6 DEF EntriesAreKnown
    <2> QED BY <2>1, <2>2 DEF EntriesAreKnown
  <1>10. Cardinality(KeysPosted') = Len(entries')
    <2>1. IsFiniteSet(KeysPosted) /\ Cardinality(KeysPosted) = Len(entries)
      BY <1>1 DEF EntriesAreKnown, LedgerBooksClose
    <2>2. Cardinality(KeysPosted \cup {key}) = Cardinality(KeysPosted) + 1
      BY <1>2, <2>1, FS_AddElement
    <2> QED BY <1>6, <1>8, <2>1, <2>2
  <1>11. ASSUME NEW b \in DOMAIN accounts
         PROVE  /\ accounts'[b].balance = Flow(b, "credit")' - Flow(b, "debit")'
                /\ accounts'[b].version =
                     1 + Cardinality(Posts(b, "debit")') + Cardinality(Posts(b, "credit")')
    <2>1. /\ Flow(b, "debit")' = Flow(b, "debit") + IF debit = b THEN amount ELSE 0
          /\ Cardinality(Posts(b, "debit")') =
               Cardinality(Posts(b, "debit")) + IF debit = b THEN 1 ELSE 0
      BY <1>1, <1>2, <1>3, FlowAppended DEF Sides
    <2>2. /\ Flow(b, "credit")' = Flow(b, "credit") + IF credit = b THEN amount ELSE 0
          /\ Cardinality(Posts(b, "credit")') =
               Cardinality(Posts(b, "credit")) + IF credit = b THEN 1 ELSE 0
      BY <1>1, <1>2, <1>3, FlowAppended DEF Sides
    <2>3. /\ Flow(b, "debit") \in Int /\ Flow(b, "credit") \in Int
          /\ Cardinality(Posts(b, "debit")) \in Nat /\ Cardinality(Posts(b, "credit")) \in Nat
      BY <1>1, PostsFinite DEF Sides
    <2>4. /\ accounts[b].balance = Flow(b, "credit") - Flow(b, "debit")
          /\ accounts[b].version =
               1 + Cardinality(Posts(b, "debit")) + Cardinality(Posts(b, "credit"))
      BY <1>1 DEF LedgerBooksClose
    <2>5. accounts'[b].balance = Flow(b, "credit")' - Flow(b, "debit")'
      BY <1>2, <1>4, <2>1, <2>2, <2>3, <2>4
    <2> QED BY <1>4, <2>1, <2>2, <2>3, <2>4, <2>5
  <1>12. ASSUME NEW s \in LedgerAssets PROVE BalanceOf(OfAsset(s))' = 0
    <2> DEFINE ids == OfAsset(s)
               Half == [b \in DOMAIN accounts |-> Balances[b] - IF debit = b THEN amount ELSE 0]
    <2>1. /\ ids \in SUBSET DOMAIN accounts /\ BalanceOf(ids) = 0
          /\ IsFiniteSet(DOMAIN accounts) /\ IsFiniteSet(DOMAIN accounts')
      BY <1>1, <1>4 DEF OfAsset, LedgerBooksClose, EntriesAreKnown
    <2>2. ids' = ids
      BY <1>4 DEF OfAsset
    <2>3. /\ SumFunctionOnSet(Balances, ids) = 0 /\ IsFiniteSet(ids)
          /\ \A b \in ids : Balances[b] \in Int
      BY <1>1, <2>1, BalanceIsSum
    <2>4. \A b \in ids : Half[b] = Balances[b] - IF debit = b THEN amount ELSE 0
      BY <2>1
    <2>5. \A b \in ids : Balances'[b] = Half[b] + IF credit = b THEN amount ELSE 0
      BY <1>4, <2>1, <2>4 DEF Balances
    <2>6. BalanceOf(OfAsset(s))' = SumFunctionOnSet(Balances', ids)
      <3>1. BalanceOf(OfAsset(s))' = SumFunction([b \in ids' |-> accounts'[b].balance])
        BY DEF BalanceOf
      <3>2. ids \in SUBSET DOMAIN accounts'
        BY <1>4, <2>1
      <3> HIDE DEF ids
      <3> QED BY <2>2, <2>3, <3>1, <3>2, SumOfBalances DEF Balances
    <2>7. (debit \in ids) <=> (credit \in ids)
      BY <1>2 DEF OfAsset
    <2> HIDE DEF ids, Half
    <2>8. \A b \in ids : Half[b] \in Int /\ Balances'[b] \in Int
      BY <1>2, <2>3, <2>4, <2>5
    <2>9. CASE debit \in ids
      <3>1. SumFunctionOnSet(Half, ids)
              = SumFunctionOnSet(Balances, ids) + Half[debit] - Balances[debit]
        <4>1. \A b \in ids \ {debit} : Half[b] = Balances[b]
          BY <2>3, <2>4
        <4> QED BY <2>3, <2>8, <2>9, <4>1, SumUpdated
      <3>2. SumFunctionOnSet(Half, ids) = -amount
        BY <1>2, <2>3, <2>4, <2>9, <3>1
      <3>3. SumFunctionOnSet(Balances', ids)
              = SumFunctionOnSet(Half, ids) + Balances'[credit] - Half[credit]
        <4>1. \A b \in ids \ {credit} : Balances'[b] = Half[b]
          BY <2>5, <2>8
        <4> QED BY <2>3, <2>7, <2>8, <2>9, <4>1, SumUpdated
      <3>4. Balances'[credit] = Half[credit] + amount /\ Half[credit] \in Int
        BY <2>5, <2>7, <2>8, <2>9
      <3> QED BY <1>2, <2>2, <2>6, <3>2, <3>3, <3>4
    <2>10. CASE debit \notin ids
      <3>1. \A b \in ids : Balances'[b] = Balances[b]
        BY <2>3, <2>4, <2>5, <2>7, <2>10
      <3>2. SumFunctionOnSet(Balances', ids) = SumFunctionOnSet(Balances, ids)
        BY <2>3, <3>1, SumOfSame
      <3> QED BY <2>2, <2>3, <2>6, <3>2
    <2> QED BY <2>9, <2>10
  <1>13. LedgerBooksClose'
    BY <1>4, <1>10, <1>11, <1>12 DEF LedgerBooksClose
  <1> QED BY <1>7, <1>9, <1>13 DEF LedgerInv

\* The accounts the treasury service opens when it is built.
LEMMA LedgerInitInv == Init => LedgerInv
  <1> SUFFICES ASSUME Init PROVE LedgerInv
    OBVIOUS
  <1>1. /\ accounts = [a \in DOMAIN Wired |-> Opened(Wired[a].type, Wired[a].asset)]
        /\ entries = <<>> /\ sequence = Cardinality(DOMAIN Wired)
    BY DEF Init, LedgerInit
  <1>2. PICK ids \in SUBSET Accounts :
               Wired \in [ids -> [type : AccountTypes, asset : LedgerAssets]]
    BY LedgerAssumption
  <1>3. \A a \in DOMAIN accounts : accounts[a] = Opened(Wired[a].type, Wired[a].asset)
    BY <1>1
  <1>4. \A a \in DOMAIN accounts : accounts[a] \in Account
    BY <1>1, <1>2, <1>3 DEF Opened, Account
  <1>5. sequence \in Nat
    BY <1>1, LedgerAssumption, FS_CardinalityType
  <1>6. DOMAIN accounts = DOMAIN Wired /\ DOMAIN Wired = ids
    BY <1>1, <1>2
  <1>7. entries \in Seq(Entry) /\ DOMAIN entries = {} /\ Len(entries) = 0
    BY <1>1
  <1>8. LedgerTypeOK
    BY <1>4, <1>5, <1>6, <1>7 DEF LedgerTypeOK
  <1>9. KeysPosted = {}
    BY <1>7 DEF KeysPosted
  <1>10. EntriesAreKnown
    BY <1>6, <1>7, <1>9, LedgerAssumption, FS_EmptySet DEF EntriesAreKnown
  <1>11. \A a, side : Posts(a, side) = {}
    BY <1>7 DEF Posts
  <1>12. \A a, side : Flow(a, side) = 0
    BY <1>11, SumOfNone DEF Flow
  <1>13. ASSUME NEW s \in LedgerAssets PROVE BalanceOf(OfAsset(s)) = 0
    <2> DEFINE ids2 == OfAsset(s)
    <2>1. ids2 \in SUBSET DOMAIN accounts /\ IsFiniteSet(DOMAIN accounts)
      BY <1>10 DEF OfAsset, EntriesAreKnown
    <2>2. BalanceOf(ids2) = SumFunctionOnSet(Balances, ids2) /\ IsFiniteSet(ids2)
      BY <1>8, <2>1, BalanceIsSum
    <2>3. \A a \in ids2 : Balances[a] = 0
      BY <1>3, <2>1 DEF Balances, Opened
    <2> HIDE DEF ids2
    <2>4. SumFunctionOnSet(Balances, ids2) = 0
      BY <2>2, <2>3, SumOfZeros
    <2> QED BY <2>2, <2>4 DEF ids2
  <1>14. \A a \in DOMAIN accounts : accounts[a].balance = 0 /\ accounts[a].version = 1
    BY <1>3 DEF Opened
  <1>15. LedgerBooksClose
    <2>1. Cardinality({}) = 0 /\ Cardinality(KeysPosted) = Len(entries)
      BY <1>7, <1>9, FS_EmptySet
    <2>2. ASSUME NEW a \in DOMAIN accounts
          PROVE  /\ accounts[a].balance = Flow(a, "credit") - Flow(a, "debit")
                 /\ accounts[a].version
                      = 1 + Cardinality(Posts(a, "debit")) + Cardinality(Posts(a, "credit"))
      <3>1. Flow(a, "credit") = 0 /\ Flow(a, "debit") = 0
        BY <1>12
      <3>2. Posts(a, "debit") = {} /\ Posts(a, "credit") = {}
        BY <1>11
      <3>3. Cardinality(Posts(a, "debit")) = 0 /\ Cardinality(Posts(a, "credit")) = 0
        BY <2>1, <3>2
      <3>4. accounts[a].balance = 0 /\ accounts[a].version = 1
        BY <1>14, <2>2
      <3> QED BY <3>1, <3>3, <3>4
    <2> QED BY <1>13, <2>1, <2>2 DEF LedgerBooksClose
  <1> QED BY <1>8, <1>10, <1>15 DEF LedgerInv

\* Every step of the composition keeps the ledger's books.
LEMMA LedgerStepInv == LedgerInv /\ [Next]_serviceVars => LedgerInv'
  <1> SUFFICES ASSUME LedgerInv, [Next]_serviceVars PROVE LedgerInv'
    OBVIOUS
  <1>1. ASSUME NEW a \in Direct, NEW type \in AccountTypes, NEW asset \in LedgerAssets,
               CreateAccount(a, type, asset)
        PROVE  LedgerInv'
    BY <1>1, LedgerAssumption, CreateAccountInv
  <1>2. ASSUME NEW u \in Usernames, CreateAccount(AccountOf[u], "user", "btc")
        PROVE  LedgerInv'
    <2>1. AccountOf[u] \in Accounts /\ "user" \in AccountTypes /\ "btc" \in LedgerAssets
      BY IdentityAssumption DEF AccountTypes
    <2> QED BY <1>2, <2>1, CreateAccountInv
  <1>3. CASE UNCHANGED ledgerVars
    <2>1. accounts' = accounts /\ entries' = entries /\ sequence' = sequence
      BY <1>3 DEF ledgerVars
    <2>2. LedgerTypeOK' /\ EntriesAreKnown'
      BY <2>1 DEF LedgerInv, LedgerTypeOK, EntriesAreKnown, KeysPosted
    <2>3. LedgerBooksClose'
      BY <2>1 DEF LedgerInv, LedgerBooksClose, Flow, Posts, BalanceOf, OfAsset, KeysPosted
    <2> QED BY <2>2, <2>3 DEF LedgerInv
  <1>4. CASE LedgerNext
    BY <1>1, <1>4, PostEntryInv DEF LedgerNext
  <1> QED BY <1>2, <1>3, <1>4, LedgerFrame

\* The ledger's books close in every state.
LEMMA LedgerInvHolds == Spec => []LedgerInv
  BY LedgerInitInv, LedgerStepInv, PTL DEF Spec

-----------------------------------------------------------------------------
(***************************************************************************)
(* The reserves.                                                           *)
(***************************************************************************)

\* What a step of the composition does to the reserves.
LEMMA ReservesFrame == [Next]_serviceVars => ReservesNext \/ UNCHANGED reservesVars
  BY DEF Next, serviceVars, LedgerStep, IdentityStep, GasStep, RoutingStep, VolatilityStep,
         DevelopmentStep, BreakerStep, LoginStep, FileStep, AppraisalStep, Rest

\* Wallets are typed and finitely many.
ReservesInv == ReservesTypeOK /\ IsFiniteSet(DOMAIN wallets)

\* Reserves are an integer.
LEMMA ReserveIsInt ==
  ASSUME ReservesInv, NEW asset
  PROVE  ReserveTotal(asset) \in Int
  <1> DEFINE held == {w \in DOMAIN wallets : wallets[w].asset = asset}
             f == [w \in DOMAIN wallets |-> wallets[w].balance]
  <1>1. IsFiniteSet(held)
    BY FS_Subset DEF ReservesInv
  <1>2. \A w \in held : f[w] \in Int
    BY DEF ReservesInv, ReservesTypeOK
  <1>3. ReserveTotal(asset) = SumFunctionOnSet(f, held)
    BY DEF ReserveTotal
  <1> HIDE DEF held, f
  <1> QED BY <1>1, <1>2, <1>3, SumIsInt

\* No wallet at first.
LEMMA ReservesInitInv == Init => ReservesInv
  BY FS_EmptySet DEF Init, ReservesInit, ReservesInv, ReservesTypeOK

\* Every step keeps the wallets.
LEMMA ReservesStepInv == ReservesInv /\ [Next]_serviceVars => ReservesInv'
  <1> SUFFICES ASSUME ReservesInv, [Next]_serviceVars PROVE ReservesInv'
    OBVIOUS
  <1>1. ASSUME NEW w \in WalletIds, NEW asset \in LedgerAssets, AddWallet(w, asset)
        PROVE  ReservesInv'
    <2>1. /\ DOMAIN wallets' = DOMAIN wallets \cup {w} /\ attestations' = attestations
          /\ wallets'[w] = [asset |-> asset, balance |-> 0]
          /\ \A v \in DOMAIN wallets : w # v => wallets'[v] = wallets[v]
      BY <1>1 DEF AddWallet
    <2>2. IsFiniteSet(DOMAIN wallets')
      BY <2>1, FS_AddElement DEF ReservesInv
    <2> QED BY <2>1, <2>2 DEF ReservesInv, ReservesTypeOK
  <1>2. ASSUME NEW w \in DOMAIN wallets, NEW balance \in WalletBalances, UpdateBalance(w, balance)
        PROVE  ReservesInv'
    <2>1. wallets' = [wallets EXCEPT ![w] = [wallets[w] EXCEPT !.balance = balance]]
          /\ attestations' = attestations
      BY <1>2 DEF UpdateBalance
    <2>2. balance \in Int
      BY ReservesAssumption
    <2> QED BY <2>1, <2>2 DEF ReservesInv, ReservesTypeOK
  <1>3. ASSUME NEW asset \in LedgerAssets, AttestReserve(asset) PROVE ReservesInv'
    <2>1. wallets' = wallets
      BY <1>3 DEF AttestReserve
    <2>2. attestations' \in Seq([asset : LedgerAssets, reserve : Int, liabilities : {0},
                                 ratio : {0, FullRatio}])
      <3> DEFINE made == [asset |-> asset, reserve |-> ReserveTotal(asset), liabilities |-> 0,
                          ratio |-> IF ReserveTotal(asset) > 0 THEN FullRatio ELSE 0]
      <3>1. made \in [asset : LedgerAssets, reserve : Int, liabilities : {0},
                    ratio : {0, FullRatio}]
        BY ReserveIsInt
      <3>2. attestations' = Append(attestations, made)
        BY <1>3 DEF AttestReserve
      <3> HIDE DEF made
      <3> QED BY <3>1, <3>2, AppendProperties DEF ReservesInv, ReservesTypeOK
    <2> QED BY <2>1, <2>2 DEF ReservesInv, ReservesTypeOK
  <1>4. CASE UNCHANGED reservesVars
    BY <1>4 DEF reservesVars, ReservesInv, ReservesTypeOK
  <1> QED BY <1>1, <1>2, <1>3, <1>4, ReservesFrame DEF ReservesNext

\* Wallets are typed in every state.
LEMMA ReservesInvHolds == Spec => []ReservesInv
  BY ReservesInitInv, ReservesStepInv, PTL DEF Spec

\* As the entries sum to zero, the liabilities, the balances of users, are
\* what the other accounts are short of; so the ratio is_solvent rounds down
\* covers that.
LEMMA SolvencyFollows ==
  ASSUME LedgerInv, ReservesInv
  PROVE  SolvencyCoversLedger
  <1> SUFFICES ASSUME NEW asset \in LedgerAssets, Solvent(asset),
                      -BalanceOf({a \in OfAsset(asset) : accounts[a].type # "user"}) > 0
               PROVE  ReserveTotal(asset) >=
                        -BalanceOf({a \in OfAsset(asset) : accounts[a].type # "user"})
    BY DEF SolvencyCoversLedger
  <1> DEFINE users_ == {a \in OfAsset(asset) : accounts[a].type = "user"}
             ours == {a \in OfAsset(asset) : accounts[a].type # "user"}
  <1>1. /\ LedgerTypeOK /\ IsFiniteSet(DOMAIN accounts)
        /\ BalanceOf(OfAsset(asset)) = 0
    BY DEF LedgerInv, EntriesAreKnown, LedgerBooksClose
  <1>2. /\ users_ \in SUBSET DOMAIN accounts /\ ours \in SUBSET DOMAIN accounts
        /\ OfAsset(asset) \in SUBSET DOMAIN accounts
        /\ users_ \cup ours = OfAsset(asset) /\ users_ \cap ours = {}
    BY DEF OfAsset
  <1>3. Liabilities(asset) = BalanceOf(users_)
    BY DEF Liabilities
  <1>4. -BalanceOf(ours) > 0
    OBVIOUS
  <1> HIDE DEF users_, ours
  <1>5. /\ BalanceOf(users_) = SumFunctionOnSet(Balances, users_) /\ BalanceOf(users_) \in Int
        /\ IsFiniteSet(users_)
    BY <1>1, <1>2, BalanceIsSum
  <1>6. /\ BalanceOf(ours) = SumFunctionOnSet(Balances, ours) /\ BalanceOf(ours) \in Int
        /\ IsFiniteSet(ours)
    BY <1>1, <1>2, BalanceIsSum
  <1>7. BalanceOf(OfAsset(asset)) = SumFunctionOnSet(Balances, OfAsset(asset))
        /\ \A a \in users_ \cup ours : Balances[a] \in Int
    BY <1>1, <1>2, BalanceIsSum
  <1>8. SumFunctionOnSet(Balances, users_ \cup ours) =
          SumFunctionOnSet(Balances, users_) + SumFunctionOnSet(Balances, ours)
    BY <1>2, <1>5, <1>6, <1>7, SumOfUnion
  <1>9. Liabilities(asset) = -BalanceOf(ours)
    <2>1. SumFunctionOnSet(Balances, users_) + SumFunctionOnSet(Balances, ours) = 0
      BY <1>1, <1>2, <1>7, <1>8
    <2> QED BY <1>3, <1>5, <1>6, <2>1
  <1>10. (ReserveTotal(asset) * FullRatio) \div Liabilities(asset) >= FullRatio
    BY <1>4, <1>9 DEF Solvent
  <1>11. ReserveTotal(asset) >= Liabilities(asset)
    <2>1. ReserveTotal(asset) \in Int /\ FullRatio \in Int /\ FullRatio > 0
      BY ReserveIsInt, ReservesAssumption
    <2>2. Liabilities(asset) \in Int /\ Liabilities(asset) > 0
      BY <1>4, <1>6, <1>9
    <2> QED BY <1>10, <2>1, <2>2, RatioCovers
  <1> QED BY <1>9, <1>11 DEF ours

\* Every balance is what the entries moved to and from it, every version their
\* number, all balances of an asset sum to zero, no key is posted twice, and
\* what /solvency answers is covered by the reserves and the ledger: for any
\* accounts, amounts, keys and number of entries.
THEOREM BooksClose == Spec => []BooksAndReservesAgree
  <1>1. LedgerInv /\ ReservesInv => BooksAndReservesAgree
    BY SolvencyFollows DEF BooksAndReservesAgree, LedgerInv
  <1> QED BY <1>1, LedgerInvHolds, ReservesInvHolds, PTL

-----------------------------------------------------------------------------
(***************************************************************************)
(* The gas vault.                                                          *)
(***************************************************************************)

\* What a step of the composition does to the vault.
LEMMA GasFrame == [Next]_serviceVars => GasNext \/ UNCHANGED gasVars
  BY DEF Next, serviceVars, LedgerStep, IdentityStep, GasStep, RoutingStep, VolatilityStep,
         DevelopmentStep, BreakerStep, LoginStep, FileStep, AppraisalStep, Rest

\* The requests of a relayer in a state.
OfRelayer(r, status) ==
  {q \in DOMAIN requested : requested[q].relayer = r /\ requested[q].status = status}

\* What the relayers of a book were paid.
PaidIn(book) == SumFunction([r \in DOMAIN book |-> book[r].reimbursed])

\* The vault's tables are finite, and requests are of registered relayers.
GasBooksFinite ==
  /\ IsFiniteSet(DOMAIN credits) /\ IsFiniteSet(DOMAIN relayers) /\ IsFiniteSet(DOMAIN requested)
  /\ \A q \in DOMAIN requested : requested[q].relayer \in DOMAIN relayers

\* A relayer's totals are those of its requests.
RelayersAreOwed ==
  \A r \in DOMAIN relayers : /\ relayers[r].pending = Total(r, "pending")
                             /\ relayers[r].reimbursed = Total(r, "paid")

\* The vault has what was moved into it less what was paid.
VaultHoldsTheRest == sol = net - PaidIn(relayers) * Lamport /\ sol >= 0

\* No user spends more credits than were issued to it.
CreditsAddUp ==
  \A u \in DOMAIN credits :
    credits[u].balance = credits[u].earned - credits[u].spent /\ credits[u].balance >= 0

\* VaultBooksAgree is inductive once the tables are typed and finite.
GasInv ==
  /\ GasTypeOK /\ GasBooksFinite
  /\ RelayersAreOwed /\ VaultHoldsTheRest /\ CreditsAddUp

\* Changing the state of one request, or adding one, moves its amount between
\* the totals of its relayer.
LEMMA TotalChanged ==
  ASSUME IsFiniteSet(DOMAIN requested), \A p \in DOMAIN requested : requested[p].amount \in Int,
         NEW q, DOMAIN requested' = DOMAIN requested \cup {q}, requested'[q].amount \in Int,
         \A p \in DOMAIN requested : p # q => requested'[p] = requested[p],
         q \in DOMAIN requested => requested'[q].amount = requested[q].amount,
         NEW r, NEW status
  PROVE  /\ Total(r, status) \in Int
         /\ Total(r, status)' =
              Total(r, status)
                + (IF q \in OfRelayer(r, status)' THEN requested'[q].amount ELSE 0)
                - (IF q \in OfRelayer(r, status) THEN requested'[q].amount ELSE 0)
  <1> DEFINE f == [p \in DOMAIN requested |-> requested[p].amount]
             g == [p \in DOMAIN requested' |-> requested'[p].amount]
             S == OfRelayer(r, status)
             U == OfRelayer(r, status)'
             T == S \ {q}
  <1>1. /\ S \in SUBSET DOMAIN requested /\ T \in SUBSET DOMAIN requested /\
             U \in SUBSET DOMAIN requested'
        /\ U \ {q} = T /\ q \notin T
    BY DEF OfRelayer
  <1>2. IsFiniteSet(S) /\ IsFiniteSet(T) /\ IsFiniteSet(U)
    BY <1>1, FS_Subset, FS_AddElement
  <1>3. /\ \A p \in DOMAIN requested : f[p] \in Int
        /\ \A p \in DOMAIN requested' : g[p] \in Int
        /\ \A p \in T : f[p] = g[p]
        /\ g[q] = requested'[q].amount
        /\ q \in DOMAIN requested => f[q] = requested'[q].amount
    BY <1>1
  <1>4. Total(r, status) = SumFunctionOnSet(f, S) /\ Total(r, status)' = SumFunctionOnSet(g, U)
    BY DEF Total, OfRelayer
  <1> HIDE DEF f, g, S, U, T
  <1>5. SumFunctionOnSet(f, T) = SumFunctionOnSet(g, T) /\ SumFunctionOnSet(f, T) \in Int
    BY <1>1, <1>2, <1>3, SumOfSame, SumIsInt
  <1>6. SumFunctionOnSet(f, S)
          = SumFunctionOnSet(f, T) + IF q \in S THEN requested'[q].amount ELSE 0
    <2>1. CASE q \in S
      <3>1. SumFunctionOnSet(f, S) = f[q] + SumFunctionOnSet(f, T)
        BY <1>1, <1>2, <1>3, <2>1, SumWithout DEF T
      <3> QED BY <1>1, <1>3, <1>5, <2>1, <3>1
    <2>2. CASE q \notin S
      <3>1. S = T
        BY <2>2 DEF T
      <3> QED BY <1>5, <2>2, <3>1
    <2> QED BY <2>1, <2>2
  <1>7. SumFunctionOnSet(g, U)
          = SumFunctionOnSet(g, T) + IF q \in U THEN requested'[q].amount ELSE 0
    <2>1. CASE q \in U
      <3>1. SumFunctionOnSet(g, U) = g[q] + SumFunctionOnSet(g, U \ {q})
        BY <1>1, <1>2, <1>3, <2>1, SumWithout
      <3>2. SumFunctionOnSet(g, U \ {q}) = SumFunctionOnSet(g, T)
        BY <1>1
      <3>3. g[q] = requested'[q].amount
        BY <1>3
      <3> QED BY <1>5, <2>1, <3>1, <3>2, <3>3
    <2>2. CASE q \notin U
      <3>1. U = T
        BY <1>1, <2>2
      <3> QED BY <1>5, <2>2, <3>1
    <2> QED BY <2>1, <2>2
  <1> QED BY <1>3, <1>4, <1>5, <1>6, <1>7 DEF S, U

\* The payments are an integer.
LEMMA PaidIsInt ==
  ASSUME NEW book, IsFiniteSet(DOMAIN book), \A r \in DOMAIN book : book[r].reimbursed \in Int
  PROVE  PaidIn(book) \in Int
  <1> DEFINE f == [r \in DOMAIN book |-> book[r].reimbursed]
  <1>1. \A r \in DOMAIN book : f[r] \in Int
    OBVIOUS
  <1>2. PaidIn(book) = SumFunctionOnSet(f, DOMAIN book)
    BY DEF PaidIn, SumFunction
  <1> HIDE DEF f
  <1> QED BY <1>1, <1>2, SumIsInt

\* Paying one relayer.
LEMMA PaidChanged ==
  ASSUME NEW book, IsFiniteSet(DOMAIN book), \A r \in DOMAIN book : book[r].reimbursed \in Int,
         NEW book2, NEW r \in DOMAIN book, DOMAIN book2 = DOMAIN book,
         book2[r].reimbursed \in Int,
         \A s \in DOMAIN book : s # r => book2[s].reimbursed = book[s].reimbursed
  PROVE  /\ PaidIn(book) \in Int
         /\ PaidIn(book2) = PaidIn(book) + book2[r].reimbursed - book[r].reimbursed
  <1> DEFINE f == [s \in DOMAIN book |-> book[s].reimbursed]
             g == [s \in DOMAIN book2 |-> book2[s].reimbursed]
  <1>1. /\ \A s \in DOMAIN book : f[s] \in Int /\ g[s] \in Int
        /\ \A s \in DOMAIN book \ {r} : g[s] = f[s]
        /\ f[r] = book[r].reimbursed /\ g[r] = book2[r].reimbursed
    OBVIOUS
  <1>2. PaidIn(book) = SumFunctionOnSet(f, DOMAIN book) /\
          PaidIn(book2) = SumFunctionOnSet(g, DOMAIN book)
    BY DEF PaidIn, SumFunction
  <1> HIDE DEF f, g
  <1>3. SumFunctionOnSet(g, DOMAIN book) = SumFunctionOnSet(f, DOMAIN book) + g[r] - f[r]
    BY <1>1, SumUpdated
  <1> QED BY <1>1, <1>2, <1>3, PaidIsInt

\* A new relayer was paid nothing.
LEMMA PaidAdded ==
  ASSUME NEW book, IsFiniteSet(DOMAIN book), \A s \in DOMAIN book : book[s].reimbursed \in Int,
         NEW book2, NEW r, r \notin DOMAIN book, DOMAIN book2 = DOMAIN book \cup {r},
         book2[r].reimbursed = 0,
         \A s \in DOMAIN book : book2[s] = book[s]
  PROVE  PaidIn(book2) = PaidIn(book)
  <1> DEFINE f == [s \in DOMAIN book |-> book[s].reimbursed]
             g == [s \in DOMAIN book2 |-> book2[s].reimbursed]
  <1>1. /\ \A s \in DOMAIN book : f[s] \in Int /\ g[s] = f[s]
        /\ \A s \in DOMAIN book \cup {r} : g[s] \in Int
        /\ g[r] = 0
    OBVIOUS
  <1>2. PaidIn(book) = SumFunctionOnSet(f, DOMAIN book) /\
          PaidIn(book2) = SumFunctionOnSet(g, DOMAIN book2)
    BY DEF PaidIn, SumFunction
  <1> HIDE DEF f, g
  <1>3. SumFunctionOnSet(g, DOMAIN book \cup {r}) = g[r] + SumFunctionOnSet(g, DOMAIN book)
    BY <1>1, SumWith
  <1>4. SumFunctionOnSet(g, DOMAIN book) = SumFunctionOnSet(f, DOMAIN book)
    BY <1>1, SumOfSame
  <1>5. SumFunctionOnSet(f, DOMAIN book) \in Int
    BY <1>1, SumIsInt
  <1> QED BY <1>1, <1>2, <1>3, <1>4, <1>5

\* Deciding one pending request moves its amount out of its relayer's pending
\* total, and if it is paid into the reimbursed one and out of the vault.
LEMMA DecidedInv ==
  ASSUME GasInv, NEW q \in DOMAIN requested, requested[q].status = "pending",
         NEW status \in {"paid", "rejected"},
         requested' = [requested EXCEPT ![q].status = status],
         DOMAIN relayers' = DOMAIN relayers,
         \A r \in DOMAIN relayers :
           /\ relayers'[r] \in Relayer
           /\ r # requested[q].relayer => relayers'[r] = relayers[r]
           /\ r = requested[q].relayer =>
                /\ relayers'[r].pending = relayers[r].pending - requested[q].amount
                /\ relayers'[r].reimbursed = relayers[r].reimbursed
                                               + IF status = "paid"
                                                 THEN requested[q].amount ELSE 0,
         credits' = credits, net' = net,
         sol' = sol - IF status = "paid" THEN requested[q].amount * Lamport ELSE 0,
         sol' >= 0
  PROVE  GasInv'
  <1> DEFINE amount == requested[q].amount
             owner == requested[q].relayer
  <1>1. /\ GasTypeOK /\ GasBooksFinite /\ RelayersAreOwed /\ VaultHoldsTheRest /\ CreditsAddUp
        /\ sol \in Int /\ net \in Int
        /\ \A p \in DOMAIN requested : requested[p] \in Reimbursement
        /\ \A r \in DOMAIN relayers : relayers[r] \in Relayer
        /\ IsFiniteSet(DOMAIN requested) /\ IsFiniteSet(DOMAIN relayers)
        /\ owner \in DOMAIN relayers
    BY DEF GasInv, GasTypeOK, GasBooksFinite
  <1>2. amount \in Nat /\ Lamport \in Nat
    BY <1>1, GasVaultServiceAssumption DEF Reimbursement
  <1>3. /\ DOMAIN requested' = DOMAIN requested
        /\ \A p \in DOMAIN requested : p # q => requested'[p] = requested[p]
        /\ requested'[q] = [requested[q] EXCEPT !.status = status]
    OBVIOUS
  <1>4. /\ requested'[q] \in Reimbursement /\ requested'[q].amount = amount
        /\ requested'[q].relayer = owner /\ requested'[q].status = status
    BY <1>1, <1>3 DEF Reimbursement
  <1>5. \A p \in DOMAIN requested : requested'[p] \in Reimbursement
    BY <1>1, <1>3, <1>4
  <1>6. \A r \in DOMAIN relayers : relayers[r].reimbursed \in Nat /\ relayers[r].pending \in Int
    BY <1>1 DEF Relayer
  <1> DEFINE paid == IF status = "paid" THEN amount ELSE 0
  <1>7. paid \in Nat /\ sol' \in Int /\ sol' = sol - paid * Lamport
    BY <1>1, <1>2
  <1>8. GasTypeOK'
    BY <1>1, <1>3, <1>5, <1>7 DEF GasTypeOK
  <1>9. GasBooksFinite'
    BY <1>1, <1>3, <1>4 DEF GasBooksFinite
  <1>10. ASSUME NEW r \in DOMAIN relayers
         PROVE  /\ relayers'[r].pending = Total(r, "pending")'
                /\ relayers'[r].reimbursed = Total(r, "paid")'
    <2>1. \A p \in DOMAIN requested : requested[p].amount \in Int
      BY <1>1 DEF Reimbursement
    <2>2. DOMAIN requested' = DOMAIN requested \cup {q} /\ requested'[q].amount \in Int
      <3>1. DOMAIN requested = DOMAIN requested \cup {q}
        OBVIOUS
      <3> QED BY <1>2, <1>3, <1>4, <3>1
    <2>3. ASSUME NEW s
          PROVE  /\ Total(r, s) \in Int
                 /\ Total(r, s)' =
                      Total(r, s)
                        + (IF q \in OfRelayer(r, s)' THEN requested'[q].amount ELSE 0)
                        - (IF q \in OfRelayer(r, s) THEN requested'[q].amount ELSE 0)
      <3>1. requested'[q].amount = requested[q].amount
        BY <1>4
      <3>2. \A p \in DOMAIN requested : p # q => requested'[p] = requested[p]
        BY <1>3
      <3>3. IsFiniteSet(DOMAIN requested)
        BY <1>1
      <3> HIDE DEF amount, owner, paid
      <3> QED BY <2>1, <2>2, <3>1, <3>2, <3>3, TotalChanged
    <2>4. \A s : /\ q \in OfRelayer(r, s)' <=> r = owner /\ s = status
                 /\ q \in OfRelayer(r, s) <=> r = owner /\ s = "pending"
      BY <1>3, <1>4 DEF OfRelayer
    <2>5. Total(r, "pending")' =
            Total(r, "pending") - IF r = owner THEN amount ELSE 0
      BY <1>2, <1>4, <2>3, <2>4
    <2>6. Total(r, "paid")' =
            Total(r, "paid") + IF r = owner THEN paid ELSE 0
      BY <1>2, <1>4, <2>3, <2>4
    <2>7. /\ relayers[r].pending = Total(r, "pending")
          /\ relayers[r].reimbursed = Total(r, "paid")
      BY <1>1 DEF RelayersAreOwed
    <2>8. CASE r = owner
      BY <1>6, <2>5, <2>6, <2>7, <2>8
    <2>9. CASE r # owner
      BY <1>6, <2>5, <2>6, <2>7, <2>9
    <2> QED BY <2>8, <2>9
  <1>11. RelayersAreOwed'
    BY <1>10 DEF RelayersAreOwed
  <1>12. PaidIn(relayers') = PaidIn(relayers) + paid /\ PaidIn(relayers) \in Int
    <2>1. relayers'[owner].reimbursed = relayers[owner].reimbursed + paid
      BY <1>1
    <2>2. \A s \in DOMAIN relayers : s # owner => relayers'[s].reimbursed = relayers[s].reimbursed
      OBVIOUS
    <2>3. relayers'[owner].reimbursed \in Int /\ relayers[owner].reimbursed \in Int
      BY <1>1, <1>6, <1>7, <2>1
    <2> HIDE DEF owner, paid, amount
    <2>4. /\ PaidIn(relayers) \in Int
          /\ PaidIn(relayers')
               = PaidIn(relayers) + relayers'[owner].reimbursed - relayers[owner].reimbursed
      <3>1. \A r \in DOMAIN relayers : relayers[r].reimbursed \in Int
        BY <1>6
      <3> QED BY <1>1, <2>2, <2>3, <3>1, PaidChanged
    <2> QED BY <1>7, <2>1, <2>3, <2>4
  <1>13. VaultHoldsTheRest'
    <2>1. sol = net - PaidIn(relayers) * Lamport
      BY <1>1 DEF VaultHoldsTheRest
    <2> HIDE DEF paid
    <2>2. (PaidIn(relayers) + paid) * Lamport = PaidIn(relayers) * Lamport + paid * Lamport
      BY <1>2, <1>7, <1>12, SumTimes
    <2>3. PaidIn(relayers) * Lamport \in Int /\ paid * Lamport \in Int
      BY <1>2, <1>7, <1>12, SumTimes
    <2>4. sol' = net - (PaidIn(relayers) + paid) * Lamport
      BY <1>1, <1>7, <2>1, <2>2, <2>3
    <2> QED BY <1>12, <2>4 DEF VaultHoldsTheRest
  <1>14. CreditsAddUp'
    BY <1>1 DEF CreditsAddUp
  <1> QED BY <1>8, <1>9, <1>11, <1>13, <1>14 DEF GasInv

\* approve_reimbursement pays when the vault has the amount;
\* reject_reimbursement pays nothing.
LEMMA DecisionsInv ==
  ASSUME GasInv, NEW q \in DOMAIN requested, ApproveReimbursement(q) \/ RejectReimbursement(q)
  PROVE  GasInv'
  <1> DEFINE amount == requested[q].amount
             owner == requested[q].relayer
  <1>1. /\ owner \in DOMAIN relayers /\ relayers[owner] \in Relayer
        /\ \A r \in DOMAIN relayers : relayers[r] \in Relayer
        /\ requested[q] \in Reimbursement /\ sol >= 0 /\ sol \in Int
    BY DEF GasInv, GasTypeOK, GasBooksFinite, VaultHoldsTheRest
  <1>2. amount \in Nat
    BY <1>1 DEF Reimbursement
  <1>3. CASE ApproveReimbursement(q)
    <2> DEFINE once == [relayers EXCEPT ![owner].reimbursed = @ + amount]
    <2>1. /\ requested[q].status = "pending" /\ amount <= VaultLamports
          /\ sol' = sol - amount * Lamport /\ credits' = credits /\ net' = net
          /\ requested' = [requested EXCEPT ![q] = [requested[q] EXCEPT !.status = "paid"]]
          /\ requested' = [requested EXCEPT ![q].status = "paid"]
      BY <1>3 DEF ApproveReimbursement
    <2>2. once = [relayers EXCEPT ![owner] = [relayers[owner] EXCEPT !.reimbursed = @ + amount]]
      OBVIOUS
    <2>3. relayers' = [once EXCEPT ![owner] = [once[owner] EXCEPT !.pending = @ - amount]]
      BY <1>3 DEF ApproveReimbursement
    <2>4. /\ DOMAIN once = DOMAIN relayers /\ DOMAIN relayers' = DOMAIN relayers
          /\ \A r \in DOMAIN relayers : r # owner => relayers'[r] = relayers[r]
          /\ once[owner] = [relayers[owner] EXCEPT !.reimbursed = @ + amount]
          /\ relayers'[owner] = [once[owner] EXCEPT !.pending = @ - amount]
      BY <1>1, <2>2, <2>3
    <2> HIDE DEF once, owner, amount
    <2>5. once[owner] \in Relayer /\ once[owner].reimbursed = relayers[owner].reimbursed + amount
          /\ once[owner].pending = relayers[owner].pending
      BY <1>1, <1>2, <2>4 DEF Relayer
    <2>6. /\ relayers'[owner] \in Relayer
          /\ relayers'[owner].reimbursed = relayers[owner].reimbursed + amount
          /\ relayers'[owner].pending = relayers[owner].pending - amount
      <3> DEFINE half == once[owner]
      <3>1. relayers'[owner] = [half EXCEPT !.pending = @ - amount] /\ half \in Relayer
        BY <2>4, <2>5
      <3>2. half.pending \in Int /\ half.pending - amount \in Int
        BY <1>2, <3>1 DEF Relayer
      <3>3. /\ half.reimbursed = relayers[owner].reimbursed + amount
            /\ half.pending = relayers[owner].pending
        BY <2>5
      <3> HIDE DEF half
      <3>4. /\ relayers'[owner] \in Relayer /\ relayers'[owner].reimbursed = half.reimbursed
            /\ relayers'[owner].pending = half.pending - amount
        BY <3>1, <3>2 DEF Relayer
      <3> QED BY <3>3, <3>4
    <2>7. sol' >= 0
      <3>1. Lamport \in Int /\ Lamport > 0
        BY GasVaultServiceAssumption
      <3>2. sol \div Lamport \in Int /\ (sol \div Lamport) * Lamport <= sol
        BY <1>1, <3>1, QuotientBelow
      <3>3. /\ amount * Lamport <= (sol \div Lamport) * Lamport
            /\ amount * Lamport \in Int /\ (sol \div Lamport) * Lamport \in Int
        BY <1>2, <2>1, <3>1, <3>2, ProductMonotone DEF VaultLamports
      <3> QED BY <1>1, <2>1, <3>2, <3>3
    <2> QED BY <1>1, <2>1, <2>4, <2>6, <2>7, DecidedInv DEF owner, amount
  <1>4. CASE RejectReimbursement(q)
    <2>1. /\ requested[q].status = "pending"
          /\ sol' = sol /\ credits' = credits /\ net' = net
          /\ requested' = [requested EXCEPT ![q].status = "rejected"]
          /\ relayers' = [relayers EXCEPT ![owner]
               = [relayers[owner] EXCEPT !.pending = @ - amount]]
      BY <1>4 DEF RejectReimbursement
    <2>2. /\ DOMAIN relayers' = DOMAIN relayers
          /\ \A r \in DOMAIN relayers : r # owner => relayers'[r] = relayers[r]
          /\ relayers'[owner] = [relayers[owner] EXCEPT !.pending = @ - amount]
      BY <1>1, <2>1
    <2>3. /\ relayers'[owner] \in Relayer
          /\ relayers'[owner].reimbursed = relayers[owner].reimbursed + 0
          /\ relayers'[owner].pending = relayers[owner].pending - amount
      <3> HIDE DEF owner, amount
      <3> QED BY <1>1, <1>2, <2>2 DEF Relayer
    <2>4. sol' = sol - 0 /\ sol' >= 0
      BY <1>1, <2>1
    <2> QED BY <1>1, <2>1, <2>2, <2>3, <2>4, DecidedInv
  <1> QED BY <1>3, <1>4

\* request_reimbursement adds to the pending total of a relayer.
LEMMA RequestInv ==
  ASSUME GasInv, NEW q \in RequestIds, NEW r \in DOMAIN relayers,
           NEW amount \in ReimbursementAmounts,
         RequestReimbursement(q, r, amount)
  PROVE  GasInv'
  <1> DEFINE request == [relayer |-> r, amount |-> amount, status |-> "pending"]
  <1>1. /\ GasTypeOK /\ GasBooksFinite /\ RelayersAreOwed /\ VaultHoldsTheRest /\ CreditsAddUp
        /\ \A p \in DOMAIN requested : requested[p] \in Reimbursement
        /\ \A s \in DOMAIN relayers : relayers[s] \in Relayer
        /\ IsFiniteSet(DOMAIN requested) /\ IsFiniteSet(DOMAIN relayers)
        /\ r \in Relayers
    BY DEF GasInv, GasTypeOK, GasBooksFinite
  <1>2. /\ q \notin DOMAIN requested /\ amount \in Nat
        /\ requested' = Added(requested, q, request)
        /\ relayers' = [relayers EXCEPT ![r] = [relayers[r] EXCEPT !.pending = @ + amount]]
        /\ sol' = sol /\ credits' = credits /\ net' = net
    BY GasVaultServiceAssumption DEF RequestReimbursement
  <1>3. /\ DOMAIN requested' = DOMAIN requested \cup {q} /\ requested'[q] = request
        /\ \A p \in DOMAIN requested : p # q => requested'[p] = requested[p]
    BY <1>2 DEF Added
  <1>4. /\ request \in Reimbursement /\ request.amount = amount
        /\ request.relayer = r /\ request.status = "pending"
    BY <1>1, <1>2 DEF Reimbursement
  <1>5. /\ DOMAIN relayers' = DOMAIN relayers
        /\ \A s \in DOMAIN relayers : s # r => relayers'[s] = relayers[s]
        /\ relayers'[r] = [relayers[r] EXCEPT !.pending = @ + amount]
    BY <1>2
  <1> HIDE DEF request
  <1>6. /\ relayers'[r] \in Relayer /\ relayers'[r].pending = relayers[r].pending + amount
        /\ relayers'[r].reimbursed = relayers[r].reimbursed
    BY <1>1, <1>2, <1>5 DEF Relayer
  <1>7. GasTypeOK'
    <2>1. \A p \in DOMAIN requested' : requested'[p] \in Reimbursement
      BY <1>1, <1>3, <1>4
    <2>2. \A s \in DOMAIN relayers' : relayers'[s] \in Relayer
      BY <1>1, <1>5, <1>6
    <2> QED BY <1>1, <1>2, <1>3, <1>5, <2>1, <2>2 DEF GasTypeOK
  <1>8. GasBooksFinite'
    <2>1. IsFiniteSet(DOMAIN requested')
      BY <1>1, <1>3, FS_AddElement
    <2> QED BY <1>1, <1>2, <1>3, <1>4, <1>5, <2>1 DEF GasBooksFinite
  <1>9. ASSUME NEW s \in DOMAIN relayers
        PROVE  /\ relayers'[s].pending = Total(s, "pending")'
               /\ relayers'[s].reimbursed = Total(s, "paid")'
    <2>1. \A p \in DOMAIN requested : requested[p].amount \in Int
      BY <1>1 DEF Reimbursement
    <2>2. requested'[q].amount = amount /\ amount \in Int
      BY <1>2, <1>3, <1>4
    <2>3. ASSUME NEW st
          PROVE  /\ Total(s, st) \in Int
                 /\ Total(s, st)' =
                      Total(s, st)
                        + (IF q \in OfRelayer(s, st)' THEN requested'[q].amount ELSE 0)
                        - (IF q \in OfRelayer(s, st) THEN requested'[q].amount ELSE 0)
      BY <1>1, <1>2, <1>3, <2>1, <2>2, TotalChanged
    <2>4. \A st : /\ q \in OfRelayer(s, st)' <=> r = s /\ st = "pending"
                  /\ q \notin OfRelayer(s, st)
      BY <1>2, <1>3, <1>4 DEF OfRelayer
    <2>5. Total(s, "pending")' = Total(s, "pending") + IF r = s THEN amount ELSE 0
      BY <2>2, <2>3, <2>4
    <2>6. Total(s, "paid")' = Total(s, "paid")
      BY <2>2, <2>3, <2>4
    <2>7. /\ relayers[s].pending = Total(s, "pending") /\
               relayers[s].reimbursed = Total(s, "paid")
          /\ Total(s, "pending") \in Int
      BY <1>1, <2>3 DEF RelayersAreOwed
    <2>8. CASE s = r
      BY <1>6, <2>5, <2>6, <2>7, <2>8
    <2>9. CASE s # r
      BY <1>5, <2>5, <2>6, <2>7, <2>9
    <2> QED BY <2>8, <2>9
  <1>10. RelayersAreOwed'
    BY <1>5, <1>9 DEF RelayersAreOwed
  <1>11. PaidIn(relayers') = PaidIn(relayers)
    <2>1. \A s \in DOMAIN relayers : relayers[s].reimbursed \in Int
      BY <1>1 DEF Relayer
    <2>2. /\ PaidIn(relayers) \in Int
          /\ PaidIn(relayers')
               = PaidIn(relayers) + relayers'[r].reimbursed - relayers[r].reimbursed
      <3>1. relayers'[r].reimbursed \in Int
        BY <1>6, <2>1
      <3>2. \A s \in DOMAIN relayers : s # r => relayers'[s].reimbursed = relayers[s].reimbursed
        BY <1>5
      <3>3. DOMAIN relayers' = DOMAIN relayers /\ IsFiniteSet(DOMAIN relayers)
        BY <1>1, <1>5
      <3> QED BY <2>1, <3>1, <3>2, <3>3, PaidChanged
    <2> QED BY <1>6, <2>1, <2>2
  <1>12. VaultHoldsTheRest' /\ CreditsAddUp'
    BY <1>1, <1>2, <1>11 DEF VaultHoldsTheRest, CreditsAddUp
  <1> QED BY <1>7, <1>8, <1>10, <1>12 DEF GasInv

\* Registering and deactivating relayers.
LEMMA RelayersInv ==
  ASSUME GasInv, requested' = requested, sol' = sol, credits' = credits, net' = net,
         \/ \E r \in Relayers : RegisterRelayer(r)
         \/ \E r \in DOMAIN relayers : DeactivateRelayer(r)
  PROVE  GasInv'
  <1>1. /\ GasTypeOK /\ GasBooksFinite /\ RelayersAreOwed /\ VaultHoldsTheRest /\ CreditsAddUp
        /\ \A p \in DOMAIN requested : requested[p] \in Reimbursement
        /\ \A s \in DOMAIN relayers : relayers[s] \in Relayer
        /\ IsFiniteSet(DOMAIN requested) /\ IsFiniteSet(DOMAIN relayers)
    BY DEF GasInv, GasTypeOK, GasBooksFinite
  <1>2. \A s \in DOMAIN relayers : relayers[s].reimbursed \in Int
    BY <1>1 DEF Relayer
  <1>3. \A s, st : Total(s, st)' = Total(s, st)
    BY DEF Total
  <1>4. CreditsAddUp'
    BY <1>1 DEF CreditsAddUp
  <1>5. ASSUME NEW r \in Relayers, RegisterRelayer(r) PROVE GasInv'
    <2> DEFINE fresh == [reimbursed |-> 0, pending |-> 0, active |-> TRUE]
    <2>1. /\ r \notin DOMAIN relayers /\ DOMAIN relayers' = DOMAIN relayers \cup {r}
          /\ relayers'[r] = fresh
          /\ \A s \in DOMAIN relayers : relayers'[s] = relayers[s]
      BY <1>5 DEF RegisterRelayer, Added
    <2>2. fresh \in Relayer /\ fresh.reimbursed = 0 /\ fresh.pending = 0
      BY DEF Relayer
    <2>3. GasTypeOK'
      BY <1>1, <2>1, <2>2 DEF GasTypeOK
    <2>4. GasBooksFinite'
      <3>1. IsFiniteSet(DOMAIN relayers')
        BY <1>1, <2>1, FS_AddElement
      <3> QED BY <1>1, <2>1, <3>1 DEF GasBooksFinite
    <2>5. \A st : Total(r, st) = 0
      <3>1. \A st : OfRelayer(r, st) = {}
        BY <1>1, <2>1 DEF OfRelayer, GasBooksFinite
      <3> QED BY <3>1, SumOfNone DEF Total, OfRelayer
    <2>6. RelayersAreOwed'
      BY <1>1, <1>3, <2>1, <2>2, <2>5 DEF RelayersAreOwed
    <2>7. PaidIn(relayers') = PaidIn(relayers)
      BY <1>1, <1>2, <2>1, <2>2, PaidAdded
    <2>8. VaultHoldsTheRest'
      BY <1>1, <2>7 DEF VaultHoldsTheRest
    <2> QED BY <1>4, <2>3, <2>4, <2>6, <2>8 DEF GasInv
  <1>6. ASSUME NEW r \in DOMAIN relayers, DeactivateRelayer(r) PROVE GasInv'
    <2>1. relayers' = [relayers EXCEPT ![r] = [relayers[r] EXCEPT !.active = FALSE]]
      BY <1>6 DEF DeactivateRelayer
    <2>2. /\ DOMAIN relayers' = DOMAIN relayers
          /\ relayers'[r] = [relayers[r] EXCEPT !.active = FALSE]
          /\ \A s \in DOMAIN relayers : s # r => relayers'[s] = relayers[s]
      BY <2>1
    <2>3. /\ relayers'[r] \in Relayer /\ relayers'[r].pending = relayers[r].pending
          /\ relayers'[r].reimbursed = relayers[r].reimbursed
      BY <1>1, <2>2 DEF Relayer
    <2>4. GasTypeOK'
      BY <1>1, <2>2, <2>3 DEF GasTypeOK
    <2>5. GasBooksFinite'
      BY <1>1, <2>2 DEF GasBooksFinite
    <2>6. RelayersAreOwed'
      BY <1>1, <1>3, <2>2, <2>3 DEF RelayersAreOwed
    <2>7. PaidIn(relayers') = PaidIn(relayers)
      <3>1. /\ PaidIn(relayers) \in Int
            /\ PaidIn(relayers')
                 = PaidIn(relayers) + relayers'[r].reimbursed - relayers[r].reimbursed
        <4>1. relayers'[r].reimbursed \in Int
          BY <1>2, <2>3
        <4>2. \A s \in DOMAIN relayers : s # r => relayers'[s].reimbursed = relayers[s].reimbursed
          BY <2>2
        <4>3. DOMAIN relayers' = DOMAIN relayers /\ IsFiniteSet(DOMAIN relayers)
          BY <1>1, <2>2
        <4> QED BY <1>2, <4>1, <4>2, <4>3, PaidChanged
      <3> QED BY <1>2, <2>3, <3>1
    <2>8. VaultHoldsTheRest'
      BY <1>1, <2>7 DEF VaultHoldsTheRest
    <2> QED BY <1>4, <2>4, <2>5, <2>6, <2>8 DEF GasInv
  <1> QED BY <1>5, <1>6

\* Issuing and spending credits.
LEMMA CreditsInv ==
  ASSUME GasInv, NEW u \in CreditUsers, NEW amount \in CreditAmounts,
         IssueCredits(u, amount) \/ SpendCredits(u, amount)
  PROVE  GasInv'
  <1>1. /\ GasTypeOK /\ GasBooksFinite /\ RelayersAreOwed /\ VaultHoldsTheRest /\ CreditsAddUp
        /\ \A v \in DOMAIN credits : credits[v] \in CreditAccount
        /\ IsFiniteSet(DOMAIN credits) /\ amount \in Int
    BY GasVaultServiceAssumption DEF GasInv, GasTypeOK, GasBooksFinite
  <1>2. /\ requested' = requested /\ relayers' = relayers /\ sol' = sol /\ net' = net
    BY DEF IssueCredits, SpendCredits
  <1>3. RelayersAreOwed' /\ VaultHoldsTheRest'
    <2>1. \A s, st : Total(s, st)' = Total(s, st)
      BY <1>2 DEF Total
    <2>2. RelayersAreOwed'
      BY <1>1, <1>2, <2>1 DEF RelayersAreOwed
    <2> QED BY <1>1, <1>2, <2>2 DEF VaultHoldsTheRest
  <1>4. ASSUME DOMAIN credits' = DOMAIN credits \cup {u}, credits'[u] \in CreditAccount,
               credits'[u].balance = credits'[u].earned - credits'[u].spent,
               credits'[u].balance >= 0,
               \A v \in DOMAIN credits : v # u => credits'[v] = credits[v]
        PROVE  GasInv'
    <2>1. GasTypeOK'
      BY <1>1, <1>2, <1>4 DEF GasTypeOK
    <2>2. GasBooksFinite'
      <3>1. IsFiniteSet(DOMAIN credits')
        BY <1>1, <1>4, FS_AddElement
      <3> QED BY <1>1, <1>2, <3>1 DEF GasBooksFinite
    <2>3. CreditsAddUp'
      BY <1>1, <1>4 DEF CreditsAddUp
    <2> QED BY <1>3, <2>1, <2>2, <2>3 DEF GasInv
  <1>5. CASE IssueCredits(u, amount)
    <2> DEFINE old == CreditsOf(u)
               new == [old EXCEPT !.balance = @ + amount, !.earned = @ + amount]
    <2>1. /\ old \in CreditAccount /\ old.balance = old.earned - old.spent /\ old.balance >= 0
      BY <1>1 DEF CreditsOf, CreditAccount, CreditsAddUp
    <2>2. /\ amount > 0 /\ DOMAIN credits' = DOMAIN credits \cup {u}
          /\ credits'[u] = old \/ credits'[u] = new
          /\ \A v \in DOMAIN credits : v # u => credits'[v] = credits[v]
      BY <1>5 DEF IssueCredits, Added
    <2> HIDE DEF old
    <2>3. /\ new.balance = old.balance + amount /\ new.earned = old.earned + amount
          /\ new.spent = old.spent /\ new \in CreditAccount
      <3> DEFINE once == [old EXCEPT !.balance = @ + amount]
      <3>1. /\ once.balance = old.balance + amount /\ once.earned = old.earned
            /\ once.spent = old.spent /\ once \in CreditAccount
        BY <1>1, <2>1 DEF CreditAccount
      <3>2. new = [once EXCEPT !.earned = @ + amount]
        OBVIOUS
      <3> HIDE DEF once, new
      <3>3. once.earned + amount \in Nat
        BY <1>1, <2>2, <3>1 DEF CreditAccount
      <3>4. /\ new.balance = once.balance /\ new.earned = once.earned + amount
            /\ new.spent = once.spent /\ new \in CreditAccount
        BY <3>1, <3>2, <3>3 DEF CreditAccount
      <3> QED BY <3>1, <3>4
    <2>4. new.balance = new.earned - new.spent /\ new.balance >= 0
      BY <1>1, <2>1, <2>2, <2>3 DEF CreditAccount
    <2> QED BY <1>4, <2>1, <2>2, <2>3, <2>4
  <1>6. CASE SpendCredits(u, amount)
    <2> DEFINE old == credits[u]
               new == [old EXCEPT !.balance = @ - amount, !.spent = @ + amount]
    <2>1. /\ u \in DOMAIN credits /\ old.balance >= amount
          /\ old \in CreditAccount /\ old.balance = old.earned - old.spent
      BY <1>1, <1>6 DEF SpendCredits, CreditsAddUp
    <2>2. /\ DOMAIN credits' = DOMAIN credits
          /\ credits'[u] = new
          /\ \A v \in DOMAIN credits : v # u => credits'[v] = credits[v]
      <3> DEFINE once == [credits EXCEPT ![u].balance = @ - amount]
      <3>1. once = [credits EXCEPT ![u] = [credits[u] EXCEPT !.balance = @ - amount]]
        OBVIOUS
      <3>2. credits' = [once EXCEPT ![u] = [once[u] EXCEPT !.spent = @ + amount]]
        BY <1>6 DEF SpendCredits
      <3>3. /\ DOMAIN once = DOMAIN credits /\ DOMAIN credits' = DOMAIN credits
            /\ once[u] = [old EXCEPT !.balance = @ - amount]
            /\ credits'[u] = [once[u] EXCEPT !.spent = @ + amount]
            /\ \A v \in DOMAIN credits : v # u => credits'[v] = credits[v]
        BY <2>1, <3>1, <3>2
      <3> HIDE DEF once, old
      <3>4. credits'[u] = new
        BY <2>1, <3>3 DEF CreditAccount
      <3> QED BY <3>3, <3>4
    <2> HIDE DEF old
    <2>3. /\ new.balance = old.balance - amount /\ new.spent = old.spent + amount
          /\ new.earned = old.earned /\ new \in CreditAccount
      <3> DEFINE once == [old EXCEPT !.balance = @ - amount]
      <3>1. /\ once.balance = old.balance - amount /\ once.earned = old.earned
            /\ once.spent = old.spent /\ once \in CreditAccount
        BY <1>1, <2>1 DEF CreditAccount
      <3>2. new = [once EXCEPT !.spent = @ + amount]
        OBVIOUS
      <3> HIDE DEF once, new
      <3>3. once.spent + amount \in Int
        BY <1>1, <3>1 DEF CreditAccount
      <3>4. /\ new.balance = once.balance /\ new.earned = once.earned
            /\ new.spent = once.spent + amount /\ new \in CreditAccount
        BY <3>1, <3>2, <3>3 DEF CreditAccount
      <3> QED BY <3>1, <3>4
    <2>4. new.balance = new.earned - new.spent /\ new.balance >= 0
      BY <1>1, <2>1, <2>3 DEF CreditAccount
    <2>5. DOMAIN credits' = DOMAIN credits \cup {u}
      <3>1. DOMAIN credits = DOMAIN credits \cup {u}
        BY <2>1
      <3> QED BY <2>2, <3>1
    <2> QED BY <1>4, <2>2, <2>3, <2>4, <2>5
  <1> QED BY <1>5, <1>6

\* Moving SOL in and out of the vault.
LEMMA TransferInv ==
  ASSUME GasInv, NEW parts \in Transfers, DepositSol(parts) \/ WithdrawSol(parts)
  PROVE  GasInv'
  <1>1. /\ GasTypeOK /\ GasBooksFinite /\ RelayersAreOwed /\ VaultHoldsTheRest /\ CreditsAddUp
        /\ sol \in Int /\ net \in Int /\ parts \in Nat
        /\ sol = net - PaidIn(relayers) * Lamport /\ sol >= 0
        /\ IsFiniteSet(DOMAIN relayers) /\
             \A r \in DOMAIN relayers : relayers[r].reimbursed \in Int
    BY GasVaultServiceAssumption
       DEF GasInv, GasTypeOK, GasBooksFinite, VaultHoldsTheRest, Relayer
  <1>2. requested' = requested /\ relayers' = relayers /\ credits' = credits
    BY DEF DepositSol, WithdrawSol
  <1>3. RelayersAreOwed' /\ CreditsAddUp' /\ GasBooksFinite'
    <2>1. \A s, st : Total(s, st)' = Total(s, st)
      BY <1>2 DEF Total
    <2>2. RelayersAreOwed'
      BY <1>1, <1>2, <2>1 DEF RelayersAreOwed
    <2> QED BY <1>1, <1>2, <2>2 DEF CreditsAddUp, GasBooksFinite
  <1>4. \/ sol' = sol + parts /\ net' = net + parts
        \/ sol' = sol - parts /\ net' = net - parts /\ parts <= sol
    BY DEF DepositSol, WithdrawSol
  <1>5. GasTypeOK'
    BY <1>1, <1>2, <1>4 DEF GasTypeOK
  <1>6. PaidIn(relayers) * Lamport \in Int
    BY <1>1, PaidIsInt, SumTimes, GasVaultServiceAssumption
  <1>7. VaultHoldsTheRest'
    BY <1>1, <1>2, <1>4, <1>6 DEF VaultHoldsTheRest
  <1> QED BY <1>3, <1>5, <1>7 DEF GasInv

\* The vault is empty at first.
LEMMA GasInitInv == Init => GasInv
  <1> SUFFICES ASSUME Init PROVE GasInv
    OBVIOUS
  <1>1. /\ sol = 0 /\ net = 0 /\ DOMAIN credits = {} /\ DOMAIN relayers = {} /\
             DOMAIN requested = {}
    BY DEF Init, GasInit
  <1>2. PaidIn(relayers) = 0
    BY <1>1, SumOfNone DEF PaidIn, SumFunction
  <1>3. VaultHoldsTheRest
    BY <1>1, <1>2, GasVaultServiceAssumption DEF VaultHoldsTheRest
  <1> QED BY <1>1, <1>3, FS_EmptySet
          DEF GasInv, GasTypeOK, GasBooksFinite, RelayersAreOwed, CreditsAddUp

\* Every step of the composition keeps the vault's books.
LEMMA GasStepInv == GasInv /\ [Next]_serviceVars => GasInv'
  <1> SUFFICES ASSUME GasInv, [Next]_serviceVars PROVE GasInv'
    OBVIOUS
  <1>1. CASE UNCHANGED gasVars
    BY <1>1 DEF gasVars, GasInv, GasTypeOK, GasBooksFinite, RelayersAreOwed, VaultHoldsTheRest,
                CreditsAddUp, Total
  <1>2. CASE \E r \in Relayers : RegisterRelayer(r)
    <2>1. requested' = requested /\ sol' = sol /\ credits' = credits /\ net' = net
      BY <1>2 DEF RegisterRelayer
    <2> QED BY <1>2, <2>1, RelayersInv
  <1>3. CASE \E r \in DOMAIN relayers : DeactivateRelayer(r)
    <2>1. requested' = requested /\ sol' = sol /\ credits' = credits /\ net' = net
      BY <1>3 DEF DeactivateRelayer
    <2> QED BY <1>3, <2>1, RelayersInv
  <1>4. CASE \E parts \in Transfers : DepositSol(parts) \/ WithdrawSol(parts)
    BY <1>4, TransferInv
  <1>5. CASE \E u \in CreditUsers, amount \in CreditAmounts :
               IssueCredits(u, amount) \/ SpendCredits(u, amount)
    BY <1>5, CreditsInv
  <1>6. CASE \E r \in DOMAIN relayers, q \in RequestIds, amount \in ReimbursementAmounts :
               RequestReimbursement(q, r, amount)
    BY <1>6, RequestInv
  <1>7. CASE \E q \in DOMAIN requested : ApproveReimbursement(q) \/ RejectReimbursement(q)
    BY <1>7, DecisionsInv
  <1> QED BY <1>1, <1>2, <1>3, <1>4, <1>5, <1>6, <1>7, GasFrame DEF GasNext

\* The vault's books agree in every state.
LEMMA GasInvHolds == Spec => []GasInv
  BY GasInitInv, GasStepInv, PTL DEF Spec

\* With no alert raised the vault could pay every pending request at once.
LEMMA QuietVaultPays ==
  ASSUME GasInv, Needs(TRUE, TRUE, TRUE) = {}
  PROVE  SumFunction([r \in DOMAIN relayers |-> Total(r, "pending")]) <= VaultLamports
  <1> DEFINE held == [u \in DOMAIN credits |-> credits[u].balance]
             due == [r \in DOMAIN relayers |-> relayers[r].pending]
             told == [r \in DOMAIN relayers |-> Total(r, "pending")]
  <1>1. /\ IsFiniteSet(DOMAIN credits) /\ IsFiniteSet(DOMAIN relayers)
        /\ \A u \in DOMAIN credits : held[u] \in Nat
        /\ \A r \in DOMAIN relayers : due[r] = told[r] /\ due[r] \in Int
        /\ sol \in Int /\ sol >= 0
    BY DEF GasInv, GasTypeOK, GasBooksFinite, CreditsAddUp, RelayersAreOwed, VaultHoldsTheRest,
           CreditAccount, Relayer
  <1>2. "capped_membra_emission_for_gasvault" \notin Needs(TRUE, TRUE, TRUE)
    OBVIOUS
  <1>3. Covers(1, 1)
    BY <1>2 DEF Needs
  <1>4. SumFunction(held) = SumFunctionOnSet(held, DOMAIN credits)
    BY DEF SumFunction
  <1>5. /\ SumFunction(due) = SumFunctionOnSet(due, DOMAIN relayers)
        /\ SumFunction(told) = SumFunctionOnSet(told, DOMAIN relayers)
    BY DEF SumFunction
  <1>6. \/ SumFunction(held) + SumFunction(due) = 0
        \/ VaultLamports * 1 >= 1 * (SumFunction(held) + SumFunction(due))
    BY <1>3 DEF Covers
  <1> HIDE DEF held, due, told
  <1>7. SumFunction(held) \in Nat
    BY <1>1, <1>4, SumOfNaturals
  <1>8. SumFunction(due) = SumFunction(told) /\ SumFunction(due) \in Int
    BY <1>1, <1>5, SumOfSame, SumIsInt
  <1>9. VaultLamports \in Nat
    BY <1>1, GasVaultServiceAssumption DEF VaultLamports
  <1> QED BY <1>6, <1>7, <1>8, <1>9 DEF told

\* For any relayers, users, amounts and order of requests, the vault's books
\* agree with the requests behind them, and a vault that raises no alert can
\* pay all that is pending.
THEOREM VaultAccounted == Spec => []VaultBooksAgree
  <1>1. ASSUME GasInv PROVE VaultBooksAgree
    <2>1. Paid = PaidIn(relayers)
      BY DEF Paid, PaidIn
    <2> QED BY <1>1, <2>1, QuietVaultPays
            DEF VaultBooksAgree, GasInv, RelayersAreOwed, VaultHoldsTheRest, CreditsAddUp
  <1> QED BY <1>1, GasInvHolds, PTL
=============================================================================
