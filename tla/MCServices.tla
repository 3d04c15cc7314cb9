----------------------------- MODULE MCServices -----------------------------
(***************************************************************************)
(* A small instance of every service; each is followed on its own, so the  *)
(* state space is the sum of theirs.                                       *)
(***************************************************************************)
EXTENDS Services

CONSTANTS
  \* accounts, assets, keys, wallets
  user, house, k1, k2, w1, w2,
  \* identifiers
  Alice, alice, bob, t1, t2,
  \* relayers, requests, users with credits
  r1, q1, q2, u1,
  \* chains, tokens, adapters, routes
  ca, cb, ta, tb, a1, route1,
  \* development proofs and voters
  p1, v1, v2, v3,
  \* files, commits, transactions, paths
  f1, f2, c1, c2, tx1, tx2, x, y

MCWired == [a \in {house} |-> [type |-> "reserve", asset |-> "btc"]]

MCAmounts == {-1, 0, 2}

MCWalletBalances == {0, 1, 2}

MCCanonical == [s \in {Alice, alice, bob, t1, t2} |-> IF s = Alice THEN alice ELSE s]

MCAccountOf == [u \in {alice, bob, t1} |-> u]

MCCreditAmounts == {-1, 1, 2}

MCReimbursementAmounts == {0, 1, 2, 3}

MCChainOf == [t \in {ta, tb} |-> IF t = ta THEN ca ELSE cb]

MCAmountLimits == {<<1, 2>>}

MCHigh == <<25, 10000>>

MCLow == <<1, 10000>>

MCEmissions == {-1, 1, 2}

MCCommits == <<c1, c2>>

\* Requests that overtake each other, or a crash, or many requests about liens.
MCBudgets ==
  {[requests |-> 5, files |-> 1, inFlight |-> 2, liens |-> 0, crash |-> FALSE],
   [requests |-> 4, files |-> 2, inFlight |-> 2, liens |-> 0, crash |-> FALSE],
   [requests |-> 4, files |-> 2, inFlight |-> 1, liens |-> 0, crash |-> TRUE],
   [requests |-> 7, files |-> 2, inFlight |-> 0, liens |-> 2, crash |-> FALSE]}

File(path, content) == [path |-> path, content |-> content]

MCTrees == {<<>>, <<File(1, x), File(2, x), File(3, x)>>,
            <<File(1, x), File(2, x), File(3, x), File(4, x), File(5, x)>>}
=============================================================================
