---------------------------- MODULE TokenRouting ----------------------------
(***************************************************************************)
(* backend/services/token_routing.py: registries of chains, tokens, bridge *)
(* adapters and routes, and the ProofBook of executed routes.  Names,      *)
(* addresses, fees, times and the event log are left out: no check reads   *)
(* them.  Nothing takes a verification back.                               *)
(***************************************************************************)
EXTENDS Integers, FiniteSets, Sequences

CONSTANTS
  Chains,       \* Chain
  Tokens,       \* token ids
  ChainOf,      \* Tokens -> Chains: a token id begins with its chain
  Adapters,     \* uuids an adapter can get
  Routes,       \* uuids a route can get
  AmountLimits, \* <<min_amount, max_amount>> passed to create_route
  RouteAmounts, \* amounts passed to check_liquidity
  MaxProofs     \* proofs logged in a behaviour (bound)

ASSUME RoutingAssumption ==
  /\ ChainOf \in [Tokens -> Chains]
  /\ AmountLimits \subseteq Nat \X Nat
  /\ RouteAmounts \subseteq Nat
  /\ MaxProofs \in Nat

VARIABLES
  enabledChains,  \* chains of _chains that are enabled
  tokens,         \* _tokens: whether each is verified
  adapters,       \* _adapters
  routes,         \* _routes
  proofs          \* _proofs: the route each names

routingVars == <<enabledChains, tokens, adapters, routes, proofs>>

Adapter == [from : Chains, to : Chains, verified : BOOLEAN, enabled : BOOLEAN]

Route == [from : Chains, to : Chains, source : Tokens, dest : Tokens, adapter : Adapters,
          limits : AmountLimits, status : {"pending_verification", "active", "paused"}]

RoutingTypeOK ==
  /\ enabledChains \subseteq Chains
  /\ DOMAIN tokens \subseteq Tokens
  /\ \A t \in DOMAIN tokens : tokens[t] \in BOOLEAN
  /\ DOMAIN adapters \subseteq Adapters
  /\ \A a \in DOMAIN adapters : adapters[a] \in Adapter
  /\ DOMAIN routes \subseteq Routes
  /\ \A r \in DOMAIN routes : routes[r] \in Route
  /\ proofs \in Seq(Routes)

RoutingInit ==
  /\ enabledChains = Chains
  /\ tokens = [t \in {} |-> t]
  /\ adapters = [a \in {} |-> a]
  /\ routes = [r \in {} |-> r]
  /\ proofs = <<>>

-----------------------------------------------------------------------------
Registered(f, id, entry) == [x \in DOMAIN f \cup {id} |-> IF x = id THEN entry ELSE f[x]]

\* Whether a chain is enabled is shown by list_chains and asked by no route.
EnableChain(c) ==
  /\ enabledChains' = enabledChains \cup {c}
  /\ UNCHANGED <<tokens, adapters, routes, proofs>>

DisableChain(c) ==
  /\ enabledChains' = enabledChains \ {c}
  /\ UNCHANGED <<tokens, adapters, routes, proofs>>

RegisterToken(t, verified) ==
  /\ t \notin DOMAIN tokens
  /\ tokens' = Registered(tokens, t, verified)
  /\ UNCHANGED <<enabledChains, adapters, routes, proofs>>

VerifyToken(t) ==
  /\ tokens' = [tokens EXCEPT ![t] = TRUE]
  /\ UNCHANGED <<enabledChains, adapters, routes, proofs>>

RegisterAdapter(a, from, to, verified) ==
  /\ a \notin DOMAIN adapters
  /\ adapters' = Registered(adapters, a,
       [from |-> from, to |-> to, verified |-> verified, enabled |-> FALSE])
  /\ UNCHANGED <<enabledChains, tokens, routes, proofs>>

VerifyAdapter(a) ==
  /\ adapters' = [adapters EXCEPT ![a].verified = TRUE, ![a].enabled = TRUE]
  /\ UNCHANGED <<enabledChains, tokens, routes, proofs>>

EnableAdapter(a) ==
  /\ adapters[a].verified
  /\ adapters' = [adapters EXCEPT ![a].enabled = TRUE]
  /\ UNCHANGED <<enabledChains, tokens, routes, proofs>>

DisableAdapter(a) ==
  /\ adapters' = [adapters EXCEPT ![a].enabled = FALSE]
  /\ UNCHANGED <<enabledChains, tokens, routes, proofs>>

\* Mutant of Carries: only one end of the adapter is compared.
CarriesFrom(a, source, dest) ==
  adapters[a].verified /\ adapters[a].from = ChainOf[source]

Carries(a, source, dest) ==
  /\ adapters[a].verified
  /\ adapters[a].from = ChainOf[source]
  /\ adapters[a].to = ChainOf[dest]

\* Neither token need be verified, nor the adapter enabled.
CreateRoute(r, source, dest, a, limits) ==
  /\ r \notin DOMAIN routes
  /\ Carries(a, source, dest)
  /\ routes' = Registered(routes, r,
       [from |-> ChainOf[source], to |-> ChainOf[dest], source |-> source, dest |-> dest,
        adapter |-> a, limits |-> limits, status |-> "pending_verification"])
  /\ UNCHANGED <<enabledChains, tokens, adapters, proofs>>

\* A route is made active from any status, without a look at its adapter.
VerifyRoute(r) ==
  /\ routes' = [routes EXCEPT ![r].status = "active"]
  /\ UNCHANGED <<enabledChains, tokens, adapters, proofs>>

PauseRoute(r) ==
  /\ routes' = [routes EXCEPT ![r].status = "paused"]
  /\ UNCHANGED <<enabledChains, tokens, adapters, proofs>>

\* The route a proof names is not looked up.
LogRouteProof(r) ==
  /\ Len(proofs) < MaxProofs
  /\ proofs' = Append(proofs, r)
  /\ UNCHANGED <<enabledChains, tokens, adapters, routes>>

RoutingNext ==
  \/ \E c \in Chains : EnableChain(c) \/ DisableChain(c)
  \/ \E t \in Tokens, verified \in BOOLEAN : RegisterToken(t, verified)
  \/ \E t \in DOMAIN tokens : VerifyToken(t)
  \/ \E a \in Adapters, from, to \in Chains, verified \in BOOLEAN :
       RegisterAdapter(a, from, to, verified)
  \/ \E a \in DOMAIN adapters : VerifyAdapter(a) \/ EnableAdapter(a) \/ DisableAdapter(a)
  \/ \E r \in Routes, source, dest \in DOMAIN tokens, a \in DOMAIN adapters,
        limits \in AmountLimits : CreateRoute(r, source, dest, a, limits)
  \/ \E r \in DOMAIN routes : VerifyRoute(r) \/ PauseRoute(r)
  \/ \E r \in Routes : LogRouteProof(r)

-----------------------------------------------------------------------------
FindRoutes(from, to) ==
  {r \in DOMAIN routes : routes[r].from = from /\ routes[r].to = to /\ routes[r].status = "active"}

\* check_liquidity.
Sufficient(r, amount) ==
  /\ routes[r].status = "active"
  /\ amount \in routes[r].limits[1]..routes[r].limits[2]
  /\ adapters[routes[r].adapter].enabled

\* A route a client is shown between two chains (find_routes,
\* token_routing.py:358) and told is good for an amount (check_liquidity) leads
\* through an adapter that was verified for exactly those chains, which are the
\* chains of its tokens, whatever was disabled, enabled, paused and verified
\* again since it was created.
OfferedRoutesAreSound ==
  \A from, to \in Chains : \A r \in FindRoutes(from, to) :
    (\E amount \in RouteAmounts : Sufficient(r, amount)) =>
      LET a == adapters[routes[r].adapter]
      IN /\ a.verified /\ a.from = from /\ a.to = to
         /\ ChainOf[routes[r].source] = from /\ ChainOf[routes[r].dest] = to
=============================================================================
