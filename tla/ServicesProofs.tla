--------------------------- MODULE ServicesProofs ---------------------------
(***************************************************************************)
(* Theorems about the services that Services composes, other than the      *)
(* ledger and the vault: one invariant for each, kept by every step of the *)
(* composition because the steps of the others leave its state alone.      *)
(***************************************************************************)
EXTENDS BooksProofs

-----------------------------------------------------------------------------
(***************************************************************************)
(* The identity service.                                                   *)
(***************************************************************************)

\* What a step of the composition does to the identities.
LEMMA IdentityFrame == [Next]_serviceVars => IdentityNext \/ UNCHANGED identityVars
  BY DEF Next, serviceVars, LedgerStep, IdentityStep, GasStep, RoutingStep, VolatilityStep,
         DevelopmentStep, BreakerStep, LoginStep, FileStep, AppraisalStep, ReservesNext, Rest

\* Who a tag leads to shows that tag.
TagsAreShown == \A t \in DOMAIN tags : tags[t] \in DOMAIN users /\ users[tags[t]] = t

\* ResolvesToShownTag follows from it.
IdentityInv == IdentityTypeOK /\ TagsAreShown

\* Registering under any spelling, and changing a tag, keep the two tables
\* together.
LEMMA IdentityStepInv == IdentityInv /\ IdentityNext => IdentityInv'
  <1> SUFFICES ASSUME IdentityInv, IdentityNext PROVE IdentityInv'
    OBVIOUS
  <1> USE DEF IdentityInv
  <1>0. \A name \in Spelled : Canonical[name] \in Usernames \cup Tags
    BY IdentityAssumption
  <1>1. ASSUME NEW name \in Spelled, NEW tag \in Tags, Register(name, tag) PROVE IdentityInv'
    <2> DEFINE u == Canonical[name]
    <2> HIDE DEF u
    <2>1. /\ u \in Usernames \ DOMAIN users
          /\ DOMAIN users' = DOMAIN users \cup {u} /\ users'[u] = tag
          /\ \A v \in DOMAIN users : users'[v] = users[v]
          /\ DOMAIN tags' = DOMAIN tags \cup {tag} /\ tags'[tag] = u
          /\ \A t \in DOMAIN tags \ {tag} : tags'[t] = tags[t]
          /\ UNCHANGED <<devices, nonces>>
      BY <1>1 DEF Register, With, u
    <2>2. IdentityTypeOK'
      BY <2>1 DEF IdentityTypeOK
    <2>3. TagsAreShown'
      BY <2>1 DEF TagsAreShown
    <2> QED BY <2>2, <2>3
  <1>2. ASSUME NEW name \in Spelled, NEW tag \in Tags, RotateTag(name, tag) PROVE IdentityInv'
    <2> DEFINE u == Canonical[name]
    <2> HIDE DEF u
    <2>1. /\ u \in DOMAIN users
          /\ DOMAIN users' = DOMAIN users /\ users'[u] = tag
          /\ \A v \in DOMAIN users \ {u} : users'[v] = users[v]
          /\ tags' = With(Retired(u), tag, u)
          /\ UNCHANGED <<devices, nonces>>
      BY <1>2 DEF RotateTag, u
    <2>2. /\ DOMAIN Retired(u) = DOMAIN tags \ {users[u]}
          /\ \A t \in DOMAIN Retired(u) : Retired(u)[t] = tags[t]
      BY DEF Retired, Without
    <2>3. /\ DOMAIN tags' = (DOMAIN tags \ {users[u]}) \cup {tag} /\ tags'[tag] = u
          /\ \A t \in (DOMAIN tags \ {users[u]}) \ {tag} : tags'[t] = tags[t]
      BY <2>1, <2>2 DEF With
    <2>4. IdentityTypeOK'
      BY <2>1, <2>3 DEF IdentityTypeOK
    <2>5. TagsAreShown'
      BY <2>1, <2>3 DEF TagsAreShown
    <2> QED BY <2>4, <2>5
  <1>3. ASSUME NEW name \in Spelled, RegisterDevice(name) PROVE IdentityInv'
    <2> DEFINE n == Canonical[name]
    <2>1. devices' = [devices EXCEPT ![n] = Append(@, FALSE)] /\ UNCHANGED <<users, tags, nonces>>
      BY <1>3 DEF RegisterDevice
    <2>2. n \in Usernames \cup Tags /\ Append(devices[n], FALSE) \in Seq(BOOLEAN)
      BY <1>0, AppendProperties DEF IdentityTypeOK
    <2> HIDE DEF n
    <2> QED BY <2>1, <2>2 DEF IdentityTypeOK, TagsAreShown
  <1>4. ASSUME NEW name \in Spelled, NEW d \in 1..DevicesPerName, RevokeDevice(name, d)
        PROVE IdentityInv'
    <2> DEFINE n == Canonical[name]
    <2>1. /\ d \in DOMAIN devices[n]
          /\ devices' = [devices EXCEPT ![n] = [@ EXCEPT ![d] = TRUE]]
          /\ UNCHANGED <<users, tags, nonces>>
      BY <1>4 DEF RevokeDevice
    <2>2. n \in Usernames \cup Tags /\ devices[n] \in Seq(BOOLEAN)
      BY <1>0 DEF IdentityTypeOK
    <2>3. [devices[n] EXCEPT ![d] = TRUE] \in Seq(BOOLEAN)
      BY <2>1, <2>2, LenProperties, ExceptSeq
    <2> HIDE DEF n
    <2> QED BY <2>1, <2>2, <2>3 DEF IdentityTypeOK, TagsAreShown
  <1>5. ASSUME GenerateNonce \/ \E nonce \in 1..NonceLimit : VerifyNonce(nonce) PROVE IdentityInv'
    BY <1>5 DEF GenerateNonce, VerifyNonce, IdentityTypeOK, TagsAreShown
  <1> QED BY <1>1, <1>2, <1>3, <1>4, <1>5 DEF IdentityNext

\* The tables agree in every state.
LEMMA IdentityInvHolds == Spec => []IdentityInv
  <1>1. Init => IdentityInv
    BY DEF Init, IdentityInit, IdentityInv, IdentityTypeOK, TagsAreShown
  <1>2. IdentityInv /\ UNCHANGED identityVars => IdentityInv'
    BY DEF IdentityInv, IdentityTypeOK, TagsAreShown, identityVars
  <1>3. IdentityInv /\ [Next]_serviceVars => IdentityInv'
    BY <1>2, IdentityFrame, IdentityStepInv
  <1> QED
    BY <1>1, <1>3, PTL DEF Spec

\* For any names, tags and spellings, a tag that resolves leads to the user
\* who shows it.
THEOREM TagsSound == Spec => []ResolvesToShownTag
  <1>1. IdentityInv => ResolvesToShownTag
    BY DEF IdentityInv, TagsAreShown, ResolvesToShownTag, Resolve, Resolvable
  <1> QED
    BY <1>1, IdentityInvHolds, PTL

-----------------------------------------------------------------------------
(***************************************************************************)
(* Token routing.                                                          *)
(***************************************************************************)

\* What a step of the composition does to the routes.
LEMMA RoutingFrame == [Next]_serviceVars => RoutingNext \/ UNCHANGED routingVars
  BY DEF Next, serviceVars, LedgerStep, IdentityStep, GasStep, RoutingStep, VolatilityStep,
         DevelopmentStep, BreakerStep, LoginStep, FileStep, AppraisalStep, ReservesNext

\* Every route leads through a verified adapter between the chains of its ends.
RoutesLead ==
  \A r \in DOMAIN routes :
    /\ routes[r].adapter \in DOMAIN adapters
    /\ Carries(routes[r].adapter, routes[r].source, routes[r].dest)
    /\ routes[r].from = ChainOf[routes[r].source]
    /\ routes[r].to = ChainOf[routes[r].dest]

\* The invariant of the router.
RoutingInv == RoutingTypeOK /\ RoutesLead

\* Every operation of the router keeps its routes between the chains of their
\* tokens.
LEMMA RoutingStepInv == RoutingInv /\ RoutingNext => RoutingInv'
  <1> SUFFICES ASSUME RoutingInv, RoutingNext PROVE RoutingInv'
    OBVIOUS
  <1> USE DEF RoutingInv, RoutingTypeOK
  <1>1. ASSUME NEW c \in Chains, EnableChain(c) \/ DisableChain(c) PROVE RoutingInv'
    BY <1>1 DEF EnableChain, DisableChain, RoutesLead, Carries
  <1>2. ASSUME NEW t \in Tokens, NEW v \in BOOLEAN, RegisterToken(t, v) PROVE RoutingInv'
    BY <1>2 DEF RegisterToken, Registered, RoutesLead, Carries
  <1>3. ASSUME NEW t \in DOMAIN tokens, VerifyToken(t) PROVE RoutingInv'
    BY <1>3 DEF VerifyToken, RoutesLead, Carries
  <1>4. ASSUME NEW a \in Adapters, NEW from \in Chains, NEW to \in Chains, NEW v \in BOOLEAN,
               RegisterAdapter(a, from, to, v)
        PROVE RoutingInv'
    BY <1>4 DEF RegisterAdapter, Registered, Adapter, RoutesLead, Carries
  <1>5. ASSUME NEW a \in DOMAIN adapters,
                 VerifyAdapter(a) \/ EnableAdapter(a) \/ DisableAdapter(a)
        PROVE RoutingInv'
    <2>1. /\ UNCHANGED <<enabledChains, tokens, routes, proofs>>
          /\ DOMAIN adapters' = DOMAIN adapters
          /\ \A b \in DOMAIN adapters :
               /\ adapters'[b] \in Adapter
               /\ adapters'[b].from = adapters[b].from /\ adapters'[b].to = adapters[b].to
               /\ adapters[b].verified => adapters'[b].verified
      <3>1. CASE VerifyAdapter(a)
        <4> DEFINE verified == [adapters EXCEPT ![a].verified = TRUE]
        <4>1. adapters' = [verified EXCEPT ![a].enabled = TRUE]
          BY <3>1 DEF VerifyAdapter
        <4>2. /\ DOMAIN verified = DOMAIN adapters
              /\ \A b \in DOMAIN adapters :
                   /\ verified[b] \in Adapter
                   /\ verified[b].from = adapters[b].from /\ verified[b].to = adapters[b].to
                   /\ adapters[b].verified => verified[b].verified
          BY DEF Adapter
        <4> HIDE DEF verified
        <4>3. UNCHANGED <<enabledChains, tokens, routes, proofs>>
          BY <3>1 DEF VerifyAdapter
        <4> QED BY <4>1, <4>2, <4>3 DEF Adapter
      <3>2. CASE EnableAdapter(a)
        BY <3>2 DEF EnableAdapter, Adapter
      <3>3. CASE DisableAdapter(a)
        BY <3>3 DEF DisableAdapter, Adapter
      <3> QED BY <1>5, <3>1, <3>2, <3>3
    <2>2. RoutingTypeOK'
      BY <2>1
    <2>3. RoutesLead'
      BY <2>1 DEF RoutesLead, Carries
    <2> QED BY <2>2, <2>3
  <1>6. ASSUME NEW r \in Routes, NEW s \in DOMAIN tokens, NEW d \in DOMAIN tokens,
               NEW a \in DOMAIN adapters, NEW limits \in AmountLimits,
                 CreateRoute(r, s, d, a, limits)
        PROVE RoutingInv'
    <2> DEFINE new == [from |-> ChainOf[s], to |-> ChainOf[d], source |-> s, dest |-> d,
                       adapter |-> a, limits |-> limits, status |-> "pending_verification"]
    <2>1. new \in Route
      BY RoutingAssumption DEF Route
    <2>2. /\ UNCHANGED <<enabledChains, tokens, adapters, proofs>>
          /\ DOMAIN routes' = DOMAIN routes \cup {r} 
          /\ r \notin DOMAIN routes /\ routes'[r] = new
          /\ \A q \in DOMAIN routes : routes'[q] = routes[q]
      BY <1>6 DEF CreateRoute, Registered
    <2>3. RoutingTypeOK'
      BY <2>1, <2>2
    <2>4. RoutesLead'
      BY <2>2, <1>6 DEF RoutesLead, CreateRoute, Carries
    <2> QED BY <2>3, <2>4
  <1>7. ASSUME NEW r \in DOMAIN routes, VerifyRoute(r) \/ PauseRoute(r) PROVE RoutingInv'
    <2>1. /\ UNCHANGED <<enabledChains, tokens, adapters, proofs>>
          /\ DOMAIN routes' = DOMAIN routes
          /\ \A q \in DOMAIN routes :
               /\ routes'[q] \in Route
               /\ \A field \in {"from", "to", "source", "dest", "adapter"} :
                    routes'[q][field] = routes[q][field]
      BY <1>7 DEF VerifyRoute, PauseRoute, Route
    <2>2. RoutingTypeOK'
      BY <2>1
    <2>3. RoutesLead'
      BY <2>1 DEF RoutesLead, Carries, Route
    <2> QED BY <2>2, <2>3
  <1>8. ASSUME NEW r \in Routes, LogRouteProof(r) PROVE RoutingInv'
    BY <1>8 DEF LogRouteProof, RoutesLead, Carries
  <1> QED BY <1>1, <1>2, <1>3, <1>4, <1>5, <1>6, <1>7, <1>8 DEF RoutingNext

\* Routes lead where they say in every state.
LEMMA RoutingInvHolds == Spec => []RoutingInv
  <1>1. Init => RoutingInv
    BY DEF Init, RoutingInit, RoutingInv, RoutingTypeOK, RoutesLead
  <1>2. RoutingInv /\ UNCHANGED routingVars => RoutingInv'
    BY DEF RoutingInv, RoutingTypeOK, RoutesLead, Carries, routingVars
  <1>3. RoutingInv /\ [Next]_serviceVars => RoutingInv'
    BY <1>2, RoutingFrame, RoutingStepInv
  <1> QED
    BY <1>1, <1>3, PTL DEF Spec

\* For any registrations and switches before the call, a route that
\* find_routes offers and check_liquidity finds good leads through an adapter
\* verified for its two chains, those of its tokens.
THEOREM RoutingSound == Spec => []OfferedRoutesAreSound
  <1>1. RoutingInv => OfferedRoutesAreSound
    BY DEF RoutingInv, RoutesLead, Carries, OfferedRoutesAreSound, FindRoutes
  <1> QED
    BY <1>1, RoutingInvHolds, PTL

-----------------------------------------------------------------------------
(***************************************************************************)
(* Proof of volatility.                                                    *)
(***************************************************************************)

\* What a step of the composition does to the signals.
LEMMA VolatilityFrame == [Next]_serviceVars => PovNext \/ UNCHANGED povVars
  BY DEF Next, serviceVars, LedgerStep, IdentityStep, GasStep, RoutingStep, VolatilityStep,
         DevelopmentStep, BreakerStep, LoginStep, FileStep, AppraisalStep, ReservesNext

\* The gates are those of the last evaluation, and nothing was sampled since.
GatesAreDecided ==
  \/ evaluatedAt = -1 /\ unlocked = {}
  \/ /\ evaluatedAt \in 0..povNow
     /\ \A at \in {signals.membraAt, signals.solAt, signals.gasAt} : at <= evaluatedAt
     /\ unlocked = GatesOpen(Fresh(signals, evaluatedAt), VolatilityState(signals.prices),
          signals)

\* The invariant of the gates: no signal is from the future either.
VolatilityInv == 
  /\ PovTypeOK /\ GatesAreDecided
  /\ \A at \in {signals.membraAt, signals.solAt, signals.gasAt} : at <= povNow

\* A sample keeps the list within its length.
LEMMA PushedPrices ==
  ASSUME NEW prices \in Seq(Prices), Len(prices) <= MaxSamples, NEW price \in Prices
  PROVE  Push(prices, price) \in Seq(Prices) /\ Len(Push(prices, price)) <= MaxSamples
  <1> DEFINE grown == Append(prices, price)
  <1>1. grown \in Seq(Prices) /\ Len(grown) = Len(prices) + 1
    BY AppendProperties
  <1>2. grown # <<>>
    BY <1>1
  <1>3. Tail(grown) \in Seq(Prices) /\ Len(Tail(grown)) = Len(prices)
    BY <1>1, <1>2, HeadTailProperties
  <1> QED
    BY <1>1, <1>3, PovAssumption DEF Push

\* Gates are policy actions.
LEMMA GatesAreActions ==
  ASSUME NEW fresh, NEW vol, NEW s PROVE GatesOpen(fresh, vol, s) \subseteq PolicyActions
  BY DEF GatesOpen

\* evaluate_gates decides on the signals as they are now.
LEMMA EvaluateGatesInv ==
  ASSUME VolatilityInv, signals' \in Signals, Len(signals'.prices) <= MaxSamples, EvaluateGates,
         \A at \in {signals'.membraAt, signals'.solAt, signals'.gasAt} : at <= povNow
  PROVE  VolatilityInv'
  <1>1. povNow \in Nat /\ povNow' = povNow /\ evaluatedAt' = povNow /\ povProofs' = povProofs
    BY DEF VolatilityInv, PovTypeOK, EvaluateGates
  <1>2. unlocked' =
          GatesOpen(Fresh(signals', evaluatedAt'), VolatilityState(signals'.prices), signals')
    BY DEF EvaluateGates
  <1>3. PovTypeOK'
    BY <1>1, <1>2, GatesAreActions DEF VolatilityInv, PovTypeOK, Times
  <1>4. GatesAreDecided'
    BY <1>1, <1>2 DEF GatesAreDecided
  <1> QED
    BY <1>1, <1>3, <1>4 DEF VolatilityInv

\* Every feed evaluates the gates again before it returns.
LEMMA VolatilityStepInv == VolatilityInv /\ PovNext => VolatilityInv'
  <1> SUFFICES ASSUME VolatilityInv, PovNext PROVE VolatilityInv'
    OBVIOUS
  <1>0. /\ signals \in Signals /\ Len(signals.prices) <= MaxSamples /\ povNow \in Nat
        /\ \A at \in {signals.membraAt, signals.solAt, signals.gasAt} : at <= povNow
    BY DEF VolatilityInv, PovTypeOK
  <1>1. ASSUME NEW price \in Prices, FeedMembraTwap(price) PROVE VolatilityInv'
    <2> DEFINE pushed == Push(signals.prices, price)
    <2>1. EvaluateGates /\ signals' = [signals EXCEPT !.prices = pushed, !.membraAt = povNow]
      BY <1>1 DEF FeedMembraTwap
    <2>2. pushed \in Seq(Prices) /\ Len(pushed) <= MaxSamples
      BY <1>0, PushedPrices DEF Signals
    <2> HIDE DEF pushed
    <2>3. /\ signals'.prices = pushed /\ signals'.membraAt = povNow
          /\ signals'.solAt = signals.solAt /\ signals'.gasAt = signals.gasAt
          /\ signals' \in Signals
      BY <1>0, <2>1, <2>2 DEF Signals, Times
    <2>4. /\ Len(signals'.prices) <= MaxSamples
          /\ \A at \in {signals'.membraAt, signals'.solAt, signals'.gasAt} : at <= povNow
      BY <1>0, <2>2, <2>3
    <2> QED BY <2>1, <2>3, <2>4, EvaluateGatesInv
  <1>2. CASE FeedSolTwap \/ FeedGasFee
    <2>1. /\ EvaluateGates /\ signals' \in Signals /\ Len(signals'.prices) <= MaxSamples
          /\ \A at \in {signals'.membraAt, signals'.solAt, signals'.gasAt} : at <= povNow
      BY <1>0, <1>2 DEF FeedSolTwap, FeedGasFee, Signals, Times
    <2> QED BY <2>1, EvaluateGatesInv
  <1>3. ASSUME NEW enough \in BOOLEAN,
               \/ UpdateLiquidityDepth(enough) \/ UpdateTreasuryCoverage(enough)
               \/ UpdateGasvaultCoverage(enough)
        PROVE VolatilityInv'
    <2>1. /\ EvaluateGates /\ signals' \in Signals /\ Len(signals'.prices) <= MaxSamples
          /\ \A at \in {signals'.membraAt, signals'.solAt, signals'.gasAt} : at <= povNow
      BY <1>0, <1>3
         DEF UpdateLiquidityDepth, UpdateTreasuryCoverage, UpdateGasvaultCoverage, Signals
    <2> QED BY <2>1, EvaluateGatesInv
  <1>4. ASSUME NEW approved \in BOOLEAN, LogProof(approved) PROVE VolatilityInv'
    <2>1. UNCHANGED <<signals, unlocked, evaluatedAt, povNow>>
      BY <1>4 DEF LogProof
    <2>2. Fresh(signals, povNow) \in BOOLEAN
      BY DEF Fresh
    <2>3. povProofs' \in Seq([approved : BOOLEAN, fresh : BOOLEAN])
      BY <1>4, <2>2 DEF LogProof, VolatilityInv, PovTypeOK
    <2> QED BY <2>1, <2>3 DEF VolatilityInv, PovTypeOK, GatesAreDecided
  <1>5. CASE PovTick
    <2>1. povNow' = povNow + 1 /\ UNCHANGED <<signals, unlocked, evaluatedAt, povProofs>>
      BY <1>5 DEF PovTick
    <2>2. PovTypeOK'
      BY <1>0, <2>1 DEF VolatilityInv, PovTypeOK
    <2>3. GatesAreDecided'
      BY <1>0, <2>1 DEF VolatilityInv, GatesAreDecided
    <2>4. \A at \in {signals'.membraAt, signals'.solAt, signals'.gasAt} : at <= povNow'
      BY <1>0, <2>1 DEF Signals, Times
    <2> QED BY <2>2, <2>3, <2>4 DEF VolatilityInv
  <1> QED BY <1>1, <1>2, <1>3, <1>4, <1>5 DEF PovNext

\* The gates are decided in every state.
LEMMA VolatilityInvHolds == Spec => []VolatilityInv
  <1>1. Init => VolatilityInv
    <2> SUFFICES ASSUME PovInit PROVE VolatilityInv
      BY DEF Init
    <2>1. signals.prices = <<>> /\ signals.membraAt = -1 /\ signals.solAt = -1 /\
            signals.gasAt = -1
      BY DEF PovInit
    <2>2. PovTypeOK
      BY PovAssumption DEF PovInit, PovTypeOK, Signals, Times
    <2> QED
      BY <2>1, <2>2 DEF VolatilityInv, GatesAreDecided, PovInit
  <1>2. VolatilityInv /\ UNCHANGED povVars => VolatilityInv'
    BY DEF VolatilityInv, PovTypeOK, GatesAreDecided, povVars
  <1>3. VolatilityInv /\ [Next]_serviceVars => VolatilityInv'
    BY <1>2, VolatilityFrame, VolatilityStepInv
  <1> QED
    BY <1>1, <1>3, PTL DEF Spec

\* An open gate rests on signals fresh at the last evaluation and on the
\* volatility they show, for any samples, ages and windows.
THEOREM GatesSound == Spec => []OpenGatesRestOnSignals
  <1>1. VolatilityInv => OpenGatesRestOnSignals
    <2> SUFFICES ASSUME VolatilityInv PROVE OpenGatesRestOnSignals
      OBVIOUS
    <2>1. CASE unlocked = {}
      BY <2>1 DEF OpenGatesRestOnSignals
    <2>2. CASE unlocked # {}
      <3> DEFINE vol == VolatilityState(signals.prices)
                 fresh == Fresh(signals, evaluatedAt)
      <3>1. /\ unlocked = GatesOpen(fresh, vol, signals)
            /\ \A at \in {signals.membraAt, signals.solAt, signals.gasAt} : at <= evaluatedAt
        BY <2>2 DEF VolatilityInv, GatesAreDecided
      <3>2. signals \in Signals /\ evaluatedAt \in Int
        BY DEF VolatilityInv, PovTypeOK, Times
      <3> HIDE DEF vol, fresh
      <3>3. \A a \in unlocked \ {"rebase_pause", "treasury_risk_alert"} :
              fresh /\ signals.liquid /\ signals.covered
        BY <3>1 DEF GatesOpen, PolicyActions
      <3>4. "capped_emission_proposal" \in unlocked =>
              vol = "normal" /\ {"rebase_execution", "reward_rate_adjustment"} \subseteq unlocked
        BY <3>1 DEF GatesOpen, PolicyActions
      <3>5. "rebase_execution" \in unlocked /\ vol = "high" => "treasury_risk_alert" \in unlocked
        BY <3>1 DEF GatesOpen, PolicyActions
      <3>6. "gasvault_adjustment" \in unlocked => signals.gasCovered
        BY <3>1 DEF GatesOpen, PolicyActions
      <3>7. fresh => \A at \in {signals.membraAt, signals.solAt, signals.gasAt} :
                       at # -1 /\ evaluatedAt - at <= MaxOracleAge
        BY DEF Fresh, fresh
      <3> QED
        BY <3>1, <3>3, <3>4, <3>5, <3>6, <3>7 DEF OpenGatesRestOnSignals, vol
    <2> QED BY <2>1, <2>2
  <1> QED
    BY <1>1, VolatilityInvHolds, PTL

-----------------------------------------------------------------------------
(***************************************************************************)
(* Proof of development.                                                   *)
(***************************************************************************)

\* What a step of the composition does to the proofs of development.
LEMMA DevelopmentFrame == [Next]_serviceVars => PodNext \/ UNCHANGED podVars
  BY DEF Next, serviceVars, LedgerStep, IdentityStep, GasStep, RoutingStep, VolatilityStep,
         DevelopmentStep, BreakerStep, LoginStep, FileStep, AppraisalStep, ReservesNext

\* What a proof has behind it in each phase.
PhaseEarned(p) ==
  LET proof == devProofs[p] IN
  /\ proof.communityVotes = Cardinality(votes[p])
  /\ proof.phase \in Phases \ {"push", "rejected"} => proof.testsPassed
  /\ proof.phase \in Phases \ {"push", "tests", "rejected"} => proof.securityClean
  /\ proof.phase \in {"governance", "executed"} => Cardinality(votes[p]) >= CommunityRequired
  /\ proof.phase = "executed" => proof.approved

\* What is authorised stays within the cap times the clean scans, and one scan
\* is left for a proof on its way to governance.
Room(n) == EmissionCap * n

Reviewing == {"security_scan", "community_review", "governance"}

WithinScans ==
  /\ \A p \in ProofIds : authorised[p] <= Room(scans[p])
  /\ \A p \in DOMAIN devProofs :
       devProofs[p].phase \in Reviewing => authorised[p] <= Room(scans[p] - 1)

LEMMA RoomGrows ==
  ASSUME NEW n \in Int
  PROVE  /\ Room(n) \in Int /\ Room(n - 1) \in Int
         /\ Room(n) = Room(n - 1) + EmissionCap
         /\ Room(n - 1) <= Room(n)
  BY PodAssumption DEF Room

\* ExecutedWasReviewed follows from it; votes are finitely many, and only for
\* proofs on record.
DevelopmentInv ==
  /\ PodTypeOK
  /\ \A p \in ProofIds : IsFiniteSet(votes[p])
  /\ \A p \in ProofIds \ DOMAIN devProofs : votes[p] = {}
  /\ \A p \in DOMAIN devProofs : PhaseEarned(p)

\* A step on one proof that leaves votes.
LEMMA OneProofStep ==
  ASSUME DevelopmentInv, NEW p \in DOMAIN devProofs, NEW proof \in DevProof,
         devProofs' = [devProofs EXCEPT ![p] = proof], UNCHANGED votes,
         scans' \in [ProofIds -> Nat], authorised' \in [ProofIds -> Int],
         PhaseEarned(p)'
  PROVE  DevelopmentInv'
  <1>1. DOMAIN devProofs' = DOMAIN devProofs /\
          \A q \in DOMAIN devProofs \ {p} : devProofs'[q] = devProofs[q]
    OBVIOUS
  <1>2. devProofs'[p] = proof
    OBVIOUS
  <1>3. \A q \in DOMAIN devProofs \ {p} : PhaseEarned(q)'
    BY <1>1 DEF DevelopmentInv, PhaseEarned
  <1>4. PodTypeOK'
    BY <1>1, <1>2 DEF DevelopmentInv, PodTypeOK
  <1> QED
    BY <1>1, <1>3, <1>4 DEF DevelopmentInv

\* Every phase is entered with what it requires.
LEMMA DevelopmentStepInv == DevelopmentInv /\ PodNext => DevelopmentInv'
  <1> SUFFICES ASSUME DevelopmentInv, PodNext PROVE DevelopmentInv'
    OBVIOUS
  <1>1. ASSUME NEW p \in ProofIds, RecordPush(p) PROVE DevelopmentInv'
    <2> DEFINE new == [phase |-> "push", testsPassed |-> FALSE, securityClean |-> FALSE,
                       communityVotes |-> 0, approved |-> FALSE, emission |-> 0]
    <2>1. new \in DevProof
      BY DEF DevProof, Phases
    <2>2. /\ DOMAIN devProofs' = DOMAIN devProofs \cup {p} /\ p \notin DOMAIN devProofs
          /\ devProofs'[p] = new /\ UNCHANGED <<votes, scans, authorised>>
          /\ \A q \in DOMAIN devProofs : devProofs'[q] = devProofs[q]
      BY <1>1 DEF RecordPush
    <2>3. votes[p] = {} /\ Cardinality({}) = 0
      BY <2>2, FS_EmptySet DEF DevelopmentInv
    <2>4. PhaseEarned(p)'
      BY <2>2, <2>3 DEF PhaseEarned
    <2>5. \A q \in DOMAIN devProofs : PhaseEarned(q)'
      BY <2>2 DEF DevelopmentInv, PhaseEarned
    <2>6. PodTypeOK'
      BY <2>1, <2>2 DEF DevelopmentInv, PodTypeOK
    <2> QED BY <2>2, <2>4, <2>5, <2>6 DEF DevelopmentInv
  <1>2. ASSUME NEW p \in DOMAIN devProofs
       PROVE  p \in ProofIds /\ devProofs[p] \in DevProof /\ PhaseEarned(p)
    BY <1>2 DEF DevelopmentInv, PodTypeOK
  <1>t. scans \in [ProofIds -> Nat] /\ authorised \in [ProofIds -> Int]
    BY DEF DevelopmentInv, PodTypeOK
  <1>3. ASSUME NEW p \in DOMAIN devProofs, NEW ok \in BOOLEAN, RecordTests(p, ok)
        PROVE DevelopmentInv'
    <2> DEFINE new == [devProofs[p] EXCEPT !.testsPassed = ok,
                                           !.phase = IF ok THEN "tests" ELSE "rejected"]
    <2>1. devProofs' = [devProofs EXCEPT ![p] = new] /\ UNCHANGED votes
      <3> DEFINE tested == [devProofs EXCEPT ![p].testsPassed = ok]
      <3>1. devProofs' = [tested EXCEPT ![p].phase = IF ok THEN "tests" ELSE "rejected"]
        BY <1>3 DEF RecordTests
      <3>2. tested = [devProofs EXCEPT ![p] = [devProofs[p] EXCEPT !.testsPassed = ok]]
        OBVIOUS
      <3> QED BY <3>1, <3>2, <1>2, <1>3 DEF RecordTests, DevProof
    <2>2. new \in DevProof
      BY <1>2 DEF DevProof, Phases
    <2>3. PhaseEarned(p)'
      BY <1>2, <2>1 DEF PhaseEarned, DevProof, Phases
    <2>4. scans' \in [ProofIds -> Nat] /\ authorised' \in [ProofIds -> Int]
      BY <1>t, <1>3 DEF RecordTests
    <2> QED BY <2>1, <2>2, <2>3, <2>4, OneProofStep
  <1>4. ASSUME NEW p \in DOMAIN devProofs, NEW clean \in BOOLEAN, RecordSecurity(p, clean)
        PROVE DevelopmentInv'
    <2> DEFINE new == [devProofs[p] EXCEPT !.securityClean = clean,
                                           !.phase = IF clean THEN "security_scan"
                                             ELSE "rejected"]
    <2>1. devProofs' = [devProofs EXCEPT ![p] = new] /\ UNCHANGED votes
      <3> DEFINE scanned == [devProofs EXCEPT ![p].securityClean = clean]
      <3>1. devProofs' = [scanned EXCEPT ![p].phase
              = IF clean THEN "security_scan" ELSE "rejected"]
        BY <1>4 DEF RecordSecurity
      <3>2. scanned = [devProofs EXCEPT ![p] = [devProofs[p] EXCEPT !.securityClean = clean]]
        OBVIOUS
      <3> QED BY <3>1, <3>2, <1>2, <1>4 DEF RecordSecurity, DevProof
    <2>2. new \in DevProof
      BY <1>2 DEF DevProof, Phases
    <2>3. PhaseEarned(p)'
      <3>1. devProofs[p].phase = "tests" /\ devProofs'[p] = new
        BY <1>4, <2>1 DEF RecordSecurity
      <3> QED BY <1>2, <2>1, <3>1 DEF PhaseEarned, DevProof, Phases
    <2>4. scans' \in [ProofIds -> Nat] /\ authorised' \in [ProofIds -> Int]
      BY <1>2, <1>t, <1>4 DEF RecordSecurity
    <2> QED BY <2>1, <2>2, <2>3, <2>4, OneProofStep
  <1>5. ASSUME NEW p \in DOMAIN devProofs, NEW voter \in Voters, NEW approve \in BOOLEAN,
               CastVote(p, voter, approve)
        PROVE DevelopmentInv'
    <2> DEFINE cast == IF approve THEN votes[p] \cup {voter} ELSE votes[p] \ {voter}
               n == Cardinality(cast)
               new == [devProofs[p] EXCEPT !.communityVotes = n,
                         !.phase = IF n >= CommunityRequired
                                   THEN "governance" ELSE "community_review"]
    <2>1. votes' = [votes EXCEPT ![p] = cast] /\ votes'[p] = cast /\ MayVote(p)
      BY <1>2, <1>5 DEF CastVote, DevelopmentInv, PodTypeOK
    <2>2. devProofs' = [devProofs EXCEPT ![p] = new]
      <3> DEFINE counted == [devProofs EXCEPT ![p].communityVotes = n]
      <3> HIDE DEF cast
      <3>1. devProofs' = [counted EXCEPT ![p].phase = IF n >= CommunityRequired THEN "governance"
                                                      ELSE "community_review"]
        BY <1>5, <2>1 DEF CastVote
      <3>2. counted = [devProofs EXCEPT ![p] = [devProofs[p] EXCEPT !.communityVotes = n]]
        OBVIOUS
      <3> HIDE DEF n
      <3> QED BY <3>1, <3>2, <1>2, <1>5 DEF DevProof
    <2>3. IsFiniteSet(cast) /\ n \in Nat /\ cast \in SUBSET Voters
      <3>1. votes[p] \in SUBSET Voters /\ IsFiniteSet(votes[p])
        BY <1>2 DEF DevelopmentInv, PodTypeOK
      <3>2. IsFiniteSet(votes[p] \cup {voter}) /\ IsFiniteSet(votes[p] \ {voter})
        BY <3>1, FS_AddElement, FS_RemoveElement
      <3>3. IsFiniteSet(cast)
        BY <3>2
      <3> QED BY <3>1, <3>3, FS_CardinalityType
    <2> HIDE DEF cast
    <2>4. new \in DevProof
      BY <1>2, <2>3 DEF DevProof, Phases
    <2>5. PhaseEarned(p)'
      <3>1. devProofs'[p] = new /\ votes'[p] = cast
        BY <2>1, <2>2
      <3>2. devProofs[p].phase \in {"security_scan", "community_review"}
        BY <2>1 DEF MayVote
      <3>3. devProofs[p].testsPassed /\ devProofs[p].securityClean
        BY <1>2, <3>2 DEF PhaseEarned, Phases
      <3> QED BY <1>2, <2>3, <3>1, <3>3 DEF PhaseEarned, DevProof, Phases
    <2> HIDE DEF new
    <2>6. \A q \in DOMAIN devProofs \ {p} : PhaseEarned(q)'
      <3>1. \A q \in DOMAIN devProofs \ {p} : devProofs'[q] = devProofs[q] /\ votes'[q] = votes[q]
        BY <2>1, <2>2 DEF DevelopmentInv, PodTypeOK
      <3> QED BY <3>1 DEF DevelopmentInv, PhaseEarned
    <2>7. DOMAIN devProofs' = DOMAIN devProofs /\ PodTypeOK'
      <3>1. scans' = scans /\ authorised' = authorised
        BY <1>5 DEF CastVote
      <3> QED BY <2>1, <2>2, <2>3, <2>4, <3>1 DEF DevelopmentInv, PodTypeOK
    <2>8. \A q \in ProofIds : IsFiniteSet(votes'[q])
      BY <2>1, <2>3 DEF DevelopmentInv, PodTypeOK
    <2>9. \A q \in ProofIds \ DOMAIN devProofs' : votes'[q] = {}
      BY <1>2, <2>1, <2>7 DEF DevelopmentInv, PodTypeOK
    <2> QED BY <2>5, <2>6, <2>7, <2>8, <2>9 DEF DevelopmentInv
  <1>6. ASSUME NEW p \in DOMAIN devProofs, NEW emission \in Emissions,
                 ApproveGovernance(p, emission)
        PROVE DevelopmentInv'
    <2> DEFINE new == [devProofs[p] EXCEPT !.approved = TRUE, !.emission = emission,
                                    !.phase = "executed"]
    <2>1. devProofs' = [devProofs EXCEPT ![p] = new] /\ UNCHANGED votes
      <3> DEFINE approved == [devProofs EXCEPT ![p].approved = TRUE]
                 emitted == [approved EXCEPT ![p].emission = emission]
      <3>1. devProofs' = [emitted EXCEPT ![p].phase = "executed"]
        BY <1>6 DEF ApproveGovernance
      <3>2. approved = [devProofs EXCEPT ![p] = [devProofs[p] EXCEPT !.approved = TRUE]]
        OBVIOUS
      <3>3. emitted = [devProofs EXCEPT ![p]
              = [devProofs[p] EXCEPT !.approved = TRUE, !.emission = emission]]
        BY <3>2, <1>2 DEF DevProof
      <3> QED BY <3>1, <3>3, <1>2, <1>6 DEF ApproveGovernance, DevProof
    <2>2. new \in DevProof
      BY <1>2, PodAssumption DEF DevProof, Phases
    <2>3. PhaseEarned(p)'
      <3>1. devProofs[p].phase = "governance" /\ emission <= EmissionCap /\ devProofs'[p] = new
        BY <1>6, <2>1 DEF ApproveGovernance
      <3> QED BY <1>2, <2>1, <3>1 DEF PhaseEarned, DevProof, Phases
    <2>4. scans' \in [ProofIds -> Nat] /\ authorised' \in [ProofIds -> Int]
      BY <1>2, <1>t, <1>6, PodAssumption DEF ApproveGovernance
    <2> QED BY <2>1, <2>2, <2>3, <2>4, OneProofStep
  <1>7. ASSUME NEW p \in DOMAIN devProofs, RejectGovernance(p) PROVE DevelopmentInv'
    <2> DEFINE new == [devProofs[p] EXCEPT !.phase = "rejected"]
    <2>1. devProofs' = [devProofs EXCEPT ![p] = new] /\ UNCHANGED votes
      BY <1>7 DEF RejectGovernance
    <2>2. new \in DevProof
      BY <1>2 DEF DevProof, Phases
    <2>3. PhaseEarned(p)'
      BY <1>2, <2>1 DEF PhaseEarned, DevProof, Phases
    <2>4. scans' \in [ProofIds -> Nat] /\ authorised' \in [ProofIds -> Int]
      BY <1>t, <1>7 DEF RejectGovernance
    <2> QED BY <2>1, <2>2, <2>3, <2>4, OneProofStep
  <1> QED BY <1>1, <1>3, <1>4, <1>5, <1>6, <1>7 DEF PodNext

\* A clean scan makes room for one emission, and only governance uses it.
LEMMA WithinScansStep == PodTypeOK /\ WithinScans /\ PodNext => WithinScans'
  <1> SUFFICES ASSUME PodTypeOK, WithinScans, PodNext PROVE WithinScans'
    OBVIOUS
  <1>1. /\ \A p \in ProofIds : scans[p] \in Nat /\ authorised[p] \in Int
        /\ DOMAIN devProofs \subseteq ProofIds
        /\ scans \in [ProofIds -> Nat] /\ authorised \in [ProofIds -> Int]
        /\ \A p \in DOMAIN devProofs : devProofs[p] \in DevProof
    BY DEF PodTypeOK
  <1>2. ASSUME UNCHANGED <<scans, authorised>>,
               \A p \in DOMAIN devProofs' :
                 devProofs'[p].phase \in Reviewing =>
                   p \in DOMAIN devProofs /\ devProofs[p].phase \in Reviewing
        PROVE  WithinScans'
    BY <1>2 DEF WithinScans, Room
  <1>3. ASSUME NEW p \in ProofIds, RecordPush(p) PROVE WithinScans'
    BY <1>2, <1>3 DEF RecordPush, Reviewing
  <1>4. ASSUME NEW p \in DOMAIN devProofs, NEW ok \in BOOLEAN, RecordTests(p, ok)
        PROVE  WithinScans'
    <2>1. /\ DOMAIN devProofs' = DOMAIN devProofs
          /\ devProofs'[p].phase = IF ok THEN "tests" ELSE "rejected"
          /\ \A q \in DOMAIN devProofs \ {p} : devProofs'[q] = devProofs[q]
      BY <1>1, <1>4 DEF RecordTests, DevProof
    <2> QED BY <1>2, <1>4, <2>1 DEF RecordTests, Reviewing
  <1>5. ASSUME NEW p \in DOMAIN devProofs, NEW clean \in BOOLEAN, RecordSecurity(p, clean)
        PROVE  WithinScans'
    <2>1. /\ DOMAIN devProofs' = DOMAIN devProofs
          /\ devProofs'[p].phase = IF clean THEN "security_scan" ELSE "rejected"
          /\ \A q \in DOMAIN devProofs \ {p} : devProofs'[q] = devProofs[q]
          /\ authorised' = authorised
      BY <1>1, <1>5 DEF RecordSecurity, DevProof
    <2>2. CASE ~clean
      BY <1>2, <1>5, <2>1, <2>2 DEF RecordSecurity, Reviewing
    <2>3. CASE clean
      <3>1. scans'[p] = scans[p] + 1 /\ \A q \in ProofIds \ {p} : scans'[q] = scans[q]
        BY <1>1, <1>5, <2>3 DEF RecordSecurity
      <3>2. authorised[p] <= Room(scans[p]) /\ scans[p] \in Int /\ scans[p] + 1 \in Int
            /\ authorised[p] \in Int
        BY <1>1 DEF WithinScans
      <3>3. /\ Room(scans[p] + 1) \in Int /\ Room(scans[p]) \in Int
            /\ Room(scans[p]) <= Room(scans[p] + 1)
        <4>1. PICK n \in Int : n = scans[p] + 1
          BY <3>2
        <4>2. n - 1 = scans[p]
          BY <3>2, <4>1
        <4> QED BY <4>1, <4>2, RoomGrows
      <3>4. authorised[p] <= Room(scans'[p]) /\ authorised[p] <= Room(scans'[p] - 1)
        <4>1. scans'[p] - 1 = scans[p]
          BY <3>1, <3>2
        <4> HIDE DEF Room
        <4> QED BY <3>1, <3>2, <3>3, <4>1
      <3>5. \A q \in ProofIds : authorised'[q] <= Room(scans'[q])
        BY <2>1, <3>1, <3>4 DEF WithinScans
      <3>6. \A q \in DOMAIN devProofs' :
              devProofs'[q].phase \in Reviewing => authorised'[q] <= Room(scans'[q] - 1)
        <4> HIDE DEF Room
        <4> QED BY <1>1, <2>1, <3>1, <3>4 DEF WithinScans
      <3> QED BY <3>5, <3>6 DEF WithinScans, Room, Reviewing
    <2> QED BY <2>2, <2>3
  <1>6. ASSUME NEW p \in DOMAIN devProofs, NEW voter \in Voters, NEW approve \in BOOLEAN,
               CastVote(p, voter, approve)
        PROVE  WithinScans'
    <2>1. /\ DOMAIN devProofs' = DOMAIN devProofs
          /\ \A q \in DOMAIN devProofs \ {p} : devProofs'[q] = devProofs[q]
          /\ devProofs[p].phase \in Reviewing
      BY <1>6 DEF CastVote, MayVote, Reviewing
    <2> QED BY <1>2, <1>6, <2>1 DEF CastVote
  <1>7. ASSUME NEW p \in DOMAIN devProofs, NEW emission \in Emissions,
               ApproveGovernance(p, emission)
        PROVE  WithinScans'
    <2>1. /\ DOMAIN devProofs' = DOMAIN devProofs
          /\ devProofs'[p].phase = "executed"
          /\ \A q \in DOMAIN devProofs \ {p} : devProofs'[q] = devProofs[q]
          /\ scans' = scans
          /\ authorised'[p] = authorised[p] + emission
          /\ \A q \in ProofIds \ {p} : authorised'[q] = authorised[q]
          /\ devProofs[p].phase \in Reviewing /\ emission <= EmissionCap
      BY <1>1, <1>7 DEF ApproveGovernance, DevProof, Reviewing
    <2>2. authorised[p] <= Room(scans[p] - 1) /\ authorised[p] \in Int /\ emission \in Int
      BY <1>1, <2>1, PodAssumption DEF WithinScans
    <2>3. /\ Room(scans[p]) \in Int /\ Room(scans[p] - 1) \in Int /\ EmissionCap \in Int
          /\ Room(scans[p]) = Room(scans[p] - 1) + EmissionCap
      BY <1>1, RoomGrows, PodAssumption
    <2>4. authorised'[p] <= Room(scans[p])
      <3> HIDE DEF Room
      <3> QED BY <2>1, <2>2, <2>3
    <2>5. \A q \in ProofIds : authorised'[q] <= Room(scans'[q])
      BY <2>1, <2>4 DEF WithinScans
    <2>6. \A q \in DOMAIN devProofs' :
            devProofs'[q].phase \in Reviewing => authorised'[q] <= Room(scans'[q] - 1)
      BY <1>1, <2>1 DEF WithinScans, Reviewing
    <2> QED BY <2>5, <2>6 DEF WithinScans, Reviewing, Room
  <1>8. ASSUME NEW p \in DOMAIN devProofs, RejectGovernance(p) PROVE WithinScans'
    <2>1. /\ DOMAIN devProofs' = DOMAIN devProofs
          /\ devProofs'[p].phase = "rejected"
          /\ \A q \in DOMAIN devProofs \ {p} : devProofs'[q] = devProofs[q]
      BY <1>1, <1>8 DEF RejectGovernance, DevProof
    <2> QED BY <1>2, <1>8, <2>1 DEF RejectGovernance, Reviewing
  <1> QED BY <1>3, <1>4, <1>5, <1>6, <1>7, <1>8 DEF PodNext

\* Every proof has earned its phase.
LEMMA DevelopmentInvHolds == Spec => []DevelopmentInv
  <1>1. Init => DevelopmentInv
    BY FS_EmptySet DEF Init, PodInit, DevelopmentInv, PodTypeOK
  <1>2. DevelopmentInv /\ UNCHANGED podVars => DevelopmentInv'
    BY DEF DevelopmentInv, PodTypeOK, PhaseEarned, podVars
  <1>3. DevelopmentInv /\ [Next]_serviceVars => DevelopmentInv'
    BY <1>2, DevelopmentFrame, DevelopmentStepInv
  <1> QED
    BY <1>1, <1>3, PTL DEF Spec

\* No emission without room.
LEMMA WithinScansHolds == Spec => []WithinScans
  <1>1. Init => WithinScans
    BY PodAssumption DEF Init, PodInit, WithinScans, Room
  <1>2. WithinScans /\ UNCHANGED podVars => WithinScans'
    BY DEF WithinScans, Room, podVars
  <1>3. DevelopmentInv /\ WithinScans /\ [Next]_serviceVars => WithinScans'
    BY <1>2, DevelopmentFrame, WithinScansStep DEF DevelopmentInv
  <1> QED
    BY <1>1, <1>3, DevelopmentInvHolds, PTL DEF Spec

\* No proof stands before governance or is executed without passed tests, a
\* clean scan and the quorum of the community, and what it was authorised to
\* emit stays within the cap times its clean scans, one of them unused while
\* it is on its way to governance.
THEOREM EmissionsReviewed == Spec => []ExecutedWasReviewed
  <1>1. DevelopmentInv /\ WithinScans => ExecutedWasReviewed
    <2> SUFFICES ASSUME DevelopmentInv, WithinScans, NEW p \in DOMAIN devProofs
                 PROVE  /\ devProofs[p].phase \in {"governance", "executed"} =>
                             /\ devProofs[p].testsPassed /\ devProofs[p].securityClean
                             /\ Cardinality(votes[p]) >= CommunityRequired
                             /\ devProofs[p].communityVotes = Cardinality(votes[p])
                        /\ devProofs[p].phase = "executed" => devProofs[p].approved
                        /\ devProofs[p].phase \in Reviewing =>
                             authorised[p] <= Room(scans[p] - 1)
                        /\ authorised[p] <= Room(scans[p])
      BY DEF ExecutedWasReviewed, Reviewing, Room
    <2> QED
      BY DEF DevelopmentInv, PhaseEarned, Phases, WithinScans, PodTypeOK
  <1> QED
    BY <1>1, DevelopmentInvHolds, WithinScansHolds, PTL

-----------------------------------------------------------------------------
(***************************************************************************)
(* Wallet authentication.                                                  *)
(***************************************************************************)

\* What a step of the composition does to nonces and sessions.
LEMMA LoginFrame == [Next]_serviceVars => AuthNext \/ UNCHANGED authVars
  BY DEF Next, serviceVars, LedgerStep, IdentityStep, GasStep, RoutingStep, VolatilityStep,
         DevelopmentStep, BreakerStep, LoginStep, FileStep, AppraisalStep, ReservesNext, Rest

\* The nonces that opened a session from a place, and those found there.
UsedFrom(from) == {sessions[i].nonce : i \in {j \in DOMAIN sessions : sessions[j].from = from}}

InRedis(n) == nonceKey = n \/ \E r \in Replicas : reading[r] = n

InMemory(n) == \E r \in Replicas : memory[r] = n

\* Nonces are handed out in order, and a refresh token is one of a login.
NoncesAreIssued ==
  /\ nonceKey <= generated
  /\ \A r \in Replicas : memory[r] <= generated /\ reading[r] <= generated
  /\ \A i \in DOMAIN sessions : sessions[i].nonce <= generated

\* A nonce in both places, or used from one of them and in the other, is doubled.
PlacesAreApart ==
  \A n \in Nonces \ (doubled \cup {0}) :
    (InRedis(n) \/ n \in UsedFrom("redis")) => ~InMemory(n) /\ n \notin UsedFrom("memory")

\* A nonce in a memory is in one, and opened no session from it.
MemoryIsSpent ==
  \A r \in Replicas : memory[r] # 0 =>
    /\ memory[r] \notin UsedFrom("memory")
    /\ \A s \in Replicas : memory[s] = memory[r] => s = r

\* A nonce that did not leak has one reader at most, and no login from Redis
\* while it can still be read or deleted there.
RedisIsSpent ==
  \A n \in Nonces \ (leaked \cup {0}) :
    /\ \A r, s \in Replicas : reading[r] = n /\ reading[s] = n => r = s
    /\ InRedis(n) => n \notin UsedFrom("redis")

\* Two logins with one nonce.
LoginsAreApart ==
  \A i, j \in DOMAIN sessions :
    i # j /\ sessions[i].nonce = sessions[j].nonce =>
      \/ sessions[i].from # sessions[j].from /\ sessions[i].nonce \in doubled
      \/ /\ sessions[i].from = "redis" /\ sessions[j].from = "redis"
         /\ sessions[i].nonce \in leaked

\* Refresh tokens are numbered by login; the one in force is not revoked.
TokensAreOrdered ==
  /\ Len(sessions) <= MaxSessions
  /\ refreshKey \in 0..Len(sessions) /\ revoked \subseteq 1..Len(sessions)
  /\ refreshKey \notin revoked

\* The invariant of the logins.
LoginInv ==
  /\ AuthTypeOK /\ NoncesAreIssued
  /\ PlacesAreApart /\ MemoryIsSpent /\ RedisIsSpent /\ LoginsAreApart
  /\ TokensAreOrdered

\* What a login appended.
LEMMA LogInGrows ==
  ASSUME AuthTypeOK, TokensAreOrdered, NEW nonce \in Nonces \ {0},
         NEW from \in {"redis", "memory"}, NEW keeps \in BOOLEAN,
         Len(sessions) < MaxSessions, LogIn(nonce, from, keeps)
  PROVE  /\ sessions' \in Seq(Login)
         /\ DOMAIN sessions' = DOMAIN sessions \cup {Len(sessions) + 1}
         /\ Len(sessions) + 1 \notin DOMAIN sessions
         /\ \A i \in DOMAIN sessions : sessions'[i] = sessions[i]
         /\ sessions'[Len(sessions) + 1] = [nonce |-> nonce, from |-> from]
         /\ TokensAreOrdered'
         /\ refreshKey' \in 0..MaxSessions /\ revoked' \subseteq 1..MaxSessions
  <1> DEFINE login == [nonce |-> nonce, from |-> from]
  <1>1. /\ sessions \in Seq(Login) /\ Len(sessions) \in Nat
        /\ DOMAIN sessions = 1..Len(sessions)
    BY LenProperties DEF AuthTypeOK
  <1>2. login \in Login /\ sessions' = Append(sessions, login)
    BY DEF LogIn, Login
  <1> HIDE DEF login
  <1>3. /\ sessions' \in Seq(Login) /\ Len(sessions') = Len(sessions) + 1
        /\ DOMAIN sessions' = 1..(Len(sessions) + 1)
        /\ \A i \in 1..Len(sessions) : sessions'[i] = sessions[i]
        /\ sessions'[Len(sessions) + 1] = login
    BY <1>1, <1>2, AppendProperties, LenProperties
  <1>4. /\ refreshKey' = (IF keeps THEN Len(sessions) + 1 ELSE refreshKey)
        /\ revoked' = revoked \cup (IF keeps THEN {refreshKey} \ {0} ELSE {Len(sessions) + 1})
    BY <1>3 DEF LogIn
  <1>5. TokensAreOrdered'
    <2>1. Len(sessions') <= MaxSessions
      BY <1>1, <1>3, WalletAuthAssumption
    <2>2. refreshKey \in 0..Len(sessions) /\ revoked \subseteq 1..Len(sessions) /\
            refreshKey \notin revoked
      BY DEF TokensAreOrdered
    <2>3. CASE keeps
      <3>1. refreshKey' = Len(sessions) + 1 /\ revoked' = revoked \cup ({refreshKey} \ {0})
        BY <1>4, <2>3
      <3>2. Len(sessions) \in Nat /\ Len(sessions') = Len(sessions) + 1
        BY <1>1, <1>3
      <3>3. \A k \in revoked' : k \in 1..Len(sessions)
        BY <2>2, <3>1, <3>2
      <3>4. revoked' \subseteq 1..Len(sessions') /\ Len(sessions) + 1 \notin revoked'
        <4>1. \A k \in 1..Len(sessions) : k \in 1..Len(sessions') /\ k # Len(sessions) + 1
          BY <3>2
        <4> QED BY <3>3, <4>1
      <3>5. refreshKey' \in 0..Len(sessions')
        BY <3>1, <3>2
      <3> QED BY <2>1, <3>1, <3>4, <3>5 DEF TokensAreOrdered
    <2>4. CASE ~keeps
      <3>1. refreshKey' = refreshKey /\ revoked' = revoked \cup {Len(sessions) + 1}
        BY <1>4, <2>4
      <3>2. refreshKey' \in 0..Len(sessions') /\ refreshKey' # Len(sessions) + 1
        BY <1>1, <1>3, <2>2, <3>1
      <3>3. revoked' \subseteq 1..Len(sessions')
        <4>1. Len(sessions) \in Nat /\ Len(sessions') = Len(sessions) + 1
          BY <1>1, <1>3
        <4>2. \A k \in revoked : k \in 1..Len(sessions')
          BY <2>2, <4>1
        <4>3. Len(sessions) + 1 \in 1..Len(sessions')
          BY <4>1
        <4> QED BY <3>1, <4>2, <4>3
      <3> QED BY <2>1, <2>2, <3>1, <3>2, <3>3 DEF TokensAreOrdered
    <2> QED BY <2>3, <2>4
  <1>6. refreshKey' \in 0..MaxSessions /\ revoked' \subseteq 1..MaxSessions
    BY <1>5, <1>1, <1>3, WalletAuthAssumption DEF TokensAreOrdered
  <1>7. /\ DOMAIN sessions' = DOMAIN sessions \cup {Len(sessions) + 1}
        /\ Len(sessions) + 1 \notin DOMAIN sessions
    BY <1>1, <1>3
  <1> QED BY <1>1, <1>3, <1>5, <1>6, <1>7 DEF login

\* What a login from a place does to the nonces used, and which pairs it makes.
LEMMA LogInUses ==
  ASSUME NEW nonce, NEW from \in {"redis", "memory"}, NEW n,
         DOMAIN sessions' = DOMAIN sessions \cup {n}, n \notin DOMAIN sessions,
         \A i \in DOMAIN sessions : sessions'[i] = sessions[i],
         sessions'[n] = [nonce |-> nonce, from |-> from]
  PROVE  /\ UsedFrom(from)' = UsedFrom(from) \cup {nonce}
         /\ \A other \in {"redis", "memory"} \ {from} : UsedFrom(other)' = UsedFrom(other)
  BY DEF UsedFrom

\* A new login keeps the others apart if its nonce is new where it was found,
\* or leaked from Redis, and in the other place, unless it is doubled.
LEMMA LoginsStayApart ==
  ASSUME AuthTypeOK, LoginsAreApart,
         NEW nonce \in Nonces, NEW from \in {"redis", "memory"}, NEW n,
         DOMAIN sessions' = DOMAIN sessions \cup {n}, n \notin DOMAIN sessions,
         \A i \in DOMAIN sessions : sessions'[i] = sessions[i],
         sessions'[n] = [nonce |-> nonce, from |-> from],
         doubled' = doubled, leaked \subseteq leaked',
         nonce \in UsedFrom(from) => from = "redis" /\ nonce \in leaked',
         \A other \in {"redis", "memory"} \ {from} : nonce \in UsedFrom(other) => nonce \in doubled
  PROVE  LoginsAreApart'
  <1>1. \A i \in DOMAIN sessions : sessions[i].from \in {"redis", "memory"}
    <2>1. sessions \in Seq(Login)
      BY DEF AuthTypeOK
    <2>2. \A i \in DOMAIN sessions : sessions[i] \in Login
      BY <2>1, ElementOfSeq, LenProperties
    <2> QED BY <2>2 DEF Login
  <1>2. ASSUME NEW i \in DOMAIN sessions, sessions[i].nonce = nonce
        PROVE  \/ sessions[i].from # from /\ nonce \in doubled'
               \/ sessions[i].from = "redis" /\ from = "redis" /\ nonce \in leaked'
    <2>1. nonce \in UsedFrom(sessions[i].from)
      BY <1>2 DEF UsedFrom
    <2> QED BY <1>1, <2>1
  <1>3. SUFFICES ASSUME NEW i \in DOMAIN sessions', NEW j \in DOMAIN sessions', i # j,
                        sessions'[i].nonce = sessions'[j].nonce
                 PROVE  \/ /\ sessions'[i].from # sessions'[j].from
                           /\ sessions'[i].nonce \in doubled'
                        \/ /\ sessions'[i].from = "redis" /\ sessions'[j].from = "redis"
                           /\ sessions'[i].nonce \in leaked'
    BY DEF LoginsAreApart
  <1>4. CASE i \in DOMAIN sessions /\ j \in DOMAIN sessions
    BY <1>3, <1>4 DEF LoginsAreApart
  <1>5. CASE i = n
    <2>1. j \in DOMAIN sessions /\ sessions[j].nonce = nonce
      BY <1>3, <1>5
    <2> QED BY <1>2, <1>5, <2>1
  <1>6. CASE j = n
    <2>1. i \in DOMAIN sessions /\ sessions[i].nonce = nonce
      BY <1>3, <1>6
    <2> QED BY <1>2, <1>6, <2>1
  <1> QED BY <1>4, <1>5, <1>6

\* Every read, deletion, login and fallback, of any replica, keeps it.
LEMMA LoginStepInv == LoginInv /\ AuthNext => LoginInv'
  <1> SUFFICES ASSUME LoginInv, AuthNext PROVE LoginInv'
    OBVIOUS
  <1>0. /\ nonceKey \in Nonces /\ generated \in Nonces /\ Nonces \subseteq Nat
        /\ MaxNonces \in Nat /\ MaxSessions \in Nat
        /\ memory \in [Replicas -> Nonces] /\ reading \in [Replicas -> Nonces]
        /\ \A i \in DOMAIN sessions : sessions[i].nonce \in Nonces \ {0}
        /\ \A from : UsedFrom(from) \subseteq Nonces \ {0}
    <2>1. sessions \in Seq(Login)
      BY DEF LoginInv, AuthTypeOK
    <2>2. \A i \in DOMAIN sessions : sessions[i].nonce \in Nonces \ {0}
      <3>1. \A i \in DOMAIN sessions : sessions[i] \in Login
        BY <2>1, ElementOfSeq, LenProperties
      <3> QED BY <3>1 DEF Login
    <2>3. \A from : UsedFrom(from) \subseteq Nonces \ {0}
      BY <2>2 DEF UsedFrom
    <2> QED BY <2>2, <2>3, WalletAuthAssumption DEF LoginInv, AuthTypeOK, Nonces
  <1>u. \A from : \A n \in UsedFrom(from) : n <= generated
    BY DEF LoginInv, NoncesAreIssued, UsedFrom
  <1>1. ASSUME NEW r \in Replicas, NEW outcome \in {"kept", "refused", "unheard"},
               IssueNonce(r, outcome)
        PROVE LoginInv'
    <2>1. /\ generated < MaxNonces /\ generated' = generated + 1
          /\ UNCHANGED <<refreshKey, reading, sessions, leaked, revoked>>
      BY <1>1 DEF IssueNonce
    <2>2. /\ nonceKey' \in {nonceKey, generated'}
          /\ memory' \in {memory, [memory EXCEPT ![r] = generated']}
          /\ doubled' \in {doubled, doubled \cup {generated'}}
          /\ nonceKey' = nonceKey \/ memory' = memory \/ doubled' = doubled \cup {generated'}
      BY <1>1 DEF IssueNonce
    <2>3. generated' \in Nonces /\ generated < generated' /\ generated' # 0
      BY <1>0, <2>1 DEF Nonces
    <2>4. AuthTypeOK'
      BY <1>0, <2>1, <2>2, <2>3 DEF LoginInv, AuthTypeOK
    <2>5. \A n \in Nonces : n <= generated => n <= generated' /\ n # generated'
      BY <1>0, <2>1, <2>3
    <2>6. NoncesAreIssued'
      <3>1. \A s \in Replicas : memory'[s] \in {memory[s], generated'}
        BY <1>0, <2>2
      <3>2. generated' <= generated'
        BY <2>3, <1>0
      <3>3. nonceKey' <= generated'
        BY <1>0, <2>2, <2>5, <3>2 DEF LoginInv, NoncesAreIssued
      <3>4. \A s \in Replicas : memory'[s] <= generated' /\ reading'[s] <= generated'
        <4>1. \A s \in Replicas : memory[s] <= generated' /\ reading[s] <= generated'
          BY <1>0, <2>5 DEF LoginInv, NoncesAreIssued
        <4> QED BY <2>1, <3>1, <3>2, <4>1
      <3>5. \A i \in DOMAIN sessions' : sessions'[i].nonce <= generated'
        BY <1>0, <2>1, <2>5 DEF LoginInv, NoncesAreIssued
      <3> QED BY <3>3, <3>4, <3>5 DEF NoncesAreIssued
    <2>7. /\ \A from : UsedFrom(from)' = UsedFrom(from) /\ generated' \notin UsedFrom(from)
          /\ ~InRedis(generated') /\ ~InMemory(generated')
      <3>1. \A from : UsedFrom(from)' = UsedFrom(from)
        BY <2>1 DEF UsedFrom
      <3>2. \A from : generated' \notin UsedFrom(from)
        BY <1>0, <1>u, <2>5
      <3>3. ~InRedis(generated') /\ ~InMemory(generated')
        BY <1>0, <2>5 DEF LoginInv, NoncesAreIssued, InRedis, InMemory
      <3> QED BY <3>1, <3>2, <3>3
    <2>8. \A n \in Nonces : n = generated' /\ InRedis(n)' => nonceKey' = n
      BY <1>0, <2>1, <2>2, <2>3, <2>7 DEF InRedis, InMemory
    <2>9. PlacesAreApart'
      <3>1. ASSUME NEW n \in Nonces \ (doubled' \cup {0}),
                   InRedis(n)' \/ n \in UsedFrom("redis")'
            PROVE  ~InMemory(n)' /\ n \notin UsedFrom("memory")'
        <4>1. CASE n = generated'
          <5>1. n \notin UsedFrom("redis")' /\ n \notin UsedFrom("memory")'
            BY <2>7, <4>1
          <5>2. nonceKey' = generated' /\ generated' \notin doubled'
            BY <2>8, <3>1, <4>1, <5>1
          <5>3. nonceKey # generated'
            BY <2>7 DEF InRedis
          <5>4. memory' = memory
            BY <2>2, <5>2, <5>3
          <5> QED BY <2>7, <4>1, <5>1, <5>4 DEF InMemory
        <4>2. CASE n # generated'
          <5>1. n \in Nonces \ (doubled \cup {0})
            BY <2>2
          <5>2. UsedFrom("redis")' = UsedFrom("redis") /\ UsedFrom("memory")' = UsedFrom("memory")
            BY <2>7
          <5>3. InRedis(n) \/ n \in UsedFrom("redis")
            <6>1. InRedis(n)' => InRedis(n)
              BY <2>1, <2>2, <4>2 DEF InRedis
            <6> QED BY <3>1, <5>2, <6>1
          <5>4. ~InMemory(n) /\ n \notin UsedFrom("memory")
            BY <5>1, <5>3 DEF LoginInv, PlacesAreApart
          <5>5. InMemory(n)' => InMemory(n)
            BY <1>0, <2>2, <4>2 DEF InMemory
          <5> QED BY <5>2, <5>4, <5>5
        <4> QED BY <4>1, <4>2
      <3> QED BY <3>1 DEF PlacesAreApart
    <2>10. MemoryIsSpent'
      <3>1. \A s \in Replicas : memory[s] # generated'
        BY <2>7 DEF InMemory
      <3> QED BY <1>0, <2>2, <2>7, <3>1 DEF LoginInv, MemoryIsSpent
    <2>11. RedisIsSpent'
      <3>1. ASSUME NEW n \in Nonces \ (leaked' \cup {0})
            PROVE  /\ \A q, s \in Replicas : reading'[q] = n /\ reading'[s] = n => q = s
                   /\ InRedis(n)' => n \notin UsedFrom("redis")'
        <4>1. n \in Nonces \ (leaked \cup {0}) /\ reading' = reading
          BY <2>1
        <4>2. \A q, s \in Replicas : reading[q] = n /\ reading[s] = n => q = s
          BY <4>1 DEF LoginInv, RedisIsSpent
        <4>3. UsedFrom("redis")' = UsedFrom("redis")
          BY <2>7
        <4>4. CASE n = generated'
          BY <2>7, <4>1, <4>2, <4>3, <4>4
        <4>5. CASE n # generated'
          <5>1. InRedis(n)' => InRedis(n)
            BY <2>1, <2>2, <4>5 DEF InRedis
          <5>2. InRedis(n) => n \notin UsedFrom("redis")
            BY <4>1 DEF LoginInv, RedisIsSpent
          <5> QED BY <4>1, <4>2, <4>3, <5>1, <5>2
        <4> QED BY <4>4, <4>5
      <3> QED BY <3>1 DEF RedisIsSpent
    <2>12. LoginsAreApart'
      BY <2>1, <2>2 DEF LoginInv, LoginsAreApart
    <2>13. TokensAreOrdered'
      BY <2>1 DEF LoginInv, TokensAreOrdered
    <2> QED BY <2>4, <2>6, <2>9, <2>10, <2>11, <2>12, <2>13 DEF LoginInv
  <1>2. ASSUME NEW r \in Replicas, FindNonce(r) PROVE LoginInv'
    <2>1. /\ nonceKey # 0 /\ reading' = [reading EXCEPT ![r] = nonceKey]
          /\ UNCHANGED <<nonceKey, refreshKey, memory, generated, sessions, doubled, revoked>>
      BY <1>2 DEF FindNonce
    <2>2. /\ leaked \subseteq leaked' /\ leaked' \subseteq leaked \cup {nonceKey}
          /\ nonceKey \notin leaked' => \A s \in Replicas : reading[s] # nonceKey
      BY <1>2 DEF FindNonce
    <2>3. /\ \A from : UsedFrom(from)' = UsedFrom(from)
          /\ \A n : InMemory(n)' = InMemory(n)
          /\ \A n : InRedis(n)' => InRedis(n)
      BY <1>0, <2>1 DEF UsedFrom, InMemory, InRedis
    <2>4. AuthTypeOK'
      BY <1>0, <2>1, <2>2 DEF LoginInv, AuthTypeOK
    <2>5. NoncesAreIssued'
      BY <1>0, <2>1 DEF LoginInv, NoncesAreIssued
    <2>6. PlacesAreApart'
      BY <2>1, <2>3 DEF LoginInv, PlacesAreApart
    <2>7. MemoryIsSpent'
      BY <2>1, <2>3 DEF LoginInv, MemoryIsSpent
    <2>8. RedisIsSpent'
      <3>1. ASSUME NEW n \in Nonces \ (leaked' \cup {0})
            PROVE  /\ \A q, s \in Replicas : reading'[q] = n /\ reading'[s] = n => q = s
                   /\ InRedis(n)' => n \notin UsedFrom("redis")'
        <4>1. n \in Nonces \ (leaked \cup {0})
          BY <2>2
        <4>2. \A q, s \in Replicas : reading'[q] = n /\ reading'[s] = n => q = s
          <5>1. CASE n = nonceKey
            BY <1>0, <2>1, <2>2, <5>1
          <5>2. CASE n # nonceKey
            BY <1>0, <2>1, <4>1, <5>2 DEF LoginInv, RedisIsSpent
          <5> QED BY <5>1, <5>2
        <4> QED BY <2>3, <4>1, <4>2 DEF LoginInv, RedisIsSpent
      <3> QED BY <3>1 DEF RedisIsSpent
    <2>9. LoginsAreApart'
      BY <2>1, <2>2 DEF LoginInv, LoginsAreApart
    <2>10. TokensAreOrdered'
      BY <2>1 DEF LoginInv, TokensAreOrdered
    <2> QED BY <2>4, <2>5, <2>6, <2>7, <2>8, <2>9, <2>10 DEF LoginInv
  <1>3. ASSUME NEW r \in Replicas, NEW deletes \in BOOLEAN, NEW signed \in BOOLEAN,
               NEW keeps \in BOOLEAN, DeleteNonce(r, deletes, signed, keeps)
        PROVE LoginInv'
    <2> PICK nonce \in Nonces : nonce = reading[r]
      BY <1>0
    <2>1. /\ nonce # 0 /\ Len(sessions) < MaxSessions
          /\ reading' = [reading EXCEPT ![r] = 0]
          /\ nonceKey' = (IF deletes THEN 0 ELSE nonceKey)
          /\ leaked' = (IF deletes THEN leaked ELSE leaked \cup {nonce})
          /\ UNCHANGED <<memory, generated, doubled>>
          /\ nonce <= generated /\ InRedis(nonce)
      BY <1>0, <1>3 DEF DeleteNonce, LoginInv, NoncesAreIssued, InRedis
    <2>2. \/ LogIn(nonce, "redis", keeps)
          \/ UNCHANGED <<sessions, refreshKey, revoked>>
      BY <1>3 DEF DeleteNonce
    <2>a. /\ \A s \in Replicas \ {r} : reading'[s] = reading[s]
          /\ reading'[r] = 0 /\ reading[r] = nonce
      BY <1>0, <2>1
    <2>3. /\ \A n : InMemory(n)' = InMemory(n)
          /\ \A n \in Nonces \ {0} : InRedis(n)' => InRedis(n)
          /\ nonce \notin leaked' => ~InRedis(nonce)'
      <3>1. \A n \in Nonces \ {0} : InRedis(n)' => InRedis(n)
        BY <2>1, <2>a DEF InRedis
      <3>2. ASSUME nonce \notin leaked' PROVE ~InRedis(nonce)'
        <4>1. deletes /\ nonce \notin leaked
          BY <2>1, <3>2
        <4>2. \A s \in Replicas \ {r} : reading[s] # nonce
          BY <2>1, <2>a, <4>1 DEF LoginInv, RedisIsSpent
        <4>3. \A s \in Replicas : reading'[s] # nonce
          BY <2>1, <2>a, <4>2
        <4>4. nonceKey' # nonce
          BY <2>1, <4>1
        <4> QED BY <4>3, <4>4 DEF InRedis
      <3> QED BY <2>1, <3>1, <3>2 DEF InMemory
    <2>4. CASE UNCHANGED <<sessions, refreshKey, revoked>>
      <3>1. \A from : UsedFrom(from)' = UsedFrom(from)
        BY <2>4 DEF UsedFrom
      <3>2. AuthTypeOK'
        <4>1. /\ nonceKey' \in Nonces /\ reading' \in [Replicas -> Nonces]
              /\ leaked' \subseteq Nonces
          <5>1. 0 \in Nonces /\ leaked \subseteq Nonces
            BY <1>0 DEF LoginInv, AuthTypeOK, Nonces
          <5>2. leaked' \subseteq Nonces
            BY <2>1, <5>1
          <5> QED BY <1>0, <2>1, <5>1, <5>2
        <4> QED BY <2>1, <2>4, <4>1 DEF LoginInv, AuthTypeOK
      <3>3. NoncesAreIssued'
        BY <1>0, <2>1, <2>4, <2>a DEF LoginInv, NoncesAreIssued
      <3>4. PlacesAreApart'
        BY <2>1, <2>3, <3>1 DEF LoginInv, PlacesAreApart
      <3>5. MemoryIsSpent'
        BY <2>1, <3>1 DEF LoginInv, MemoryIsSpent
      <3>6. RedisIsSpent'
        <4>1. \A n \in Nonces \ (leaked' \cup {0}) : n \in Nonces \ (leaked \cup {0})
          BY <2>1
        <4>2. \A n \in Nonces \ (leaked' \cup {0}) :
                \A q, s \in Replicas : reading'[q] = n /\ reading'[s] = n => q = s
          BY <2>a, <4>1 DEF LoginInv, RedisIsSpent
        <4> QED BY <2>3, <3>1, <4>1, <4>2 DEF LoginInv, RedisIsSpent
      <3>7. LoginsAreApart'
        BY <2>1, <2>4 DEF LoginInv, LoginsAreApart
      <3>8. TokensAreOrdered'
        BY <2>4 DEF LoginInv, TokensAreOrdered
      <3> QED BY <3>2, <3>3, <3>4, <3>5, <3>6, <3>7, <3>8 DEF LoginInv
    <2>5. CASE LogIn(nonce, "redis", keeps)
      <3>0. PICK from \in {"redis", "memory"} : from = "redis"
        OBVIOUS
      <3>1. /\ sessions' \in Seq(Login)
            /\ DOMAIN sessions' = DOMAIN sessions \cup {Len(sessions) + 1}
            /\ Len(sessions) + 1 \notin DOMAIN sessions
            /\ \A i \in DOMAIN sessions : sessions'[i] = sessions[i]
            /\ sessions'[Len(sessions) + 1] = [nonce |-> nonce, from |-> from]
            /\ TokensAreOrdered'
            /\ refreshKey' \in 0..MaxSessions /\ revoked' \subseteq 1..MaxSessions
        BY <2>1, <2>5, <3>0, LogInGrows DEF LoginInv
      <3>2. /\ UsedFrom("redis")' = UsedFrom("redis") \cup {nonce}
            /\ UsedFrom("memory")' = UsedFrom("memory")
        BY <3>0, <3>1, LogInUses
      <3>3. AuthTypeOK'
        BY <1>0, <2>1, <3>1 DEF LoginInv, AuthTypeOK, Nonces
      <3>4. NoncesAreIssued'
        <4>1. /\ nonceKey <= generated /\ generated' = generated /\ memory' = memory
              /\ \A s \in Replicas : memory[s] <= generated /\ reading[s] <= generated
              /\ \A i \in DOMAIN sessions : sessions[i].nonce <= generated
          BY <2>1 DEF LoginInv, NoncesAreIssued
        <4>2. nonceKey' <= generated
          BY <1>0, <2>1, <4>1 DEF Nonces
        <4>3. \A s \in Replicas : reading'[s] <= generated
          BY <1>0, <2>a, <4>1 DEF Nonces
        <4>4. \A i \in DOMAIN sessions' : sessions'[i].nonce <= generated
          BY <2>1, <3>1, <4>1
        <4> QED BY <4>1, <4>2, <4>3, <4>4 DEF NoncesAreIssued
      <3>5. PlacesAreApart'
        <4>1. \A n \in Nonces \ {0} : InRedis(n)' \/ n \in UsedFrom("redis")' =>
                InRedis(n) \/ n \in UsedFrom("redis")
          BY <2>1, <2>3, <3>2
        <4> QED BY <2>1, <2>3, <3>2, <4>1 DEF LoginInv, PlacesAreApart
      <3>6. MemoryIsSpent'
        BY <2>1, <3>2 DEF LoginInv, MemoryIsSpent
      <3>7. RedisIsSpent'
        <4>1. \A n \in Nonces \ (leaked' \cup {0}) : n \in Nonces \ (leaked \cup {0})
          BY <2>1
        <4>2. \A n \in Nonces \ (leaked' \cup {0}) :
                \A q, s \in Replicas : reading'[q] = n /\ reading'[s] = n => q = s
          BY <2>a, <4>1 DEF LoginInv, RedisIsSpent
        <4>3. \A n \in Nonces \ (leaked' \cup {0}) : InRedis(n)' => n \notin UsedFrom("redis")'
          <5> SUFFICES ASSUME NEW n \in Nonces \ (leaked' \cup {0}), InRedis(n)'
                       PROVE  n \notin UsedFrom("redis")'
            OBVIOUS
          <5>1. InRedis(n) /\ n # nonce
            BY <2>3 DEF InRedis
          <5>2. n \notin UsedFrom("redis")
            BY <4>1, <5>1 DEF LoginInv, RedisIsSpent
          <5> QED BY <3>2, <5>1, <5>2
        <4> QED BY <4>2, <4>3 DEF RedisIsSpent
      <3>8. LoginsAreApart'
        <4>1. nonce \in UsedFrom("redis") => nonce \in leaked
          BY <2>1 DEF LoginInv, RedisIsSpent
        <4>2. nonce \in UsedFrom("memory") => nonce \in doubled
          BY <2>1 DEF LoginInv, PlacesAreApart
        <4>3. leaked \subseteq leaked' /\ doubled' = doubled
          BY <2>1
        <4> QED BY <2>1, <3>0, <3>1, <4>1, <4>2, <4>3, LoginsStayApart DEF LoginInv
      <3> QED BY <3>1, <3>3, <3>4, <3>5, <3>6, <3>7, <3>8 DEF LoginInv
    <2> QED BY <2>2, <2>4, <2>5
  <1>4. ASSUME NEW r \in Replicas, NEW signed \in BOOLEAN, NEW keeps \in BOOLEAN,
               LogInFromMemory(r, signed, keeps)
        PROVE LoginInv'
    <2> DEFINE nonce == memory[r]
    <2>1. /\ nonce # 0 /\ nonce \in Nonces /\ Len(sessions) < MaxSessions
          /\ memory' = [memory EXCEPT ![r] = 0]
          /\ UNCHANGED <<nonceKey, reading, generated, doubled, leaked>>
          /\ nonce <= generated /\ InMemory(nonce) /\ nonce \notin UsedFrom("memory")
      BY <1>0, <1>4
         DEF LogInFromMemory, Forgotten, LoginInv, NoncesAreIssued, InMemory, MemoryIsSpent
    <2>2. \/ LogIn(nonce, "memory", keeps)
          \/ UNCHANGED <<sessions, refreshKey, revoked>>
      BY <1>4 DEF LogInFromMemory
    <2>a. /\ \A s \in Replicas \ {r} : memory'[s] = memory[s] /\ memory[s] # nonce
          /\ memory'[r] = 0
      BY <1>0, <2>1 DEF LoginInv, MemoryIsSpent
    <2> HIDE DEF nonce
    <2>3. /\ \A n : InRedis(n)' = InRedis(n)
          /\ \A n \in Nonces \ {0} : InMemory(n)' => InMemory(n)
      BY <2>1, <2>a DEF InMemory, InRedis
    <2>4. CASE UNCHANGED <<sessions, refreshKey, revoked>>
      <3>1. \A from : UsedFrom(from)' = UsedFrom(from)
        BY <2>4 DEF UsedFrom
      <3>2. AuthTypeOK'
        BY <1>0, <2>1, <2>4 DEF LoginInv, AuthTypeOK, Nonces
      <3>3. NoncesAreIssued'
        BY <1>0, <2>1, <2>4, <2>a DEF LoginInv, NoncesAreIssued
      <3>4. PlacesAreApart'
        BY <2>1, <2>3, <3>1 DEF LoginInv, PlacesAreApart
      <3>5. MemoryIsSpent'
        BY <2>a, <3>1 DEF LoginInv, MemoryIsSpent
      <3>6. RedisIsSpent'
        BY <2>1, <2>3, <3>1 DEF LoginInv, RedisIsSpent
      <3>7. LoginsAreApart'
        BY <2>1, <2>4 DEF LoginInv, LoginsAreApart
      <3>8. TokensAreOrdered'
        BY <2>4 DEF LoginInv, TokensAreOrdered
      <3> QED BY <3>2, <3>3, <3>4, <3>5, <3>6, <3>7, <3>8 DEF LoginInv
    <2>5. CASE LogIn(nonce, "memory", keeps)
      <3>0. PICK from \in {"redis", "memory"} : from = "memory"
        OBVIOUS
      <3>1. /\ sessions' \in Seq(Login)
            /\ DOMAIN sessions' = DOMAIN sessions \cup {Len(sessions) + 1}
            /\ Len(sessions) + 1 \notin DOMAIN sessions
            /\ \A i \in DOMAIN sessions : sessions'[i] = sessions[i]
            /\ sessions'[Len(sessions) + 1] = [nonce |-> nonce, from |-> from]
            /\ TokensAreOrdered'
            /\ refreshKey' \in 0..MaxSessions /\ revoked' \subseteq 1..MaxSessions
        BY <2>1, <2>5, <3>0, LogInGrows DEF LoginInv
      <3>2. /\ UsedFrom("memory")' = UsedFrom("memory") \cup {nonce}
            /\ UsedFrom("redis")' = UsedFrom("redis")
        BY <3>0, <3>1, LogInUses
      <3>3. AuthTypeOK'
        BY <1>0, <2>1, <3>1 DEF LoginInv, AuthTypeOK, Nonces
      <3>4. NoncesAreIssued'
        <4>1. /\ nonceKey <= generated
              /\ generated' = generated /\ reading' = reading /\ nonceKey' = nonceKey
              /\ \A s \in Replicas : memory[s] <= generated /\ reading[s] <= generated
              /\ \A i \in DOMAIN sessions : sessions[i].nonce <= generated
          BY <2>1 DEF LoginInv, NoncesAreIssued
        <4>2. \A s \in Replicas : memory'[s] <= generated
          BY <1>0, <2>a, <4>1 DEF Nonces
        <4>3. \A i \in DOMAIN sessions' : sessions'[i].nonce <= generated
          BY <2>1, <3>1, <4>1
        <4> QED BY <4>1, <4>2, <4>3 DEF NoncesAreIssued
      <3>5. PlacesAreApart'
        <4>1. ASSUME NEW n \in Nonces \ (doubled' \cup {0}),
                     InRedis(n)' \/ n \in UsedFrom("redis")'
              PROVE  ~InMemory(n)' /\ n \notin UsedFrom("memory")'
          <5>1. ~InMemory(n) /\ n \notin UsedFrom("memory")
            BY <2>1, <2>3, <3>2, <4>1 DEF LoginInv, PlacesAreApart
          <5>2. n # nonce
            BY <2>1, <5>1
          <5> QED BY <2>3, <3>2, <5>1, <5>2
        <4> QED BY <4>1 DEF PlacesAreApart
      <3>6. MemoryIsSpent'
        <4>1. \A s \in Replicas : memory'[s] # 0 => s # r /\ memory'[s] = memory[s] /\
                memory[s] # nonce
          BY <2>a
        <4> QED BY <3>2, <4>1 DEF LoginInv, MemoryIsSpent
      <3>7. RedisIsSpent'
        BY <2>1, <2>3, <3>2 DEF LoginInv, RedisIsSpent
      <3>8. LoginsAreApart'
        <4>1. nonce \in UsedFrom("redis") => nonce \in doubled
          BY <2>1 DEF LoginInv, PlacesAreApart
        <4>2. leaked \subseteq leaked' /\ doubled' = doubled
          BY <2>1
        <4> QED BY <2>1, <3>0, <3>1, <4>1, <4>2, LoginsStayApart DEF LoginInv
      <3> QED BY <3>1, <3>3, <3>4, <3>5, <3>6, <3>7, <3>8 DEF LoginInv
    <2> QED BY <2>2, <2>4, <2>5
  <1>5. CASE LogOut \/ Expire
    <2>1. /\ UNCHANGED <<memory, reading, generated, sessions, doubled, leaked>>
          /\ nonceKey' \in {nonceKey, 0}
          /\ \/ UNCHANGED <<refreshKey, revoked>>
             \/ refreshKey # 0 /\ refreshKey' = 0 /\ revoked' = revoked \cup {refreshKey}
      BY <1>5 DEF LogOut, Expire
    <2>a. /\ \A from : UsedFrom(from)' = UsedFrom(from)
          /\ \A n : InMemory(n)' = InMemory(n)
          /\ \A n \in Nonces \ {0} : InRedis(n)' => InRedis(n)
      BY <2>1 DEF UsedFrom, InMemory, InRedis
    <2>2. /\ Len(sessions) \in Nat /\ refreshKey \in 0..Len(sessions)
          /\ revoked \subseteq 1..Len(sessions) /\ Len(sessions) <= MaxSessions
      BY LenProperties DEF LoginInv, TokensAreOrdered, AuthTypeOK
    <2>3. refreshKey' \in 0..Len(sessions) /\ revoked' \subseteq 1..Len(sessions)
      <3>1. CASE UNCHANGED <<refreshKey, revoked>>
        BY <2>2, <3>1
      <3>2. CASE refreshKey # 0 /\ refreshKey' = 0 /\ revoked' = revoked \cup {refreshKey}
        BY <2>2, <3>2
      <3> QED BY <2>1, <3>1, <3>2
    <2>4. AuthTypeOK'
      <3>1. refreshKey' \in 0..MaxSessions /\ revoked' \subseteq 1..MaxSessions
        BY <1>0, <2>2, <2>3
      <3> QED BY <1>0, <2>1, <3>1 DEF LoginInv, AuthTypeOK, Nonces
    <2>5. NoncesAreIssued'
      <3>1. /\ nonceKey <= generated /\ generated' = generated
            /\ memory' = memory /\ reading' = reading /\ sessions' = sessions
        BY <2>1 DEF LoginInv, NoncesAreIssued
      <3>2. nonceKey' <= generated
        BY <1>0, <2>1, <3>1 DEF Nonces
      <3> QED BY <3>1, <3>2 DEF LoginInv, NoncesAreIssued
    <2>6. PlacesAreApart'
      BY <2>1, <2>a DEF LoginInv, PlacesAreApart
    <2>7. MemoryIsSpent' /\ RedisIsSpent'
      BY <2>1, <2>a DEF LoginInv, MemoryIsSpent, RedisIsSpent
    <2>8. LoginsAreApart'
      BY <2>1 DEF LoginInv, LoginsAreApart
    <2>9. TokensAreOrdered'
      <3>1. refreshKey' \notin revoked'
        BY <2>1, <2>2 DEF LoginInv, TokensAreOrdered
      <3> QED BY <2>1, <2>2, <2>3, <3>1 DEF TokensAreOrdered
    <2> QED BY <2>4, <2>5, <2>6, <2>7, <2>8, <2>9 DEF LoginInv
  <1> QED BY <1>1, <1>2, <1>3, <1>4, <1>5 DEF AuthNext

\* It holds in every state.
LEMMA LoginInvHolds == Spec => []LoginInv
  <1>1. Init => LoginInv
    BY WalletAuthAssumption
         DEF Init, AuthInit, LoginInv, AuthTypeOK, NoncesAreIssued, PlacesAreApart,
       MemoryIsSpent, RedisIsSpent, LoginsAreApart, TokensAreOrdered, UsedFrom, InRedis, InMemory,
       Nonces
  <1>2. LoginInv /\ UNCHANGED authVars => LoginInv'
    BY DEF LoginInv, AuthTypeOK, NoncesAreIssued, PlacesAreApart, MemoryIsSpent, RedisIsSpent,
           LoginsAreApart, TokensAreOrdered, UsedFrom, InRedis, InMemory, authVars
  <1>3. LoginInv /\ [Next]_serviceVars => LoginInv'
    BY <1>2, LoginFrame, LoginStepInv
  <1> QED
    BY <1>1, <1>3, PTL DEF Spec

\* However the replicas' reads and deletions of a key interleave, and whatever
\* Redis did behind an answer that was lost, a nonce opens one session at most,
\* one from each place if it was kept in two, and several only from Redis if it
\* leaked there; and a revoked refresh token is none in force.
THEOREM LoginsSound == Spec => []NonceOpensOneSession
  <1>1. LoginInv => NonceOpensOneSession
    BY DEF LoginInv, LoginsAreApart, TokensAreOrdered, NonceOpensOneSession
  <1> QED
    BY <1>1, LoginInvHolds, PTL

-----------------------------------------------------------------------------
(***************************************************************************)
(* The circuit breaker.                                                    *)
(***************************************************************************)

\* What a step of the composition does to the breaker.
LEMMA BreakerFrame == [Next]_serviceVars => BreakerNext \/ UNCHANGED breakerVars
  BY DEF Next, serviceVars, LedgerStep, IdentityStep, GasStep, RoutingStep, VolatilityStep,
         DevelopmentStep, BreakerStep, LoginStep, FileStep, AppraisalStep, ReservesNext, Rest

\* The failures are counted up to the threshold and the trials up to their
\* limit, for any number of callers.
LEMMA BreakerStepInv == BreakerTypeOK /\ BreakerNext => BreakerTypeOK'
  <1> DEFINE B == [state : {"closed", "open", "half_open"}, failures : 0..FailureThreshold,
                   trials : 0..HalfOpenMaxCalls, age : 0..RecoveryTimeout]
  <1> SUFFICES ASSUME BreakerTypeOK, BreakerNext PROVE BreakerTypeOK'
    OBVIOUS
  <1>1. breaker \in B /\ running \subseteq Callers /\ diluted \in BOOLEAN
    BY DEF BreakerTypeOK
  <1>2. ASSUME NEW c \in Callers, Call(c) PROVE BreakerTypeOK'
    <2> DEFINE b == Retried(breaker)
    <2>1. b \in B
      <3>1. 0 \in 0..HalfOpenMaxCalls
        BY BreakerAssumption
      <3>2. [breaker EXCEPT !.state = "half_open", !.trials = 0] \in B
        BY <1>1, <3>1
      <3> QED BY <1>1, <3>2 DEF Retried
    <2>2. LetsThrough(b)
      BY <1>2 DEF Call, Admits
    <2> HIDE DEF b
    <2>3. CASE b.state = "half_open"
      <3>1. b.trials + 1 \in 0..HalfOpenMaxCalls
        BY <2>1, <2>2, <2>3, BreakerAssumption DEF LetsThrough
      <3>2. breaker' = [b EXCEPT !.trials = b.trials + 1]
        BY <1>2, <2>3 DEF Call, b
      <3>3. breaker' \in B
        BY <2>1, <3>1, <3>2
      <3> QED BY <1>1, <1>2, <3>3 DEF BreakerTypeOK, Call
    <2>4. CASE b.state # "half_open"
      BY <1>1, <1>2, <2>1, <2>4 DEF BreakerTypeOK, Call, b
    <2> QED BY <2>3, <2>4
  <1>3. ASSUME NEW c \in Callers, OnSuccess(c) PROVE BreakerTypeOK'
    <2>1. 0 \in 0..FailureThreshold /\ 0 \in 0..HalfOpenMaxCalls
      BY BreakerAssumption
    <2>2. breaker' \in B
      BY <1>1, <1>3, <2>1 DEF OnSuccess
    <2> QED BY <1>1, <1>3, <2>2 DEF BreakerTypeOK, OnSuccess
  <1>4. ASSUME NEW c \in Callers, OnFailure(c) PROVE BreakerTypeOK'
    <2> DEFINE counted == IF breaker.failures < FailureThreshold THEN breaker.failures + 1
                          ELSE FailureThreshold
    <2>1. counted \in 0..FailureThreshold /\ 0 \in 0..RecoveryTimeout
      BY <1>1, BreakerAssumption
    <2>2. breaker' = [breaker EXCEPT !.failures = counted, !.age = 0,
                        !.state = IF counted >= FailureThreshold THEN "open" ELSE @]
      BY <1>4 DEF OnFailure
    <2> HIDE DEF counted
    <2>3. breaker' \in B
      BY <1>1, <2>1, <2>2
    <2> QED BY <1>1, <1>4, <2>3 DEF BreakerTypeOK, OnFailure
  <1>5. ASSUME BreakerTick PROVE BreakerTypeOK'
    <2>1. breaker.age + 1 \in 0..RecoveryTimeout
      BY <1>1, <1>5, BreakerAssumption DEF BreakerTick
    <2>2. breaker' = [breaker EXCEPT !.age = breaker.age + 1]
      BY <1>5 DEF BreakerTick
    <2>3. breaker' \in B
      BY <1>1, <2>1, <2>2
    <2> QED BY <1>1, <1>5, <2>3 DEF BreakerTypeOK, BreakerTick
  <1> QED BY <1>2, <1>3, <1>4, <1>5 DEF BreakerNext

\* The breaker is well typed in every state.
LEMMA BreakerTyped == Spec => []BreakerTypeOK
  <1>1. Init => BreakerTypeOK
    <2>1. 0 \in 0..FailureThreshold /\ 0 \in 0..HalfOpenMaxCalls /\
            RecoveryTimeout \in 0..RecoveryTimeout
      BY BreakerAssumption
    <2>2. [state |-> "closed", failures |-> 0, trials |-> 0, age |-> RecoveryTimeout]
            \in [state : {"closed", "open", "half_open"}, failures : 0..FailureThreshold,
                trials : 0..HalfOpenMaxCalls, age : 0..RecoveryTimeout]
      BY <2>1
    <2>3. Init =>
            breaker = [state |-> "closed", failures |-> 0, trials |-> 0, age |-> RecoveryTimeout]
                  /\ running = {} /\ diluted = FALSE
      BY DEF Init, BreakerInit
    <2> QED BY <2>2, <2>3 DEF BreakerTypeOK
  <1>2. BreakerTypeOK /\ UNCHANGED breakerVars => BreakerTypeOK'
    BY DEF BreakerTypeOK, breakerVars
  <1>3. BreakerTypeOK /\ [Next]_serviceVars => BreakerTypeOK'
    BY <1>2, BreakerFrame, BreakerStepInv
  <1> QED BY <1>1, <1>3, PTL DEF Spec

\* While no success came in at the wrong time, a circuit that was opened has
\* its failures counted in full, and somebody tries in a half-open one.
BreakerInv ==
  /\ BreakerTypeOK
  /\ ~diluted =>
       /\ breaker.state # "closed" => breaker.failures = FailureThreshold
       /\ breaker.state = "half_open" => running # {}

\* What a refusal waits for: time, while the circuit is open, or a caller who
\* is inside the function, when it is half-open (call, circuit_breaker.py:51).
RefusalsPass ==
  ~Admits /\ ~diluted =>
    \/ breaker.state = "open" /\ breaker.age < RecoveryTimeout
    \/ breaker.state = "half_open" /\ running # {}

\* The first call to end in a half-open circuit closes or opens it.
TrialsDecide ==
  [][\A c \in running \ running' :
       ~diluted /\ breaker.state = "half_open" => breaker'.state # "half_open"]_breakerVars

\* No step of the breaker leaves a half-open circuit without a caller.
LEMMA BreakerInvStep == BreakerInv /\ BreakerNext => BreakerInv'
  <1> SUFFICES ASSUME BreakerInv, BreakerNext PROVE BreakerInv'
    OBVIOUS
  <1>1. BreakerTypeOK /\ BreakerTypeOK'
    BY BreakerStepInv DEF BreakerInv
  <1>2. FailureThreshold \in Nat \ {0} /\ breaker.failures \in 0..FailureThreshold
    BY <1>1, BreakerAssumption DEF BreakerTypeOK
  <1> DEFINE Kept == ~diluted =>
                       /\ breaker.state # "closed" => breaker.failures = FailureThreshold
                       /\ breaker.state = "half_open" => running # {}
  <1>3. Kept
    BY DEF BreakerInv
  <1>4. ASSUME NEW c \in Callers, Call(c) PROVE Kept'
    <2> DEFINE b == Retried(breaker)
    <2>1. /\ running' = running \cup {c} /\ diluted' = diluted
          /\ breaker' = IF b.state = "half_open" THEN [b EXCEPT !.trials = @ + 1] ELSE b
      BY <1>4 DEF Call
    <2>2. /\ b.failures = breaker.failures
          /\ b.state = breaker.state \/ (breaker.state = "open" /\ b.state = "half_open")
      BY <1>1 DEF Retried, BreakerTypeOK
    <2>3. b \in [state : {"closed", "open", "half_open"}, failures : 0..FailureThreshold,
                 trials : 0..HalfOpenMaxCalls, age : 0..RecoveryTimeout]
      <3>1. 0 \in 0..HalfOpenMaxCalls
        BY BreakerAssumption
      <3>2. [breaker EXCEPT !.state = "half_open", !.trials = 0]
              \in [state : {"closed", "open", "half_open"}, failures : 0..FailureThreshold,
                   trials : 0..HalfOpenMaxCalls, age : 0..RecoveryTimeout]
        BY <1>1, <3>1 DEF BreakerTypeOK
      <3> QED BY <1>1, <3>2 DEF Retried, BreakerTypeOK
    <2> HIDE DEF b
    <2>4. breaker'.failures = b.failures /\ breaker'.state = b.state
      <3>1. CASE b.state = "half_open"
        <4>1. breaker' = [b EXCEPT !.trials = b.trials + 1]
          BY <2>1, <3>1
        <4> QED BY <2>3, <4>1
      <3>2. CASE b.state # "half_open"
        BY <2>1, <3>2
      <3> QED BY <3>1, <3>2
    <2> QED BY <1>3, <2>1, <2>2, <2>4
  <1>5. ASSUME NEW c \in Callers, OnSuccess(c) PROVE Kept'
    <2>1. CASE breaker.state = "half_open"
      BY <1>1, <1>5, <2>1 DEF OnSuccess, BreakerTypeOK
    <2>2. CASE breaker.state = "open"
      BY <1>1, <1>5, <2>2 DEF OnSuccess, BreakerTypeOK
    <2>3. CASE breaker.state = "closed"
      BY <1>1, <1>5, <2>3 DEF OnSuccess, BreakerTypeOK
    <2> QED BY <1>1, <2>1, <2>2, <2>3 DEF BreakerTypeOK
  <1>6. ASSUME NEW c \in Callers, OnFailure(c) PROVE Kept'
    <2> DEFINE counted == IF breaker.failures < FailureThreshold THEN breaker.failures + 1
                          ELSE FailureThreshold
    <2>1. /\ diluted' = diluted
          /\ breaker' = [breaker EXCEPT !.failures = counted, !.age = 0,
                           !.state = IF counted >= FailureThreshold THEN "open" ELSE @]
      BY <1>6 DEF OnFailure
    <2>2. /\ counted \in 0..FailureThreshold
          /\ breaker.failures = FailureThreshold => counted = FailureThreshold
      BY <1>2
    <2> HIDE DEF counted
    <2>3. /\ breaker'.failures = counted
          /\ breaker'.state = IF counted >= FailureThreshold THEN "open" ELSE breaker.state
      BY <1>1, <2>1 DEF BreakerTypeOK
    <2>4. counted >= FailureThreshold <=> counted = FailureThreshold
      BY <1>2, <2>2
    <2>5. CASE counted = FailureThreshold
      BY <2>3, <2>4, <2>5
    <2>6. CASE counted # FailureThreshold
      <3>1. breaker'.state = breaker.state /\ breaker.failures # FailureThreshold
        BY <2>2, <2>3, <2>4, <2>6
      <3>2. ~diluted => breaker.state = "closed"
        BY <1>3, <3>1
      <3> QED BY <2>1, <3>1, <3>2
    <2> QED BY <2>5, <2>6
  <1>7. ASSUME BreakerTick PROVE Kept'
    BY <1>1, <1>3, <1>7 DEF BreakerTick, BreakerTypeOK
  <1>8. Kept'
    BY <1>4, <1>5, <1>6, <1>7 DEF BreakerNext
  <1> QED BY <1>1, <1>8 DEF BreakerInv

\* The invariant of the breaker holds in every state.
LEMMA BreakerInvHolds == Spec => []BreakerInv
  <1>2. Init => ~(breaker.state # "closed")
    BY DEF Init, BreakerInit
  <1>3. Init /\ BreakerTypeOK => BreakerInv
    BY <1>2 DEF BreakerInv
  <1>4. BreakerInv /\ UNCHANGED breakerVars => BreakerInv'
    BY DEF BreakerInv, BreakerTypeOK, breakerVars
  <1>5. BreakerInv /\ [Next]_serviceVars => BreakerInv'
    BY <1>4, BreakerFrame, BreakerInvStep
  <1> QED BY <1>3, <1>5, BreakerTyped, PTL DEF Spec

\* Unless a success came in while the circuit was open, every refusal ends with
\* time or with a caller who is still inside: the safety half of
\* BreakerRecovers, for any number of callers and any thresholds.
THEOREM RefusalsEnd == Spec => []RefusalsPass
  <1>1. BreakerInv => RefusalsPass
    <2> SUFFICES ASSUME BreakerInv, ~Admits, ~diluted PROVE RefusalsPass
      BY DEF RefusalsPass
    <2>1. BreakerTypeOK /\ (breaker.state = "half_open" => running # {})
      BY DEF BreakerInv
    <2>2. CASE breaker.state = "closed"
      BY <2>1, <2>2 DEF Admits, Retried, LetsThrough, BreakerTypeOK
    <2>3. CASE breaker.state = "half_open"
      BY <2>1, <2>3 DEF RefusalsPass
    <2>4. CASE breaker.state = "open"
      <3>1. ASSUME breaker.age >= RecoveryTimeout PROVE FALSE
        <4>1. /\ Retried(breaker).state = "half_open" /\ Retried(breaker).trials = 0
          BY <2>1, <2>4, <3>1 DEF Retried, BreakerTypeOK
        <4> QED BY <4>1, BreakerAssumption DEF Admits, LetsThrough
      <3>2. breaker.age \in Int /\ RecoveryTimeout \in Int
        BY <2>1, BreakerAssumption DEF BreakerTypeOK
      <3> QED BY <2>4, <3>1, <3>2 DEF RefusalsPass
    <2> QED BY <2>1, <2>2, <2>3, <2>4 DEF BreakerTypeOK
  <1> QED BY <1>1, BreakerInvHolds, PTL

\* Whoever ends first in a half-open circuit decides it, on the same condition:
\* a failure opens it again, a success closes it.
THEOREM FirstTrialDecides == Spec => TrialsDecide
  <1>1. BreakerInv /\ BreakerNext =>
          \A c \in running \ running' :
            ~diluted /\ breaker.state = "half_open" => breaker'.state # "half_open"
    <2> SUFFICES ASSUME BreakerInv, BreakerNext, NEW c \in running \ running', ~diluted,
                        breaker.state = "half_open"
                 PROVE  breaker'.state # "half_open"
      OBVIOUS
    <2>1. BreakerTypeOK /\ breaker.failures = FailureThreshold /\ FailureThreshold \in Nat
      BY BreakerAssumption DEF BreakerInv
    <2>2. PICK d \in Callers : OnSuccess(d) \/ OnFailure(d)
      BY DEF BreakerNext, Call, BreakerTick
    <2>3. CASE OnSuccess(d)
      BY <2>1, <2>3 DEF OnSuccess, BreakerTypeOK
    <2>4. CASE OnFailure(d)
      BY <2>1, <2>4 DEF OnFailure, BreakerTypeOK
    <2> QED BY <2>2, <2>3, <2>4
  <1>2. BreakerInv /\ [Next]_serviceVars =>
          [\A c \in running \ running' :
             ~diluted /\ breaker.state = "half_open" => breaker'.state # "half_open"]_breakerVars
    BY <1>1, BreakerFrame DEF breakerVars
  <1> QED BY <1>2, BreakerInvHolds, PTL DEF Spec, TrialsDecide

-----------------------------------------------------------------------------
(***************************************************************************)
(* FileLife: the registry, its SKUs and the liens.                         *)
(***************************************************************************)

\* What a step of the composition does to the files.
LEMMA FileFrame == [Next]_serviceVars => FileNext \/ UNCHANGED fileVars
  BY DEF Next, serviceVars, LedgerStep, IdentityStep, GasStep, RoutingStep, VolatilityStep,
         DevelopmentStep, BreakerStep, LoginStep, FileStep, AppraisalStep, ReservesNext, Rest

\* The least of positions.
LEMMA LeastOf ==
  ASSUME NEW n \in Nat, NEW S, \A k \in S : k \in 1..n, S # {}
  PROVE  Min(S) \in S /\ \A k \in S : Min(S) <= k
  <1>1. IsFiniteSet(S)
    <2>1. IsFiniteSet(1..n)
      BY FS_Interval
    <2>2. S \in SUBSET (1..n)
      OBVIOUS
    <2> QED BY <2>1, <2>2, FS_Subset
  <1>2. \A i \in S : i \in Int
    OBVIOUS
  <1>3. \E j \in S : \A i \in S : j <= i
    BY <1>1, <1>2, LeastExists
  <1> QED BY <1>3 DEF Min

\* The greatest of positions.
LEMMA GreatestOf ==
  ASSUME NEW n \in Nat, NEW S, \A k \in S : k \in 1..n, S # {}
  PROVE  Max(S) \in S /\ \A k \in S : Max(S) >= k
  <1>1. IsFiniteSet(S)
    <2>1. IsFiniteSet(1..n)
      BY FS_Interval
    <2>2. S \in SUBSET (1..n)
      OBVIOUS
    <2> QED BY <2>1, <2>2, FS_Subset
  <1>2. \A i \in S : i \in Int
    OBVIOUS
  <1>3. \E j \in S : \A i \in S : i <= j
    BY <1>1, <1>2, GreatestExists
  <1>4. \E j \in S : \A i \in S : j >= i
    BY <1>2, <1>3
  <1> QED BY <1>4 DEF Max

\* A commit is recorded, and was made for this file.
MadeFor(c, i) == c \in DOMAIN gitCommits /\ gitCommits[c].file = i

\* A transaction is recorded, and its memo names this file.
AnchoredFor(tx, i) == \E k \in DOMAIN anchors : anchors[k].tx = tx /\ anchors[k].memo.file = i

\* Commits come in their order, and a commit is in its SKU; a signature is one
\* of its memo.
RecordsInOrder ==
  /\ IsFiniteSet(DOMAIN gitCommits)
  /\ DOMAIN gitCommits = {Commits[k] : k \in 1..Cardinality(DOMAIN gitCommits)}
  /\ Cardinality(DOMAIN gitCommits) \in 0..Len(Commits)
  /\ \A c \in DOMAIN gitCommits : gitCommits[c].sku.commit = c
  /\ \A k, l \in DOMAIN anchors :
       anchors[k].tx = anchors[l].tx => anchors[k].memo = anchors[l].memo

\* What a SKU spells is recorded, its commit for the file that bears it; so is
\* its transaction, until an evaluation gives the SKU a score.
SkusBacked ==
  \A i \in DOMAIN files :
    /\ files[i].sku.commit # None => MadeFor(files[i].sku.commit, i)
    /\ files[i].sku.tx # None => \E k \in DOMAIN anchors : anchors[k].tx = files[i].sku.tx
    /\ files[i].sku.tx # None /\ files[i].sku.kpi = 0 => AnchoredFor(files[i].sku.tx, i)

\* So is what a handler read before its await.
HandlersBacked ==
  \A n \in DOMAIN inFlight :
    /\ inFlight[n].memo.file \in DOMAIN files
    /\ inFlight[n].memo.commit # None => MadeFor(inFlight[n].memo.commit, inFlight[n].memo.file)

\* An event tells of every stage, or a crash lost it.
EventsTold == \A i \in DOMAIN files : <<i, files[i].stage>> \in events \cup untold

\* The invariant of the registry.
FileInv == FileTypeOK /\ RecordsInOrder /\ SkusBacked /\ HandlersBacked /\ EventsTold

\* Handlers end, or are as they were.
FewerHandlers == \A n \in DOMAIN inFlight' : n \in DOMAIN inFlight /\ inFlight'[n] = inFlight[n]

\* The types of what is filed beside the SKUs.
RecordsTyped ==
  /\ appraised \subseteq Sku
  /\ \A s \in DOMAIN scores : s \in Sku /\ scores[s] \in 0..3
  /\ \A s \in DOMAIN collateral :
       s \in Sku /\ collateral[s] \in [shown : {"none", "pledged"}, cert : Nat]
  /\ liens \in Seq([sku : Sku, status : {"pledged", "released"}, cert : Nat, file : DOMAIN files])
  /\ evaluated \subseteq DOMAIN files /\ pledgedOver \subseteq Sku /\ reissued \subseteq Sku

\* The types of what happens to events.
EventsTyped ==
  /\ events \subseteq (DOMAIN files) \X Stages /\ untold \subseteq (DOMAIN files) \X Stages
  /\ crashed \in BOOLEAN

\* generate_sku makes a SKU.
LEMMA NewSkuType ==
  ASSUME NEW stage \in Stages, NEW version \in Nat \ {0},
         NEW commit \in ToSet(Commits) \cup {None},
         NEW tx \in Txs \cup {None}
  PROVE  NewSku(stage, version, commit, tx) \in Sku
  BY DEF NewSku, Sku

\* The commit found under a SKU was filed under it.
LEMMA CommitUnderIs ==
  ASSUME FileTypeOK, RecordsInOrder, NEW sku
  PROVE  /\ CommitUnder(sku) \in ToSet(Commits) \cup {None}
         /\ CommitUnder(sku) # None => /\ CommitUnder(sku) \in DOMAIN gitCommits
                                       /\ gitCommits[CommitUnder(sku)].sku = sku
  <1> DEFINE found == {k \in DOMAIN Commits :
                         Commits[k] \in DOMAIN gitCommits /\ gitCommits[Commits[k]].sku = sku}
  <1>1. CommitUnder(sku) = IF found = {} THEN None ELSE Commits[Max(found)]
    BY DEF CommitUnder
  <1>2. CASE found # {}
    <2>1. Len(Commits) \in Nat /\ DOMAIN Commits = 1..Len(Commits)
      BY FileLifeAssumption, LenProperties
    <2>2. \A k \in found : k \in 1..Len(Commits)
      BY <2>1
    <2>3. Max(found) \in found
      <3> HIDE DEF found
      <3> QED BY <1>2, <2>1, <2>2, GreatestOf
    <2> QED BY <1>1, <1>2, <2>3 DEF ToSet
  <1> QED BY <1>1, <1>2

\* So was the transaction.
LEMMA AnchorUnderIs ==
  ASSUME FileTypeOK, NEW sku
  PROVE  /\ AnchorUnder(sku) \in Txs \cup {None}
         /\ AnchorUnder(sku) # None => \E k \in DOMAIN anchors : anchors[k].tx = AnchorUnder(sku)
  <1> DEFINE found == {k \in DOMAIN anchors : anchors[k].sku = sku}
  <1>1. AnchorUnder(sku) = IF found = {} THEN None ELSE anchors[Min(found)].tx
    BY DEF AnchorUnder
  <1>2. CASE found # {}
    <2>1. Len(anchors) \in Nat /\ DOMAIN anchors = 1..Len(anchors)
          /\ anchors \in [1..Len(anchors) -> [sku : Sku, tx : Txs, memo : Memo]]
      BY LenProperties DEF FileTypeOK
    <2>2. \A k \in found : k \in 1..Len(anchors)
      BY <2>1
    <2>3. Min(found) \in found
      <3> HIDE DEF found
      <3> QED BY <1>2, <2>1, <2>2, LeastOf
    <2> QED BY <1>1, <1>2, <2>1, <2>3
  <1> QED BY <1>1, <1>2

\* The bounds of a behaviour.
Budget == [requests : Nat, files : Nat, inFlight : Nat, liens : Nat, crash : BOOLEAN]

\* An answered request leaves a bound.
LEMMA Answered == FileTypeOK /\ Answer => budget' \in Budget
  <1> SUFFICES ASSUME FileTypeOK, Answer PROVE budget' \in Budget
    OBVIOUS
  <1>1. budget \in Budget /\ budget.requests > 0 /\ budget.requests \in Nat
    BY DEF FileTypeOK, Answer, Budget
  <1>2. budget' = [budget EXCEPT !.requests = budget.requests - 1]
    BY DEF Answer
  <1>3. budget.requests - 1 \in Nat
    BY <1>1
  <1> QED BY <1>1, <1>2, <1>3 DEF Budget

\* The rows of the table.
LEMMA FilesRow ==
  FileTypeOK => /\ Len(files) \in Nat /\ DOMAIN files = 1..Len(files)
                /\ \A i \in DOMAIN files : files[i] \in FileRecord
  <1> SUFFICES ASSUME FileTypeOK
               PROVE  /\ Len(files) \in Nat /\ DOMAIN files = 1..Len(files)
                      /\ \A i \in DOMAIN files : files[i] \in FileRecord
    OBVIOUS
  <1>1. files \in Seq(FileRecord)
    BY DEF FileTypeOK
  <1>2. /\ Len(files) \in Nat /\ DOMAIN files = 1..Len(files)
        /\ files \in [1..Len(files) -> FileRecord]
    BY <1>1, LenProperties
  <1> QED BY <1>2

\* A row is written over.
LEMMA Updated ==
  ASSUME FileTypeOK, NEW i \in DOMAIN files, NEW row \in FileRecord,
         files' = [files EXCEPT ![i] = row]
  PROVE  /\ files' \in Seq(FileRecord) /\ DOMAIN files' = DOMAIN files
         /\ files'[i] = row
         /\ \A j \in DOMAIN files \ {i} : files'[j] = files[j]
  <1>1. files \in Seq(FileRecord) /\ DOMAIN files = 1..Len(files)
    BY FilesRow DEF FileTypeOK
  <1>2. /\ files' \in Seq(FileRecord) /\ DOMAIN files' = DOMAIN files
        /\ \A j \in DOMAIN files : files'[j] = IF j = i THEN row ELSE files[j]
    BY <1>1, ExceptSeq
  <1> QED BY <1>2

\* The row a handler writes after its await: its SKU, and perhaps its stage.
LEMMA Renamed ==
  ASSUME FileInv, NEW n \in DOMAIN inFlight, NEW sku \in Sku, Rename(inFlight[n], sku)
  PROVE  /\ files' \in Seq(FileRecord) /\ DOMAIN files' = DOMAIN files
         /\ files'[inFlight[n].memo.file].sku = sku
         /\ files'[inFlight[n].memo.file].stage
              \in {files[inFlight[n].memo.file].stage, sku.stage}
         /\ \A i \in DOMAIN files \ {inFlight[n].memo.file} : files'[i] = files[i]
  <1> DEFINE h == inFlight[n]
             i == h.memo.file
             stage == IF h.stage = sku.stage THEN files[i].stage ELSE sku.stage
             once == [files EXCEPT ![i] = [files[i] EXCEPT !.sku = sku]]
             row == [files[i] EXCEPT !.sku = sku, !.stage = stage]
  <1>1. i \in DOMAIN files /\ files[i] \in FileRecord /\ FileTypeOK
    BY FilesRow DEF FileInv, HandlersBacked
  <1>2. files' = [once EXCEPT ![i] = [once[i] EXCEPT !.stage =
                    IF h.stage = sku.stage THEN @ ELSE sku.stage]]
    BY DEF Rename
  <1>3. /\ once[i] = [files[i] EXCEPT !.sku = sku] /\ DOMAIN once = DOMAIN files
        /\ \A j \in DOMAIN files \ {i} : once[j] = files[j]
    BY <1>1
  <1>4. files' = [once EXCEPT ![i] = row]
    <2>1. [once[i] EXCEPT !.stage = IF h.stage = sku.stage THEN @ ELSE sku.stage] = row
      BY <1>1, <1>3 DEF FileRecord
    <2> HIDE DEF once, row
    <2> QED BY <1>2, <2>1
  <1>5. row \in FileRecord /\ row.sku = sku /\ row.stage = stage
    BY <1>1 DEF FileRecord, Sku
  <1>6. files' = [files EXCEPT ![i] = row]
    <2> HIDE DEF row
    <2> QED BY <1>4
  <1>7. /\ files' \in Seq(FileRecord) /\ DOMAIN files' = DOMAIN files
        /\ files'[i] = row
        /\ \A j \in DOMAIN files \ {i} : files'[j] = files[j]
    <2> HIDE DEF row, i
    <2> QED BY <1>1, <1>5, <1>6, Updated
  <1> QED BY <1>5, <1>7

\* Without the handler that ends.
LEMMA Remains ==
  ASSUME NEW n, inFlight' = Remaining(n) \/ inFlight' = [m \in {} |-> m] \/ inFlight' = inFlight
  PROVE  FewerHandlers
  BY DEF Remaining, Restrict, FewerHandlers

\* record_event tells of the stage, or a crash in its place loses the event.
LEMMA Told ==
  ASSUME FileTypeOK, NEW i, NEW stage, NEW n, NEW remaining \in {inFlight, Remaining(n)},
         TellEvent(i, stage, remaining)
  PROVE  /\ FewerHandlers /\ crashed' \in BOOLEAN
         /\ events \subseteq events' /\ untold \subseteq untold'
         /\ <<i, stage>> \in events' \cup untold'
         /\ events' \subseteq events \cup {<<i, stage>>}
         /\ untold' \subseteq untold \cup {<<i, stage>>}
  <1>1. inFlight' = Remaining(n) \/ inFlight' = [m \in {} |-> m] \/ inFlight' = inFlight
    BY DEF TellEvent, Crash
  <1>2. FewerHandlers
    BY <1>1, Remains
  <1> QED BY <1>2 DEF TellEvent, Crash, FileTypeOK

\* advance_to_stage leaves the SKU, and the event of the stage is told.
LEMMA Advanced ==
  ASSUME FileInv, NEW i \in DOMAIN files, NEW stage \in Stages, AdvanceToStage(i, stage)
  PROVE  /\ files' \in Seq(FileRecord) /\ DOMAIN files' = DOMAIN files
         /\ \A j \in DOMAIN files : files'[j].sku = files[j].sku
         /\ FewerHandlers /\ EventsTyped' /\ EventsTold'
  <1> DEFINE row == [files[i] EXCEPT !.stage = stage]
  <1>0. FileTypeOK /\ EventsTold /\ files[i] \in FileRecord
    BY FilesRow DEF FileInv
  <1>1. CASE files' = [files EXCEPT ![i] = row] /\ events' = events \cup {<<i, stage>>} /\
               UNCHANGED <<inFlight, crashed, untold>>
    <2>1. row \in FileRecord /\ row.sku = files[i].sku /\ row.stage = stage
      BY <1>0 DEF FileRecord
    <2>2. /\ files' \in Seq(FileRecord) /\ DOMAIN files' = DOMAIN files
          /\ files'[i] = row
          /\ \A j \in DOMAIN files \ {i} : files'[j] = files[j]
      <3> HIDE DEF row
      <3> QED BY <1>0, <1>1, <2>1, Updated
    <2>3. EventsTold'
      <3> HIDE DEF row
      <3> QED BY <1>0, <1>1, <2>1, <2>2 DEF EventsTold
    <2>4. EventsTyped'
      <3> HIDE DEF row
      <3> QED BY <1>0, <1>1, <2>2 DEF FileTypeOK, EventsTyped
    <2>5. FewerHandlers
      BY <1>1 DEF FewerHandlers
    <2> QED BY <1>0, <2>1, <2>2, <2>3, <2>4, <2>5 DEF FileTypeOK
  <1>2. CASE /\ crashed' = TRUE /\ inFlight' = [n \in {} |-> n]
             /\ events' \in {events, events \cup {<<i, stage>>}}
             /\ UNCHANGED <<files, untold>>
    <2>1. EventsTold' /\ EventsTyped'
      BY <1>0, <1>2 DEF EventsTold, EventsTyped, FileTypeOK
    <2>2. FewerHandlers
      BY <1>2 DEF FewerHandlers
    <2> QED BY <1>0, <1>2, <2>1, <2>2 DEF FileTypeOK
  <1> QED BY <1>1, <1>2 DEF AdvanceToStage, Crash, crashVars

\* A registered file has a SKU no other file has, commit and transaction
\* blank.
LEMMA RegisterKeeps ==
  ASSUME FileInv, NEW content \in Contents, RegisterFile(content)
  PROVE  FileInv'
  <1> DEFINE earlier == {i \in DOMAIN files : files[i].content = content}
             version == IF earlier = {} THEN 1 ELSE files[Min(earlier)].version + 1
             sku == NewSku(1, version, None, None)
             row == [content |-> content, sku |-> sku, stage |-> 1, version |-> version]
             n == Len(files) + 1
  <1>1. /\ ~Taken(sku) /\ files' = Append(files, row) /\ Answer
        /\ TellEvent(Len(files'), 1, inFlight)
        /\ UNCHANGED <<gitCommits, anchors, appraised, scores, lienVars>>
    BY DEF RegisterFile
  <1>2. /\ FileTypeOK /\ RecordsInOrder /\ SkusBacked /\ HandlersBacked /\ EventsTold
        /\ Len(files) \in Nat /\ DOMAIN files = 1..Len(files) /\ files \in Seq(FileRecord)
    BY FilesRow DEF FileInv, FileTypeOK
  <1>3. version \in Nat \ {0}
    <2>1. CASE earlier # {}
      <3>1. \A i \in earlier : i \in 1..Len(files)
        BY <1>2
      <3>2. Min(earlier) \in earlier
        <4> HIDE DEF earlier
        <4> QED BY <1>2, <2>1, <3>1, LeastOf
      <3>3. files[Min(earlier)] \in FileRecord
        <4>1. Min(earlier) \in DOMAIN files
          BY <3>2
        <4> HIDE DEF earlier
        <4> QED BY <1>2, <4>1, FilesRow
      <3> HIDE DEF earlier
      <3> QED BY <2>1, <3>3 DEF FileRecord
    <2>2. CASE earlier = {}
      BY <2>2
    <2> QED BY <2>1, <2>2
  <1> HIDE DEF version
  <1>4. sku \in Sku /\ sku.commit = None /\ sku.tx = None
    BY <1>3 DEF NewSku, Sku, Stages
  <1>5. row \in FileRecord /\ row.sku = sku /\ row.stage = 1
    BY <1>3, <1>4 DEF FileRecord, Stages
  <1> HIDE DEF row, sku
  <1>6. /\ files' \in Seq(FileRecord) /\ Len(files') = n
        /\ DOMAIN files' = DOMAIN files \cup {n} /\ n \notin DOMAIN files
        /\ files'[n] = row
        /\ \A i \in DOMAIN files : files'[i] = files[i]
    <2>1. /\ files' \in Seq(FileRecord) /\ Len(files') = n /\ files'[n] = row
          /\ \A i \in 1..Len(files) : files'[i] = files[i]
      BY <1>1, <1>2, <1>5, AppendProperties
    <2>2. DOMAIN files' = 1..n
      BY <2>1, LenProperties
    <2> QED BY <1>2, <2>1, <2>2
  <1> HIDE DEF n
  <1>7. /\ FewerHandlers /\ crashed' \in BOOLEAN
        /\ events \subseteq events' /\ untold \subseteq untold'
        /\ <<n, 1>> \in events' \cup untold'
        /\ events' \subseteq events \cup {<<n, 1>>}
        /\ untold' \subseteq untold \cup {<<n, 1>>}
    BY <1>1, <1>2, <1>6, Told
  <1>8. FileTypeOK'
    <2>1. budget' \in Budget
      BY <1>1, <1>2, Answered
    <2>2. \A i, j \in DOMAIN files' : files'[i].sku = files'[j].sku => i = j
      <3>1. \A i, j \in DOMAIN files : files[i].sku = files[j].sku => i = j
        BY <1>2 DEF FileTypeOK
      <3>2. \A i \in DOMAIN files : files[i].sku # row.sku
        BY <1>1, <1>5 DEF Taken
      <3> QED BY <1>6, <3>1, <3>2
    <2>3. events' \subseteq (DOMAIN files') \X Stages /\ untold' \subseteq (DOMAIN files') \X Stages
      <3>1. events \subseteq (DOMAIN files) \X Stages /\ untold \subseteq (DOMAIN files) \X Stages
        BY <1>2 DEF FileTypeOK
      <3>2. <<n, 1>> \in (DOMAIN files') \X Stages
        BY <1>6 DEF Stages
      <3>3. (DOMAIN files) \X Stages \subseteq (DOMAIN files') \X Stages
        BY <1>6
      <3> QED BY <1>7, <3>1, <3>2, <3>3
    <2>4. /\ \A c \in DOMAIN gitCommits' : gitCommits'[c] \in [sku : Sku, file : DOMAIN files']
          /\ evaluated' \subseteq DOMAIN files'
      BY <1>1, <1>2, <1>6 DEF FileTypeOK, lienVars
    <2>5. liens' \in Seq([sku : Sku, status : {"pledged", "released"},
            cert : Nat, file : DOMAIN files'])
      <3>1. liens \in Seq([sku : Sku, status : {"pledged", "released"},
              cert : Nat, file : DOMAIN files])
        BY <1>2 DEF FileTypeOK
      <3> DEFINE R == [sku : Sku, status : {"pledged", "released"},
                   cert : Nat, file : DOMAIN files]
                 T == [sku : Sku, status : {"pledged", "released"},
                   cert : Nat, file : DOMAIN files']
      <3>2. R \subseteq T
        BY <1>6
      <3> HIDE DEF R, T
      <3>3. Seq(R) \subseteq Seq(T)
        BY <3>2, SeqMonotonic
      <3> USE DEF R, T
      <3> QED BY <1>1, <3>1, <3>3 DEF lienVars
    <2>6. \A m \in DOMAIN inFlight' : inFlight'[m] \in Handler
      BY <1>2, <1>7 DEF FewerHandlers, FileTypeOK
    <2>7. /\ appraised' \subseteq Sku
          /\ \A s \in DOMAIN scores' : s \in Sku /\ scores'[s] \in 0..3
          /\ \A s \in DOMAIN collateral' :
               s \in Sku /\ collateral'[s] \in [shown : {"none", "pledged"}, cert : Nat]
          /\ pledgedOver' \subseteq Sku /\ reissued' \subseteq Sku
          /\ DOMAIN gitCommits' \subseteq ToSet(Commits)
          /\ anchors' \in Seq([sku : Sku, tx : Txs, memo : Memo])
      BY <1>1, <1>2 DEF FileTypeOK, lienVars
    <2> QED BY <1>6, <1>7, <2>1, <2>2, <2>3, <2>4, <2>5, <2>6, <2>7 DEF FileTypeOK, Budget
  <1>9. RecordsInOrder' /\ HandlersBacked'
    <2>1. RecordsInOrder'
      BY <1>1, <1>2 DEF RecordsInOrder
    <2>2. HandlersBacked'
      BY <1>1, <1>2, <1>6, <1>7 DEF HandlersBacked, MadeFor, FewerHandlers
    <2> QED BY <2>1, <2>2
  <1>10. SkusBacked'
    BY <1>1, <1>2, <1>4, <1>5, <1>6 DEF SkusBacked, MadeFor, AnchoredFor
  <1>11. EventsTold'
    BY <1>2, <1>5, <1>6, <1>7 DEF EventsTold
  <1> QED BY <1>8, <1>9, <1>10, <1>11 DEF FileInv

\* A step that leaves commits, anchors and every SKU as they are.
LEMMA SkusKept ==
  ASSUME FileInv, Answer,
         UNCHANGED <<gitCommits, anchors>>, FewerHandlers,
         files' \in Seq(FileRecord), DOMAIN files' = DOMAIN files,
         \A j \in DOMAIN files : files'[j].sku = files[j].sku,
         RecordsTyped', EventsTyped', EventsTold'
  PROVE  FileInv'
  <1>1. /\ FileTypeOK /\ RecordsInOrder /\ SkusBacked /\ HandlersBacked /\ budget' \in Budget
    BY Answered DEF FileInv
  <1>2. FileTypeOK'
    <2>1. \A i, j \in DOMAIN files' : files'[i].sku = files'[j].sku => i = j
      BY <1>1 DEF FileTypeOK
    <2>2. \A m \in DOMAIN inFlight' : inFlight'[m] \in Handler
      BY <1>1 DEF FewerHandlers, FileTypeOK
    <2> QED BY <1>1, <2>1, <2>2 DEF FileTypeOK, RecordsTyped, EventsTyped, Budget
  <1>3. RecordsInOrder'
    BY <1>1 DEF RecordsInOrder
  <1>4. HandlersBacked'
    BY <1>1 DEF HandlersBacked, MadeFor, FewerHandlers
  <1>5. SkusBacked'
    BY <1>1 DEF SkusBacked, MadeFor, AnchoredFor
  <1> QED BY <1>2, <1>3, <1>4, <1>5 DEF FileInv

\* An appraisal.
LEMMA AppraisalKeeps ==
  ASSUME FileInv, NEW i \in DOMAIN files, RunAppraisal(i)
  PROVE  FileInv'
  <1>1. /\ Answer /\ appraised' = appraised \cup {files[i].sku} /\ AdvanceToStage(i, 6)
        /\ UNCHANGED <<gitCommits, anchors, scores, lienVars>>
    BY DEF RunAppraisal
  <1>2. FileTypeOK /\ files[i].sku \in Sku
    BY FilesRow DEF FileInv, FileRecord
  <1>3. 6 \in Stages
    BY DEF Stages
  <1>4. /\ files' \in Seq(FileRecord) /\ DOMAIN files' = DOMAIN files
        /\ \A j \in DOMAIN files : files'[j].sku = files[j].sku
        /\ FewerHandlers /\ EventsTyped' /\ EventsTold'
    BY <1>1, <1>3, Advanced
  <1>5. RecordsTyped'
    BY <1>1, <1>2, <1>4 DEF FileTypeOK, RecordsTyped, lienVars
  <1> QED BY <1>1, <1>4, <1>5, SkusKept

\* A verification, passed or failed.
LEMMA VerifyKeeps ==
  ASSUME FileInv, NEW i \in DOMAIN files, NEW intact \in BOOLEAN, Verify(i, intact)
  PROVE  FileInv'
  <1>1. /\ Answer
        /\ scores' = Filed(scores, files[i].sku, IF intact THEN 0 ELSE 2)
        /\ IF intact THEN AdvanceToStage(i, 7) ELSE UNCHANGED <<files, events, crashVars>>
        /\ UNCHANGED <<gitCommits, anchors, appraised, lienVars>>
    BY DEF Verify
  <1>2. FileTypeOK /\ files[i].sku \in Sku /\ EventsTold
    BY FilesRow DEF FileInv, FileRecord
  <1>3. /\ files' \in Seq(FileRecord) /\ DOMAIN files' = DOMAIN files
        /\ \A j \in DOMAIN files : files'[j].sku = files[j].sku
        /\ FewerHandlers /\ EventsTyped' /\ EventsTold'
    <2>1. CASE intact
      <3>1. 7 \in Stages
        BY DEF Stages
      <3> QED BY <1>1, <2>1, <3>1, Advanced
    <2>2. CASE ~intact
      BY <1>1, <1>2, <2>2 DEF FileTypeOK, EventsTold, EventsTyped, FewerHandlers, crashVars
    <2> QED BY <2>1, <2>2
  <1>4. \A s \in DOMAIN scores' : s \in Sku /\ scores'[s] \in 0..3
    <2>1. /\ DOMAIN scores' = DOMAIN scores \cup {files[i].sku}
          /\ \A s \in DOMAIN scores' :
               scores'[s] = IF s = files[i].sku THEN (IF intact THEN 0 ELSE 2) ELSE scores[s]
      BY <1>1 DEF Filed
    <2>2. \A s \in DOMAIN scores : s \in Sku /\ scores[s] \in 0..3
      BY <1>2 DEF FileTypeOK
    <2> QED BY <1>2, <2>1, <2>2
  <1>5. RecordsTyped'
    BY <1>1, <1>2, <1>3, <1>4 DEF FileTypeOK, RecordsTyped, lienVars
  <1> QED BY <1>1, <1>3, <1>5, SkusKept

\* One file is given a SKU no other file has, while records are only added.
LEMMA SkuGiven ==
  ASSUME FileInv, NEW i \in DOMAIN files, NEW sku \in Sku,
         DOMAIN files' = DOMAIN files, files'[i].sku = sku,
         \A j \in DOMAIN files \ {i} : files'[j] = files[j] /\ files[j].sku # sku,
         \A c \in DOMAIN gitCommits : c \in DOMAIN gitCommits' /\ gitCommits'[c] = gitCommits[c],
         \A k \in DOMAIN anchors : k \in DOMAIN anchors' /\ anchors'[k] = anchors[k],
         sku.commit # None => sku.commit \in DOMAIN gitCommits' /\
           gitCommits'[sku.commit].file = i,
         sku.tx # None => \E k \in DOMAIN anchors' : anchors'[k].tx = sku.tx,
         sku.tx # None /\ sku.kpi = 0 =>
           \E k \in DOMAIN anchors' : anchors'[k].tx = sku.tx /\ anchors'[k].memo.file = i,
         FewerHandlers
  PROVE  /\ \A k, j \in DOMAIN files' : files'[k].sku = files'[j].sku => k = j
         /\ SkusBacked' /\ HandlersBacked'
  <1>1. FileTypeOK /\ SkusBacked /\ HandlersBacked
    BY DEF FileInv
  <1>2. \A k, j \in DOMAIN files' : files'[k].sku = files'[j].sku => k = j
    <2>1. \A k, j \in DOMAIN files : files[k].sku = files[j].sku => k = j
      BY <1>1 DEF FileTypeOK
    <2> QED BY <2>1
  <1>3. SkusBacked'
    <2> SUFFICES ASSUME NEW j \in DOMAIN files'
                 PROVE  /\ files'[j].sku.commit # None => MadeFor(files[j].sku.commit, j)'
                        /\ files'[j].sku.tx # None =>
                             \E k \in DOMAIN anchors' : anchors'[k].tx = files'[j].sku.tx
                        /\ files'[j].sku.tx # None /\ files'[j].sku.kpi = 0 =>
                             AnchoredFor(files[j].sku.tx, j)'
      BY DEF SkusBacked
    <2>1. CASE j = i
      BY <2>1 DEF MadeFor, AnchoredFor
    <2>2. CASE j # i
      <3>1. files'[j] = files[j] /\ j \in DOMAIN files
        BY <2>2
      <3>2. files[j].sku.commit # None => MadeFor(files[j].sku.commit, j)'
        BY <1>1, <3>1 DEF SkusBacked, MadeFor
      <3>3. files[j].sku.tx # None => \E k \in DOMAIN anchors' : anchors'[k].tx = files[j].sku.tx
        BY <1>1, <3>1 DEF SkusBacked
      <3>4. files[j].sku.tx # None /\ files[j].sku.kpi = 0 => AnchoredFor(files[j].sku.tx, j)'
        BY <1>1, <3>1 DEF SkusBacked, AnchoredFor
      <3> QED BY <3>1, <3>2, <3>3, <3>4
    <2> QED BY <2>1, <2>2
  <1>4. HandlersBacked'
    BY <1>1 DEF HandlersBacked, MadeFor, FewerHandlers
  <1> QED BY <1>2, <1>3, <1>4

\* The score of an evaluation is one digit, and not zero.
LEMMA KpiType ==
  ASSUME FileTypeOK, NEW sku \in Sku, NEW stage \in Stages, NEW a \in BOOLEAN, NEW c \in BOOLEAN
  PROVE  Kpi(stage, Score(sku), a, c) \in 1..9
  <1> DEFINE score == Score(sku)
             records == (IF a THEN 1 ELSE 0) + (IF c THEN 1 ELSE 0)
             sixths == 9 + 3 * score + 2 * stage + 9 * records
  <1>1. score \in 0..3
    <2>1. \A s \in DOMAIN scores : scores[s] \in 0..3
      BY DEF FileTypeOK
    <2> QED BY <2>1 DEF Score
  <1>2. records \in 0..2 /\ stage \in 1..9
    BY DEF Stages
  <1> HIDE DEF score, records
  <1>3. sixths \in 6..54
    BY <1>1, <1>2
  <1>4. Kpi(stage, score, a, c) = sixths \div 6
    BY DEF Kpi, records
  <1> HIDE DEF sixths
  <1>5. sixths \div 6 \in 1..9
    BY <1>3
  <1> QED BY <1>4, <1>5 DEF score

\* An evaluation renames the file after the commit and the anchor filed under
\* its old SKU, unless another file has that SKU.
LEMMA EvaluateKeeps ==
  ASSUME FileInv, NEW i \in DOMAIN files, NEW worth \in Worths, Evaluate(i, worth)
  PROVE  FileInv'
  <1> DEFINE sku == files[i].sku
             commit == CommitUnder(sku)
             tx == AnchorUnder(sku)
             kpi == Kpi(files[i].stage, Score(sku), tx # None, commit # None)
             renamed == [stage |-> files[i].stage, version |-> files[i].version,
                         commit |-> commit, tx |-> tx, kpi |-> kpi, col |-> worth]
  <1>1. /\ Answer
        /\ collateral' = Filed(collateral, sku, [shown |-> "none", cert |-> budget.requests])
        /\ evaluated' = evaluated \cup {i}
        /\ reissued' \in {reissued, reissued \cup {sku}}
        /\ IF Taken(renamed) THEN UNCHANGED files ELSE files' = [files EXCEPT ![i].sku = renamed]
        /\ UNCHANGED <<gitCommits, anchors, appraised, scores, liens, pledgedOver, events, inFlight,
                       crashed, untold>>
    BY DEF Evaluate, crashVars
  <1>2. /\ FileTypeOK /\ RecordsInOrder /\ SkusBacked /\ HandlersBacked /\ EventsTold
        /\ files[i] \in FileRecord /\ sku \in Sku
    BY FilesRow DEF FileInv, FileRecord
  <1>3. /\ commit \in ToSet(Commits) \cup {None}
        /\ commit # None => commit \in DOMAIN gitCommits /\ gitCommits[commit].sku = sku
    BY <1>2, CommitUnderIs
  <1>4. /\ tx \in Txs \cup {None}
        /\ tx # None => \E k \in DOMAIN anchors : anchors[k].tx = tx
    BY <1>2, AnchorUnderIs
  <1>5. kpi \in 0..9 /\ kpi # 0
    <2>1. files[i].stage \in Stages /\ (tx # None) \in BOOLEAN /\ (commit # None) \in BOOLEAN
      BY <1>2 DEF FileRecord
    <2>2. kpi \in 1..9
      <3> HIDE DEF sku, tx, commit
      <3> QED BY <1>2, <2>1, KpiType
    <2> HIDE DEF kpi
    <2> QED BY <2>2
  <1>6. DOMAIN files' = DOMAIN files => RecordsTyped'
    <2>1. /\ DOMAIN collateral' = DOMAIN collateral \cup {sku}
          /\ \A s \in DOMAIN collateral' :
               collateral'[s] = IF s = sku THEN [shown |-> "none", cert |-> budget.requests]
                                ELSE collateral[s]
      BY <1>1 DEF Filed
    <2>2. budget.requests \in Nat
      BY <1>2 DEF FileTypeOK
    <2>3. \A s \in DOMAIN collateral :
            s \in Sku /\ collateral[s] \in [shown : {"none", "pledged"}, cert : Nat]
      BY <1>2 DEF FileTypeOK
    <2>4. [shown |-> "none", cert |-> budget.requests]
            \in [shown : {"none", "pledged"}, cert : Nat]
      BY <2>2
    <2>5. \A s \in DOMAIN collateral' :
             s \in Sku /\ collateral'[s] \in [shown : {"none", "pledged"}, cert : Nat]
      <3> HIDE DEF sku
      <3> QED BY <1>2, <2>1, <2>3, <2>4
    <2>6. reissued' \subseteq Sku /\ evaluated' \subseteq DOMAIN files
      <3> HIDE DEF sku
      <3> QED BY <1>1, <1>2 DEF FileTypeOK
    <2> QED BY <1>1, <1>2, <2>5, <2>6 DEF FileTypeOK, RecordsTyped
  <1>0. FewerHandlers
    BY <1>1 DEF FewerHandlers
  <1>7. CASE Taken(renamed)
    <2>1. UNCHANGED files
      BY <1>1, <1>7
    <2>2. files' \in Seq(FileRecord) /\ EventsTold' /\ EventsTyped'
      BY <1>1, <1>2, <2>1 DEF FileTypeOK, EventsTold, EventsTyped
    <2> QED BY <1>0, <1>1, <1>6, <2>1, <2>2, SkusKept
  <1>8. CASE ~Taken(renamed)
    <2> DEFINE row == [files[i] EXCEPT !.sku = renamed]
    <2>1. files' = [files EXCEPT ![i] = row]
      BY <1>1, <1>8
    <2>2. /\ renamed \in Sku /\ renamed.commit = commit /\ renamed.tx = tx /\ renamed.kpi = kpi
          /\ row \in FileRecord /\ row.sku = renamed /\ row.stage = files[i].stage
      <3> HIDE DEF commit, tx, kpi
      <3> QED BY <1>2, <1>3, <1>4, <1>5, FileLifeAssumption DEF FileRecord, Sku
    <2> HIDE DEF renamed
    <2>3. /\ files' \in Seq(FileRecord) /\ DOMAIN files' = DOMAIN files /\ files'[i] = row
          /\ \A j \in DOMAIN files \ {i} : files'[j] = files[j]
      <3> HIDE DEF row
      <3> QED BY <1>2, <2>1, <2>2, Updated
    <2> HIDE DEF row
    <2>4. renamed.commit # None =>
            renamed.commit \in DOMAIN gitCommits' /\ gitCommits'[renamed.commit].file = i
      BY <1>1, <1>2, <1>3, <2>2 DEF RecordsInOrder, SkusBacked, MadeFor
    <2>5. renamed.tx # None => \E k \in DOMAIN anchors' : anchors'[k].tx = renamed.tx
      BY <1>1, <1>4, <2>2
    <2>6. \A j \in DOMAIN files : files[j].sku # renamed
      BY <1>8 DEF Taken
    <2>7. renamed.kpi # 0
      <3> HIDE DEF kpi
      <3> QED BY <1>5, <2>2
    <2>8. /\ \A k, j \in DOMAIN files' : files'[k].sku = files'[j].sku => k = j
          /\ SkusBacked' /\ HandlersBacked'
      BY <1>0, <1>1, <2>2, <2>3, <2>4, <2>5, <2>6, <2>7, SkuGiven
    <2>9. FileTypeOK'
      <3>1. budget' \in Budget
        BY <1>1, <1>2, Answered
      <3> QED BY <1>1, <1>2, <1>6, <2>3, <2>8, <3>1 DEF FileTypeOK, RecordsTyped, Budget
    <2>10. RecordsInOrder' /\ EventsTold'
      BY <1>1, <1>2, <2>2, <2>3 DEF RecordsInOrder, EventsTold
    <2> QED BY <2>8, <2>9, <2>10 DEF FileInv
  <1> QED BY <1>7, <1>8

\* What a handler keeps over its await is backed when it reads it.
LEMMA StartKeeps ==
  ASSUME FileInv, NEW i \in DOMAIN files, NEW kind \in {"commit", "anchor", "anchor_appraisal"},
         Start(i, kind)
  PROVE  FileInv'
  <1> DEFINE commit == IF kind = "anchor" THEN CommitUnder(files[i].sku) ELSE None
             memo == [file |-> i, sku |-> files[i].sku, commit |-> commit]
             h == [kind |-> kind, stage |-> files[i].stage, memo |-> memo]
  <1>1. /\ \E n \in 1..budget.inFlight : inFlight' = Filed(inFlight, n, h)
        /\ UNCHANGED <<files, gitCommits, anchors, appraised, scores, lienVars, events, crashed,
                       untold, budget>>
    BY DEF Start
  <1>2. /\ FileTypeOK /\ RecordsInOrder /\ SkusBacked /\ HandlersBacked /\ EventsTold
        /\ files[i] \in FileRecord /\ i \in Nat
    BY FilesRow DEF FileInv
  <1>3. /\ commit \in ToSet(Commits) \cup {None}
        /\ commit # None => commit \in DOMAIN gitCommits /\ gitCommits[commit].sku = files[i].sku
    BY <1>2, CommitUnderIs
  <1> HIDE DEF commit
  <1>4. h \in Handler /\ h.memo.file = i /\ h.memo.commit = commit
    BY <1>2, <1>3 DEF Handler, Memo, FileRecord
  <1>5. commit # None => MadeFor(commit, i)
    BY <1>2, <1>3 DEF RecordsInOrder, SkusBacked
  <1> HIDE DEF h
  <1>6. \A m \in DOMAIN inFlight' :
          \/ m \in DOMAIN inFlight /\ inFlight'[m] = inFlight[m]
          \/ inFlight'[m] = h
    BY <1>1 DEF Filed
  <1>7. FileTypeOK'
    <2>1. \A m \in DOMAIN inFlight' : inFlight'[m] \in Handler
      BY <1>2, <1>4, <1>6 DEF FileTypeOK
    <2> QED BY <1>1, <1>2, <2>1 DEF FileTypeOK, lienVars
  <1>8. HandlersBacked'
    BY <1>1, <1>2, <1>4, <1>5, <1>6 DEF HandlersBacked, MadeFor
  <1>9. RecordsInOrder' /\ SkusBacked' /\ EventsTold'
    BY <1>1, <1>2 DEF RecordsInOrder, SkusBacked, EventsTold, MadeFor, AnchoredFor
  <1> QED BY <1>7, <1>8, <1>9 DEF FileInv

\* GitHub makes a commit that is not yet recorded.
LEMMA FreshCommit ==
  ASSUME FileInv, Cardinality(DOMAIN gitCommits) < Len(Commits), NEW record,
         gitCommits' = Filed(gitCommits, Commits[Cardinality(DOMAIN gitCommits) + 1], record),
         record.sku.commit = Commits[Cardinality(DOMAIN gitCommits) + 1],
         UNCHANGED anchors
  PROVE  /\ Commits[Cardinality(DOMAIN gitCommits) + 1] \notin DOMAIN gitCommits
         /\ Commits[Cardinality(DOMAIN gitCommits) + 1] \in ToSet(Commits)
         /\ RecordsInOrder'
  <1> DEFINE n == Cardinality(DOMAIN gitCommits)
             c == Commits[n + 1]
  <1>1. RecordsInOrder /\ IsInjective(Commits)
    BY FileLifeAssumption DEF FileInv
  <1>2. /\ Len(Commits) \in Nat /\ DOMAIN Commits = 1..Len(Commits) /\ n \in Nat /\
             n < Len(Commits)
        /\ DOMAIN gitCommits = {Commits[k] : k \in 1..n}
    BY <1>1, FileLifeAssumption, LenProperties DEF RecordsInOrder
  <1>0. n = Cardinality(DOMAIN gitCommits)
    OBVIOUS
  <1> HIDE DEF n
  <1>3. n + 1 \in DOMAIN Commits /\ \A k \in 1..n : k \in DOMAIN Commits /\ k # n + 1
    BY <1>2
  <1>4. c \notin DOMAIN gitCommits
    BY <1>1, <1>2, <1>3 DEF IsInjective
  <1>5. c \in ToSet(Commits)
    BY <1>3 DEF ToSet
  <1>6. DOMAIN gitCommits' = DOMAIN gitCommits \cup {c}
        /\ \A d \in DOMAIN gitCommits' : gitCommits'[d] = IF d = c THEN record ELSE gitCommits[d]
    BY <1>0 DEF Filed
  <1>7. IsFiniteSet(DOMAIN gitCommits') /\ Cardinality(DOMAIN gitCommits') = n + 1
    BY <1>0, <1>1, <1>4, <1>6, FS_AddElement DEF RecordsInOrder
  <1>8. DOMAIN gitCommits' = {Commits[k] : k \in 1..(n + 1)}
    <2>1. 1..(n + 1) = 1..n \cup {n + 1}
      BY <1>2
    <2>2. \A S : {Commits[k] : k \in S \cup {n + 1}}
            = {Commits[k] : k \in S} \cup {Commits[n + 1]}
      OBVIOUS
    <2>3. {Commits[k] : k \in 1..(n + 1)} = {Commits[k] : k \in 1..n} \cup {c}
      BY <2>1, <2>2
    <2> QED BY <1>2, <1>6, <2>3
  <1>9. \A d \in DOMAIN gitCommits' : gitCommits'[d].sku.commit = d
    BY <1>0, <1>1, <1>6 DEF RecordsInOrder
  <1>10. RecordsInOrder'
    <2>1. n + 1 \in 0..Len(Commits)
      BY <1>2
    <2>2. \A k, l \in DOMAIN anchors' :
            anchors'[k].tx = anchors'[l].tx => anchors'[k].memo = anchors'[l].memo
      BY <1>1 DEF RecordsInOrder
    <2> QED BY <1>7, <1>8, <1>9, <2>1, <2>2 DEF RecordsInOrder
  <1> QED BY <1>0, <1>4, <1>5, <1>10

\* The stage a handler ends in is told, or a crash loses its event.
LEMMA StageTold ==
  ASSUME FileInv, NEW n \in DOMAIN inFlight, NEW i \in DOMAIN files, NEW stage \in Stages,
         TellEvent(i, stage, Remaining(n)),
         DOMAIN files' = DOMAIN files, files'[i].stage \in {files[i].stage, stage},
         \A j \in DOMAIN files \ {i} : files'[j] = files[j]
  PROVE  FewerHandlers /\ EventsTyped' /\ EventsTold'
  <1>1. FileTypeOK /\ EventsTold
    BY DEF FileInv
  <1>2. /\ FewerHandlers /\ crashed' \in BOOLEAN
        /\ events \subseteq events' /\ untold \subseteq untold'
        /\ <<i, stage>> \in events' \cup untold'
        /\ events' \subseteq events \cup {<<i, stage>>}
        /\ untold' \subseteq untold \cup {<<i, stage>>}
    BY <1>1, Told
  <1>3. EventsTyped'
    BY <1>1, <1>2 DEF FileTypeOK, EventsTyped
  <1>4. EventsTold'
    BY <1>1, <1>2 DEF EventsTold
  <1> QED BY <1>2, <1>3, <1>4

\* The end of commit_to_github, whatever happened to the row since.
LEMMA FinishCommitKeeps ==
  ASSUME FileInv, NEW m \in DOMAIN inFlight, FinishCommit(m)
  PROVE  FileInv'
  <1> DEFINE n == Cardinality(DOMAIN gitCommits)
             c == Commits[n + 1]
             i == inFlight[m].memo.file
             sku == NewSku(4, files[i].version, c, None)
             record == [sku |-> sku, file |-> i]
  <1>1. /\ Answer /\ n < Len(Commits) /\ gitCommits' = Filed(gitCommits, c, record)
        /\ Rename(inFlight[m], sku) /\ TellEvent(i, 4, Remaining(m))
        /\ UNCHANGED <<anchors, appraised, scores, lienVars>>
    BY DEF FinishCommit
  <1>2. /\ FileTypeOK /\ RecordsInOrder /\ SkusBacked /\ HandlersBacked /\ EventsTold
        /\ i \in DOMAIN files /\ files[i].version \in Nat \ {0}
    BY FilesRow DEF FileInv, FileRecord, HandlersBacked
  <1>3. /\ record.sku = sku /\ record.file = i /\ sku.commit = c /\ sku.tx = None /\ sku.stage = 4
    BY DEF NewSku
  <1>4. c \notin DOMAIN gitCommits /\ c \in ToSet(Commits) /\ RecordsInOrder'
    <2>1. record.sku.commit = c /\ UNCHANGED anchors
      BY <1>1, <1>3
    <2> HIDE DEF record, sku
    <2> QED BY <1>1, <2>1, FreshCommit
  <1> HIDE DEF c, n
  <1>0. 4 \in Stages
    BY DEF Stages
  <1>5. sku \in Sku
    <2>1. c \in ToSet(Commits) \cup {None} /\ None \in Txs \cup {None}
      BY <1>4
    <2> HIDE DEF i
    <2> QED BY <1>0, <1>2, <2>1, NewSkuType
  <1> HIDE DEF sku
  <1>6. /\ files' \in Seq(FileRecord) /\ DOMAIN files' = DOMAIN files
        /\ files'[i].sku = sku
        /\ files'[i].stage \in {files[i].stage, 4}
        /\ \A j \in DOMAIN files \ {i} : files'[j] = files[j]
    BY <1>1, <1>3, <1>5, Renamed
  <1>7. /\ DOMAIN gitCommits' = DOMAIN gitCommits \cup {c}
        /\ gitCommits'[c] = record
        /\ \A d \in DOMAIN gitCommits : gitCommits'[d] = gitCommits[d]
    BY <1>1, <1>4 DEF Filed
  <1>8. \A j \in DOMAIN files : files[j].sku # sku
    BY <1>2, <1>3, <1>4, FileLifeAssumption DEF SkusBacked, MadeFor
  <1> HIDE DEF record
  <1>9. FewerHandlers /\ EventsTyped' /\ EventsTold'
    <2> HIDE DEF i
    <2> QED BY <1>0, <1>1, <1>2, <1>6, StageTold
  <1>10. /\ \A k, j \in DOMAIN files' : files'[k].sku = files'[j].sku => k = j
         /\ SkusBacked' /\ HandlersBacked'
    <2>1. \A j \in DOMAIN files \ {i} : files'[j] = files[j] /\ files[j].sku # sku
      BY <1>6, <1>8
    <2> HIDE DEF i
    <2> QED BY <1>1, <1>2, <1>3, <1>5, <1>6, <1>7, <1>9, <2>1, SkuGiven
  <1>11. FileTypeOK'
    <2>1. budget' \in Budget
      BY <1>1, <1>2, Answered
    <2>2. /\ DOMAIN gitCommits' \subseteq ToSet(Commits)
          /\ \A d \in DOMAIN gitCommits' : gitCommits'[d] \in [sku : Sku, file : DOMAIN files']
      <3>1. record \in [sku : Sku, file : DOMAIN files]
        BY <1>2, <1>5 DEF record
      <3>2. /\ DOMAIN gitCommits \subseteq ToSet(Commits)
            /\ \A d \in DOMAIN gitCommits : gitCommits[d] \in [sku : Sku, file : DOMAIN files]
        BY <1>2 DEF FileTypeOK
      <3> QED BY <1>4, <1>6, <1>7, <3>1, <3>2
    <2>3. RecordsTyped'
      BY <1>1, <1>2, <1>6 DEF FileTypeOK, RecordsTyped, lienVars
    <2>4. \A k \in DOMAIN inFlight' : inFlight'[k] \in Handler
      BY <1>2, <1>9 DEF FewerHandlers, FileTypeOK
    <2>5. anchors' \in Seq([sku : Sku, tx : Txs, memo : Memo])
      BY <1>1, <1>2 DEF FileTypeOK
    <2> QED BY <1>6, <1>9, <1>10, <2>1, <2>2, <2>3, <2>4, <2>5
            DEF FileTypeOK, RecordsTyped, EventsTyped, Budget
  <1> QED BY <1>4, <1>9, <1>10, <1>11 DEF FileInv

\* Solana makes a transaction, whose signature no other memo has.
LEMMA Anchored ==
  ASSUME FileInv, NEW sku \in Sku, NEW memo \in Memo, NEW tx \in SignedFor(memo),
         anchors' = Append(anchors, [sku |-> sku, tx |-> tx, memo |-> memo]),
         UNCHANGED gitCommits
  PROVE  /\ anchors' \in Seq([sku : Sku, tx : Txs, memo : Memo])
         /\ \A k \in DOMAIN anchors : k \in DOMAIN anchors' /\ anchors'[k] = anchors[k]
         /\ \E k \in DOMAIN anchors' : anchors'[k].tx = tx /\ anchors'[k].memo = memo
         /\ RecordsInOrder'
  <1> DEFINE n == Len(anchors)
             record == [sku |-> sku, tx |-> tx, memo |-> memo]
             Row == [sku : Sku, tx : Txs, memo : Memo]
  <1>1. RecordsInOrder /\ anchors \in Seq(Row)
    BY DEF FileInv, FileTypeOK
  <1>2. n \in Nat /\ DOMAIN anchors = 1..n
    BY <1>1, LenProperties
  <1>3. /\ record \in Row /\ record.tx = tx /\ record.memo = memo
        /\ \A k \in DOMAIN anchors : anchors[k].tx = tx => anchors[k].memo = memo
    BY DEF SignedFor
  <1> HIDE DEF Row, record
  <1>4. anchors' = Append(anchors, record)
    BY DEF record
  <1>5. /\ anchors' \in Seq(Row) /\ Len(anchors') = n + 1
        /\ \A k \in 1..n : anchors'[k] = anchors[k]
        /\ anchors'[n + 1] = record
    <2>1. \A k \in 1..Len(anchors) : Append(anchors, record)[k] = anchors[k]
      BY <1>1, <1>3, AppendProperties
    <2> QED BY <1>1, <1>3, <1>4, <2>1, AppendProperties
  <1>6. DOMAIN anchors' = 1..(n + 1)
    BY <1>5, LenProperties
  <1> HIDE DEF n
  <1>7. /\ \A k \in DOMAIN anchors : k \in DOMAIN anchors' /\ anchors'[k] = anchors[k]
        /\ \A k \in DOMAIN anchors' : k \in DOMAIN anchors \/ anchors'[k] = record
        /\ n + 1 \in DOMAIN anchors'
    BY <1>2, <1>5, <1>6
  <1>8. \A k, l \in DOMAIN anchors' :
          anchors'[k].tx = anchors'[l].tx => anchors'[k].memo = anchors'[l].memo
    BY <1>1, <1>3, <1>7 DEF RecordsInOrder
  <1>9. RecordsInOrder'
    BY <1>1, <1>8 DEF RecordsInOrder
  <1> QED BY <1>3, <1>5, <1>7, <1>9 DEF Row

\* The end of anchor_to_chain, whatever happened to the row since.
LEMMA FinishAnchorKeeps ==
  ASSUME FileInv, NEW n \in DOMAIN inFlight, NEW tx \in Txs, FinishAnchor(n, tx)
  PROVE  FileInv'
  <1> DEFINE memo == inFlight[n].memo
             i == memo.file
             sku == NewSku(5, files[i].version, memo.commit, tx)
  <1>1. /\ Answer /\ tx \in SignedFor(memo)
        /\ anchors' = Append(anchors, [sku |-> sku, tx |-> tx, memo |-> memo])
        /\ Rename(inFlight[n], sku) /\ TellEvent(i, 5, Remaining(n))
        /\ UNCHANGED <<gitCommits, appraised, scores, lienVars>>
    BY DEF FinishAnchor
  <1>2. /\ FileTypeOK /\ RecordsInOrder /\ SkusBacked /\ HandlersBacked /\ EventsTold
        /\ i \in DOMAIN files /\ files[i].version \in Nat \ {0}
        /\ memo \in Memo /\ memo.commit \in ToSet(Commits) \cup {None}
    BY FilesRow DEF FileInv, FileRecord, HandlersBacked, FileTypeOK, Handler, Memo
  <1>3. sku.commit = memo.commit /\ sku.tx = tx /\ sku.stage = 5 /\ sku.kpi = 0
    BY DEF NewSku
  <1>0. 5 \in Stages
    BY DEF Stages
  <1>4. sku \in Sku
    <2>1. tx \in Txs \cup {None}
      OBVIOUS
    <2> HIDE DEF i, memo
    <2> QED BY <1>0, <1>2, <2>1, NewSkuType
  <1> HIDE DEF sku
  <1>5. /\ files' \in Seq(FileRecord) /\ DOMAIN files' = DOMAIN files
        /\ files'[i].sku = sku
        /\ files'[i].stage \in {files[i].stage, 5}
        /\ \A j \in DOMAIN files \ {i} : files'[j] = files[j]
    BY <1>1, <1>3, <1>4, Renamed
  <1>6. /\ anchors' \in Seq([sku : Sku, tx : Txs, memo : Memo])
        /\ \A k \in DOMAIN anchors : k \in DOMAIN anchors' /\ anchors'[k] = anchors[k]
        /\ \E k \in DOMAIN anchors' : anchors'[k].tx = tx /\ anchors'[k].memo = memo
        /\ RecordsInOrder'
    <2> HIDE DEF memo
    <2> QED BY <1>1, <1>2, <1>4, Anchored
  <1>7. \A j \in DOMAIN files \ {i} : files[j].sku # sku
    <2> SUFFICES ASSUME NEW j \in DOMAIN files, files[j].sku = sku PROVE j = i
      OBVIOUS
    <2>1. tx # None
      BY FileLifeAssumption
    <2>2. AnchoredFor(tx, j)
      BY <1>2, <1>3, <2>1 DEF SkusBacked
    <2> QED BY <1>1, <2>2 DEF AnchoredFor, SignedFor
  <1>8. sku.commit # None => sku.commit \in DOMAIN gitCommits' /\ gitCommits'[sku.commit].file = i
    BY <1>1, <1>2, <1>3 DEF HandlersBacked, MadeFor
  <1>9. \E k \in DOMAIN anchors' : anchors'[k].tx = sku.tx /\ anchors'[k].memo.file = i
    BY <1>3, <1>6
  <1>10. FewerHandlers /\ EventsTyped' /\ EventsTold'
    <2> HIDE DEF i
    <2> QED BY <1>0, <1>1, <1>2, <1>5, StageTold
  <1>11. /\ \A k, j \in DOMAIN files' : files'[k].sku = files'[j].sku => k = j
         /\ SkusBacked' /\ HandlersBacked'
    <2>1. \A d \in DOMAIN gitCommits : d \in DOMAIN gitCommits' /\ gitCommits'[d] = gitCommits[d]
      BY <1>1
    <2>2. \A j \in DOMAIN files \ {i} : files'[j] = files[j] /\ files[j].sku # sku
      BY <1>5, <1>7
    <2> HIDE DEF i
    <2> QED BY <1>2, <1>4, <1>5, <1>6, <1>8, <1>9, <1>10, <2>1, <2>2, SkuGiven
  <1>12. FileTypeOK'
    <2>1. budget' \in Budget
      BY <1>1, <1>2, Answered
    <2>2. RecordsTyped'
      BY <1>1, <1>2, <1>5 DEF FileTypeOK, RecordsTyped, lienVars
    <2>3. \A k \in DOMAIN inFlight' : inFlight'[k] \in Handler
      BY <1>2, <1>10 DEF FewerHandlers, FileTypeOK
    <2>4. /\ DOMAIN gitCommits' \subseteq ToSet(Commits)
          /\ \A d \in DOMAIN gitCommits' : gitCommits'[d] \in [sku : Sku, file : DOMAIN files']
      BY <1>1, <1>2, <1>5 DEF FileTypeOK
    <2> QED BY <1>5, <1>6, <1>10, <1>11, <2>1, <2>2, <2>3, <2>4
            DEF FileTypeOK, RecordsTyped, EventsTyped, Budget
  <1> QED BY <1>6, <1>10, <1>11, <1>12 DEF FileInv

\* The end of anchor_appraisal.
LEMMA FinishAnchorAppraisalKeeps ==
  ASSUME FileInv, NEW n \in DOMAIN inFlight, NEW tx \in Txs, FinishAnchorAppraisal(n, tx)
  PROVE  FileInv'
  <1> DEFINE memo == inFlight[n].memo
  <1>1. /\ Answer /\ tx \in SignedFor(memo)
        /\ anchors' = Append(anchors, [sku |-> memo.sku, tx |-> tx, memo |-> memo])
        /\ inFlight' = Remaining(n)
        /\ UNCHANGED <<files, gitCommits, appraised, scores, lienVars, events, crashed, untold>>
    BY DEF FinishAnchorAppraisal
  <1>2. /\ FileTypeOK /\ SkusBacked /\ HandlersBacked /\ EventsTold
        /\ memo \in Memo /\ memo.sku \in Sku
    BY DEF FileInv, FileTypeOK, Handler, Memo
  <1> HIDE DEF memo
  <1>3. /\ anchors' \in Seq([sku : Sku, tx : Txs, memo : Memo])
        /\ \A k \in DOMAIN anchors : k \in DOMAIN anchors' /\ anchors'[k] = anchors[k]
        /\ RecordsInOrder'
    BY <1>1, <1>2, Anchored
  <1>4. FewerHandlers
    BY <1>1, Remains
  <1>5. FileTypeOK'
    <2>1. budget' \in Budget
      BY <1>1, <1>2, Answered
    <2>2. \A k \in DOMAIN inFlight' : inFlight'[k] \in Handler
      BY <1>2, <1>4 DEF FewerHandlers, FileTypeOK
    <2> QED BY <1>1, <1>2, <1>3, <2>1, <2>2 DEF FileTypeOK, Budget, lienVars
  <1>6. SkusBacked'
    BY <1>1, <1>2, <1>3 DEF SkusBacked, MadeFor, AnchoredFor
  <1>7. HandlersBacked' /\ EventsTold'
    BY <1>1, <1>2, <1>4 DEF HandlersBacked, FewerHandlers, EventsTold, MadeFor
  <1> QED BY <1>3, <1>5, <1>6, <1>7 DEF FileInv

\* A handler that ends in an error changes nothing.
LEMMA AbandonKeeps ==
  ASSUME FileInv, NEW n \in DOMAIN inFlight, Abandon(n)
  PROVE  FileInv'
  <1>1. /\ Answer /\ inFlight' = Remaining(n)
        /\ UNCHANGED <<files, gitCommits, anchors, appraised, scores, lienVars, events, crashed,
                       untold>>
    BY DEF Abandon
  <1>2. FileTypeOK /\ EventsTold
    BY DEF FileInv
  <1>3. FewerHandlers
    BY <1>1, Remains
  <1>4. RecordsTyped' /\ EventsTyped' /\ EventsTold'
    BY <1>1, <1>2 DEF FileTypeOK, RecordsTyped, EventsTyped, EventsTold, lienVars
  <1>5. files' \in Seq(FileRecord)
    BY <1>1, <1>2 DEF FileTypeOK
  <1> QED BY <1>1, <1>3, <1>4, <1>5, SkusKept

\* A pledge adds a lien, the newest, and shows it.
LEMMA Pledged ==
  ASSUME FileTypeOK, NEW i \in DOMAIN files, Pledge(i)
  PROVE  /\ files[i].sku \in DOMAIN collateral
         /\ liens' \in Seq([sku : Sku, status : {"pledged", "released"},
              cert : Nat, file : DOMAIN files])
         /\ DOMAIN liens' = DOMAIN liens \cup {Len(liens) + 1}
         /\ \A k \in DOMAIN liens : k \in Nat /\ k < Len(liens) + 1 /\ liens'[k] = liens[k]
         /\ liens'[Len(liens) + 1] =
              [sku |-> files[i].sku, status |-> "pledged",
               cert |-> collateral[files[i].sku].cert, file |-> i]
         /\ DOMAIN collateral' = DOMAIN collateral
         /\ \A s \in DOMAIN collateral \ {files[i].sku} : collateral'[s] = collateral[s]
         /\ collateral'[files[i].sku]
              = [shown |-> "pledged", cert |-> collateral[files[i].sku].cert]
         /\ \A s \in DOMAIN collateral' :
              s \in Sku /\ collateral'[s] \in [shown : {"none", "pledged"}, cert : Nat]
  <1> DEFINE sku == files[i].sku
             Row == [sku : Sku, status : {"pledged", "released"}, cert : Nat, file : DOMAIN files]
             lien == [sku |-> sku, status |-> "pledged", cert |-> collateral[sku].cert,
               file |-> i]
             n == Len(liens)
  <1>1. /\ sku \in DOMAIN collateral /\ liens' = Append(liens, lien)
        /\ collateral' = [collateral EXCEPT ![sku].shown = "pledged"]
    BY DEF Pledge
  <1>2. /\ \A s \in DOMAIN collateral :
             s \in Sku /\ collateral[s] \in [shown : {"none", "pledged"}, cert : Nat]
        /\ liens \in Seq(Row)
    BY DEF FileTypeOK
  <1> HIDE DEF sku
  <1>3. lien \in Row
    BY <1>1, <1>2
  <1> HIDE DEF Row, lien
  <1>4. n \in Nat /\ DOMAIN liens = 1..n
    BY <1>2, LenProperties
  <1>5. /\ liens' \in Seq(Row) /\ Len(liens') = n + 1 /\ liens'[n + 1] = lien
        /\ \A k \in 1..n : liens'[k] = liens[k]
    <2>1. \A k \in 1..Len(liens) : Append(liens, lien)[k] = liens[k]
      BY <1>2, <1>3, AppendProperties
    <2> QED BY <1>1, <1>2, <1>3, <2>1, AppendProperties
  <1>6. DOMAIN liens' = 1..(n + 1)
    BY <1>5, LenProperties
  <1>7. /\ DOMAIN liens' = DOMAIN liens \cup {n + 1}
        /\ \A k \in DOMAIN liens : k \in Nat /\ k < n + 1 /\ liens'[k] = liens[k]
    <2> HIDE DEF n
    <2> QED BY <1>4, <1>5, <1>6
  <1>8. /\ DOMAIN collateral' = DOMAIN collateral
        /\ \A s \in DOMAIN collateral \ {sku} : collateral'[s] = collateral[s]
        /\ collateral'[sku] = [shown |-> "pledged", cert |-> collateral[sku].cert]
    BY <1>1, <1>2
  <1>9. \A s \in DOMAIN collateral' :
          s \in Sku /\ collateral'[s] \in [shown : {"none", "pledged"}, cert : Nat]
    BY <1>1, <1>2, <1>8
  <1> QED BY <1>1, <1>5, <1>7, <1>8, <1>9 DEF sku, Row, lien

\* A release changes one lien of the SKU and shows none.
LEMMA Released ==
  ASSUME FileTypeOK, NEW i \in DOMAIN files, Release(i)
  PROVE  /\ liens' \in Seq([sku : Sku, status : {"pledged", "released"},
              cert : Nat, file : DOMAIN files])
         /\ DOMAIN liens' = DOMAIN liens
         /\ \A k \in DOMAIN liens : /\ liens'[k].sku = liens[k].sku
                                    /\ liens'[k].cert = liens[k].cert
                                    /\ liens'[k].status = "pledged" => liens[k].status = "pledged"
                                    /\ liens[k].sku # files[i].sku => liens'[k] = liens[k]
         /\ DOMAIN collateral' = DOMAIN collateral
         /\ \A s \in DOMAIN collateral \ {files[i].sku} : collateral'[s] = collateral[s]
         /\ \A s \in DOMAIN collateral : collateral'[s].cert = collateral[s].cert
         /\ files[i].sku \in DOMAIN collateral => collateral'[files[i].sku].shown = "none"
         /\ \A s \in DOMAIN collateral' :
              s \in Sku /\ collateral'[s] \in [shown : {"none", "pledged"}, cert : Nat]
  <1> DEFINE sku == files[i].sku
             Row == [sku : Sku, status : {"pledged", "released"}, cert : Nat, file : DOMAIN files]
  <1>1. PICK n \in DOMAIN liens : /\ liens[n].sku = sku
                                  /\ liens' = [liens EXCEPT ![n].status = "released"]
                                  /\ \A m \in Standing(sku) : m <= n
    BY DEF Release, Standing
  <1>2. collateral' = IF sku \in DOMAIN collateral THEN [collateral EXCEPT ![sku].shown = "none"]
                      ELSE collateral
    BY DEF Release, ShowRelease
  <1>3. /\ \A s \in DOMAIN collateral :
             s \in Sku /\ collateral[s] \in [shown : {"none", "pledged"}, cert : Nat]
        /\ liens \in Seq(Row)
    BY DEF FileTypeOK
  <1> HIDE DEF sku
  <1>4. DOMAIN liens = 1..Len(liens) /\ liens \in [1..Len(liens) -> Row]
    BY <1>3, LenProperties
  <1> DEFINE lien == [liens[n] EXCEPT !.status = "released"]
  <1>5. /\ lien \in Row /\ lien.sku = sku /\ lien.cert = liens[n].cert
        /\ lien.status = "released"
    BY <1>1, <1>4
  <1>6. liens' = [liens EXCEPT ![n] = lien]
    BY <1>1
  <1> HIDE DEF Row, lien
  <1>7. /\ liens' \in Seq(Row) /\ DOMAIN liens' = DOMAIN liens
        /\ \A k \in DOMAIN liens : liens'[k] = IF k = n THEN lien ELSE liens[k]
    BY <1>3, <1>4, <1>5, <1>6, ExceptSeq
  <1>8. /\ DOMAIN collateral' = DOMAIN collateral
        /\ \A s \in DOMAIN collateral \ {sku} : collateral'[s] = collateral[s]
        /\ \A s \in DOMAIN collateral : collateral'[s].cert = collateral[s].cert
        /\ sku \in DOMAIN collateral => collateral'[sku].shown = "none"
        /\ \A s \in DOMAIN collateral' :
              s \in Sku /\ collateral'[s] \in [shown : {"none", "pledged"}, cert : Nat]
    BY <1>2, <1>3
  <1> QED BY <1>1, <1>5, <1>7, <1>8 DEF sku, Row

\* Liens are none of the SKUs' business.
LEMMA LiensKeep ==
  ASSUME FileInv, NEW i \in DOMAIN files, Pledge(i) \/ Release(i)
  PROVE  FileInv'
  <1>1. /\ Answer
        /\ UNCHANGED <<files, gitCommits, anchors, appraised, scores, evaluated, events, inFlight,
                       crashed, untold>>
    BY DEF Pledge, Release, crashVars
  <1>2. FileTypeOK /\ EventsTold /\ files[i].sku \in Sku
    BY FilesRow DEF FileInv, FileRecord
  <1>3. /\ liens' \in Seq([sku : Sku, status : {"pledged", "released"},
             cert : Nat, file : DOMAIN files])
        /\ \A s \in DOMAIN collateral' :
             s \in Sku /\ collateral'[s] \in [shown : {"none", "pledged"}, cert : Nat]
    BY <1>2, Pledged, Released
  <1>4. pledgedOver' \subseteq Sku /\ reissued' \subseteq Sku
    BY <1>2 DEF Pledge, Release, FileTypeOK
  <1>5. RecordsTyped'
    BY <1>1, <1>2, <1>3, <1>4 DEF FileTypeOK, RecordsTyped
  <1>6. EventsTyped' /\ EventsTold' /\ FewerHandlers
    BY <1>1, <1>2 DEF FileTypeOK, EventsTyped, EventsTold, FewerHandlers
  <1>7. files' \in Seq(FileRecord)
    BY <1>1, <1>2 DEF FileTypeOK
  <1> QED BY <1>1, <1>5, <1>6, <1>7, SkusKept

\* Every request, and every end of a handler, keeps the invariant.
LEMMA FileStepInv == FileInv /\ FileNext => FileInv'
  <1> SUFFICES ASSUME FileInv, FileNext PROVE FileInv'
    OBVIOUS
  <1> QED BY RegisterKeeps, AppraisalKeeps, VerifyKeeps, EvaluateKeeps, StartKeeps, LiensKeep,
             FinishCommitKeeps, FinishAnchorKeeps, FinishAnchorAppraisalKeeps, AbandonKeeps
          DEF FileNext

\* It holds of the empty registry.
LEMMA FileInitInv == Init => FileInv
  <1> SUFFICES ASSUME FileInit PROVE FileInv
    BY DEF Init
  <1>1. /\ DOMAIN files = {} /\ DOMAIN anchors = {} /\ DOMAIN liens = {} /\ Len(anchors) = 0
        /\ DOMAIN gitCommits = {} /\ DOMAIN scores = {} /\ DOMAIN collateral = {}
        /\ DOMAIN inFlight = {}
    BY DEF FileInit
  <1>2. FileTypeOK
    <2>1. /\ files = <<>> /\ anchors = <<>> /\ liens = <<>> /\ appraised = {}
          /\ events = {} /\ untold = {} /\ evaluated = {} /\ pledgedOver = {} /\ reissued = {}
          /\ crashed = FALSE
      BY DEF FileInit
    <2>2. budget \in Budget
      BY FileLifeAssumption DEF FileInit, Budget
    <2>3. /\ files \in Seq(FileRecord) /\ anchors \in Seq([sku : Sku, tx : Txs, memo : Memo])
          /\ liens \in Seq([sku : Sku, status : {"pledged", "released"}, cert : Nat,
                            file : DOMAIN files])
      BY <2>1
    <2>4. /\ \A i, j \in DOMAIN files : files[i].sku = files[j].sku => i = j
          /\ \A c \in DOMAIN gitCommits : gitCommits[c] \in [sku : Sku, file : DOMAIN files]
          /\ DOMAIN gitCommits \subseteq ToSet(Commits)
      BY <1>1
    <2>5. /\ \A s \in DOMAIN scores : s \in Sku /\ scores[s] \in 0..3
          /\ \A s \in DOMAIN collateral :
               s \in Sku /\ collateral[s] \in [shown : {"none", "pledged"}, cert : Nat]
      BY <1>1
    <2>6. /\ appraised \subseteq Sku /\ \A n \in DOMAIN inFlight : inFlight[n] \in Handler
          /\ events \subseteq (DOMAIN files) \X Stages /\ untold \subseteq (DOMAIN files) \X Stages
          /\ evaluated \subseteq DOMAIN files /\ pledgedOver \subseteq Sku /\ reissued \subseteq Sku
          /\ crashed \in BOOLEAN
      BY <1>1, <2>1
    <2> QED BY <2>2, <2>3, <2>4, <2>5, <2>6 DEF FileTypeOK, Budget
  <1>3. RecordsInOrder
    <2>1. IsFiniteSet({}) /\ Cardinality({}) = 0
      BY FS_EmptySet
    <2>2. Cardinality(DOMAIN gitCommits) = 0
      BY <1>1, <2>1
    <2>3. {Commits[k] : k \in 1..0} = {}
      OBVIOUS
    <2>4. Len(Commits) \in Nat
      BY FileLifeAssumption, LenProperties
    <2> QED BY <1>1, <2>1, <2>2, <2>3, <2>4 DEF RecordsInOrder
  <1>4. SkusBacked /\ HandlersBacked /\ EventsTold
    BY <1>1 DEF FileInit, SkusBacked, HandlersBacked, EventsTold
  <1> QED BY <1>2, <1>3, <1>4 DEF FileInv

\* It holds in every state.
LEMMA FileInvHolds == Spec => []FileInv
  <1>1. FileInv /\ UNCHANGED fileVars => FileInv'
    BY DEF FileInv, FileTypeOK, RecordsInOrder, SkusBacked, HandlersBacked, EventsTold, MadeFor,
           AnchoredFor, fileVars, lienVars, crashVars
  <1>2. FileInv /\ [Next]_serviceVars => FileInv'
    BY <1>1, FileFrame, FileStepInv
  <1> QED BY <1>2, FileInitInv, PTL DEF Spec

\* However the handlers of the files overtake each other across their awaits,
\* two identical requests included, the commit a SKU spells is recorded for the
\* file that bears it, its transaction is recorded, and an event tells of every
\* stage unless the process stopped right before it: for any files, commits and
\* transactions, whichever memos have the same signature again.
THEOREM SkusSound == Spec => []RecordsBackSku
  <1>1. FileInv => RecordsBackSku
    BY DEF FileInv, SkusBacked, EventsTold, MadeFor, RecordsBackSku
  <1> QED BY <1>1, FileInvHolds, PTL

\* The newest lien of a SKU.
Newest(sku, k) ==
  k \in DOMAIN liens /\ liens[k].sku = sku /\ \A m \in DOMAIN liens : liens[m].sku = sku => m <= k

\* Liens rest on collateral.
LiensOnCollateral == \A k \in DOMAIN liens : liens[k].sku \in DOMAIN collateral

\* Unless a SKU is pledged over a lien that stands, only its newest lien stands.
NewestStands ==
  \A n, k \in DOMAIN liens :
    liens[n].status = "pledged" /\ liens[k].sku = liens[n].sku =>
      k <= n \/ liens[n].sku \in pledgedOver

\* The newest lien, if pledged, is on the certificate, unless one was issued since.
NewestOnCertificate ==
  \A k \in DOMAIN liens :
    liens[k].status = "pledged" /\ Newest(liens[k].sku, k) =>
      liens[k].cert = collateral[liens[k].sku].cert \/ liens[k].sku \in reissued

\* Collateral shown as pledged is, by the newest lien, on its certificate.
ShownStands ==
  \A sku \in DOMAIN collateral :
    collateral[sku].shown = "pledged" =>
      \E k \in DOMAIN liens : /\ Newest(sku, k)
                              /\ liens[k].status = "pledged"
                              /\ liens[k].cert = collateral[sku].cert

\* The invariant of the liens.
LiensInv == LiensOnCollateral /\ NewestStands /\ NewestOnCertificate /\ ShownStands

\* The rows of the liens.
LEMMA LienRows ==
  ASSUME FileTypeOK
  PROVE  /\ Len(liens) \in Nat /\ DOMAIN liens = 1..Len(liens)
         /\ \A k \in DOMAIN liens : k \in Nat /\ liens[k].status \in {"pledged", "released"}
  <1> DEFINE Row == [sku : Sku, status : {"pledged", "released"}, cert : Nat, file : DOMAIN files]
  <1>1. liens \in Seq(Row)
    BY DEF FileTypeOK
  <1>2. Len(liens) \in Nat /\ DOMAIN liens = 1..Len(liens) /\ liens \in [1..Len(liens) -> Row]
    <2> HIDE DEF Row
    <2> QED BY <1>1, LenProperties
  <1> QED BY <1>2

\* What get_lien_status answers: the newest lien, if there is one.
LEMMA LienStatusIs ==
  ASSUME FileTypeOK, NEW sku
  PROVE  \/ \E k \in DOMAIN liens :
              /\ Newest(sku, k)
              /\ LienStatus(sku) = [status |-> liens[k].status, cert |-> liens[k].cert]
         \/ /\ \A k \in DOMAIN liens : liens[k].sku # sku
            /\ LienStatus(sku) = [status |-> "none", cert |-> 0]
  <1> DEFINE filed == {k \in DOMAIN liens : liens[k].sku = sku}
  <1>1. LienStatus(sku) = IF filed = {} THEN [status |-> "none", cert |-> 0]
                          ELSE [status |-> liens[Max(filed)].status,
                                cert |-> liens[Max(filed)].cert]
    BY DEF LienStatus
  <1>2. CASE filed # {}
    <2>1. Len(liens) \in Nat /\ DOMAIN liens = 1..Len(liens)
      BY LienRows
    <2>2. \A k \in filed : k \in 1..Len(liens)
      BY <2>1
    <2>3. Max(filed) \in filed /\ \A k \in filed : Max(filed) >= k
      <3> HIDE DEF filed
      <3> QED BY <1>2, <2>1, <2>2, GreatestOf
    <2>4. PICK k \in filed : k = Max(filed)
      BY <2>3
    <2>5. \A m \in filed : m <= k
      <3> HIDE DEF filed
      <3> QED BY <2>1, <2>2, <2>3, <2>4
    <2>6. Newest(sku, k)
      BY <2>4, <2>5 DEF Newest
    <2> QED BY <1>1, <1>2, <2>4, <2>6
  <1>3. CASE filed = {}
    BY <1>1, <1>3
  <1> QED BY <1>2, <1>3

\* What the API shows, from the newest liens.
LEMMA LiensInvShown == FileInv /\ LiensInv => ShownLiensAreReal
  <1> SUFFICES ASSUME FileInv, LiensInv, NEW sku \in DOMAIN collateral
               PROVE  /\ LienStatus(sku).status = "pledged" =>
                           LienStatus(sku).cert = collateral[sku].cert \/ sku \in reissued
                      /\ LienStatus(sku).status # "pledged" =>
                           Standing(sku) = {} \/ sku \in pledgedOver
                      /\ collateral[sku].shown = "pledged" =>
                           LienStatus(sku) = [status |-> "pledged", cert |-> collateral[sku].cert]
    BY DEF ShownLiensAreReal
  <1>1. FileTypeOK /\ \A k \in DOMAIN liens : k \in Nat
    BY LienRows DEF FileInv
  <1>2. CASE \E k \in DOMAIN liens :
               /\ Newest(sku, k)
               /\ LienStatus(sku) = [status |-> liens[k].status, cert |-> liens[k].cert]
    <2>1. PICK k \in DOMAIN liens :
            /\ Newest(sku, k)
            /\ LienStatus(sku) = [status |-> liens[k].status, cert |-> liens[k].cert]
      BY <1>2
    <2>2. \A m \in DOMAIN liens : Newest(sku, m) => m = k
      BY <1>1, <2>1 DEF Newest
    <2>3. LienStatus(sku).status = "pledged" =>
            LienStatus(sku).cert = collateral[sku].cert \/ sku \in reissued
      <3>1. liens[k].sku = sku
        BY <2>1 DEF Newest
      <3> QED BY <2>1, <3>1 DEF LiensInv, NewestOnCertificate
    <2>4. ASSUME LienStatus(sku).status # "pledged", NEW n \in Standing(sku)
          PROVE  sku \in pledgedOver
      <3>1. n \in DOMAIN liens /\ liens[n].sku = sku /\ liens[n].status = "pledged"
        BY <2>4 DEF Standing
      <3>2. liens[k].sku = sku /\ n <= k
        BY <2>1, <3>1 DEF Newest
      <3>3. n # k
        BY <2>1, <2>4, <3>1
      <3>4. ~(k <= n)
        BY <1>1, <3>1, <3>2, <3>3
      <3> QED BY <3>1, <3>2, <3>4 DEF LiensInv, NewestStands
    <2>5. collateral[sku].shown = "pledged" =>
            LienStatus(sku) = [status |-> "pledged", cert |-> collateral[sku].cert]
      BY <2>1, <2>2 DEF LiensInv, ShownStands
    <2> QED BY <2>3, <2>4, <2>5
  <1>3. CASE /\ \A k \in DOMAIN liens : liens[k].sku # sku
             /\ LienStatus(sku) = [status |-> "none", cert |-> 0]
    BY <1>3 DEF LiensInv, ShownStands, Standing, Newest
  <1> QED BY <1>1, <1>2, <1>3, LienStatusIs

\* A pledge is the newest lien, on the certificate shown.
LEMMA PledgeInv ==
  ASSUME FileInv, LiensInv, NEW i \in DOMAIN files, Pledge(i)
  PROVE  LiensInv'
  <1> DEFINE sku == files[i].sku
             cert == collateral[sku].cert
  <1>0. FileTypeOK /\ Len(liens) + 1 \in Nat
    BY LienRows DEF FileInv
  <1> PICK n \in Nat : n = Len(liens) + 1
    BY <1>0
  <1>1. /\ sku \in DOMAIN collateral
        /\ DOMAIN liens' = DOMAIN liens \cup {n}
        /\ \A k \in DOMAIN liens : k \in Nat /\ k < n /\ liens'[k] = liens[k]
        /\ liens'[n].sku = sku /\ liens'[n].status = "pledged" /\ liens'[n].cert = cert
        /\ DOMAIN collateral' = DOMAIN collateral
        /\ \A s \in DOMAIN collateral \ {sku} : collateral'[s] = collateral[s]
        /\ collateral'[sku].cert = cert
    <2>1. /\ DOMAIN liens' = DOMAIN liens \cup {n}
          /\ \A k \in DOMAIN liens : k \in Nat /\ k < n /\ liens'[k] = liens[k]
      BY <1>0, Pledged
    <2>2. /\ liens'[n] = [sku |-> sku, status |-> "pledged", cert |-> cert, file |-> i]
          /\ collateral'[sku] = [shown |-> "pledged", cert |-> cert]
      BY <1>0, Pledged
    <2>3. /\ sku \in DOMAIN collateral /\ DOMAIN collateral' = DOMAIN collateral
          /\ \A s \in DOMAIN collateral \ {sku} : collateral'[s] = collateral[s]
      BY <1>0, Pledged
    <2> HIDE DEF sku, cert
    <2> QED BY <2>1, <2>2, <2>3
  <1>2. /\ pledgedOver \subseteq pledgedOver'
        /\ Standing(sku) # {} => sku \in pledgedOver'
        /\ reissued' = reissued \ {sku}
    BY DEF Pledge
  <1> HIDE DEF sku, cert
  <1>3. \A k \in DOMAIN liens' : liens'[k].sku \in DOMAIN collateral'
    BY <1>1 DEF LiensInv, LiensOnCollateral
  <1>4. ASSUME NEW m \in DOMAIN liens', NEW k \in DOMAIN liens',
               liens'[m].status = "pledged", liens'[k].sku = liens'[m].sku
        PROVE  k <= m \/ liens'[m].sku \in pledgedOver'
    <2>1. CASE m = n
      BY <1>1, <2>1
    <2>2. CASE m # n /\ k # n
      <3>1. /\ m \in DOMAIN liens /\ k \in DOMAIN liens
            /\ liens'[m] = liens[m] /\ liens'[k] = liens[k]
        BY <1>1, <2>2
      <3>2. k <= m \/ liens[m].sku \in pledgedOver
        BY <1>4, <3>1 DEF LiensInv, NewestStands
      <3> QED BY <1>2, <3>1, <3>2
    <2>3. CASE m # n /\ k = n
      <3>1. m \in Standing(sku)
        BY <1>1, <1>4, <2>3 DEF Standing
      <3>2. liens'[m].sku = sku
        BY <1>1, <1>4, <2>3
      <3> QED BY <1>2, <3>1, <3>2
    <2> QED BY <2>1, <2>2, <2>3
  <1>5. \A k \in DOMAIN liens' : Newest(liens[k].sku, k)' =>
          \/ k = n
          \/ k \in DOMAIN liens /\ liens[k].sku # sku /\ Newest(liens[k].sku, k)
    <2> SUFFICES ASSUME NEW k \in DOMAIN liens', Newest(liens[k].sku, k)', k # n
                 PROVE  k \in DOMAIN liens /\ liens[k].sku # sku /\ Newest(liens[k].sku, k)
      OBVIOUS
    <2>1. k \in DOMAIN liens /\ k < n /\ k \in Nat /\ liens'[k] = liens[k]
      BY <1>1
    <2>2. \A m \in DOMAIN liens' : liens'[m].sku = liens[k].sku => m <= k
      BY <2>1 DEF Newest
    <2>3. liens[k].sku # sku
      BY <1>0, <1>1, <2>1, <2>2
    <2>4. Newest(liens[k].sku, k)
      BY <1>1, <2>1, <2>2 DEF Newest
    <2> QED BY <2>1, <2>3, <2>4
  <1>6. ASSUME NEW k \in DOMAIN liens', liens'[k].status = "pledged", Newest(liens[k].sku, k)'
        PROVE  liens'[k].cert = collateral'[liens'[k].sku].cert \/ liens'[k].sku \in reissued'
    <2>1. CASE k = n
      BY <1>1, <2>1
    <2>2. CASE k \in DOMAIN liens /\ liens[k].sku # sku /\ Newest(liens[k].sku, k)
      <3>1. liens'[k] = liens[k] /\ liens[k].sku \in DOMAIN collateral
        BY <1>1, <2>2 DEF LiensInv, LiensOnCollateral
      <3>2. liens[k].cert = collateral[liens[k].sku].cert \/ liens[k].sku \in reissued
        BY <1>6, <2>2, <3>1 DEF LiensInv, NewestOnCertificate
      <3> QED BY <1>1, <1>2, <2>2, <3>1, <3>2
    <2> QED BY <1>5, <1>6, <2>1, <2>2
  <1>7. ASSUME NEW s \in DOMAIN collateral', collateral'[s].shown = "pledged"
        PROVE  \E k \in DOMAIN liens' : /\ Newest(s, k)'
                                        /\ liens'[k].status = "pledged"
                                        /\ liens'[k].cert = collateral'[s].cert
    <2>1. CASE s = sku
      <3>1. Newest(s, n)'
        BY <1>1, <2>1 DEF Newest
      <3> QED BY <1>1, <2>1, <3>1
    <2>2. CASE s # sku
      <3>1. PICK k \in DOMAIN liens : /\ Newest(s, k) /\ liens[k].status = "pledged"
                                      /\ liens[k].cert = collateral[s].cert
        BY <1>1, <1>7, <2>2 DEF LiensInv, ShownStands
      <3>2. Newest(s, k)'
        BY <1>1, <2>2, <3>1 DEF Newest
      <3> QED BY <1>1, <2>2, <3>1, <3>2
    <2> QED BY <2>1, <2>2
  <1>10. LiensOnCollateral'
    BY <1>3 DEF LiensOnCollateral
  <1>11. NewestStands'
    BY <1>4 DEF NewestStands
  <1>12. NewestOnCertificate'
    BY <1>6 DEF NewestOnCertificate
  <1>13. ShownStands'
    BY <1>7 DEF ShownStands
  <1> QED BY <1>10, <1>11, <1>12, <1>13 DEF LiensInv

\* A release leaves every lien in its place, and its own SKU not shown pledged.
LEMMA ReleaseInv ==
  ASSUME FileInv, LiensInv, NEW i \in DOMAIN files, Release(i)
  PROVE  LiensInv'
  <1>0. FileTypeOK
    BY DEF FileInv
  <1>1. /\ DOMAIN liens' = DOMAIN liens
        /\ \A k \in DOMAIN liens : /\ liens'[k].sku = liens[k].sku
                                   /\ liens'[k].cert = liens[k].cert
                                   /\ liens'[k].status = "pledged" => liens[k].status = "pledged"
                                   /\ liens[k].sku # files[i].sku => liens'[k] = liens[k]
        /\ DOMAIN collateral' = DOMAIN collateral
        /\ \A s \in DOMAIN collateral \ {files[i].sku} : collateral'[s] = collateral[s]
        /\ files[i].sku \in DOMAIN collateral => collateral'[files[i].sku].shown = "none"
        /\ \A s \in DOMAIN collateral : collateral'[s].cert = collateral[s].cert
    BY <1>0, Released
  <1>2. UNCHANGED <<pledgedOver, reissued>>
    BY DEF Release
  <1>3. \A s, k : Newest(s, k)' <=> Newest(s, k)
    BY <1>1 DEF Newest
  <1>4. \A k \in DOMAIN liens' : liens'[k].sku \in DOMAIN collateral'
    BY <1>1 DEF LiensInv, LiensOnCollateral
  <1>5. \A m, k \in DOMAIN liens' :
          liens'[m].status = "pledged" /\ liens'[k].sku = liens'[m].sku =>
            k <= m \/ liens'[m].sku \in pledgedOver'
    BY <1>1, <1>2 DEF LiensInv, NewestStands
  <1>6. ASSUME NEW k \in DOMAIN liens', liens'[k].status = "pledged", Newest(liens[k].sku, k)'
        PROVE  liens'[k].cert = collateral'[liens'[k].sku].cert \/ liens'[k].sku \in reissued'
    <2>1. Newest(liens[k].sku, k) /\ liens[k].status = "pledged" /\ k \in DOMAIN liens
      BY <1>1, <1>3, <1>6 DEF Newest
    <2>2. liens[k].cert = collateral[liens[k].sku].cert \/ liens[k].sku \in reissued
      BY <2>1 DEF LiensInv, NewestOnCertificate
    <2>3. liens[k].sku \in DOMAIN collateral
      BY <2>1 DEF LiensInv, LiensOnCollateral
    <2> QED BY <1>1, <1>2, <2>1, <2>2, <2>3
  <1>7. ASSUME NEW s \in DOMAIN collateral', collateral'[s].shown = "pledged"
        PROVE  \E k \in DOMAIN liens' : /\ Newest(s, k)'
                                        /\ liens'[k].status = "pledged"
                                        /\ liens'[k].cert = collateral'[s].cert
    <2>1. s # files[i].sku /\ collateral'[s] = collateral[s] /\ s \in DOMAIN collateral
      <3>1. s # files[i].sku
        BY <1>1, <1>7
      <3> QED BY <1>1, <3>1
    <2>2. PICK k \in DOMAIN liens : /\ Newest(s, k) /\ liens[k].status = "pledged"
                                    /\ liens[k].cert = collateral[s].cert
      BY <1>7, <2>1 DEF LiensInv, ShownStands
    <2>3. liens'[k] = liens[k]
      BY <1>1, <2>1, <2>2 DEF Newest
    <2> QED BY <1>1, <1>3, <2>1, <2>2, <2>3
  <1>10. LiensOnCollateral'
    BY <1>4 DEF LiensOnCollateral
  <1>11. NewestStands'
    BY <1>5 DEF NewestStands
  <1>12. NewestOnCertificate'
    BY <1>6 DEF NewestOnCertificate
  <1>13. ShownStands'
    BY <1>7 DEF ShownStands
  <1> QED BY <1>10, <1>11, <1>12, <1>13 DEF LiensInv

\* An evaluation shows no pledge, and remembers one it issues over.
LEMMA EvaluateInv ==
  ASSUME FileInv, LiensInv, NEW i \in DOMAIN files, NEW worth \in Worths, Evaluate(i, worth)
  PROVE  LiensInv'
  <1> DEFINE sku == files[i].sku
             fresh == [shown |-> "none", cert |-> budget.requests]
  <1>1. /\ collateral' = Filed(collateral, sku, fresh)
        /\ reissued' = IF LienStatus(sku).status = "pledged" THEN reissued \cup {sku} ELSE reissued
        /\ UNCHANGED <<liens, pledgedOver>>
    BY DEF Evaluate
  <1>2. FileTypeOK /\ \A k \in DOMAIN liens : k \in Nat
    BY LienRows DEF FileInv
  <1> HIDE DEF sku
  <1>3. /\ DOMAIN collateral' = DOMAIN collateral \cup {sku}
        /\ \A s \in DOMAIN collateral \ {sku} : collateral'[s] = collateral[s]
        /\ collateral'[sku].shown = "none"
    BY <1>1 DEF Filed
  <1>4. \A s, k : Newest(s, k)' <=> Newest(s, k)
    BY <1>1 DEF Newest
  <1>5. \A k \in DOMAIN liens' : liens'[k].sku \in DOMAIN collateral'
    BY <1>1, <1>3 DEF LiensInv, LiensOnCollateral
  <1>6. \A m, k \in DOMAIN liens' :
          liens'[m].status = "pledged" /\ liens'[k].sku = liens'[m].sku =>
            k <= m \/ liens'[m].sku \in pledgedOver'
    BY <1>1 DEF LiensInv, NewestStands
  <1>7. ASSUME NEW k \in DOMAIN liens', liens'[k].status = "pledged", Newest(liens[k].sku, k)'
        PROVE  liens'[k].cert = collateral'[liens'[k].sku].cert \/ liens'[k].sku \in reissued'
    <2>1. Newest(liens[k].sku, k) /\ liens[k].status = "pledged" /\ k \in DOMAIN liens
      BY <1>1, <1>4, <1>7 DEF Newest
    <2>2. CASE liens[k].sku = sku
      <3>1. LienStatus(sku) = [status |-> liens[k].status, cert |-> liens[k].cert]
        <4>1. PICK m \in DOMAIN liens :
                /\ Newest(sku, m)
                /\ LienStatus(sku) = [status |-> liens[m].status, cert |-> liens[m].cert]
          BY <1>2, <2>1, <2>2, LienStatusIs
        <4>2. m = k
          BY <1>2, <2>1, <2>2, <4>1 DEF Newest
        <4> QED BY <4>1, <4>2
      <3> QED BY <1>1, <2>1, <2>2, <3>1
    <2>3. CASE liens[k].sku # sku
      <3>1. liens[k].sku \in DOMAIN collateral
        BY <2>1 DEF LiensInv, LiensOnCollateral
      <3>2. liens[k].cert = collateral[liens[k].sku].cert \/ liens[k].sku \in reissued
        BY <2>1 DEF LiensInv, NewestOnCertificate
      <3> QED BY <1>1, <1>3, <2>3, <3>1, <3>2
    <2> QED BY <2>2, <2>3
  <1>8. ASSUME NEW s \in DOMAIN collateral', collateral'[s].shown = "pledged"
        PROVE  \E k \in DOMAIN liens' : /\ Newest(s, k)'
                                        /\ liens'[k].status = "pledged"
                                        /\ liens'[k].cert = collateral'[s].cert
    <2>1. s # sku
      BY <1>3, <1>8
    <2>2. s \in DOMAIN collateral /\ collateral'[s] = collateral[s]
      BY <1>3, <2>1
    <2>3. PICK k \in DOMAIN liens : /\ Newest(s, k) /\ liens[k].status = "pledged"
                                    /\ liens[k].cert = collateral[s].cert
      BY <1>8, <2>2 DEF LiensInv, ShownStands
    <2> QED BY <1>1, <1>4, <2>2, <2>3
  <1>10. LiensOnCollateral'
    BY <1>5 DEF LiensOnCollateral
  <1>11. NewestStands'
    BY <1>6 DEF NewestStands
  <1>12. NewestOnCertificate'
    BY <1>7 DEF NewestOnCertificate
  <1>13. ShownStands'
    BY <1>8 DEF ShownStands
  <1> QED BY <1>10, <1>11, <1>12, <1>13 DEF LiensInv

\* Every step of the registry keeps what the liens say.
LEMMA LienStepInv == FileInv /\ LiensInv /\ FileNext => LiensInv'
  <1> SUFFICES ASSUME FileInv, LiensInv, FileNext PROVE LiensInv'
    OBVIOUS
  <1>1. UNCHANGED lienVars => LiensInv'
    BY DEF LiensInv, LiensOnCollateral, NewestStands, NewestOnCertificate, ShownStands, Newest,
           lienVars
  <1>2. \/ \E i \in DOMAIN files : Pledge(i) \/ Release(i) \/ \E worth \in Worths :
             Evaluate(i, worth)
        \/ UNCHANGED lienVars
    BY DEF FileNext, RegisterFile, RunAppraisal, Verify, Start, FinishCommit, FinishAnchor,
           FinishAnchorAppraisal, Abandon
  <1> QED BY <1>1, <1>2, PledgeInv, ReleaseInv, EvaluateInv

\* What GET /certificate and the metadata behind /ask show of a SKU's liens is
\* so: a pledged lien shown is on the certificate beside it, unless the SKU was
\* evaluated again since; one shown released, or none, means none stands,
\* unless the SKU was pledged twice at a time; and collateral shown as pledged
\* is: for any files and any order of pledges, releases and evaluations.
THEOREM LiensShown == Spec => []ShownLiensAreReal
  <1>1. Init => LiensInv
    <2>1. FileInit => DOMAIN liens = {} /\ DOMAIN collateral = {}
      BY DEF FileInit
    <2> QED BY <2>1 DEF Init, LiensInv, LiensOnCollateral, NewestStands, NewestOnCertificate,
                        ShownStands
  <1>2. LiensInv /\ UNCHANGED fileVars => LiensInv'
    BY DEF LiensInv, LiensOnCollateral, NewestStands, NewestOnCertificate, ShownStands, Newest,
           fileVars, lienVars
  <1>3. FileInv /\ LiensInv /\ [Next]_serviceVars => LiensInv'
    BY <1>2, FileFrame, LienStepInv
  <1> QED BY <1>1, <1>3, FileInvHolds, LiensInvShown, PTL DEF Spec

-----------------------------------------------------------------------------
(***************************************************************************)
(* Merkle trees: the proof of every leaf leads to the root.                *)
(***************************************************************************)

\* A list of hashes: a sequence, whatever its members are.
Listed(s) == Len(s) \in Nat /\ s = [i \in 1..Len(s) |-> s[i]]

\* A list tabulated over its places is a sequence of that length.
LEMMA ListOf ==
  ASSUME NEW n \in Nat, NEW s, s = [i \in 1..n |-> s[i]]
  PROVE  Len(s) = n /\ Listed(s) /\ DOMAIN s = 1..n /\ s \in Seq({s[i] : i \in 1..n})
  <1> DEFINE S == {s[i] : i \in 1..n}
  <1>1. s \in [1..n -> S]
    OBVIOUS
  <1>2. s \in Seq(S)
    <2> HIDE DEF S
    <2> QED BY <1>1
  <1>3. DOMAIN s = 1..n
    BY <1>1
  <1>4. Len(s) = n
    <2>1. Len(s) \in Nat /\ DOMAIN s = 1..Len(s)
      <3> HIDE DEF S
      <3> QED BY <1>2
    <2> QED BY <1>3, <2>1
  <1> QED BY <1>2, <1>3, <1>4 DEF Listed

\* A padded layer is a list, of the same hashes, of even length unless it is
\* the last layer.
LEMMA PaddedFacts ==
  ASSUME NEW s, Listed(s)
  PROVE  /\ Listed(Padded(s))
         /\ \A i \in 1..Len(s) : Padded(s)[i] = s[i]
         /\ Len(s) <= 1 => Padded(s) = s
         /\ Len(s) > 1 => /\ Len(Padded(s)) % 2 = 0
                          /\ Len(Padded(s)) >= Len(s) /\ Len(Padded(s)) <= Len(s) + 1
  <1> DEFINE n == Len(s)
  <1>1. n \in Nat /\ s = [i \in 1..n |-> s[i]]
    BY DEF Listed
  <1>2. s \in Seq({s[i] : i \in 1..n})
    BY <1>1, ListOf
  <1>3. CASE n > 1 /\ n % 2 = 1
    <2> DEFINE t == Append(s, Last(s))
               S == {s[i] : i \in 1..n}
    <2>1. Padded(s) = t
      BY <1>3 DEF Padded
    <2>2. Last(s) = s[n]
      BY DEF Last
    <2>3. n \in 1..n
      BY <1>1, <1>3
    <2>3a. Last(s) \in S
      BY <2>2, <2>3
    <2> HIDE DEF S
    <2>4. /\ t \in Seq(S) /\ Len(t) = n + 1 /\ \A i \in 1..n : t[i] = s[i]
      <3>1. s \in Seq(S)
        BY <1>2 DEF S
      <3> HIDE DEF t
      <3> QED BY <2>3a, <3>1 DEF t
    <2> HIDE DEF t
    <2>5. t = [i \in 1..Len(t) |-> t[i]]
      BY <2>4
    <2>6. Listed(t)
      BY <1>1, <2>4, <2>5 DEF Listed
    <2>7. Len(t) % 2 = 0
      BY <1>1, <1>3, <2>4
    <2> QED BY <1>1, <1>3, <2>1, <2>4, <2>6, <2>7
  <1>4. CASE ~(n > 1 /\ n % 2 = 1)
    <2>1. Padded(s) = s
      BY <1>4 DEF Padded
    <2>2. n > 1 => n % 2 = 0
      BY <1>1, <1>4
    <2> HIDE DEF n
    <2> QED BY <1>1, <2>1, <2>2 DEF n
  <1> QED BY <1>3, <1>4

\* The layer above: a list of the hashes of pairs.
LEMMA PairsFacts ==
  ASSUME NEW s, Len(s) \in Nat
  PROVE  /\ Listed(Pairs(s))
         /\ Len(Pairs(s)) = Len(s) \div 2
         /\ \A i \in 1..(Len(s) \div 2) :
              Pairs(s)[i] = PairHash(s[2 * i - 1], s[2 * i])
  <1> DEFINE n == Len(s) \div 2
             p == [i \in 1..n |-> PairHash(s[2 * i - 1], s[2 * i])]
  <1>1. n \in Nat
    BY SMT
  <1>2. Pairs(s) = p
    BY DEF Pairs
  <1>3. p = [i \in 1..n |-> p[i]]
    OBVIOUS
  <1>4. \A i \in 1..n : p[i] = PairHash(s[2 * i - 1], s[2 * i])
    OBVIOUS
  <1> HIDE DEF n, p
  <1>5. Listed(p) /\ Len(p) = n
    BY <1>1, <1>3, ListOf
  <1> QED BY <1>2, <1>4, <1>5 DEF n

\* f holds the layers up to the n-th.
IsLayers(f, leaves, n) ==
  f = [k \in 0..n |-> IF k = 0 THEN leaves ELSE Pairs(Padded(f[k - 1]))]

\* They can be computed for any n.
LEMMA LayersExist ==
  ASSUME NEW leaves, NEW h \in Nat
  PROVE  \E f : IsLayers(f, leaves, h)
  <1> DEFINE G == {n \in 0..h : \E f : IsLayers(f, leaves, n)}
  <1>1. 0 \in G
    <2>1. IsLayers([k \in 0..0 |-> leaves], leaves, 0)
      BY DEF IsLayers
    <2> QED BY <2>1
  <1>2. ASSUME NEW n \in 1..h, n - 1 \in G PROVE n \in G
    <2>1. PICK f : IsLayers(f, leaves, n - 1)
      BY <1>2
    <2> DEFINE g == [k \in 0..n |-> IF k = n THEN Pairs(Padded(f[n - 1])) ELSE f[k]]
    <2>2. ASSUME NEW k \in 0..n
          PROVE  g[k] = IF k = 0 THEN leaves ELSE Pairs(Padded(g[k - 1]))
      <3>1. CASE k = n
        BY <3>1
      <3>2. CASE k # n
        <4>1. k \in 0..(n - 1) /\ (k # 0 => k - 1 \in 0..(n - 1))
          BY <3>2
        <4>2. f[k] = IF k = 0 THEN leaves ELSE Pairs(Padded(f[k - 1]))
          BY <2>1, <4>1 DEF IsLayers
        <4>3. g[k] = f[k] /\ (k # 0 => g[k - 1] = f[k - 1])
          BY <3>2, <4>1
        <4> QED BY <4>2, <4>3
      <3> QED BY <3>1, <3>2
    <2>3. IsLayers(g, leaves, n)
      <3>1. DOMAIN g = 0..n /\ g = [k \in 0..n |-> g[k]]
        OBVIOUS
      <3> HIDE DEF g
      <3> QED BY <2>2, <3>1 DEF IsLayers
    <2> QED BY <2>3
  <1> HIDE DEF G
  <1>3. \A n \in 0..h : n \in G
    BY <1>1, <1>2, UpTo
  <1> QED BY <1>3 DEF G

\* The layers of a tree follow the loop of build_merkle_tree.
LEMMA LayersStep ==
  ASSUME NEW leaves, Len(leaves) \in Nat
  PROVE  /\ Layers(leaves)[0] = leaves
         /\ \A k \in 1..Len(leaves) :
              Layers(leaves)[k] = Pairs(Padded(Layers(leaves)[k - 1]))
  <1> DEFINE h == Len(leaves)
  <1>1. \E f : IsLayers(f, leaves, h)
    BY LayersExist
  <1>2. Layers(leaves) = CHOOSE f : IsLayers(f, leaves, h)
    BY DEF Layers, IsLayers
  <1>3. IsLayers(Layers(leaves), leaves, h)
    BY <1>1, <1>2
  <1> DEFINE L == Layers(leaves)
  <1>4. \A k \in 0..h : L[k] = IF k = 0 THEN leaves ELSE Pairs(Padded(L[k - 1]))
    <2> HIDE DEF L
    <2> QED BY <1>3 DEF IsLayers, L
  <1> HIDE DEF L
  <1> QED BY <1>4 DEF L

\* f holds the places up to the n-th above an index.
IsPositions(f, index, n) ==
  f = [k \in 0..n |-> IF k = 0 THEN index ELSE f[k - 1] \div 2]

\* They can be computed for any n.
LEMMA PositionsExist ==
  ASSUME NEW index, NEW h \in Nat
  PROVE  \E f : IsPositions(f, index, h)
  <1> DEFINE G == {n \in 0..h : \E f : IsPositions(f, index, n)}
  <1>1. 0 \in G
    <2>1. IsPositions([k \in 0..0 |-> index], index, 0)
      BY DEF IsPositions
    <2> QED BY <2>1
  <1>2. ASSUME NEW n \in 1..h, n - 1 \in G PROVE n \in G
    <2>1. PICK f : IsPositions(f, index, n - 1)
      BY <1>2
    <2> DEFINE g == [k \in 0..n |-> IF k = n THEN f[n - 1] \div 2 ELSE f[k]]
    <2>2. ASSUME NEW k \in 0..n
          PROVE  g[k] = IF k = 0 THEN index ELSE g[k - 1] \div 2
      <3>1. CASE k = n
        BY <3>1
      <3>2. CASE k # n
        <4>1. k \in 0..(n - 1) /\ (k # 0 => k - 1 \in 0..(n - 1))
          BY <3>2
        <4>2. f[k] = IF k = 0 THEN index ELSE f[k - 1] \div 2
          BY <2>1, <4>1 DEF IsPositions
        <4>3. g[k] = f[k] /\ (k # 0 => g[k - 1] = f[k - 1])
          BY <3>2, <4>1
        <4> QED BY <4>2, <4>3
      <3> QED BY <3>1, <3>2
    <2>3. IsPositions(g, index, n)
      <3>1. DOMAIN g = 0..n /\ g = [k \in 0..n |-> g[k]]
        OBVIOUS
      <3> HIDE DEF g
      <3> QED BY <2>2, <3>1 DEF IsPositions
    <2> QED BY <2>3
  <1> HIDE DEF G
  <1>3. \A n \in 0..h : n \in G
    BY <1>1, <1>2, UpTo
  <1> QED BY <1>3 DEF G

\* The index is halved at every step.
LEMMA PositionsStep ==
  ASSUME NEW index, NEW h \in Nat
  PROVE  /\ Positions(index, h)[0] = index
         /\ \A k \in 1..h : Positions(index, h)[k] = Positions(index, h)[k - 1] \div 2
  <1>1. \E f : IsPositions(f, index, h)
    BY PositionsExist
  <1>2. Positions(index, h) = CHOOSE f : IsPositions(f, index, h)
    BY DEF Positions, IsPositions
  <1>3. IsPositions(Positions(index, h), index, h)
    BY <1>1, <1>2
  <1> DEFINE p == Positions(index, h)
  <1>4. \A k \in 0..h : p[k] = IF k = 0 THEN index ELSE p[k - 1] \div 2
    <2> HIDE DEF p
    <2> QED BY <1>3 DEF IsPositions, p
  <1> HIDE DEF p
  <1> QED BY <1>4 DEF p

\* f holds the hashes of a client up to the n-th step of a proof.
IsHashes(f, leaf, proof, n) ==
  f = [k \in 0..n |-> IF k = 0 THEN leaf ELSE Hashed(f[k - 1], proof[k])]

\* They can be computed for any n.
LEMMA HashesExist ==
  ASSUME NEW leaf, NEW proof, NEW h \in Nat
  PROVE  \E f : IsHashes(f, leaf, proof, h)
  <1> DEFINE G == {n \in 0..h : \E f : IsHashes(f, leaf, proof, n)}
  <1>1. 0 \in G
    <2>1. IsHashes([k \in 0..0 |-> leaf], leaf, proof, 0)
      BY DEF IsHashes
    <2> QED BY <2>1
  <1>2. ASSUME NEW n \in 1..h, n - 1 \in G PROVE n \in G
    <2>1. PICK f : IsHashes(f, leaf, proof, n - 1)
      BY <1>2
    <2> DEFINE g == [k \in 0..n |-> IF k = n THEN Hashed(f[n - 1], proof[n]) ELSE f[k]]
    <2>2. ASSUME NEW k \in 0..n
          PROVE  g[k] = IF k = 0 THEN leaf ELSE Hashed(g[k - 1], proof[k])
      <3>1. CASE k = n
        BY <3>1
      <3>2. CASE k # n
        <4>1. k \in 0..(n - 1) /\ (k # 0 => k - 1 \in 0..(n - 1))
          BY <3>2
        <4>2. f[k] = IF k = 0 THEN leaf ELSE Hashed(f[k - 1], proof[k])
          BY <2>1, <4>1 DEF IsHashes
        <4>3. g[k] = f[k] /\ (k # 0 => g[k - 1] = f[k - 1])
          BY <3>2, <4>1
        <4> QED BY <4>2, <4>3
      <3> QED BY <3>1, <3>2
    <2>3. IsHashes(g, leaf, proof, n)
      <3>1. DOMAIN g = 0..n /\ g = [k \in 0..n |-> g[k]]
        OBVIOUS
      <3> HIDE DEF g
      <3> QED BY <2>2, <3>1 DEF IsHashes
    <2> QED BY <2>3
  <1> HIDE DEF G
  <1>3. \A n \in 0..h : n \in G
    BY <1>1, <1>2, UpTo
  <1> QED BY <1>3 DEF G

\* A client hashes its way up.
LEMMA HashesStep ==
  ASSUME NEW leaf, NEW proof, Len(proof) \in Nat
  PROVE  /\ Hashes(leaf, proof)[0] = leaf
         /\ \A k \in 1..Len(proof) :
              Hashes(leaf, proof)[k] = Hashed(Hashes(leaf, proof)[k - 1], proof[k])
  <1> DEFINE h == Len(proof)
  <1>1. \E f : IsHashes(f, leaf, proof, h)
    BY HashesExist
  <1>2. Hashes(leaf, proof) = CHOOSE f : IsHashes(f, leaf, proof, h)
    BY DEF Hashes, IsHashes
  <1>3. IsHashes(Hashes(leaf, proof), leaf, proof, h)
    BY <1>1, <1>2
  <1> DEFINE c == Hashes(leaf, proof)
  <1>4. \A k \in 0..h : c[k] = IF k = 0 THEN leaf ELSE Hashed(c[k - 1], proof[k])
    <2> HIDE DEF c
    <2> QED BY <1>3 DEF IsHashes, c
  <1> HIDE DEF c
  <1> QED BY <1>4 DEF c

\* The layers of a list are lists, and shrink until one hash is left.
LEMMA LayersShrink ==
  ASSUME NEW leaves, Listed(leaves)
  PROVE  \A n \in 0..Len(leaves) :
           /\ Listed(Layers(leaves)[n])
           /\ Len(Layers(leaves)[n]) <= 1 \/ Len(Layers(leaves)[n]) <= Len(leaves) - n
  <1> DEFINE L == Layers(leaves)
             N == Len(leaves)
             G == {n \in 0..N : Listed(L[n]) /\ (Len(L[n]) <= 1 \/ Len(L[n]) <= N - n)}
  <1>1. N \in Nat
    BY DEF Listed
  <1>2. L[0] = leaves /\ \A k \in 1..N : L[k] = Pairs(Padded(L[k - 1]))
    BY <1>1, LayersStep
  <1> HIDE DEF L
  <1>3. 0 \in G
    BY <1>1, <1>2
  <1>4. ASSUME NEW n \in 1..N, n - 1 \in G PROVE n \in G
    <2> DEFINE below == L[n - 1]
    <2>1. Listed(below) /\ (Len(below) <= 1 \/ Len(below) <= N - (n - 1))
      BY <1>4
    <2>2. L[n] = Pairs(Padded(below))
      BY <1>2
    <2> HIDE DEF below
    <2>3. /\ Listed(Padded(below))
          /\ Len(below) <= 1 => Padded(below) = below
          /\ Len(below) > 1 => /\ Len(Padded(below)) % 2 = 0
                               /\ Len(Padded(below)) >= Len(below)
                               /\ Len(Padded(below)) <= Len(below) + 1
      BY <2>1, PaddedFacts
    <2>4. Len(Padded(below)) \in Nat /\ Len(below) \in Nat
      BY <2>1, <2>3 DEF Listed
    <2>5. Listed(L[n]) /\ Len(L[n]) = Len(Padded(below)) \div 2
      BY <2>2, <2>4, PairsFacts
    <2> DEFINE l == Len(below)
               q == Len(Padded(below))
    <2>6. /\ l \in Nat /\ q \in Nat /\ (l <= 1 \/ l <= N - (n - 1))
          /\ l <= 1 => q = l
          /\ l > 1 => q % 2 = 0 /\ q >= l /\ q <= l + 1
      BY <2>1, <2>3, <2>4
    <2> HIDE DEF l, q
    <2>7. q \div 2 <= 1 \/ q \div 2 <= N - n
      <3>1. CASE l <= 1
        BY <2>6, <3>1
      <3>2. CASE l = 2
        BY <2>6, <3>2
      <3>3. CASE l > 2
        BY <1>1, <2>6, <3>3
      <3> QED BY <2>6, <3>1, <3>2, <3>3
    <2> QED BY <2>5, <2>7 DEF q
  <1> HIDE DEF G
  <1>5. \A n \in 0..N : n \in G
    BY <1>1, <1>3, <1>4, UpTo
  <1> QED BY <1>5 DEF G, L

\* The loop ends, and where it does one hash is left at most.
LEMMA HeightFacts ==
  ASSUME NEW leaves, Listed(leaves)
  PROVE  /\ Height(leaves) \in 0..Len(leaves)
         /\ Len(Layers(leaves)[Height(leaves)]) <= 1
         /\ \A m \in 0..(Height(leaves) - 1) : Len(Layers(leaves)[m]) > 1
  <1> DEFINE N == Len(leaves)
             L == Layers(leaves)
             S == {n \in 0..N : Len(L[n]) <= 1}
  <1>1. N \in Nat
    BY DEF Listed
  <1>2. \A n \in 0..N : Len(L[n]) \in Nat /\ (Len(L[n]) <= 1 \/ Len(L[n]) <= N - n)
    BY LayersShrink DEF Listed
  <1> HIDE DEF L
  <1>3. N \in S
    <2>1. N \in 0..N /\ N - N = 0
      BY <1>1
    <2> QED BY <1>2, <2>1
  <1>4. PICK n \in S : \A m \in S : n <= m
    <2>1. IsFiniteSet(S)
      <3>1. IsFiniteSet(0..N)
        BY <1>1, FS_Interval
      <3>2. S \in SUBSET (0..N)
        OBVIOUS
      <3> QED BY <3>1, <3>2, FS_Subset
    <2>2. \A i \in S : i \in Int
      OBVIOUS
    <2> HIDE DEF S
    <2> QED BY <1>3, <2>1, <2>2, LeastExists
  <1>5. \A m \in 0..(n - 1) : Len(L[m]) > 1
    <2> SUFFICES ASSUME NEW m \in 0..(n - 1) PROVE Len(L[m]) > 1
      OBVIOUS
    <2>1. m \in 0..N /\ ~ (n <= m)
      BY <1>1
    <2>2. m \notin S
      BY <1>4, <2>1
    <2>3. Len(L[m]) \in Nat
      BY <1>2, <2>1
    <2> QED BY <2>1, <2>2, <2>3
  <1>6. n \in 0..N /\ Len(L[n]) <= 1
    BY <1>4
  <1>7. \E k \in 0..N : Len(L[k]) <= 1 /\ \A m \in 0..(k - 1) : Len(L[m]) > 1
    BY <1>5, <1>6
  <1>8. Height(leaves) =
          CHOOSE k \in 0..N : Len(L[k]) <= 1 /\ \A m \in 0..(k - 1) : Len(L[m]) > 1
    BY DEF Height, L
  <1> QED BY <1>7, <1>8 DEF L

\* The place above a place, and its sibling, in a layer of even length.
LEMMA OneStepUp ==
  ASSUME NEW layer, Listed(layer), Len(layer) % 2 = 0,
         NEW p \in Nat, p + 1 <= Len(layer)
  PROVE  /\ p \div 2 \in Nat
         /\ (p \div 2) + 1 \in 1..(Len(layer) \div 2)
         /\ Pairs(layer)[(p \div 2) + 1] =
              IF p % 2 = 0 THEN PairHash(layer[p + 1], layer[Sibling(p) + 1])
              ELSE PairHash(layer[Sibling(p) + 1], layer[p + 1])
  <1> DEFINE q == Len(layer)
             i == (p \div 2) + 1
  <1>1. q \in Nat
    BY DEF Listed
  <1>2. /\ p \div 2 \in Nat /\ i \in 1..(q \div 2)
        /\ p % 2 = 0 => 2 * i - 1 = p + 1 /\ 2 * i = (p + 1) + 1
        /\ p % 2 # 0 => 2 * i - 1 = (p - 1) + 1 /\ 2 * i = p + 1
    <2> HIDE DEF q
    <2>1. q \in Nat /\ q % 2 = 0 /\ p + 1 <= q
      BY <1>1 DEF q
    <2> QED BY <2>1
  <1>3. Pairs(layer)[i] = PairHash(layer[2 * i - 1], layer[2 * i])
    BY <1>1, <1>2, PairsFacts
  <1> HIDE DEF i, q
  <1>4. CASE p % 2 = 0
    BY <1>2, <1>3, <1>4 DEF Sibling, i, q
  <1>5. CASE p % 2 # 0
    BY <1>2, <1>3, <1>5 DEF Sibling, i, q
  <1> QED BY <1>4, <1>5

\* For any number of leaves, the proof of each of them leads to the root.
LEMMA MerkleCorrect ==
  ASSUME NEW leaves, Listed(leaves), NEW i \in 1..Len(leaves)
  PROVE  Climb(leaves[i], MerkleProof(leaves, i - 1)) = MerkleRoot(leaves)
  <1> DEFINE N == Len(leaves)
             L == Layers(leaves)
             h == Height(leaves)
             p == Positions(i - 1, h)
             proof == MerkleProof(leaves, i - 1)
             c == Hashes(leaves[i], proof)
  <1>1. N \in Nat /\ i - 1 \in Nat
    BY DEF Listed
  <1>2. h \in 0..N /\ Len(L[h]) <= 1 /\ \A m \in 0..(h - 1) : Len(L[m]) > 1
    BY HeightFacts
  <1>3. L[0] = leaves /\ \A k \in 1..N : L[k] = Pairs(Padded(L[k - 1]))
    BY <1>1, LayersStep
  <1>4. \A n \in 0..N : Listed(L[n])
    BY LayersShrink
  <1>5. p[0] = i - 1 /\ \A k \in 1..h : p[k] = p[k - 1] \div 2
    BY <1>2, PositionsStep
  <1>6. /\ Len(proof) = h
        /\ \A k \in 1..h : /\ proof[k].sibling = Padded(L[k - 1])[Sibling(p[k - 1]) + 1]
                           /\ proof[k].direction = IF p[k - 1] % 2 = 0 THEN "right" ELSE "left"
    <2> DEFINE Step(k) == [sibling |-> Padded(L[k - 1])[Sibling(p[k - 1]) + 1],
                           direction |-> IF p[k - 1] % 2 = 0 THEN "right" ELSE "left"]
    <2>1. proof = [k \in 1..h |-> Step(k)]
      BY DEF MerkleProof
    <2>2. proof = [k \in 1..h |-> proof[k]]
      <3> HIDE DEF proof, Step, h
      <3> QED BY <2>1
    <2>3. \A k \in 1..h : proof[k] = Step(k)
      <3> HIDE DEF proof, Step, h
      <3> QED BY <2>1
    <2>4. Len(proof) = h
      <3>1. h \in Nat
        BY <1>1, <1>2
      <3> HIDE DEF proof, h
      <3> QED BY <2>2, <3>1, ListOf
    <2> HIDE DEF proof, L, p, h
    <2> QED BY <2>3, <2>4
  <1> HIDE DEF proof
  <1>7. c[0] = leaves[i] /\ \A k \in 1..h : c[k] = Hashed(c[k - 1], proof[k])
    BY <1>1, <1>2, <1>6, HashesStep
  <1> HIDE DEF L, h, p, c, N
  <1> DEFINE G == {n \in 0..h : p[n] \in Nat /\ p[n] + 1 <= Len(L[n]) /\ c[n] = L[n][p[n] + 1]}
  <1>8. 0 \in G
    BY <1>1, <1>2, <1>3, <1>5, <1>7 DEF N
  <1>9. ASSUME NEW k \in 1..h, k - 1 \in G PROVE k \in G
    <2> DEFINE layer == L[k - 1]
               pad == Padded(layer)
               q == p[k - 1]
    <2>1. q \in Nat /\ q + 1 <= Len(layer) /\ c[k - 1] = layer[q + 1]
      BY <1>9
    <2>2. k - 1 \in 0..(h - 1) /\ k - 1 \in 0..N /\ k \in 1..N
      BY <1>1, <1>2
    <2>3. Listed(layer) /\ Len(layer) > 1
      BY <1>2, <1>4, <2>2
    <2>4. /\ L[k] = Pairs(pad) /\ p[k] = q \div 2 /\ c[k] = Hashed(c[k - 1], proof[k])
          /\ proof[k].sibling = pad[Sibling(q) + 1]
          /\ proof[k].direction = IF q % 2 = 0 THEN "right" ELSE "left"
      BY <1>3, <1>5, <1>6, <1>7, <2>2
    <2> HIDE DEF layer, q
    <2>5. /\ Listed(pad) /\ \A j \in 1..Len(layer) : pad[j] = layer[j]
          /\ Len(pad) % 2 = 0 /\ Len(pad) >= Len(layer)
      BY <2>3, PaddedFacts
    <2> HIDE DEF pad
    <2>6. Len(layer) \in Nat /\ Len(pad) \in Nat
      BY <2>3, <2>5 DEF Listed
    <2>7. q + 1 \in 1..Len(layer) /\ q + 1 <= Len(pad)
      BY <2>1, <2>5, <2>6
    <2>8. pad[q + 1] = c[k - 1]
      BY <2>1, <2>5, <2>7
    <2>9. /\ q \div 2 \in Nat
          /\ (q \div 2) + 1 \in 1..(Len(pad) \div 2)
          /\ Pairs(pad)[(q \div 2) + 1] =
               IF q % 2 = 0 THEN PairHash(pad[q + 1], pad[Sibling(q) + 1])
               ELSE PairHash(pad[Sibling(q) + 1], pad[q + 1])
      BY <2>1, <2>5, <2>7, OneStepUp
    <2>10. Len(L[k]) = Len(pad) \div 2
      BY <2>4, <2>6, PairsFacts
    <2>11. c[k] = IF q % 2 = 0 THEN PairHash(c[k - 1], pad[Sibling(q) + 1])
                  ELSE PairHash(pad[Sibling(q) + 1], c[k - 1])
      <3>1. CASE q % 2 = 0
        BY <2>4, <3>1 DEF Hashed
      <3>2. CASE q % 2 # 0
        BY <2>4, <3>2 DEF Hashed
      <3> QED BY <3>1, <3>2
    <2>12. c[k] = L[k][p[k] + 1]
      BY <2>4, <2>8, <2>9, <2>11
    <2>13. p[k] \in Nat /\ p[k] + 1 <= Len(L[k])
      BY <2>4, <2>9, <2>10
    <2> QED BY <2>12, <2>13
  <1>10. h \in G
    <2>1. h \in Nat /\ h \in 0..h
      BY <1>1, <1>2
    <2> HIDE DEF G
    <2>2. \A n \in 0..h : n \in G
      BY <1>8, <1>9, <2>1, UpTo
    <2> QED BY <2>1, <2>2
  <1>11. p[h] \in Nat /\ p[h] + 1 <= Len(L[h]) /\ c[h] = L[h][p[h] + 1]
    BY <1>10
  <1>12. Len(L[h]) \in Nat
    BY <1>2, <1>4 DEF Listed
  <1>13. p[h] + 1 = 1
    BY <1>2, <1>11, <1>12
  <1>14. c[h] = L[h][1]
    BY <1>11, <1>13
  <1>15. leaves # <<>>
    BY DEF N
  <1>16. Climb(leaves[i], proof) = c[h]
    BY <1>6 DEF Climb, c
  <1>17. MerkleRoot(leaves) = L[h][1]
    BY <1>15 DEF MerkleRoot, L, h
  <1> QED BY <1>14, <1>16, <1>17 DEF proof

-----------------------------------------------------------------------------
(***************************************************************************)
(* Appraisal runs and their snapshots.                                     *)
(***************************************************************************)

\* What a step of the composition does to the appraisals.
LEMMA AppraisalFrame == [Next]_serviceVars => AppraisalNext \/ UNCHANGED appraisalVars
  BY DEF Next, serviceVars, LedgerStep, IdentityStep, GasStep, RoutingStep, VolatilityStep,
         DevelopmentStep, BreakerStep, LoginStep, FileStep, AppraisalStep, ReservesNext, Rest

\* What is listed has the places 1 .. n.
Numbered(files_) == \E n \in Nat : DOMAIN files_ = 1..n

\* A scan lists what it finds.
LEMMA TreesAreListed == \A tree \in Trees : Numbered(tree)
  BY AppraisalAssumption DEF Numbered

\* A run has finitely many files, each of a value.
RunsHaveValues ==
  /\ DOMAIN caches = Engines
  /\ \A e \in DOMAIN runs :
       /\ runs[e] \in [id : Seconds, files : {runs[e].files}, done : BOOLEAN]
       /\ IsFiniteSet(DOMAIN runs[e].files)
       /\ \A i \in DOMAIN runs[e].files : runs[e].files[i].value \in Nat

\* A run that is not disturbed is alone, and younger than every snapshot; any
\* run is younger than the snapshots that are not disturbed.
RunsInOrder ==
  /\ \A id \in DOMAIN snapshots : id <= second
  /\ \A e \in DOMAIN runs :
       /\ runs[e].id <= second
       /\ runs[e].id \notin disturbed => /\ DOMAIN runs = {e}
                                         /\ \A id \in DOMAIN snapshots : id < runs[e].id
       /\ \A id \in DOMAIN snapshots \ disturbed : id < runs[e].id

\* The invariant of the appraisals.
AppraisalInv == AppraisalTypeOK /\ RunsHaveValues /\ RunsInOrder /\ SnapshotsChain

\* What files are worth together.
LEMMA WorthType ==
  ASSUME NEW files_, IsFiniteSet(DOMAIN files_), \A i \in DOMAIN files_ : files_[i].value \in Nat
  PROVE  Worth(files_) \in Nat
  <1> DEFINE values == [i \in DOMAIN files_ |-> files_[i].value]
  <1>1. \A i \in DOMAIN files_ : values[i] \in Nat
    OBVIOUS
  <1>2. Worth(files_) = SumFunctionOnSet(values, DOMAIN files_)
    BY DEF Worth, SumFunction
  <1> HIDE DEF values
  <1> QED BY <1>1, <1>2, SumOfNaturals

\* There is one latest snapshot at most.
LEMMA LatestIsOne ==
  ASSUME AppraisalTypeOK, NEW id \in Latest
  PROVE  Latest = {id} /\ id \in DOMAIN snapshots /\ (CHOOSE x \in Latest : TRUE) = id
  <1>1. \A x \in DOMAIN snapshots : x \in Int
    BY AppraisalAssumption DEF AppraisalTypeOK, Seconds
  <1>2. Latest = {id}
    BY <1>1 DEF Latest
  <1> QED BY <1>2 DEF Latest

\* The snapshot of a run is well typed.
LEMMA SnapshotType ==
  ASSUME AppraisalTypeOK, NEW run, IsFiniteSet(DOMAIN run.files),
         \A i \in DOMAIN run.files : run.files[i].value \in Nat
  PROVE  /\ Snapshot(run).total \in Nat /\ Snapshot(run).delta \in Int
         /\ Cardinality(Snapshot(run).previous) <= 1
  <1>1. Worth(run.files) \in Nat
    <2> DEFINE files_ == run.files
    <2> HIDE DEF files_
    <2>1. IsFiniteSet(DOMAIN files_) /\ \A i \in DOMAIN files_ : files_[i].value \in Nat
      BY DEF files_
    <2>2. Worth(files_) \in Nat
      BY <2>1, WorthType
    <2> QED BY <2>2 DEF files_
  <1>2. /\ Snapshot(run).total = Worth(run.files)
        /\ Snapshot(run).previous = {snapshots[id].root : id \in Latest}
        /\ Snapshot(run).delta = IF Latest = {} THEN 0
                                 ELSE Worth(run.files) - snapshots[
                                     CHOOSE id \in Latest : TRUE].total
    BY DEF Snapshot
  <1>3. CASE Latest = {}
    <2>1. {snapshots[id].root : id \in Latest} = {}
      BY <1>3
    <2>2. Cardinality({}) = 0
      BY FS_EmptySet
    <2> QED BY <1>1, <1>2, <1>3, <2>1, <2>2
  <1>4. CASE Latest # {}
    <2>1. PICK id \in Latest : TRUE
      BY <1>4
    <2>2. Latest = {id} /\ id \in DOMAIN snapshots /\ (CHOOSE x \in Latest : TRUE) = id
      BY <2>1, LatestIsOne
    <2>3. {snapshots[x].root : x \in Latest} = {snapshots[id].root}
      BY <2>2
    <2>4. Cardinality({snapshots[id].root}) = 1
      BY FS_Singleton
    <2>5. snapshots[id].total \in Nat
      BY <2>2 DEF AppraisalTypeOK
    <2>6. Worth(run.files) - snapshots[id].total \in Int
      BY <1>1, <2>5
    <2> QED BY <1>1, <1>2, <1>4, <2>2, <2>3, <2>4, <2>6
  <1> QED BY <1>3, <1>4

\* A run that begins beside another, or in the second of a snapshot, disturbs.
LEMMA BeginInv ==
  ASSUME AppraisalInv, NEW engine \in Engines \ DOMAIN runs, Begin(engine)
  PROVE  AppraisalInv'
  <1> DEFINE run == [id |-> second, files |-> <<>>, done |-> FALSE]
             ids == {runs[e].id : e \in DOMAIN runs}
  <1>1. /\ begun' = begun + 1 /\ runs' = AsOf(runs, engine, run)
        /\ disturbed' = IF runs = <<>> /\ second \notin DOMAIN snapshots THEN disturbed
                        ELSE disturbed \cup {second} \cup ids
        /\ UNCHANGED <<snapshots, caches, second>>
    BY DEF Begin
  <1>2. /\ AppraisalTypeOK /\ RunsHaveValues /\ RunsInOrder /\ SnapshotsChain
        /\ second \in Seconds /\ second \in Int
        /\ \A id \in DOMAIN snapshots : id \in Int
    BY AppraisalAssumption DEF AppraisalInv, AppraisalTypeOK, Seconds
  <1>3. /\ DOMAIN runs' = DOMAIN runs \cup {engine} /\ runs'[engine] = run
        /\ \A e \in DOMAIN runs : runs'[e] = runs[e]
    BY <1>1 DEF AsOf
  <1>4. /\ run.id = second /\ DOMAIN run.files = {}
        /\ run \in [id : Seconds, files : {run.files}, done : BOOLEAN]
    BY <1>2
  <1> HIDE DEF run
  <1>5. AppraisalTypeOK'
    <2>1. ids \subseteq Seconds
      BY <1>2 DEF AppraisalTypeOK
    <2>2. disturbed' \subseteq Seconds
      <3> HIDE DEF ids
      <3> QED BY <1>1, <1>2, <2>1 DEF AppraisalTypeOK
    <2>3. begun' \in Nat
      BY <1>1, <1>2 DEF AppraisalTypeOK
    <2> QED BY <1>1, <1>2, <1>3, <1>4, <2>2, <2>3 DEF AppraisalTypeOK
  <1>6. RunsHaveValues'
    BY <1>1, <1>2, <1>3, <1>4, FS_EmptySet DEF RunsHaveValues
  <1>7. RunsInOrder'
    <2>1. CASE runs = <<>> /\ second \notin DOMAIN snapshots
      <3>1. DOMAIN runs = {} /\ DOMAIN runs' = {engine} /\ disturbed' = disturbed
        BY <1>1, <1>3, <2>1
      <3>2. \A id \in DOMAIN snapshots : id < second
        BY <1>2, <2>1 DEF RunsInOrder
      <3> QED BY <1>1, <1>2, <1>3, <1>4, <3>1, <3>2 DEF RunsInOrder
    <2>2. CASE ~(runs = <<>> /\ second \notin DOMAIN snapshots)
      <3>1. /\ disturbed' = disturbed \cup {second} \cup ids
            /\ \A e \in DOMAIN runs' : runs'[e].id \in disturbed'
        BY <1>1, <1>3, <1>4, <2>2
      <3>2. \A id \in DOMAIN snapshots \ disturbed' : id < second
        BY <1>2, <3>1 DEF RunsInOrder
      <3> HIDE DEF ids
      <3>3. ASSUME NEW e \in DOMAIN runs'
            PROVE  /\ runs'[e].id <= second
                   /\ \A id \in DOMAIN snapshots \ disturbed' : id < runs'[e].id
        <4>1. CASE e = engine
          BY <1>2, <1>3, <1>4, <3>2, <4>1
        <4>2. CASE e \in DOMAIN runs
          BY <1>2, <1>3, <3>1, <4>2 DEF RunsInOrder
        <4> QED BY <1>3, <4>1, <4>2
      <3> QED BY <1>1, <1>2, <3>1, <3>3 DEF RunsInOrder
    <2> QED BY <2>1, <2>2
  <1>8. SnapshotsChain'
    <2>1. disturbed \subseteq disturbed'
      BY <1>1
    <2> HIDE DEF ids
    <2> QED BY <1>1, <1>2, <2>1 DEF SnapshotsChain, Readable
  <1> QED BY <1>5, <1>6, <1>7, <1>8 DEF AppraisalInv

\* Appraising changes caches and files of one run.
LEMMA AppraiseInv ==
  ASSUME AppraisalInv, NEW engine \in DOMAIN runs, NEW tree \in Trees, Appraise(engine, tree)
  PROVE  AppraisalInv'
  <1> DEFINE met == DOMAIN caches[engine]
             contents == {tree[i].content : i \in DOMAIN tree}
             Value(fresh) == [c \in met \cup contents |->
                              IF c \in met THEN caches[engine][c] ELSE fresh[c]]
             Found(value) == [i \in DOMAIN tree |->
                              [path |-> tree[i].path, content |-> tree[i].content,
                               value |-> value[tree[i].content]]]
  <1>1. PICK fresh \in [contents \ met -> Values] :
          /\ caches' = [caches EXCEPT ![engine] = Value(fresh)]
          /\ runs' = [runs EXCEPT ![engine].done = TRUE, ![engine].files = Found(Value(fresh))]
    BY DEF Appraise
  <1>2. UNCHANGED <<snapshots, second, begun, disturbed>>
    BY DEF Appraise
  <1>3. /\ AppraisalTypeOK /\ RunsHaveValues /\ RunsInOrder /\ SnapshotsChain
        /\ engine \in Engines /\ IsFiniteSet(DOMAIN tree)
    <2>1. IsFiniteSet(DOMAIN tree)
      BY TreesAreListed, FS_Interval DEF Numbered
    <2> QED BY <2>1 DEF AppraisalInv, AppraisalTypeOK
  <1> DEFINE value == Value(fresh)
             found == Found(value)
             once == [runs EXCEPT ![engine] = [runs[engine] EXCEPT !.done = TRUE]]
  <1>4. /\ DOMAIN value = met \cup contents /\ \A c \in met \cup contents : value[c] \in Values
    BY <1>1, <1>3 DEF AppraisalTypeOK
  <1>5. /\ DOMAIN found = DOMAIN tree /\ \A i \in DOMAIN tree : found[i].value \in Values
    <2>1. \A i \in DOMAIN tree : tree[i].content \in met \cup contents
      OBVIOUS
    <2> HIDE DEF value, met, contents
    <2> QED BY <1>4, <2>1
  <1>6. /\ DOMAIN runs' = DOMAIN runs
        /\ \A e \in DOMAIN runs \ {engine} : runs'[e] = runs[e]
        /\ runs'[engine] \in [id : {runs[engine].id}, files : {found}, done : BOOLEAN]
    <2>1. runs' = [once EXCEPT ![engine] = [once[engine] EXCEPT !.files = found]]
      BY <1>1
    <2>2. /\ DOMAIN once = DOMAIN runs /\ once[engine] = [runs[engine] EXCEPT !.done = TRUE]
          /\ \A e \in DOMAIN runs \ {engine} : once[e] = runs[e]
      OBVIOUS
    <2> HIDE DEF found, once
    <2>3. once[engine] \in [id : {runs[engine].id}, files : {runs[engine].files}, done : BOOLEAN]
      BY <1>3, <2>2 DEF RunsHaveValues
    <2>4. [once[engine] EXCEPT !.files = found]
            \in [id : {runs[engine].id}, files : {found}, done : BOOLEAN]
      BY <2>3
    <2> QED BY <2>1, <2>2, <2>4
  <1>7. /\ DOMAIN caches' = DOMAIN caches /\ caches'[engine] = value
        /\ \A e \in Engines \ {engine} : caches'[e] = caches[e]
    BY <1>1, <1>3 DEF RunsHaveValues
  <1> HIDE DEF found, value, contents, met
  <1>8. AppraisalTypeOK'
    <2>1. \A e \in Engines : \A c \in DOMAIN caches'[e] : caches'[e][c] \in Values
      BY <1>3, <1>4, <1>7 DEF AppraisalTypeOK
    <2>2. \A e \in DOMAIN runs' : runs'[e].id \in Seconds
      BY <1>3, <1>6 DEF AppraisalTypeOK
    <2> QED BY <1>2, <1>3, <1>6, <2>1, <2>2 DEF AppraisalTypeOK
  <1>9. RunsHaveValues'
    <2>1. \A i \in DOMAIN found : found[i].value \in Nat
      BY <1>5, AppraisalAssumption
    <2>2. runs[engine].id \in Seconds /\ runs'[engine].files = found
      BY <1>3, <1>6 DEF AppraisalTypeOK
    <2>3. runs'[engine] \in [id : Seconds, files : {runs'[engine].files}, done : BOOLEAN]
      BY <1>6, <2>2
    <2> QED BY <1>3, <1>5, <1>6, <1>7, <2>1, <2>2, <2>3 DEF RunsHaveValues
  <1>10. RunsInOrder'
    <2>1. \A e \in DOMAIN runs' : runs'[e].id = runs[e].id
      BY <1>6
    <2> QED BY <1>2, <1>3, <1>6, <2>1 DEF RunsInOrder
  <1>11. SnapshotsChain'
    BY <1>2, <1>3 DEF SnapshotsChain, Readable
  <1> QED BY <1>8, <1>9, <1>10, <1>11 DEF AppraisalInv

\* A snapshot written under the id of a run.
LEMMA SnapshotWritten ==
  ASSUME AppraisalInv, NEW engine \in DOMAIN runs, NEW snapshot,
         snapshots' = AsOf(snapshots, runs[engine].id, snapshot),
         snapshot.total \in Nat, snapshot.delta \in Int, Cardinality(snapshot.previous) <= 1
  PROVE  /\ runs[engine].id \in Seconds /\ runs[engine].id <= second
         /\ DOMAIN snapshots' = DOMAIN snapshots \cup {runs[engine].id}
         /\ snapshots'[runs[engine].id] = snapshot
         /\ \A id \in DOMAIN snapshots \ {runs[engine].id} : snapshots'[id] = snapshots[id]
         /\ DOMAIN snapshots' \subseteq Seconds
         /\ \A id \in DOMAIN snapshots' :
              /\ id <= second
              /\ snapshots'[id].total \in Nat /\ snapshots'[id].delta \in Int
              /\ Cardinality(snapshots'[id].previous) <= 1
  <1>1. /\ AppraisalTypeOK /\ RunsInOrder
    BY DEF AppraisalInv
  <1>2. /\ runs[engine].id \in Seconds /\ runs[engine].id <= second
    BY <1>1 DEF AppraisalTypeOK, RunsInOrder
  <1> DEFINE at == runs[engine].id
  <1> HIDE DEF at
  <1>3. /\ DOMAIN snapshots' = DOMAIN snapshots \cup {at}
        /\ \A id \in DOMAIN snapshots' : snapshots'[id]
             = IF id = at THEN snapshot ELSE snapshots[id]
    BY DEF AsOf, at
  <1>4. \A id \in DOMAIN snapshots' :
              /\ id <= second
              /\ snapshots'[id].total \in Nat /\ snapshots'[id].delta \in Int
              /\ Cardinality(snapshots'[id].previous) <= 1
    <2> SUFFICES ASSUME NEW id \in DOMAIN snapshots'
                 PROVE  /\ id <= second
                        /\ snapshots'[id].total \in Nat /\ snapshots'[id].delta \in Int
                        /\ Cardinality(snapshots'[id].previous) <= 1
      OBVIOUS
    <2>1. CASE id = at
      BY <1>2, <1>3, <2>1 DEF at
    <2>2. CASE id # at
      BY <1>1, <1>3, <2>2 DEF AppraisalTypeOK, RunsInOrder
    <2> QED BY <2>1, <2>2
  <1>5. DOMAIN snapshots' \subseteq Seconds
    BY <1>1, <1>2, <1>3 DEF AppraisalTypeOK, at
  <1> QED BY <1>2, <1>3, <1>4, <1>5 DEF at

\* Writing the snapshot of a disturbed run, or a torn one, leaves the chain of
\* the others alone: it is younger than all of them that are not disturbed.
LEMMA ChainKept ==
  ASSUME AppraisalInv, NEW engine \in DOMAIN runs, NEW snapshot,
         snapshots' = AsOf(snapshots, runs[engine].id, snapshot),
         runs[engine].id \in disturbed \/ snapshot = Torn,
         UNCHANGED disturbed
  PROVE  SnapshotsChain'
  <1> DEFINE at == runs[engine].id
  <1>1. /\ SnapshotsChain /\ at \in Int
        /\ \A id \in DOMAIN snapshots : id \in Int
        /\ \A id \in DOMAIN snapshots \ disturbed : id < at
    <2>1. AppraisalTypeOK /\ RunsInOrder /\ SnapshotsChain
      BY DEF AppraisalInv
    <2>2. \A x \in Seconds : x \in Int
      BY AppraisalAssumption DEF Seconds
    <2> QED BY <2>1, <2>2 DEF RunsInOrder, AppraisalTypeOK
  <1> HIDE DEF at
  <1>2. /\ DOMAIN snapshots' = DOMAIN snapshots \cup {at}
        /\ snapshots'[at] = snapshot
        /\ \A id \in DOMAIN snapshots \ {at} : snapshots'[id] = snapshots[id]
    BY DEF AsOf, at
  <1> SUFFICES ASSUME NEW id \in (Readable \ disturbed)', NEW before \in DOMAIN snapshots',
                      before < id,
                      \A other \in DOMAIN snapshots' : other <= before \/ other >= id
               PROVE  /\ before \in Readable'
                      /\ snapshots'[id].previous = {snapshots'[before].root}
                      /\ snapshots'[id].delta = snapshots'[id].total - snapshots'[before].total
    BY DEF SnapshotsChain
  <1>3. id # at /\ id \in DOMAIN snapshots /\ id \notin disturbed /\
          snapshots'[id] = snapshots[id]
        /\ snapshots[id] # Torn
    BY <1>2 DEF Readable, at
  <1>4. id < at
    BY <1>1, <1>3
  <1>5. before # at /\ before \in DOMAIN snapshots /\ snapshots'[before] = snapshots[before]
    BY <1>1, <1>2, <1>3, <1>4
  <1>6. /\ before \in Readable
        /\ snapshots[id].previous = {snapshots[before].root}
        /\ snapshots[id].delta = snapshots[id].total - snapshots[before].total
    BY <1>1, <1>2, <1>3, <1>5 DEF SnapshotsChain, Readable
  <1> QED BY <1>2, <1>3, <1>5, <1>6 DEF Readable

\* What a run that was not disturbed saves continues the chain.
LEMMA ChainGrows ==
  ASSUME AppraisalInv, NEW engine \in DOMAIN runs,
         Torn \notin {snapshots[id] : id \in Latest},
         snapshots' = AsOf(snapshots, runs[engine].id, Snapshot(runs[engine])),
         runs[engine].id \notin disturbed,
         UNCHANGED disturbed
  PROVE  SnapshotsChain'
  <1> DEFINE at == runs[engine].id
             snapshot == Snapshot(runs[engine])
  <1>1. /\ AppraisalTypeOK /\ SnapshotsChain /\ at \in Int
        /\ \A id \in DOMAIN snapshots : id \in Int
        /\ \A id \in DOMAIN snapshots : id < at
    <2>1. AppraisalTypeOK /\ RunsInOrder /\ SnapshotsChain
      BY DEF AppraisalInv
    <2>2. \A x \in Seconds : x \in Int
      BY AppraisalAssumption DEF Seconds
    <2> QED BY <2>1, <2>2 DEF RunsInOrder, AppraisalTypeOK
  <1> HIDE DEF at
  <1>2. /\ DOMAIN snapshots' = DOMAIN snapshots \cup {at}
        /\ snapshots'[at] = snapshot
        /\ \A id \in DOMAIN snapshots : snapshots'[id] = snapshots[id]
    BY <1>1 DEF AsOf, at
  <1> SUFFICES ASSUME NEW id \in (Readable \ disturbed)', NEW before \in DOMAIN snapshots',
                      before < id,
                      \A other \in DOMAIN snapshots' : other <= before \/ other >= id
               PROVE  /\ before \in Readable'
                      /\ snapshots'[id].previous = {snapshots'[before].root}
                      /\ snapshots'[id].delta = snapshots'[id].total - snapshots'[before].total
    BY DEF SnapshotsChain
  <1>3. before \in DOMAIN snapshots /\ before # at /\ snapshots'[before] = snapshots[before]
    BY <1>1, <1>2 DEF Readable
  <1>4. CASE id = at
    <2>1. before \in Latest
      BY <1>1, <1>2, <1>3, <1>4 DEF Latest
    <2>2. Latest = {before} /\ (CHOOSE x \in Latest : TRUE) = before
      BY <1>1, <2>1, LatestIsOne
    <2>3. before \in Readable'
      BY <1>2, <1>3, <2>1 DEF Readable
    <2>4. /\ snapshot.total = Worth(runs[engine].files)
          /\ snapshot.previous = {snapshots[x].root : x \in Latest}
          /\ snapshot.delta = Worth(runs[engine].files) - snapshots[before].total
      BY <2>1, <2>2 DEF Snapshot
    <2>5. {snapshots[x].root : x \in Latest} = {snapshots[before].root}
      BY <2>2
    <2> HIDE DEF snapshot
    <2> QED BY <1>2, <1>3, <1>4, <2>3, <2>4, <2>5
  <1>5. CASE id # at
    <2>1. id \in DOMAIN snapshots /\ id \notin disturbed /\ snapshots'[id] = snapshots[id]
          /\ snapshots[id] # Torn
      BY <1>2, <1>5 DEF Readable
    <2>2. /\ before \in Readable
          /\ snapshots[id].previous = {snapshots[before].root}
          /\ snapshots[id].delta = snapshots[id].total - snapshots[before].total
      BY <1>1, <1>2, <1>3, <2>1 DEF SnapshotsChain, Readable
    <2> QED BY <1>2, <1>3, <2>1, <2>2 DEF Readable
  <1> QED BY <1>4, <1>5

\* A run saves its snapshot.
LEMMA SaveInv ==
  ASSUME AppraisalInv, NEW engine \in DOMAIN runs, Save(engine)
  PROVE  AppraisalInv'
  <1> DEFINE at == runs[engine].id
             snapshot == Snapshot(runs[engine])
  <1>1. /\ Torn \notin {snapshots[id] : id \in Latest}
        /\ snapshots' = AsOf(snapshots, at, snapshot)
        /\ runs' = Ended(engine)
        /\ UNCHANGED <<caches, second, begun, disturbed>>
    BY DEF Save
  <1>2. AppraisalTypeOK /\ RunsHaveValues /\ RunsInOrder
    BY DEF AppraisalInv
  <1>3. /\ snapshot.total \in Nat /\ snapshot.delta \in Int /\ Cardinality(snapshot.previous) <= 1
    <2> DEFINE run == runs[engine]
    <2>1. IsFiniteSet(DOMAIN run.files) /\ \A i \in DOMAIN run.files : run.files[i].value \in Nat
      BY <1>2 DEF RunsHaveValues
    <2> HIDE DEF run
    <2>2. /\ Snapshot(run).total \in Nat /\ Snapshot(run).delta \in Int
          /\ Cardinality(Snapshot(run).previous) <= 1
      BY <1>2, <2>1, SnapshotType
    <2> QED BY <2>2 DEF run
  <1>4. SnapshotsChain'
    <2>1. CASE at \in disturbed
      <3> HIDE DEF snapshot
      <3> QED BY <1>1, <2>1, ChainKept
    <2>2. CASE at \notin disturbed
      BY <1>1, <2>2, ChainGrows
    <2> QED BY <2>1, <2>2
  <1> HIDE DEF snapshot
  <1>5. /\ at \in Seconds /\ at <= second
        /\ DOMAIN snapshots' = DOMAIN snapshots \cup {at}
        /\ DOMAIN snapshots' \subseteq Seconds
        /\ \A id \in DOMAIN snapshots' :
              /\ id <= second
              /\ snapshots'[id].total \in Nat /\ snapshots'[id].delta \in Int
              /\ Cardinality(snapshots'[id].previous) <= 1
    BY <1>1, <1>3, SnapshotWritten
  <1> HIDE DEF at
  <1>6. /\ DOMAIN runs' = DOMAIN runs \ {engine}
        /\ \A e \in DOMAIN runs' : runs'[e] = runs[e]
    BY <1>1 DEF Ended
  <1>7. AppraisalTypeOK'
    BY <1>1, <1>2, <1>5, <1>6 DEF AppraisalTypeOK
  <1>8. RunsHaveValues'
    BY <1>1, <1>2, <1>6 DEF RunsHaveValues
  <1>9. RunsInOrder'
    <2>1. \A id \in DOMAIN snapshots' : id <= second
      BY <1>5
    <2>2. ASSUME NEW e \in DOMAIN runs'
          PROVE  /\ runs'[e].id \in disturbed /\ runs'[e].id <= second
                 /\ \A id \in DOMAIN snapshots' \ disturbed : id < runs'[e].id
      <3>1. e \in DOMAIN runs /\ e # engine /\ runs'[e] = runs[e]
        BY <1>6
      <3>2. runs[e].id \in disturbed /\ at \in disturbed
        BY <1>2, <3>1 DEF RunsInOrder, at
      <3> QED BY <1>2, <1>5, <3>1, <3>2 DEF RunsInOrder
    <2> QED BY <1>1, <2>1, <2>2 DEF RunsInOrder
  <1> QED BY <1>4, <1>7, <1>8, <1>9 DEF AppraisalInv

\* A run fails on a torn snapshot.
LEMMA FailInv ==
  ASSUME AppraisalInv, NEW engine \in DOMAIN runs, Fail(engine)
  PROVE  AppraisalInv'
  <1>1. /\ runs' = Ended(engine)
        /\ UNCHANGED <<snapshots, caches, second, begun, disturbed>>
    BY DEF Fail
  <1>2. AppraisalTypeOK /\ RunsHaveValues /\ RunsInOrder /\ SnapshotsChain
    BY DEF AppraisalInv
  <1>3. /\ DOMAIN runs' = DOMAIN runs \ {engine}
        /\ \A e \in DOMAIN runs' : runs'[e] = runs[e]
    BY <1>1 DEF Ended
  <1>4. AppraisalTypeOK' /\ RunsHaveValues'
    BY <1>1, <1>2, <1>3 DEF AppraisalTypeOK, RunsHaveValues
  <1>5. RunsInOrder'
    <2>1. ASSUME NEW e \in DOMAIN runs'
          PROVE  /\ runs'[e].id \in disturbed /\ runs'[e].id <= second
                 /\ \A id \in DOMAIN snapshots \ disturbed : id < runs'[e].id
      BY <1>2, <1>3 DEF RunsInOrder
    <2> QED BY <1>1, <1>2, <2>1 DEF RunsInOrder
  <1>6. SnapshotsChain'
    BY <1>1, <1>2 DEF SnapshotsChain, Readable
  <1> QED BY <1>4, <1>5, <1>6 DEF AppraisalInv

\* The process stops, perhaps while a file is written.
LEMMA StopInv == AppraisalInv /\ Stop => AppraisalInv'
  <1> SUFFICES ASSUME AppraisalInv, Stop PROVE AppraisalInv'
    OBVIOUS
  <1>1. AppraisalTypeOK /\ RunsInOrder /\ SnapshotsChain
    BY DEF AppraisalInv
  <1>2. /\ DOMAIN runs' = {} /\ DOMAIN caches' = Engines /\
             \A e \in Engines : DOMAIN caches'[e] = {}
        /\ UNCHANGED <<second, begun, disturbed>>
    BY DEF Stop
  <1>3. /\ DOMAIN snapshots' \subseteq Seconds /\ SnapshotsChain'
        /\ \A id \in DOMAIN snapshots' :
              /\ id <= second
              /\ snapshots'[id].total \in Nat /\ snapshots'[id].delta \in Int
              /\ Cardinality(snapshots'[id].previous) <= 1
    <2>1. CASE UNCHANGED snapshots
      BY <1>1, <1>2, <2>1 DEF AppraisalTypeOK, RunsInOrder, SnapshotsChain, Readable
    <2>2. ASSUME NEW e \in DOMAIN runs, snapshots' = AsOf(snapshots, runs[e].id, Torn)
          PROVE  /\ DOMAIN snapshots' \subseteq Seconds /\ SnapshotsChain'
                 /\ \A id \in DOMAIN snapshots' :
                       /\ id <= second
                       /\ snapshots'[id].total \in Nat /\ snapshots'[id].delta \in Int
                       /\ Cardinality(snapshots'[id].previous) <= 1
      <3>1. Torn.total \in Nat /\ Torn.delta \in Int /\ Cardinality(Torn.previous) <= 1
        BY FS_EmptySet DEF Torn
      <3>2. SnapshotsChain'
        BY <1>2, <2>2, ChainKept
      <3> QED BY <2>2, <3>1, <3>2, SnapshotWritten
    <2> QED BY <2>1, <2>2 DEF Stop
  <1>4. AppraisalTypeOK'
    BY <1>1, <1>2, <1>3 DEF AppraisalTypeOK
  <1>5. RunsHaveValues' /\ RunsInOrder'
    BY <1>2, <1>3 DEF RunsHaveValues, RunsInOrder
  <1> QED BY <1>3, <1>4, <1>5 DEF AppraisalInv

\* Time passes.
LEMMA ClockInv == AppraisalInv /\ AppraisalTick => AppraisalInv'
  <1> SUFFICES ASSUME AppraisalInv, AppraisalTick PROVE AppraisalInv'
    OBVIOUS
  <1>1. /\ AppraisalTypeOK /\ RunsHaveValues /\ RunsInOrder /\ SnapshotsChain
        /\ second \in Int
        /\ \A id \in DOMAIN snapshots : id \in Int
        /\ \A e \in DOMAIN runs : runs[e].id \in Int
    BY AppraisalAssumption DEF AppraisalInv, AppraisalTypeOK, Seconds
  <1>2. /\ second < LastSecond /\ second' = second + 1
        /\ UNCHANGED <<snapshots, runs, caches, begun, disturbed>>
    BY DEF AppraisalTick
  <1>3. AppraisalTypeOK' /\ RunsHaveValues' /\ SnapshotsChain'
    BY <1>1, <1>2, AppraisalAssumption
    DEF AppraisalTypeOK, Seconds, RunsHaveValues, SnapshotsChain, Readable
  <1>4. RunsInOrder'
    BY <1>1, <1>2 DEF RunsInOrder
  <1> QED BY <1>3, <1>4 DEF AppraisalInv

\* The invariant holds in every state.
LEMMA AppraisalInvHolds == Spec => []AppraisalInv
  <1>1. Init => AppraisalInv
    <2> SUFFICES ASSUME AppraisalInit PROVE AppraisalInv
      BY DEF Init
    <2>1. /\ DOMAIN snapshots = {} /\ DOMAIN runs = {} /\ DOMAIN caches = Engines
          /\ \A e \in Engines : DOMAIN caches[e] = {}
          /\ second = 0 /\ begun = 0 /\ disturbed = {} /\ 0 \in Seconds
      BY AppraisalAssumption DEF AppraisalInit, Seconds
    <2>2. AppraisalTypeOK
      BY <2>1 DEF AppraisalTypeOK
    <2>3. RunsHaveValues /\ RunsInOrder /\ SnapshotsChain
      BY <2>1 DEF RunsHaveValues, RunsInOrder, SnapshotsChain, Readable
    <2> QED BY <2>2, <2>3 DEF AppraisalInv
  <1>2. AppraisalInv /\ UNCHANGED appraisalVars => AppraisalInv'
    <2> SUFFICES ASSUME AppraisalInv, UNCHANGED appraisalVars PROVE AppraisalInv'
      OBVIOUS
    <2>1. UNCHANGED <<snapshots, runs, caches, second, begun, disturbed>>
      BY DEF appraisalVars
    <2>2. AppraisalTypeOK' /\ RunsHaveValues'
      BY <2>1 DEF AppraisalInv, AppraisalTypeOK, RunsHaveValues
    <2>3. RunsInOrder' /\ SnapshotsChain'
      BY <2>1 DEF AppraisalInv, RunsInOrder, SnapshotsChain, Readable
    <2> QED BY <2>2, <2>3 DEF AppraisalInv
  <1>3. AppraisalInv /\ AppraisalNext => AppraisalInv'
    BY BeginInv, AppraiseInv, SaveInv, FailInv, StopInv, ClockInv DEF AppraisalNext
  <1>4. AppraisalInv /\ [Next]_serviceVars => AppraisalInv'
    BY <1>2, <1>3, AppraisalFrame
  <1> QED BY <1>1, <1>4, PTL DEF Spec

\* The root of every readable snapshot is that of the files it lists.
RootsMatch ==
  /\ \A e \in DOMAIN runs : Numbered(runs[e].files)
  /\ \A id \in Readable : /\ Numbered(snapshots[id].files)
                          /\ snapshots[id].root = MerkleRoot(Leaves(snapshots[id].files))

\* Roots stay those of the files in every step of the appraisals.
LEMMA RootsStep ==
  ASSUME AppraisalInv, RootsMatch, AppraisalNext
  PROVE  RootsMatch'
  <1>1. RunsHaveValues
    BY DEF AppraisalInv
  <1>2. ASSUME NEW engine \in Engines \ DOMAIN runs, Begin(engine) PROVE RootsMatch'
    <2> DEFINE run == [id |-> second, files |-> <<>>, done |-> FALSE]
    <2>1. runs' = AsOf(runs, engine, run) /\ UNCHANGED snapshots
      BY <1>2 DEF Begin
    <2>2. DOMAIN run.files = 1..0 /\ 0 \in Nat
      OBVIOUS
    <2>3. Numbered(run.files)
      BY <2>2 DEF Numbered
    <2> HIDE DEF run
    <2>4. \A e \in DOMAIN runs' : Numbered(runs'[e].files)
      BY <2>1, <2>3 DEF RootsMatch, AsOf
    <2> QED BY <2>1, <2>4 DEF RootsMatch, Readable
  <1>3. ASSUME NEW engine \in DOMAIN runs, NEW tree \in Trees, Appraise(engine, tree)
        PROVE  RootsMatch'
    <2> DEFINE met == DOMAIN caches[engine]
               contents == {tree[i].content : i \in DOMAIN tree}
               Value(fresh) == [c \in met \cup contents |->
                                IF c \in met THEN caches[engine][c] ELSE fresh[c]]
               Found(value) == [i \in DOMAIN tree |->
                                [path |-> tree[i].path, content |-> tree[i].content,
                                 value |-> value[tree[i].content]]]
               once == [runs EXCEPT ![engine] = [runs[engine] EXCEPT !.done = TRUE]]
    <2>1. PICK fresh \in [contents \ met -> Values] :
             runs' = [runs EXCEPT ![engine].done = TRUE, ![engine].files = Found(Value(fresh))]
      BY <1>3 DEF Appraise
    <2> DEFINE found == Found(Value(fresh))
    <2>2. runs' = [once EXCEPT ![engine] = [once[engine] EXCEPT !.files = found]]
      BY <2>1
    <2>3. UNCHANGED snapshots
      BY <1>3 DEF Appraise
    <2>4. DOMAIN found = DOMAIN tree
      OBVIOUS
    <2>5. Numbered(found)
      <3> HIDE DEF found
      <3> QED BY <2>4, TreesAreListed DEF Numbered
    <2>6. /\ DOMAIN once = DOMAIN runs /\ once[engine] = [runs[engine] EXCEPT !.done = TRUE]
          /\ \A e \in DOMAIN runs \ {engine} : once[e] = runs[e]
      OBVIOUS
    <2> HIDE DEF found, once, met, contents
    <2>7. once[engine] \in [id : Seconds, files : {runs[engine].files}, done : BOOLEAN]
      BY <1>1, <2>6 DEF RunsHaveValues
    <2>8. [once[engine] EXCEPT !.files = found].files = found
      BY <2>7
    <2>9. \A e \in DOMAIN runs' : Numbered(runs'[e].files)
      BY <2>2, <2>5, <2>6, <2>8 DEF RootsMatch
    <2> QED BY <2>3, <2>9 DEF RootsMatch, Readable
  <1>4. ASSUME NEW engine \in DOMAIN runs, Save(engine) PROVE RootsMatch'
    <2> DEFINE at == runs[engine].id
               run == runs[engine]
    <2>1. snapshots' = AsOf(snapshots, at, Snapshot(run)) /\ runs' = Ended(engine)
      BY <1>4 DEF Save
    <2>2. /\ Snapshot(run).files = run.files
          /\ Snapshot(run).root = MerkleRoot(Leaves(run.files))
      BY DEF Snapshot
    <2>3. Numbered(run.files)
      BY DEF RootsMatch
    <2> HIDE DEF at, run
    <2>4. \A id \in DOMAIN snapshots' :
             snapshots'[id] = Snapshot(run) \/ (id \in DOMAIN snapshots
                                                 /\ snapshots'[id] = snapshots[id])
      BY <2>1 DEF AsOf
    <2>5. ASSUME NEW id \in Readable'
          PROVE  /\ Numbered(snapshots'[id].files)
                 /\ snapshots'[id].root = MerkleRoot(Leaves(snapshots'[id].files))
      <3>1. CASE snapshots'[id] = Snapshot(run)
        BY <2>2, <2>3, <3>1
      <3>2. CASE id \in DOMAIN snapshots /\ snapshots'[id] = snapshots[id]
        <4>1. id \in Readable
          BY <2>5, <3>2 DEF Readable
        <4> QED BY <3>2, <4>1 DEF RootsMatch
      <3> QED BY <2>4, <2>5, <3>1, <3>2 DEF Readable
    <2>6. \A e \in DOMAIN runs' : Numbered(runs'[e].files)
      BY <2>1 DEF RootsMatch, Ended
    <2> QED BY <2>5, <2>6 DEF RootsMatch, Numbered, Leaves
  <1>5. ASSUME NEW engine \in DOMAIN runs, Fail(engine) PROVE RootsMatch'
    <2>1. runs' = Ended(engine) /\ UNCHANGED snapshots
      BY <1>5 DEF Fail
    <2>2. \A e \in DOMAIN runs' : Numbered(runs'[e].files)
      BY <2>1 DEF RootsMatch, Ended
    <2> QED BY <2>1, <2>2 DEF RootsMatch, Readable
  <1>6. ASSUME Stop PROVE RootsMatch'
    <2>1. DOMAIN runs' = {}
      BY <1>6 DEF Stop
    <2>2. ASSUME NEW id \in Readable' PROVE id \in Readable /\ snapshots'[id] = snapshots[id]
      <3>1. CASE UNCHANGED snapshots
        BY <2>2, <3>1 DEF Readable
      <3>2. ASSUME NEW e \in DOMAIN runs, snapshots' = AsOf(snapshots, runs[e].id, Torn)
            PROVE  id \in Readable /\ snapshots'[id] = snapshots[id]
        BY <2>2, <3>2 DEF Readable, AsOf
      <3> QED BY <1>6, <3>1, <3>2 DEF Stop
    <2>3. \A id \in Readable' :
            /\ Numbered(snapshots'[id].files)
            /\ snapshots'[id].root = MerkleRoot(Leaves(snapshots'[id].files))
      BY <2>2 DEF RootsMatch
    <2> QED BY <2>1, <2>3 DEF RootsMatch, Numbered, Leaves
  <1>7. ASSUME AppraisalTick PROVE RootsMatch'
    BY <1>7 DEF AppraisalTick, RootsMatch, Readable
  <1> QED BY <1>2, <1>3, <1>4, <1>5, <1>6, <1>7 DEF AppraisalNext

\* The roots match in every reachable state.
LEMMA RootsMatchHolds == Spec => []RootsMatch
  <1>1. Init => RootsMatch
    <2> SUFFICES ASSUME AppraisalInit PROVE RootsMatch
      BY DEF Init
    <2>1. DOMAIN snapshots = {} /\ DOMAIN runs = {}
      BY DEF AppraisalInit
    <2> QED BY <2>1 DEF RootsMatch, Readable
  <1>2. RootsMatch /\ UNCHANGED appraisalVars => RootsMatch'
    BY DEF appraisalVars, RootsMatch, Readable
  <1>3. AppraisalInv /\ RootsMatch /\ [Next]_serviceVars => RootsMatch'
    BY <1>2, RootsStep, AppraisalFrame
  <1> QED BY <1>1, <1>3, AppraisalInvHolds, PTL DEF Spec

\* What the endpoints show of the snapshots holds together: for any tree and
\* any file of it the proof leads to the root, and however the hourly and the
\* requested runs fall together and wherever the process stops, a snapshot of
\* an undisturbed run says of the one before it what that one says of itself.
THEOREM SnapshotsSound == Spec => []SnapshotsHoldTogether
  <1>1. RootsMatch => ProofsLeadToRoots
    <2> SUFFICES ASSUME RootsMatch, NEW id \in Readable,
                        NEW i \in DOMAIN Leaves(snapshots[id].files)
                 PROVE  Climb(Leaves(snapshots[id].files)[i],
                              MerkleProof(Leaves(snapshots[id].files), i - 1))
                          = snapshots[id].root
      BY DEF ProofsLeadToRoots
    <2> DEFINE files_ == snapshots[id].files
               leaves == Leaves(files_)
    <2>1. PICK n \in Nat : DOMAIN files_ = 1..n
      BY DEF RootsMatch, Numbered
    <2>2. leaves = [k \in 1..n |-> leaves[k]]
      BY <2>1 DEF Leaves
    <2>3. snapshots[id].root = MerkleRoot(leaves)
      BY DEF RootsMatch
    <2> HIDE DEF leaves
    <2>4. Listed(leaves) /\ Len(leaves) = n /\ DOMAIN leaves = 1..n
      BY <2>2, ListOf
    <2>5. i \in 1..Len(leaves)
      BY <2>4 DEF leaves
    <2>6. Climb(leaves[i], MerkleProof(leaves, i - 1)) = MerkleRoot(leaves)
      BY <2>4, <2>5, MerkleCorrect
    <2> QED BY <2>3, <2>6 DEF leaves
  <1>2. AppraisalInv => SnapshotsChain
    BY DEF AppraisalInv
  <1> QED BY <1>1, <1>2, RootsMatchHolds, AppraisalInvHolds, PTL DEF SnapshotsHoldTogether

-----------------------------------------------------------------------------
(***************************************************************************)
(* All services.                                                           *)
(***************************************************************************)

\* The subject stays.
LEMMA SubjectTyped == Spec => [](subject \in Subjects)
  <1>1. Init => subject \in Subjects
    BY DEF Init
  <1>2. subject \in Subjects /\ [Next]_serviceVars => (subject \in Subjects)'
    BY DEF Next, serviceVars, LedgerStep, IdentityStep, GasStep, RoutingStep, VolatilityStep,
           DevelopmentStep, BreakerStep, LoginStep, FileStep, AppraisalStep, ReservesNext, Rest
  <1> QED BY <1>1, <1>2, PTL DEF Spec

\* Every reachable state of every service is well typed, for all values of the
\* constants.
THEOREM ServicesTyped == Spec => []TypeOK
  <1>1. /\ LedgerInv => LedgerTypeOK
        /\ ReservesInv => ReservesTypeOK
        /\ GasInv => GasTypeOK
        /\ IdentityInv => IdentityTypeOK
        /\ RoutingInv => RoutingTypeOK
        /\ VolatilityInv => PovTypeOK
        /\ DevelopmentInv => PodTypeOK
        /\ LoginInv => AuthTypeOK
        /\ FileInv => FileTypeOK
        /\ AppraisalInv => AppraisalTypeOK
    BY DEF LedgerInv, ReservesInv, GasInv, IdentityInv, RoutingInv, VolatilityInv, DevelopmentInv,
           LoginInv, FileInv, AppraisalInv
  <1>2. /\ LedgerInv /\ ReservesInv /\ GasInv /\ IdentityInv /\ RoutingInv /\ VolatilityInv
        /\ DevelopmentInv /\ LoginInv /\ FileInv /\ AppraisalInv /\ BreakerTypeOK
        /\ subject \in Subjects
        => TypeOK
    BY <1>1 DEF TypeOK
  <1> QED
    BY <1>2, LedgerInvHolds, ReservesInvHolds, GasInvHolds, IdentityInvHolds, RoutingInvHolds,
       VolatilityInvHolds, DevelopmentInvHolds, LoginInvHolds, FileInvHolds, AppraisalInvHolds,
       BreakerTyped, SubjectTyped, PTL
=============================================================================
