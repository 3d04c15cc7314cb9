--------------------------- MODULE ClaimApiProofs ---------------------------
(***************************************************************************)
(* What a replica's stores promise while it lives, for any number of       *)
(* replicas, wallets, claims and keys: keys and claims name each other,    *)
(* the audit log tells each claim's story, and PINs are rationed.          *)
(***************************************************************************)
EXTENDS ClaimApi, SumLemmas, SequenceTheorems, TLAPS

\* A replica starts with nothing.
LEMMA NothingFacts == DOMAIN Nothing = {}
BY DEF Nothing

\* An audit event is appended to one replica's log.
LEMMA AddAuditType ==
  ASSUME StoreTypeOK, NEW r \in Replicas, NEW e \in Event, AddAudit(r, e)
  PROVE  audits' \in [Replicas -> Seq(Event)]
BY DEF StoreTypeOK, AddAudit

\* Consuming a claim changes its flag and its claimant only.
LEMMA ConsumeFacts ==
  ASSUME StoreTypeOK, NEW r \in Replicas, NEW c \in DOMAIN claims[r],
         NEW w \in Wallets, Consume(r, c, w)
  PROVE  /\ DOMAIN claims' = Replicas
         /\ \A q \in Replicas : DOMAIN claims'[q] = DOMAIN claims[q]
         /\ \A q \in Replicas : q # r => claims'[q] = claims[q]
         /\ \A d \in DOMAIN claims[r] : d # c => claims'[r][d] = claims[r][d]
         /\ claims'[r][c] = [claims[r][c] EXCEPT !.claimed = TRUE, !.claimant_wallet = w]
         /\ claims'[r][c] \in Claim
<1>1. claims' = [claims EXCEPT ![r] = [claims[r] EXCEPT
                   ![c] = [claims[r][c] EXCEPT !.claimed = TRUE, !.claimant_wallet = w]]]
  BY DEF Consume, StoreTypeOK
<1>2. claims[r][c] \in Claim
  BY DEF StoreTypeOK
<1>3. [claims[r][c] EXCEPT !.claimed = TRUE, !.claimant_wallet = w] \in Claim
  BY <1>2 DEF Claim
<1> QED
  BY <1>1, <1>3 DEF StoreTypeOK

\* What create_claim does to the store, for the claim it draws.
LEMMA CreateFacts ==
  ASSUME StoreTypeOK, NEW r \in Replicas, NEW w \in Wallets,
         NEW k \in Keys \cup {NoKey}, NEW m \in Minutes,
         CreateClaim(r, w, k, m)
  PROVE  \E c \in ClaimIds \ DOMAIN issued :
           /\ DOMAIN claims' = Replicas
           /\ \A q \in Replicas : q # r => claims'[q] = claims[q]
           /\ DOMAIN claims'[r] = DOMAIN claims[r] \cup {c}
           /\ \A d \in DOMAIN claims[r] : claims'[r][d] = claims[r][d]
           /\ claims'[r][c] \in Claim
           /\ claims'[r][c].issuer_wallet = w
           /\ claims'[r][c].claimed = FALSE
           /\ AddAudit(r, [type |-> "claim_created", claim |-> c, wallet |-> w])
           /\ DOMAIN issued' = DOMAIN issued \cup {c}
           /\ issued'[c] = k
           /\ \A d \in DOMAIN issued : issued'[d] = issued[d]
           /\ keys' = Remembered(r, k, c)
           /\ k \notin DOMAIN keys[r]
<1>1. PICK c \in ClaimIds \ DOMAIN issued, p \in Pins :
        /\ claims' = [claims EXCEPT ![r] = Extend(claims[r], c,
             [issuer_wallet |-> w, pin |-> p, expires_at |-> now + m,
              claimed |-> FALSE, claimant_wallet |-> Nobody])]
        /\ AddAudit(r, [type |-> "claim_created", claim |-> c, wallet |-> w])
        /\ keys' = Remembered(r, k, c)
        /\ issued' = Extend(issued, c, k)
  BY DEF CreateClaim
<1> DEFINE new == [issuer_wallet |-> w, pin |-> p, expires_at |-> now + m,
                   claimed |-> FALSE, claimant_wallet |-> Nobody]
<1>2. new \in Claim
  BY ClaimApiAssumption DEF StoreTypeOK, Claim
<1>3. new.issuer_wallet = w /\ new.claimed = FALSE
  OBVIOUS
<1>4. c \notin DOMAIN claims[r]
  BY DEF StoreTypeOK
<1> HIDE DEF new
<1>5. claims'[r] = Extend(claims[r], c, new)
  BY <1>1 DEF StoreTypeOK, new
<1>6. DOMAIN claims' = Replicas /\ \A q \in Replicas : q # r => claims'[q] = claims[q]
  BY <1>1 DEF StoreTypeOK
<1>7. /\ DOMAIN claims'[r] = DOMAIN claims[r] \cup {c}
      /\ claims'[r][c] = new
      /\ \A d \in DOMAIN claims[r] : claims'[r][d] = claims[r][d]
  BY <1>4, <1>5 DEF Extend
<1>8. /\ DOMAIN issued' = DOMAIN issued \cup {c}
      /\ issued'[c] = k
      /\ \A d \in DOMAIN issued : issued'[d] = issued[d]
  BY <1>1 DEF Extend
<1>9. k \notin DOMAIN keys[r]
  BY DEF CreateClaim
<1> QED
  BY <1>1, <1>2, <1>3, <1>6, <1>7, <1>8, <1>9

\* The log after one more event: the old entries stand, the new one is last.
LEMMA LogAfter ==
  ASSUME StoreTypeOK, NEW r \in Replicas, NEW e \in Event, AddAudit(r, e)
  PROVE  /\ DOMAIN audits[r] = 1..Len(audits[r])
         /\ Len(audits[r]) \in Nat
         /\ DOMAIN audits'[r] = 1..(Len(audits[r]) + 1)
         /\ \A i \in DOMAIN audits[r] : audits'[r][i] = audits[r][i]
         /\ audits'[r][Len(audits[r]) + 1] = e
         /\ \A q \in Replicas : q # r => audits'[q] = audits[q]
<1>1. audits[r] \in Seq(Event)
  BY DEF StoreTypeOK
<1>2. audits'[r] = Append(audits[r], e)
  BY DEF AddAudit, StoreTypeOK
<1>3. \A q \in Replicas : q # r => audits'[q] = audits[q]
  BY DEF AddAudit, StoreTypeOK
<1> QED
  BY <1>1, <1>2, <1>3

\* The events of a claim after one more event that is, or is not, of that kind.
LEMMA EventsAfter ==
  ASSUME StoreTypeOK, NEW r \in Replicas, NEW e \in Event, AddAudit(r, e),
         NEW type, NEW c
  PROVE  /\ e.type = type /\ e.claim = c =>
              EventsOf(r, type, c)' = EventsOf(r, type, c) \cup {Len(audits[r]) + 1}
         /\ ~(e.type = type /\ e.claim = c) =>
              EventsOf(r, type, c)' = EventsOf(r, type, c)
BY LogAfter DEF EventsOf

-----------------------------------------------------------------------------
(* The inductive invariant *)

\* Each acceptance on record was logged.
AcceptancesLogged ==
  \A r \in Replicas : \A w \in accepted[r] : \E j \in DOMAIN audits[r] :
    audits[r][j] = [type |-> "risk_disclosure_accepted", wallet |-> w]

\* The log speaks of no claim the replica does not hold.
LoggedClaimsKnown ==
  \A r \in Replicas : \A c \in ClaimIds \ DOMAIN claims[r] :
    EventsOf(r, "claim_created", c) = {} /\ EventsOf(r, "claim_validated", c) = {}

StoreInv ==
  /\ StoreTypeOK
  /\ KeysNameClaims
  /\ AcceptancesLogged
  /\ LoggedClaimsKnown
  /\ AuditTellsClaims

LEMMA InitInv ==
  ASSUME Init PROVE StoreInv
<1>1. StoreTypeOK
  BY NothingFacts, ClaimApiAssumption DEF Init, StoreTypeOK
<1>2. KeysNameClaims /\ AuditTellsClaims /\ AcceptancesLogged
  BY NothingFacts DEF Init, KeysNameClaims, AuditTellsClaims, AcceptancesLogged
<1>3. LoggedClaimsKnown
  BY DEF Init, LoggedClaimsKnown, EventsOf
<1> QED
  BY <1>1, <1>2, <1>3 DEF StoreInv

\* A claim whose story gets no new event keeps it.
LEMMA ToldKept ==
  ASSUME StoreTypeOK, NEW r \in Replicas, NEW e \in Event, AddAudit(r, e),
         NEW q \in Replicas, NEW c \in DOMAIN claims[q], Told(q, c),
         claims'[q][c] = claims[q][c],
         q = r => e.type = "risk_disclosure_accepted" \/ e.claim # c
  PROVE  Told(q, c)'
<1>1. CASE q # r
  BY <1>1, LogAfter DEF Told, EventsOf
<1>2. CASE q = r
  <2>1. /\ EventsOf(q, "claim_created", c)' = EventsOf(q, "claim_created", c)
        /\ EventsOf(q, "claim_validated", c)' = EventsOf(q, "claim_validated", c)
    BY <1>2, EventsAfter
  <2>2. /\ DOMAIN audits[q] \subseteq DOMAIN audits'[q]
        /\ \A i \in DOMAIN audits[q] : audits'[q][i] = audits[q][i]
        /\ \A i \in DOMAIN audits[q] : 1..i \subseteq DOMAIN audits[q]
    BY <1>2, LogAfter
  <2> QED
    BY <2>1, <2>2 DEF Told
<1> QED
  BY <1>1, <1>2

-----------------------------------------------------------------------------
(* One lemma for each action *)

LEMMA AcceptRiskInv ==
  ASSUME StoreInv, NEW r \in Replicas, NEW w \in Wallets, AcceptRisk(r, w)
  PROVE  StoreInv'
<1> DEFINE e == [type |-> "risk_disclosure_accepted", wallet |-> w]
<1>1. e \in Event /\ e.type = "risk_disclosure_accepted"
  BY DEF Event
<1>2. AddAudit(r, e) /\ UNCHANGED <<now, claims, keys, issued>>
  BY DEF AcceptRisk
<1>3. StoreTypeOK
  BY DEF StoreInv
<1>4. StoreTypeOK'
  <2>1. audits' \in [Replicas -> Seq(Event)]
    BY <1>1, <1>2, <1>3, AddAuditType
  <2>2. accepted' \in [Replicas -> SUBSET Wallets]
    BY <1>3 DEF StoreTypeOK, AcceptRisk
  <2> QED
    BY <1>2, <1>3, <2>1, <2>2 DEF StoreTypeOK
<1>5. KeysNameClaims'
  BY <1>2 DEF StoreInv, KeysNameClaims
<1>6. AcceptancesLogged'
  <2> SUFFICES ASSUME NEW q \in Replicas, NEW v \in accepted'[q]
      PROVE  \E j \in DOMAIN audits'[q] :
               audits'[q][j] = [type |-> "risk_disclosure_accepted", wallet |-> v]
    BY DEF AcceptancesLogged
  <2>1. v \in accepted[q] \/ (q = r /\ v = w)
    BY <1>3 DEF AcceptRisk, StoreTypeOK
  <2> HIDE DEF e
  <2>2. CASE q = r /\ v = w
    BY <2>2, <1>1, <1>2, <1>3, LogAfter DEF e
  <2>3. CASE v \in accepted[q]
    BY <2>3, <1>1, <1>2, <1>3, LogAfter DEF StoreInv, AcceptancesLogged
  <2> QED
    BY <2>1, <2>2, <2>3
<1> HIDE DEF e
<1>7. LoggedClaimsKnown'
  <2> SUFFICES ASSUME NEW q \in Replicas, NEW c \in ClaimIds \ DOMAIN claims[q]
      PROVE  (EventsOf(q, "claim_created", c) = {}
                /\ EventsOf(q, "claim_validated", c) = {})'
    BY <1>2 DEF LoggedClaimsKnown
  <2>1. EventsOf(q, "claim_created", c) = {} /\ EventsOf(q, "claim_validated", c) = {}
    BY DEF StoreInv, LoggedClaimsKnown
  <2>2. CASE q = r
    BY <1>1, <1>2, <1>3, <2>1, <2>2, EventsAfter
  <2>3. CASE q # r
    BY <1>1, <1>2, <1>3, <2>1, <2>3, LogAfter DEF EventsOf
  <2> QED
    BY <2>2, <2>3
<1>8. AuditTellsClaims'
  <2> SUFFICES ASSUME NEW q \in Replicas, NEW c \in DOMAIN claims[q]
      PROVE  Told(q, c)'
    BY <1>2 DEF AuditTellsClaims
  <2>1. Told(q, c)
    BY DEF StoreInv, AuditTellsClaims
  <2> QED
    BY <1>1, <1>2, <1>3, <2>1, ToldKept
<1> QED
  BY <1>4, <1>5, <1>6, <1>7, <1>8 DEF StoreInv

LEMMA CreateClaimInv ==
  ASSUME StoreInv, NEW r \in Replicas, NEW w \in Wallets,
         NEW k \in Keys \cup {NoKey}, NEW m \in Minutes, CreateClaim(r, w, k, m)
  PROVE  StoreInv'
<1>1. StoreTypeOK
  BY DEF StoreInv
<1>2. PICK c \in ClaimIds \ DOMAIN issued :
        /\ DOMAIN claims' = Replicas
        /\ \A q \in Replicas : q # r => claims'[q] = claims[q]
        /\ DOMAIN claims'[r] = DOMAIN claims[r] \cup {c}
        /\ \A d \in DOMAIN claims[r] : claims'[r][d] = claims[r][d]
        /\ claims'[r][c] \in Claim
        /\ claims'[r][c].issuer_wallet = w
        /\ claims'[r][c].claimed = FALSE
        /\ AddAudit(r, [type |-> "claim_created", claim |-> c, wallet |-> w])
        /\ DOMAIN issued' = DOMAIN issued \cup {c}
        /\ issued'[c] = k
        /\ \A d \in DOMAIN issued : issued'[d] = issued[d]
        /\ keys' = Remembered(r, k, c)
        /\ k \notin DOMAIN keys[r]
  BY <1>1, CreateFacts
<1> DEFINE e == [type |-> "claim_created", claim |-> c, wallet |-> w]
<1>3. e \in Event /\ e.type = "claim_created" /\ e.claim = c /\ e.wallet = w
  BY DEF Event
<1>4. AddAudit(r, e) /\ UNCHANGED <<now, accepted>>
  BY <1>2 DEF CreateClaim
<1> HIDE DEF e
<1>5. \A q \in Replicas : c \notin DOMAIN claims[q]
  BY <1>1 DEF StoreTypeOK
<1>6. /\ DOMAIN keys' = Replicas
      /\ \A q \in Replicas : q # r => keys'[q] = keys[q]
      /\ k = NoKey => keys'[r] = keys[r]
      /\ k # NoKey => /\ DOMAIN keys'[r] = DOMAIN keys[r] \cup {k}
                      /\ keys'[r][k] = c
                      /\ \A l \in DOMAIN keys[r] : keys'[r][l] = keys[r][l]
  BY <1>1, <1>2 DEF Remembered, Extend, StoreTypeOK
<1>7. StoreTypeOK'
  <2>1. audits' \in [Replicas -> Seq(Event)]
    BY <1>1, <1>3, <1>4, AddAuditType
  <2>2. \A q \in Replicas : /\ DOMAIN claims'[q] \subseteq DOMAIN issued'
                           /\ \A d \in DOMAIN claims'[q] : claims'[q][d] \in Claim
    BY <1>1, <1>2 DEF StoreTypeOK
  <2>3. \A q \in Replicas : /\ DOMAIN keys'[q] \subseteq Keys
                           /\ \A l \in DOMAIN keys'[q] : keys'[q][l] \in ClaimIds
    BY <1>1, <1>6 DEF StoreTypeOK
  <2>4. /\ DOMAIN issued' \subseteq ClaimIds
        /\ \A d \in DOMAIN issued' : issued'[d] \in Keys \cup {NoKey}
    BY <1>1, <1>2 DEF StoreTypeOK
  <2> QED
    BY <1>1, <1>2, <1>4, <1>6, <2>1, <2>2, <2>3, <2>4 DEF StoreTypeOK
<1>8. KeysNameClaims'
  <2> SUFFICES ASSUME NEW q \in Replicas
      PROVE  /\ \A d \in DOMAIN claims'[q] : issued'[d] # NoKey =>
                  issued'[d] \in DOMAIN keys'[q] /\ keys'[q][issued'[d]] = d
             /\ \A l \in DOMAIN keys'[q] :
                  keys'[q][l] \in DOMAIN claims'[q] /\ issued'[keys'[q][l]] = l
    BY DEF KeysNameClaims
  <2>1. /\ \A d \in DOMAIN claims[q] : issued[d] # NoKey =>
             issued[d] \in DOMAIN keys[q] /\ keys[q][issued[d]] = d
        /\ \A l \in DOMAIN keys[q] :
             keys[q][l] \in DOMAIN claims[q] /\ issued[keys[q][l]] = l
        /\ DOMAIN claims[q] \subseteq DOMAIN issued
    BY <1>1 DEF StoreInv, KeysNameClaims, StoreTypeOK
  <2>2. CASE q # r
    BY <1>2, <1>6, <2>1, <2>2
  <2>3. CASE q = r /\ k = NoKey
    BY <1>2, <1>6, <2>1, <2>3
  <2>4. CASE q = r /\ k # NoKey
    BY <1>2, <1>6, <2>1, <2>4
  <2> QED
    BY <2>2, <2>3, <2>4
<1>9. AcceptancesLogged'
  BY <1>1, <1>3, <1>4, LogAfter DEF StoreInv, AcceptancesLogged
<1>10. LoggedClaimsKnown'
  <2> SUFFICES ASSUME NEW q \in Replicas, NEW d \in ClaimIds \ DOMAIN claims'[q]
      PROVE  (EventsOf(q, "claim_created", d) = {}
                /\ EventsOf(q, "claim_validated", d) = {})'
    BY DEF LoggedClaimsKnown
  <2>1. d \notin DOMAIN claims[q] /\ (q = r => d # c)
    BY <1>2
  <2>2. EventsOf(q, "claim_created", d) = {} /\ EventsOf(q, "claim_validated", d) = {}
    BY <2>1 DEF StoreInv, LoggedClaimsKnown
  <2>3. CASE q = r
    BY <1>1, <1>3, <1>4, <2>1, <2>2, <2>3, EventsAfter
  <2>4. CASE q # r
    BY <1>1, <1>3, <1>4, <2>2, <2>4, LogAfter DEF EventsOf
  <2> QED
    BY <2>3, <2>4
<1>11. Told(r, c)'
  <2> DEFINE i == Len(audits[r]) + 1
  <2>1. EventsOf(r, "claim_created", c) = {} /\ EventsOf(r, "claim_validated", c) = {}
    BY <1>5 DEF StoreInv, LoggedClaimsKnown
  <2>2. EventsOf(r, "claim_created", c)' = EventsOf(r, "claim_created", c) \cup {i}
    BY <1>1, <1>3, <1>4, EventsAfter
  <2>6. EventsOf(r, "claim_validated", c)' = EventsOf(r, "claim_validated", c)
    BY <1>1, <1>3, <1>4, EventsAfter
  <2>3. i \in DOMAIN audits'[r] /\ audits'[r][i] = e
    BY <1>1, <1>3, <1>4, LogAfter
  <2>4. PICK j \in DOMAIN audits[r] :
          audits[r][j] = [type |-> "risk_disclosure_accepted", wallet |-> Strip[w]]
    BY DEF StoreInv, AcceptancesLogged, CreateClaim, HasAccepted
  <2>5. j \in 1..i /\ audits'[r][j] = audits[r][j]
    BY <1>1, <1>3, <1>4, LogAfter
  <2> HIDE DEF i
  <2> QED
    BY <1>2, <1>3, <2>1, <2>2, <2>3, <2>4, <2>5, <2>6 DEF Told
<1>12. AuditTellsClaims'
  <2> SUFFICES ASSUME NEW q \in Replicas, NEW d \in DOMAIN claims'[q]
      PROVE  Told(q, d)'
    BY DEF AuditTellsClaims
  <2>1. CASE q = r /\ d = c
    BY <1>11, <2>1
  <2>2. CASE ~(q = r /\ d = c)
    <3>1. d \in DOMAIN claims[q] /\ claims'[q][d] = claims[q][d] /\ d # c
      BY <1>2, <1>5, <2>2
    <3>2. Told(q, d)
      BY <3>1 DEF StoreInv, AuditTellsClaims
    <3> QED
      BY <1>1, <1>3, <1>4, <3>1, <3>2, ToldKept
  <2> QED
    BY <2>1, <2>2
<1> QED
  BY <1>7, <1>8, <1>9, <1>10, <1>12 DEF StoreInv

\* A wrong PIN, a refused try and the clock leave the stores alone.
LEMMA SameStore ==
  ASSUME StoreInv, now' \in Nat, UNCHANGED <<claims, accepted, audits, keys, issued>>
  PROVE  StoreInv'
<1>1. StoreTypeOK'
  BY DEF StoreInv, StoreTypeOK
<1>2. KeysNameClaims' /\ AcceptancesLogged'
  BY DEF StoreInv, KeysNameClaims, AcceptancesLogged
<1>3. LoggedClaimsKnown' /\ AuditTellsClaims'
  BY DEF StoreInv, LoggedClaimsKnown, AuditTellsClaims, Told, EventsOf
<1> QED
  BY <1>1, <1>2, <1>3 DEF StoreInv

LEMMA ConsumeInv ==
  ASSUME StoreInv, NEW r \in Replicas, NEW w \in Wallets, NEW c \in DOMAIN claims[r],
         Open(r, c), Consume(r, c, w), UNCHANGED <<now, accepted, keys, issued>>
  PROVE  StoreInv'
<1>1. StoreTypeOK /\ claims[r][c] \in Claim /\ c \in ClaimIds
  BY DEF StoreInv, StoreTypeOK
<1>2. /\ DOMAIN claims' = Replicas
      /\ \A q \in Replicas : DOMAIN claims'[q] = DOMAIN claims[q]
      /\ \A q \in Replicas : q # r => claims'[q] = claims[q]
      /\ \A d \in DOMAIN claims[r] : d # c => claims'[r][d] = claims[r][d]
      /\ claims'[r][c] = [claims[r][c] EXCEPT !.claimed = TRUE, !.claimant_wallet = w]
      /\ claims'[r][c] \in Claim
  BY <1>1, ConsumeFacts
<1> DEFINE e == [type |-> "claim_validated", claim |-> c, wallet |-> w]
<1>3. e \in Event /\ e.type = "claim_validated" /\ e.claim = c /\ e.wallet = w
  BY <1>1 DEF Event
<1>4. AddAudit(r, e)
  BY DEF Consume
<1> HIDE DEF e
<1>5. StoreTypeOK'
  <2>1. audits' \in [Replicas -> Seq(Event)]
    BY <1>1, <1>3, <1>4, AddAuditType
  <2>2. \A q \in Replicas : /\ DOMAIN claims'[q] \subseteq DOMAIN issued
                           /\ \A d \in DOMAIN claims'[q] : claims'[q][d] \in Claim
    BY <1>1, <1>2 DEF StoreTypeOK
  <2> QED
    BY <1>1, <1>2, <2>1, <2>2 DEF StoreTypeOK
<1>6. KeysNameClaims'
  BY <1>2 DEF StoreInv, KeysNameClaims
<1>7. AcceptancesLogged'
  BY <1>1, <1>3, <1>4, LogAfter DEF StoreInv, AcceptancesLogged
<1>8. LoggedClaimsKnown'
  <2> SUFFICES ASSUME NEW q \in Replicas, NEW d \in ClaimIds \ DOMAIN claims[q]
      PROVE  (EventsOf(q, "claim_created", d) = {}
                /\ EventsOf(q, "claim_validated", d) = {})'
    BY <1>2 DEF LoggedClaimsKnown
  <2>1. EventsOf(q, "claim_created", d) = {} /\ EventsOf(q, "claim_validated", d) = {}
    BY DEF StoreInv, LoggedClaimsKnown
  <2>2. q = r => d # c
    OBVIOUS
  <2>3. CASE q = r
    BY <1>1, <1>3, <1>4, <2>1, <2>2, <2>3, EventsAfter
  <2>4. CASE q # r
    BY <1>1, <1>3, <1>4, <2>1, <2>4, LogAfter DEF EventsOf
  <2> QED
    BY <2>3, <2>4
<1>9. Told(r, c)'
  <2> DEFINE k == Len(audits[r]) + 1
             claim == claims[r][c]
  <2>1. PICK i \in DOMAIN audits[r] :
          /\ EventsOf(r, "claim_created", c) = {i}
          /\ audits[r][i].wallet = claim.issuer_wallet
          /\ \E j \in 1..i : audits[r][j] =
               [type |-> "risk_disclosure_accepted", wallet |-> Strip[claim.issuer_wallet]]
          /\ EventsOf(r, "claim_validated", c) = {}
    BY DEF StoreInv, AuditTellsClaims, Told, Open
  <2>2. EventsOf(r, "claim_created", c)' = EventsOf(r, "claim_created", c)
    BY <1>1, <1>3, <1>4, EventsAfter
  <2>3. EventsOf(r, "claim_validated", c)' = EventsOf(r, "claim_validated", c) \cup {k}
    BY <1>1, <1>3, <1>4, EventsAfter
  <2>4. /\ i \in DOMAIN audits'[r] /\ i < k
        /\ k \in DOMAIN audits'[r] /\ audits'[r][k] = e
        /\ \A j \in 1..i : audits'[r][j] = audits[r][j]
        /\ audits'[r][i] = audits[r][i]
    BY <1>1, <1>3, <1>4, LogAfter
  <2>5. /\ claims'[r][c].issuer_wallet = claim.issuer_wallet
        /\ claims'[r][c].claimed = TRUE
        /\ claims'[r][c].claimant_wallet = w
    BY <1>1, <1>2 DEF Claim
  <2> HIDE DEF k, claim
  <2> QED
    BY <1>3, <2>1, <2>2, <2>3, <2>4, <2>5 DEF Told
<1>10. AuditTellsClaims'
  <2> SUFFICES ASSUME NEW q \in Replicas, NEW d \in DOMAIN claims[q]
      PROVE  Told(q, d)'
    BY <1>2 DEF AuditTellsClaims
  <2>1. CASE q = r /\ d = c
    BY <1>9, <2>1
  <2>2. CASE ~(q = r /\ d = c)
    <3>1. claims'[q][d] = claims[q][d] /\ Told(q, d)
      BY <1>2, <2>2 DEF StoreInv, AuditTellsClaims
    <3> QED
      BY <1>1, <1>3, <1>4, <2>2, <3>1, ToldKept
  <2> QED
    BY <2>1, <2>2
<1> QED
  BY <1>5, <1>6, <1>7, <1>8, <1>10 DEF StoreInv

LEMMA RestartInv ==
  ASSUME StoreInv, NEW r \in Replicas, Restart(r)
  PROVE  StoreInv'
<1>1. /\ DOMAIN claims' = Replicas /\ DOMAIN keys' = Replicas
      /\ claims'[r] = Nothing /\ keys'[r] = Nothing
      /\ accepted'[r] = {} /\ audits'[r] = <<>>
      /\ \A q \in Replicas : q # r => /\ claims'[q] = claims[q] /\ keys'[q] = keys[q]
                                      /\ accepted'[q] = accepted[q]
                                      /\ audits'[q] = audits[q]
      /\ UNCHANGED <<now, issued>>
  BY DEF Restart, StoreInv, StoreTypeOK
<1>2. audits' \in [Replicas -> Seq(Event)] /\ accepted' \in [Replicas -> SUBSET Wallets]
  BY DEF Restart, StoreInv, StoreTypeOK
<1>3. StoreTypeOK'
  BY <1>1, <1>2, NothingFacts DEF StoreInv, StoreTypeOK
<1>4. KeysNameClaims' /\ AcceptancesLogged'
  BY <1>1, NothingFacts DEF StoreInv, KeysNameClaims, AcceptancesLogged
<1>5. LoggedClaimsKnown'
  BY <1>1 DEF StoreInv, LoggedClaimsKnown, EventsOf
<1>6. AuditTellsClaims'
  BY <1>1, NothingFacts DEF StoreInv, AuditTellsClaims, Told, EventsOf
<1> QED
  BY <1>3, <1>4, <1>5, <1>6 DEF StoreInv

LEMMA StoreInvStep ==
  ASSUME StoreInv, [Next]_vars PROVE StoreInv'
<1>1. now \in Nat
  BY DEF StoreInv, StoreTypeOK
<1>2. CASE UNCHANGED vars
  BY <1>1, <1>2, SameStore DEF vars
<1>3. CASE Tick
  BY <1>1, <1>3, SameStore DEF Tick
<1>4. ASSUME NEW r \in Replicas, Restart(r) PROVE StoreInv'
  BY <1>4, RestartInv
<1>5. ASSUME NEW r \in Replicas, NEW w \in Wallets, AcceptRisk(r, w) PROVE StoreInv'
  BY <1>5, AcceptRiskInv
<1>6. ASSUME NEW r \in Replicas, NEW w \in Wallets, NEW k \in Keys \cup {NoKey},
             NEW m \in Minutes, CreateClaim(r, w, k, m)
      PROVE  StoreInv'
  BY <1>6, CreateClaimInv
<1>7. ASSUME NEW r \in Replicas, NEW w \in Wallets, NEW c \in ClaimIds,
             TooManyAttempts(r, c, w)
      PROVE  StoreInv'
  BY <1>1, <1>7, SameStore DEF TooManyAttempts
<1>8. ASSUME NEW r \in Replicas, NEW w \in Wallets, NEW c \in ClaimIds,
             NEW pin \in Pins, ValidateClaim(r, c, w, pin)
      PROVE  StoreInv'
  <2>1. CASE Consume(r, c, w)
    BY <1>8, <2>1, ConsumeInv DEF ValidateClaim
  <2>2. CASE WrongPin(r, c, w)
    BY <1>1, <1>8, <2>2, SameStore DEF ValidateClaim, WrongPin
  <2> QED
    BY <1>8, <2>1, <2>2 DEF ValidateClaim
<1> QED
  BY <1>2, <1>3, <1>4, <1>5, <1>6, <1>7, <1>8 DEF Next

-----------------------------------------------------------------------------
\* The stores' invariant holds in every reachable state.
LEMMA StoreInvariant == Spec => []StoreInv
<1>1. Init => StoreInv
  BY InitInv
<1>2. StoreInv /\ [Next]_vars => StoreInv'
  BY StoreInvStep
<1> QED
  BY <1>1, <1>2, PTL DEF Spec

\* At every replica, for as long as it lives, the audit log tells each claim's
\* story.
THEOREM StoresSound == Spec => []AuditTellsClaims
<1>1. StoreInv => AuditTellsClaims
  BY DEF StoreInv
<1> QED
  BY <1>1, StoreInvariant, PTL

\* While a replica lives, each key names the one claim made for it, and a claim
\* made with a key is the one its key names.
THEOREM KeysSound == Spec => []KeysNameClaims
<1>1. StoreInv => KeysNameClaims
  BY DEF StoreInv
<1> QED
  BY <1>1, StoreInvariant, PTL

-----------------------------------------------------------------------------
(***************************************************************************)
(* The rationing of PINs.                                                  *)
(***************************************************************************)

\* A list of times in the order of the clock, none later than now.
InOrder(times) ==
  /\ \A i, j \in DOMAIN times : i <= j => times[i] <= times[j]
  /\ \A i \in DOMAIN times : times[i] <= now

\* The claim was not consumed at r.
NotTaken(r, c) == c \in DOMAIN claims[r] => ~claims[r][c].claimed

\* The tracker holds the last of the compared PINs, and those it dropped are
\* older than the window.
TracksLast(r, x) ==
  LET gone == Len(guesses[r][x]) - Len(attempts[r][x])
  IN /\ gone >= 0
     /\ \A i \in DOMAIN attempts[r][x] : attempts[r][x][i] = guesses[r][x][i + gone]
     /\ \A i \in 1..gone : now - guesses[r][x][i] >= Window

\* No window holds more than MaxAttempts of the compared PINs.
Rationed(times) ==
  \A i \in 1..(Len(times) - MaxAttempts) : times[i + MaxAttempts] - times[i] >= Window

TrackerTypeOK ==
  /\ now \in Nat
  /\ attempts \in [Replicas -> [BfKeys -> Seq(Nat)]]
  /\ guesses \in [Replicas -> [BfKeys -> Seq(Nat)]]

\* For one claim and wallet: while the claim can be taken the tracker knows
\* the tries that still count, and the PIN that takes it is the last one.
TrackerSound(r, x) ==
  /\ InOrder(guesses[r][x])
  /\ Rationed(guesses[r][x])
  /\ NotTaken(r, x[1]) => TracksLast(r, x)

TrackerInv ==
  /\ TrackerTypeOK
  /\ \A r \in Replicas, x \in BfKeys : TrackerSound(r, x)

\* The greatest of zero and some positions.
LEMMA LastOf ==
  ASSUME NEW n \in Nat, NEW S, \A k \in S : k \in 0..n, 0 \in S
  PROVE  Max(S) \in S /\ \A k \in S : Max(S) >= k
<1>1. IsFiniteSet(S)
  <2>1. IsFiniteSet(0..n)
    BY FS_Interval
  <2>2. S \in SUBSET (0..n)
    OBVIOUS
  <2> QED BY <2>1, <2>2, FS_Subset
<1>2. \A i \in S : i \in Int
  OBVIOUS
<1>3. \E j \in S : \A i \in S : i <= j
  BY <1>1, <1>2, GreatestExists
<1>4. \E j \in S : \A i \in S : j >= i
  BY <1>2, <1>3
<1> QED BY <1>4 DEF Max

\* The end of a list of times.
LEMMA EndOfList ==
  ASSUME NEW s \in Seq(Nat), NEW k \in Int, k \in 1..(Len(s) + 1)
  PROVE  /\ SubSeq(s, k, Len(s)) \in Seq(Nat)
         /\ Len(SubSeq(s, k, Len(s))) = Len(s) + 1 - k
         /\ \A i \in 1..(Len(s) + 1 - k) : SubSeq(s, k, Len(s))[i] = s[k + i - 1]
<1> DEFINE l == Len(s)
<1>1. l \in Int
  OBVIOUS
<1>2. \A i \in k..l : s[i] \in Nat
  OBVIOUS
<1>3. l + 1 - k = l - k + 1
  BY <1>1
<1>4. (IF k <= l THEN l - k + 1 ELSE 0) = l + 1 - k
  BY <1>1
<1>5. /\ SubSeq(s, k, l) \in Seq(Nat)
      /\ Len(SubSeq(s, k, l)) = IF k <= l THEN l - k + 1 ELSE 0
      /\ \A i \in 1..(l - k + 1) : SubSeq(s, k, l)[i] = s[k + i - 1]
  <2> HIDE DEF l
  <2> QED BY <1>1, <1>2, SubSeqProperties
<1> QED BY <1>3, <1>4, <1>5

\* Trimming keeps the end of a list that is in order and drops what is older
\* than the window.
LEMMA RecentFacts ==
  ASSUME TrackerTypeOK, NEW r \in Replicas, NEW x \in BfKeys,
         InOrder(attempts[r][x])
  PROVE  \E n \in 0..Len(attempts[r][x]) :
           /\ Recent(r, x) \in Seq(Nat)
           /\ Len(Recent(r, x)) = Len(attempts[r][x]) - n
           /\ \A i \in 1..Len(Recent(r, x)) : Recent(r, x)[i] = attempts[r][x][i + n]
           /\ \A i \in 1..n : now - attempts[r][x][i] >= Window
<1> DEFINE times == attempts[r][x]
           old == {i \in DOMAIN times : now - times[i] >= Window}
           S == {0} \cup old
           n == Max(S)
<1>1. times \in Seq(Nat) /\ now \in Nat /\ InOrder(times) /\ Window \in Nat
  BY ClaimApiAssumption DEF TrackerTypeOK
<1>2. Recent(r, x) = SubSeq(times, n + 1, Len(times))
  BY DEF Recent
<1> HIDE DEF times
<1>3. Len(times) \in Nat /\ DOMAIN times = 1..Len(times)
  BY <1>1
<1>4. (\A k \in S : k \in 0..Len(times)) /\ 0 \in S
  BY <1>3
<1>5. n \in S /\ \A k \in S : n >= k
  <2> HIDE DEF S
  <2> QED BY <1>3, <1>4, LastOf
<1>6. n \in 0..Len(times)
  BY <1>4, <1>5
<1>7. ASSUME NEW i \in 1..n PROVE now - times[i] >= Window
  <2>1. n \in old
    BY <1>5, <1>6
  <2>2. n \in DOMAIN times /\ now - times[n] >= Window
    BY <2>1
  <2>3. i \in DOMAIN times /\ i <= n
    BY <1>3, <1>6
  <2>4. times[i] <= times[n] /\ times[i] \in Nat /\ times[n] \in Nat
    <3> HIDE DEF n
    <3>1. times[i] <= times[n]
      BY <1>1, <2>2, <2>3 DEF InOrder
    <3> QED BY <1>1, <2>2, <2>3, <3>1
  <2> HIDE DEF n
  <2> QED BY <1>1, <2>2, <2>4
<1> HIDE DEF n
<1> DEFINE k == n + 1
<1>8. k = n + 1 /\ k \in Int /\ k \in 1..(Len(times) + 1)
  BY <1>3, <1>6
<1>9. Recent(r, x) = SubSeq(times, k, Len(times)) /\ times \in Seq(Nat)
  BY <1>1, <1>2
<1> HIDE DEF k
<1>10. /\ Recent(r, x) \in Seq(Nat)
       /\ Len(Recent(r, x)) = Len(times) + 1 - k
       /\ \A i \in 1..(Len(times) + 1 - k) : Recent(r, x)[i] = times[k + i - 1]
  BY <1>8, <1>9, EndOfList
<1>11. Len(Recent(r, x)) = Len(times) - n
  <2>1. Len(Recent(r, x)) = Len(times) + 1 - k
    BY <1>10
  <2>2. k = n + 1 /\ n \in Int /\ Len(times) \in Int
    BY <1>3, <1>6, <1>8
  <2> QED BY <2>1, <2>2
<1>12. ASSUME NEW i \in 1..Len(Recent(r, x)) PROVE Recent(r, x)[i] = times[i + n]
  <2>1. i \in 1..(Len(times) + 1 - k) /\ k + i - 1 = i + n
    BY <1>3, <1>6, <1>8, <1>11
  <2> QED BY <1>10, <2>1
<1> QED BY <1>6, <1>7, <1>10, <1>11, <1>12 DEF times

\* While a claim can be taken, its tracked attempts are in order, and trimming
\* them still leaves the tracker with the last of the compared PINs.
LEMMA TrimmedTracks ==
  ASSUME TrackerInv, NEW r \in Replicas, NEW x \in BfKeys, NotTaken(r, x[1])
  PROVE  /\ Recent(r, x) \in Seq(Nat)
         /\ \E gone \in 0..Len(guesses[r][x]) :
              /\ Len(guesses[r][x]) - Len(Recent(r, x)) = gone
              /\ \A i \in 1..Len(Recent(r, x)) : Recent(r, x)[i] = guesses[r][x][i + gone]
              /\ \A i \in 1..gone : now - guesses[r][x][i] >= Window
<1> DEFINE g == guesses[r][x]
           a == attempts[r][x]
           m == Len(g) - Len(a)
<1>1. TrackerTypeOK /\ g \in Seq(Nat) /\ a \in Seq(Nat) /\ InOrder(g) /\ TracksLast(r, x)
  BY DEF TrackerInv, TrackerTypeOK, TrackerSound
<1>2. /\ Len(g) \in Nat /\ Len(a) \in Nat
      /\ DOMAIN g = 1..Len(g) /\ DOMAIN a = 1..Len(a)
  BY <1>1
<1>3. /\ m >= 0
      /\ \A i \in DOMAIN a : a[i] = g[i + m]
      /\ \A i \in 1..m : now - g[i] >= Window
  BY <1>1 DEF TracksLast
<1>4. InOrder(a)
  <2> HIDE DEF g, a
  <2>1. \A i \in 1..Len(a) : i + m \in DOMAIN g
    BY <1>2, <1>3
  <2>2. \A i, j \in 1..Len(a) : i <= j => i + m <= j + m
    BY <1>2
  <2> HIDE DEF m
  <2> QED BY <1>1, <1>2, <1>3, <2>1, <2>2 DEF InOrder
<1>5. PICK n \in 0..Len(a) :
           /\ Recent(r, x) \in Seq(Nat)
           /\ Len(Recent(r, x)) = Len(a) - n
           /\ \A i \in 1..Len(Recent(r, x)) : Recent(r, x)[i] = a[i + n]
           /\ \A i \in 1..n : now - a[i] >= Window
  BY <1>1, <1>4, RecentFacts
<1> DEFINE gone == m + n
           new == Recent(r, x)
<1> HIDE DEF g, a, new
<1>6. gone \in 0..Len(g) /\ Len(g) - Len(new) = gone
  BY <1>2, <1>3, <1>5 DEF new
<1>7. ASSUME NEW i \in 1..Len(new) PROVE new[i] = g[i + gone]
  <2>1. i + n \in DOMAIN a /\ (i + n) + m = i + gone
    BY <1>2, <1>5 DEF new
  <2>2. new[i] = a[i + n]
    BY <1>5 DEF new
  <2>3. a[i + n] = g[(i + n) + m]
    BY <1>3, <2>1
  <2> QED BY <2>1, <2>2, <2>3
<1>8. ASSUME NEW i \in 1..gone PROVE now - g[i] >= Window
  <2>1. CASE i <= m
    BY <1>2, <1>3, <2>1
  <2>2. CASE i > m
    <3>1. i - m \in 1..n /\ i - m \in DOMAIN a /\ (i - m) + m = i
      BY <1>2, <1>5, <2>2
    <3>2. a[i - m] = g[i]
      BY <1>3, <3>1
    <3> QED BY <1>5, <3>1, <3>2
  <2> QED BY <1>2, <1>5, <2>1, <2>2
<1> QED BY <1>5, <1>6, <1>7, <1>8 DEF g, a, new

\* The times of one replica, claim and wallet are replaced.
LEMMA OneList ==
  ASSUME NEW f \in [Replicas -> [BfKeys -> Seq(Nat)]], NEW r \in Replicas,
         NEW y \in BfKeys, NEW v \in Seq(Nat)
  PROVE  /\ [f EXCEPT ![r][y] = v] \in [Replicas -> [BfKeys -> Seq(Nat)]]
         /\ [f EXCEPT ![r][y] = v][r][y] = v
         /\ \A q \in Replicas, x \in BfKeys :
              (q # r \/ x # y) => [f EXCEPT ![r][y] = v][q][x] = f[q][x]
<1> DEFINE row == [f[r] EXCEPT ![y] = v]
<1>1. row \in [BfKeys -> Seq(Nat)]
  OBVIOUS
<1>2. row[y] = v /\ \A x \in BfKeys : x # y => row[x] = f[r][x]
  OBVIOUS
<1>3. [f EXCEPT ![r][y] = v] = [f EXCEPT ![r] = row]
  OBVIOUS
<1> HIDE DEF row
<1> QED BY <1>1, <1>2, <1>3

\* Lists that do not change stay sound while the clock goes on.
LEMMA TrackerKept ==
  ASSUME TrackerInv, NEW r \in Replicas, NEW x \in BfKeys,
         now' \in Nat, now' >= now,
         guesses'[r][x] = guesses[r][x], attempts'[r][x] = attempts[r][x],
         NotTaken(r, x[1])' => NotTaken(r, x[1])
  PROVE  TrackerSound(r, x)'
<1> DEFINE g == guesses[r][x]
           gone == Len(g) - Len(attempts[r][x])
<1>1. now \in Nat /\ g \in Seq(Nat) /\ TrackerSound(r, x) /\ Window \in Nat
  BY ClaimApiAssumption DEF TrackerInv, TrackerTypeOK
<1>2. /\ \A i, j \in DOMAIN g : i <= j => g[i] <= g[j]
      /\ \A i \in DOMAIN g : g[i] <= now /\ g[i] \in Nat
  BY <1>1 DEF TrackerSound, InOrder
<1>3. \A i \in DOMAIN g : g[i] <= now'
  <2> HIDE DEF g
  <2> QED BY <1>1, <1>2
<1>4. InOrder(guesses[r][x])'
  BY <1>2, <1>3 DEF InOrder
<1>5. Rationed(guesses[r][x])'
  BY <1>1 DEF TrackerSound, Rationed
<1>6. ASSUME NotTaken(r, x[1])' PROVE TracksLast(r, x)'
  <2>1. TracksLast(r, x)
    BY <1>1, <1>6 DEF TrackerSound
  <2>2. Len(g) \in Nat /\ Len(attempts[r][x]) \in Nat /\ DOMAIN g = 1..Len(g)
    BY <1>1 DEF TrackerInv, TrackerTypeOK
  <2>3. gone >= 0 /\ \A i \in 1..gone : now - g[i] >= Window
    BY <2>1 DEF TracksLast
  <2>4. \A i \in 1..gone : i \in DOMAIN g
    BY <2>2
  <2>5. \A i \in 1..gone : now' - g[i] >= Window
    <3> HIDE DEF g, gone
    <3> QED BY <1>1, <1>2, <2>3, <2>4
  <2> QED BY <2>1, <2>3, <2>5 DEF TracksLast
<1> QED BY <1>4, <1>5, <1>6 DEF TrackerSound

\* One more PIN is compared only when the window has room for it.
LEMMA OneMorePin ==
  ASSUME TrackerInv, NEW r \in Replicas, NEW x \in BfKeys, NotTaken(r, x[1]),
         Len(Recent(r, x)) < MaxAttempts, now' = now,
         guesses'[r][x] = Append(guesses[r][x], now)
  PROVE  InOrder(guesses[r][x])' /\ Rationed(guesses[r][x])'
<1> DEFINE g == guesses[r][x]
           h == Append(g, now)
           l == Len(g)
<1>1. /\ now \in Nat /\ g \in Seq(Nat) /\ TrackerSound(r, x)
      /\ Window \in Nat /\ MaxAttempts \in Nat /\ MaxAttempts > 0
  BY ClaimApiAssumption DEF TrackerInv, TrackerTypeOK
<1>2. l \in Nat /\ DOMAIN g = 1..l /\ DOMAIN h = 1..(l + 1) /\ Len(h) = l + 1
  BY <1>1
<1>3. h[l + 1] = now /\ \A i \in 1..l : h[i] = g[i] /\ g[i] \in Nat
  <2>1. now \in Nat /\ g \in Seq(Nat)
    BY <1>1
  <2> HIDE DEF g
  <2> QED BY <2>1
<1>4. PICK gone \in 0..l :
        /\ l - Len(Recent(r, x)) = gone
        /\ \A i \in 1..gone : now - g[i] >= Window
  BY TrimmedTracks
<1>5. Len(Recent(r, x)) \in Nat
  BY TrimmedTracks
<1>6. /\ \A i, j \in 1..l : i <= j => g[i] <= g[j]
      /\ \A i \in 1..l : g[i] <= now
  BY <1>1, <1>2 DEF TrackerSound, InOrder
<1>7. \A i \in 1..(l - MaxAttempts) : g[i + MaxAttempts] - g[i] >= Window
  BY <1>1 DEF TrackerSound, Rationed
<1> DEFINE new == Len(Recent(r, x))
<1>8. new \in Nat /\ l - new = gone /\ new < MaxAttempts
  BY <1>4, <1>5
<1> HIDE DEF g, h, l, new
<1>9. ASSUME NEW i \in 1..(l + 1) PROVE h[i] <= now
  BY <1>1, <1>2, <1>3, <1>6
<1>10. ASSUME NEW i \in 1..(l + 1), NEW j \in 1..(l + 1), i <= j PROVE h[i] <= h[j]
  <2>1. CASE j = l + 1
    BY <1>3, <1>9, <2>1
  <2>2. CASE j # l + 1
    BY <1>2, <1>3, <1>6, <1>10, <2>2
  <2> QED BY <2>1, <2>2
<1>11. ASSUME NEW i \in 1..(l + 1 - MaxAttempts)
       PROVE  h[i + MaxAttempts] - h[i] >= Window
  <2>1. i \in 1..l /\ h[i] = g[i]
    BY <1>1, <1>2, <1>3
  <2>2. CASE i = l + 1 - MaxAttempts
    <3>1. i \in 1..gone
      BY <1>1, <1>2, <1>8, <2>1, <2>2
    <3>2. h[i + MaxAttempts] = now
      BY <1>1, <1>2, <1>3, <2>2
    <3> QED BY <1>4, <2>1, <3>1, <3>2
  <2>3. CASE i # l + 1 - MaxAttempts
    <3>1. i \in 1..(l - MaxAttempts) /\ i + MaxAttempts \in 1..l
      BY <1>1, <1>2, <2>3
    <3> QED BY <1>3, <1>7, <2>1, <3>1
  <2> QED BY <2>2, <2>3
<1>12. guesses'[r][x] = h
  BY DEF h, g
<1>13. InOrder(guesses[r][x])'
  BY <1>2, <1>9, <1>10, <1>12 DEF InOrder
<1>14. Rationed(guesses[r][x])'
  <2>1. Len(guesses'[r][x]) - MaxAttempts = l + 1 - MaxAttempts
    <3>1. Len(h) = l + 1
      BY <1>2
    <3>2. Len(guesses'[r][x]) = l + 1
      BY <1>12, <3>1, Zenon
    <3> QED BY <1>1, <1>2, <3>2
  <2> SUFFICES ASSUME NEW i \in 1..(Len(guesses'[r][x]) - MaxAttempts)
      PROVE  guesses'[r][x][i + MaxAttempts] - guesses'[r][x][i] >= Window
    BY DEF Rationed
  <2> QED BY <1>11, <1>12, <2>1
<1> QED BY <1>13, <1>14

\* A replica that compared no PIN yet has nothing to remember.
LEMMA EmptyTracker ==
  ASSUME NEW r \in Replicas, NEW x \in BfKeys,
         guesses[r][x] = <<>>, attempts[r][x] = <<>>
  PROVE  TrackerSound(r, x)
<1>1. InOrder(guesses[r][x])
  BY DEF InOrder
<1>2. Rationed(guesses[r][x])
  <2>1. Len(guesses[r][x]) = 0 /\ MaxAttempts \in Nat /\ MaxAttempts > 0
    BY ClaimApiAssumption
  <2>2. 1..(0 - MaxAttempts) = {}
    BY <2>1
  <2> QED BY <2>1, <2>2 DEF Rationed
<1>3. TracksLast(r, x)
  <2>1. Len(guesses[r][x]) - Len(attempts[r][x]) = 0 /\ DOMAIN attempts[r][x] = {}
    OBVIOUS
  <2> QED BY <2>1 DEF TracksLast
<1> QED BY <1>1, <1>2, <1>3 DEF TrackerSound

\* The same after a restart.
LEMMA EmptyTrackerNext ==
  ASSUME NEW r \in Replicas, NEW x \in BfKeys,
         guesses'[r][x] = <<>>, attempts'[r][x] = <<>>
  PROVE  TrackerSound(r, x)'
<1>1. InOrder(guesses[r][x])'
  BY DEF InOrder
<1>2. Rationed(guesses[r][x])'
  <2>1. Len(guesses'[r][x]) = 0 /\ MaxAttempts \in Nat /\ MaxAttempts > 0
    BY ClaimApiAssumption
  <2>2. 1..(0 - MaxAttempts) = {}
    BY <2>1
  <2> QED BY <2>1, <2>2 DEF Rationed
<1>3. TracksLast(r, x)'
  <2>1. Len(guesses'[r][x]) - Len(attempts'[r][x]) = 0 /\ DOMAIN attempts'[r][x] = {}
    OBVIOUS
  <2> QED BY <2>1 DEF TracksLast
<1> QED BY <1>1, <1>2, <1>3 DEF TrackerSound

\* The lists of new replicas are sound.
LEMMA TrackerInit == Init => TrackerInv
<1> SUFFICES ASSUME Init PROVE TrackerInv
  OBVIOUS
<1>1. <<>> \in Seq(Nat) /\ Len(<<>>) = 0 /\ DOMAIN <<>> = {}
  OBVIOUS
<1>2. TrackerTypeOK
  BY <1>1 DEF Init, TrackerTypeOK, NoTimes
<1>3. ASSUME NEW r \in Replicas, NEW x \in BfKeys PROVE TrackerSound(r, x)
  <2>1. guesses[r][x] = <<>> /\ attempts[r][x] = <<>>
    BY DEF Init, NoTimes
  <2> QED BY <2>1, EmptyTracker
<1> QED BY <1>2, <1>3 DEF TrackerInv

\* A try that is refused only trims the tracker.
LEMMA RefusedSound ==
  ASSUME TrackerInv, NEW r \in Replicas, NEW x \in BfKeys, NotTaken(r, x[1]),
         now' = now, guesses'[r][x] = guesses[r][x], attempts'[r][x] = Recent(r, x)
  PROVE  TrackerSound(r, x)'
<1> DEFINE g == guesses[r][x]
           new == Recent(r, x)
<1>1. PICK gone \in 0..Len(g) :
        /\ Len(g) - Len(new) = gone
        /\ \A i \in 1..Len(new) : new[i] = g[i + gone]
        /\ \A i \in 1..gone : now - g[i] >= Window
  BY TrimmedTracks
<1>2. DOMAIN new = 1..Len(new)
  BY TrimmedTracks
<1>3. gone >= 0
  OBVIOUS
<1> HIDE DEF g, new
<1>4. TracksLast(r, x)'
  BY <1>1, <1>2, <1>3 DEF TracksLast, g, new
<1>5. InOrder(guesses[r][x])' /\ Rationed(guesses[r][x])'
  BY DEF TrackerInv, TrackerSound, InOrder, Rationed
<1> QED BY <1>4, <1>5 DEF TrackerSound

\* A wrong PIN is both compared and tracked.
LEMMA WrongSound ==
  ASSUME TrackerInv, NEW r \in Replicas, NEW x \in BfKeys, NotTaken(r, x[1]),
         Len(Recent(r, x)) < MaxAttempts, now' = now,
         guesses'[r][x] = Append(guesses[r][x], now),
         attempts'[r][x] = Append(Recent(r, x), now)
  PROVE  TrackerSound(r, x)'
<1> DEFINE g == guesses[r][x]
           new == Recent(r, x)
           h == Append(g, now)
           a == Append(new, now)
<1>1. PICK gone \in 0..Len(g) :
        /\ Len(g) - Len(new) = gone
        /\ \A i \in 1..Len(new) : new[i] = g[i + gone]
        /\ \A i \in 1..gone : now - g[i] >= Window
  BY TrimmedTracks
<1>2. new \in Seq(Nat) /\ g \in Seq(Nat) /\ now \in Nat
  BY TrimmedTracks DEF TrackerInv, TrackerTypeOK
<1> HIDE DEF g, new
<1>3. /\ Len(new) \in Nat /\ Len(g) \in Nat
      /\ Len(h) = Len(g) + 1 /\ Len(a) = Len(new) + 1 /\ DOMAIN a = 1..(Len(new) + 1)
  BY <1>2
<1>4. /\ h[Len(g) + 1] = now /\ a[Len(new) + 1] = now
      /\ \A i \in 1..Len(g) : h[i] = g[i]
      /\ \A i \in 1..Len(new) : a[i] = new[i]
  BY <1>2
<1> HIDE DEF h, a
<1>5. Len(h) - Len(a) = gone /\ gone >= 0
  BY <1>1, <1>3
<1>6. ASSUME NEW i \in DOMAIN a PROVE a[i] = h[i + gone]
  <2>1. CASE i = Len(new) + 1
    <3>1. i + gone = Len(g) + 1
      <4>1. Len(g) - Len(new) = gone
        BY <1>1
      <4>2. Len(g) \in Int /\ Len(new) \in Int
        BY <1>3
      <4> QED BY <2>1, <4>1, <4>2
    <3> QED BY <1>4, <2>1, <3>1
  <2>2. CASE i # Len(new) + 1
    <3>1. i \in 1..Len(new) /\ i + gone \in 1..Len(g)
      BY <1>1, <1>3, <2>2
    <3> QED BY <1>1, <1>4, <3>1
  <2> QED BY <2>1, <2>2
<1>7. ASSUME NEW i \in 1..gone PROVE now - h[i] >= Window
  <2>1. i \in 1..Len(g)
    BY <1>3
  <2> QED BY <1>1, <1>4, <2>1
<1>8. guesses'[r][x] = h /\ attempts'[r][x] = a
  BY DEF h, a, g, new
<1>9. TracksLast(r, x)'
  BY <1>5, <1>6, <1>7, <1>8 DEF TracksLast
<1>10. InOrder(guesses[r][x])' /\ Rationed(guesses[r][x])'
  BY OneMorePin
<1> QED BY <1>9, <1>10 DEF TrackerSound

\* The PIN that takes the claim is the last one compared.
LEMMA TakenSound ==
  ASSUME TrackerInv, NEW r \in Replicas, NEW x \in BfKeys, NotTaken(r, x[1]),
         Len(Recent(r, x)) < MaxAttempts, now' = now,
         guesses'[r][x] = Append(guesses[r][x], now),
         ~NotTaken(r, x[1])'
  PROVE  TrackerSound(r, x)'
BY OneMorePin DEF TrackerSound

\* The claim and the stripped wallet make a key of the tracker.
LEMMA BfKeyFacts ==
  ASSUME NEW c \in ClaimIds, NEW w \in Wallets
  PROVE  BfKey(c, w) \in BfKeys /\ BfKey(c, w)[1] = c
<1>1. Strip[w] \in Wallets
  BY ClaimApiAssumption
<1> QED BY <1>1 DEF BfKey, BfKeys

\* Consuming a claim takes that claim and no other.
LEMMA ConsumeTakes ==
  ASSUME StoreTypeOK, NEW r \in Replicas, NEW c \in DOMAIN claims[r],
         NEW w \in Wallets, Consume(r, c, w)
  PROVE  /\ \A q \in Replicas : DOMAIN claims'[q] = DOMAIN claims[q]
         /\ \A q \in Replicas : q # r => claims'[q] = claims[q]
         /\ \A d \in DOMAIN claims[r] : d # c => claims'[r][d] = claims[r][d]
         /\ claims'[r][c].claimed = TRUE
<1>1. claims[r][c] \in Claim
  BY DEF StoreTypeOK
<1> DEFINE new == [claims[r][c] EXCEPT !.claimed = TRUE, !.claimant_wallet = w]
<1>2. claims' = [claims EXCEPT ![r] = [claims[r] EXCEPT ![c] = new]]
  BY DEF Consume, StoreTypeOK
<1>3. new.claimed = TRUE
  BY <1>1 DEF Claim
<1> HIDE DEF new
<1> QED BY <1>2, <1>3 DEF StoreTypeOK

\* Every step of a replica and of the clock keeps the lists sound: a new claim
\* is open, a taken one stays taken while the replica lives.
LEMMA TrackerStep ==
  ASSUME StoreTypeOK, TrackerInv, [Next]_vars PROVE TrackerInv'
<1>1. /\ now \in Nat
      /\ attempts \in [Replicas -> [BfKeys -> Seq(Nat)]]
      /\ guesses \in [Replicas -> [BfKeys -> Seq(Nat)]]
  BY DEF TrackerInv, TrackerTypeOK
<1>2. ASSUME now' \in Nat, now' >= now, UNCHANGED <<attempts, guesses>>,
             \A r \in Replicas, c \in ClaimIds : NotTaken(r, c)' => NotTaken(r, c)
      PROVE  TrackerInv'
  <2>1. TrackerTypeOK'
    BY <1>1, <1>2 DEF TrackerTypeOK
  <2>2. ASSUME NEW r \in Replicas, NEW x \in BfKeys PROVE TrackerSound(r, x)'
    <3>1. x[1] \in ClaimIds
      BY DEF BfKeys
    <3> QED BY <1>2, <3>1, TrackerKept
  <2> QED BY <2>1, <2>2 DEF TrackerInv
<1>3. ASSUME UNCHANGED claims
      PROVE  \A r \in Replicas, c \in ClaimIds : NotTaken(r, c)' => NotTaken(r, c)
  BY <1>3 DEF NotTaken
<1>4. CASE UNCHANGED vars
  <2>1. now' \in Nat /\ now' >= now /\ UNCHANGED <<claims, attempts, guesses>>
    BY <1>1, <1>4 DEF vars
  <2> QED BY <1>2, <1>3, <2>1
<1>5. CASE Tick
  <2>1. now' \in Nat /\ now' >= now /\ UNCHANGED <<claims, attempts, guesses>>
    BY <1>1, <1>5 DEF Tick
  <2> QED BY <1>2, <1>3, <2>1
<1>6. ASSUME NEW r \in Replicas, NEW w \in Wallets, AcceptRisk(r, w) PROVE TrackerInv'
  <2>1. now' \in Nat /\ now' >= now /\ UNCHANGED <<claims, attempts, guesses>>
    BY <1>1, <1>6 DEF AcceptRisk
  <2> QED BY <1>2, <1>3, <2>1
<1>7. ASSUME NEW r \in Replicas, NEW w \in Wallets, NEW k \in Keys \cup {NoKey},
             NEW m \in Minutes, CreateClaim(r, w, k, m)
      PROVE  TrackerInv'
  <2>1. now' \in Nat /\ now' >= now /\ UNCHANGED <<attempts, guesses>>
    BY <1>1, <1>7 DEF CreateClaim
  <2>2. PICK c \in ClaimIds \ DOMAIN issued :
           /\ \A q \in Replicas : q # r => claims'[q] = claims[q]
           /\ DOMAIN claims'[r] = DOMAIN claims[r] \cup {c}
           /\ \A d \in DOMAIN claims[r] : claims'[r][d] = claims[r][d]
    BY <1>7, CreateFacts
  <2>3. \A q \in Replicas, d \in ClaimIds : NotTaken(q, d)' => NotTaken(q, d)
    BY <2>2 DEF NotTaken
  <2> QED BY <1>2, <2>1, <2>3
<1>8. ASSUME NEW r \in Replicas, Restart(r) PROVE TrackerInv'
  <2>1. NoTimes \in [BfKeys -> Seq(Nat)] /\ \A x \in BfKeys : NoTimes[x] = <<>>
    BY DEF NoTimes
  <2>2. TrackerTypeOK'
    BY <1>1, <1>8, <2>1 DEF Restart, TrackerTypeOK
  <2>3. ASSUME NEW q \in Replicas, NEW x \in BfKeys PROVE TrackerSound(q, x)'
    <3>1. CASE q = r
      <4>1. guesses'[q][x] = <<>> /\ attempts'[q][x] = <<>>
        BY <1>1, <1>8, <2>1, <3>1 DEF Restart
      <4> QED BY <4>1, EmptyTrackerNext
    <3>2. CASE q # r
      <4>1. guesses'[q] = guesses[q] /\ attempts'[q] = attempts[q] /\ claims'[q] = claims[q]
        BY <1>1, <1>8, <3>2 DEF Restart, StoreTypeOK
      <4>2. now' \in Nat /\ now' >= now
        BY <1>1, <1>8 DEF Restart
      <4>3. NotTaken(q, x[1])' => NotTaken(q, x[1])
        BY <4>1 DEF NotTaken
      <4> QED BY <4>1, <4>2, <4>3, TrackerKept
    <3> QED BY <3>1, <3>2
  <2> QED BY <2>2, <2>3 DEF TrackerInv
<1>9. ASSUME NEW r \in Replicas, NEW w \in Wallets, NEW c \in ClaimIds,
             TooManyAttempts(r, c, w)
      PROVE  TrackerInv'
  <2> DEFINE y == BfKey(c, w)
  <2>1. y \in BfKeys /\ y[1] = c
    BY BfKeyFacts
  <2>2. NotTaken(r, y[1])
    BY <1>9, <2>1 DEF TooManyAttempts, Open, NotTaken
  <2> HIDE DEF y
  <2>3. Recent(r, y) \in Seq(Nat)
    BY <2>1, <2>2, TrimmedTracks
  <2>4. /\ attempts' = [attempts EXCEPT ![r][y] = Recent(r, y)]
        /\ UNCHANGED <<now, claims, guesses>>
    BY <1>9 DEF TooManyAttempts, y
  <2>5. /\ attempts' \in [Replicas -> [BfKeys -> Seq(Nat)]]
        /\ attempts'[r][y] = Recent(r, y)
        /\ \A q \in Replicas, x \in BfKeys :
             (q # r \/ x # y) => attempts'[q][x] = attempts[q][x]
    BY <1>1, <2>1, <2>3, <2>4, OneList
  <2>6. TrackerTypeOK'
    BY <1>1, <2>4, <2>5 DEF TrackerTypeOK
  <2>7. ASSUME NEW q \in Replicas, NEW x \in BfKeys PROVE TrackerSound(q, x)'
    <3>1. CASE q = r /\ x = y
      BY <2>1, <2>2, <2>4, <2>5, <3>1, RefusedSound
    <3>2. CASE ~(q = r /\ x = y)
      <4>1. NotTaken(q, x[1])' => NotTaken(q, x[1])
        BY <2>4 DEF NotTaken
      <4>2. now' \in Nat /\ now' >= now
        BY <1>1, <2>4
      <4> QED BY <2>4, <2>5, <3>2, <4>1, <4>2, TrackerKept
    <3> QED BY <3>1, <3>2
  <2> QED BY <2>6, <2>7 DEF TrackerInv
<1>10. ASSUME NEW r \in Replicas, NEW w \in Wallets, NEW c \in ClaimIds,
             NEW pin \in Pins, ValidateClaim(r, c, w, pin)
      PROVE  TrackerInv'
  <2> DEFINE y == BfKey(c, w)
  <2>1. y \in BfKeys /\ y[1] = c
    BY BfKeyFacts
  <2>2. NotTaken(r, y[1]) /\ c \in DOMAIN claims[r]
    BY <1>10, <2>1 DEF ValidateClaim, Open, NotTaken
  <2> HIDE DEF y
  <2>3. Recent(r, y) \in Seq(Nat)
    BY <2>1, <2>2, TrimmedTracks
  <2>4. /\ guesses' = [guesses EXCEPT ![r][y] = Append(guesses[r][y], now)]
        /\ UNCHANGED now
        /\ Len(Recent(r, y)) < MaxAttempts
        /\ Consume(r, c, w) \/ WrongPin(r, c, w)
    BY <1>1, <1>10, <2>1 DEF ValidateClaim, y
  <2>5. Append(guesses[r][y], now) \in Seq(Nat) /\ Append(Recent(r, y), now) \in Seq(Nat)
    BY <1>1, <2>1, <2>3
  <2>6. /\ guesses' \in [Replicas -> [BfKeys -> Seq(Nat)]]
        /\ guesses'[r][y] = Append(guesses[r][y], now)
        /\ \A q \in Replicas, x \in BfKeys :
             (q # r \/ x # y) => guesses'[q][x] = guesses[q][x]
    BY <1>1, <2>1, <2>4, <2>5, OneList
  <2>7. CASE Consume(r, c, w)
    <3>1. attempts' = [attempts EXCEPT ![r][y] = Recent(r, y)]
      BY <2>7 DEF Consume, y
    <3>2. /\ attempts' \in [Replicas -> [BfKeys -> Seq(Nat)]]
          /\ \A q \in Replicas, x \in BfKeys :
               (q # r \/ x # y) => attempts'[q][x] = attempts[q][x]
      BY <1>1, <2>1, <2>3, <3>1, OneList
    <3>3. /\ \A q \in Replicas : DOMAIN claims'[q] = DOMAIN claims[q]
          /\ \A q \in Replicas : q # r => claims'[q] = claims[q]
          /\ \A d \in DOMAIN claims[r] : d # c => claims'[r][d] = claims[r][d]
          /\ claims'[r][c].claimed = TRUE
      <4>1. c \in DOMAIN claims[r]
        BY <2>2
      <4> QED BY <2>7, <4>1, ConsumeTakes
    <3>4. claims'[r][c].claimed = TRUE
      BY <3>3
    <3>5. ~NotTaken(r, y[1])'
      BY <2>1, <2>2, <3>3, <3>4 DEF NotTaken
    <3>6. TrackerTypeOK'
      BY <1>1, <2>4, <2>6, <3>2 DEF TrackerTypeOK
    <3>7. ASSUME NEW q \in Replicas, NEW x \in BfKeys PROVE TrackerSound(q, x)'
      <4>1. CASE q = r /\ x = y
        BY <2>1, <2>2, <2>4, <2>6, <3>5, <4>1, TakenSound
      <4>2. CASE ~(q = r /\ x = y)
        <5>1. NotTaken(q, x[1])' => NotTaken(q, x[1])
          BY <2>1, <3>3, <3>4 DEF NotTaken
        <5>2. now' \in Nat /\ now' >= now
          BY <1>1, <2>4
        <5> QED BY <2>6, <3>2, <4>2, <5>1, <5>2, TrackerKept
      <4> QED BY <4>1, <4>2
    <3> QED BY <3>6, <3>7 DEF TrackerInv
  <2>8. CASE WrongPin(r, c, w)
    <3>1. /\ attempts' = [attempts EXCEPT ![r][y] = Append(Recent(r, y), now)]
          /\ UNCHANGED claims
      BY <2>8 DEF WrongPin, y
    <3>2. /\ attempts' \in [Replicas -> [BfKeys -> Seq(Nat)]]
          /\ attempts'[r][y] = Append(Recent(r, y), now)
          /\ \A q \in Replicas, x \in BfKeys :
               (q # r \/ x # y) => attempts'[q][x] = attempts[q][x]
      BY <1>1, <2>1, <2>5, <3>1, OneList
    <3>3. TrackerTypeOK'
      BY <1>1, <2>4, <2>6, <3>2 DEF TrackerTypeOK
    <3>4. ASSUME NEW q \in Replicas, NEW x \in BfKeys PROVE TrackerSound(q, x)'
      <4>1. CASE q = r /\ x = y
        BY <2>1, <2>2, <2>4, <2>6, <3>2, <4>1, WrongSound
      <4>2. CASE ~(q = r /\ x = y)
        <5>1. NotTaken(q, x[1])' => NotTaken(q, x[1])
          BY <3>1 DEF NotTaken
        <5>2. now' \in Nat /\ now' >= now
          BY <1>1, <2>4
        <5> QED BY <2>6, <3>2, <4>2, <5>1, <5>2, TrackerKept
      <4> QED BY <4>1, <4>2
    <3> QED BY <3>3, <3>4 DEF TrackerInv
  <2> QED BY <2>4, <2>7, <2>8
<1> QED
  BY <1>4, <1>5, <1>6, <1>7, <1>8, <1>9, <1>10 DEF Next

\* Whatever the spacing of the tries, the order of the calls and the restarts,
\* no replica compares more than MaxAttempts PINs for one claim and wallet in
\* one window.
THEOREM PinsRationed == Spec => []GuessesBounded
<1>1. Init => StoreInv /\ TrackerInv
  BY InitInv, TrackerInit
<1>2. StoreInv /\ TrackerInv /\ [Next]_vars => (StoreInv /\ TrackerInv)'
  BY StoreInvStep, TrackerStep DEF StoreInv
<1>3. TrackerInv => GuessesBounded
  BY DEF TrackerInv, TrackerSound, Rationed, GuessesBounded
<1> QED
  BY <1>1, <1>2, <1>3, PTL DEF Spec

\* Every store of every replica is well typed: ids, keys, events and times.
THEOREM StoresTyped == Spec => []TypeOK
<1>1. Init => StoreInv /\ TrackerInv
  BY InitInv, TrackerInit
<1>2. StoreInv /\ TrackerInv /\ [Next]_vars => (StoreInv /\ TrackerInv)'
  BY StoreInvStep, TrackerStep DEF StoreInv
<1>3. StoreInv /\ TrackerInv => TypeOK
  BY DEF StoreInv, TrackerInv, TrackerTypeOK, TypeOK
<1> QED
  BY <1>1, <1>2, <1>3, PTL DEF Spec

=============================================================================
