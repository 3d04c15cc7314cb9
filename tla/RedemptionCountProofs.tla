------------------------ MODULE RedemptionCountProofs -----------------------
(***************************************************************************)
(* Theorems about the redemption flow whose arguments add up or count: the *)
(* value of claims, the batches of a request, the operators of an          *)
(* approval, the receipts of a window. The invariant, TypeInv, is the type *)
(* correctness of the three services with these counts; FlowInv of         *)
(* RedemptionProofs, where the claims and requests of receipts are         *)
(* followed, is needed for ApprovalsCounted alone.                         *)
(***************************************************************************)
EXTENDS RedemptionProofs, SumLemmas

-----------------------------------------------------------------------------
(***************************************************************************)
(* The value of the claims.                                                *)
(***************************************************************************)

\* The claims of an asset.
Held(a) == {c \in DOMAIN claims : claims[c].asset = a}

\* The denominations, as a function to sum over.
Worth(f) == [c \in DOMAIN f |-> f[c].denomination]

\* Value is a sum over the claims.
LEMMA ValueIsSum ==
  ASSUME NEW f, NEW ids \in SUBSET DOMAIN f, IsFiniteSet(ids)
  PROVE  Value(f, ids) = SumFunctionOnSet(Worth(f), ids)
  <1> DEFINE g == [c \in ids |-> f[c].denomination]
  <1>1. \A c \in ids : g[c] = Worth(f)[c]
    BY DEF Worth
  <1>2. Value(f, ids) = SumFunctionOnSet(g, ids)
    BY DEF Value, SumFunction
  <1> HIDE DEF g
  <1> QED BY <1>1, <1>2, SumOfSame

\* Claims on record are finitely many, and any of them have an integer value.
LEMMA ClaimsFinite ==
  ASSUME ClaimTypeOK
  PROVE  /\ IsFiniteSet(DOMAIN claims)
         /\ \A ids \in SUBSET DOMAIN claims :
              IsFiniteSet(ids) /\ Value(claims, ids) = SumFunctionOnSet(Worth(claims), ids)
                /\ Value(claims, ids) \in Int
         /\ \A c \in DOMAIN claims : Worth(claims)[c] = claims[c].denomination /\
              Worth(claims)[c] \in Int
         /\ \A a \in Assets : Held(a) \in SUBSET DOMAIN claims
  <1>1. IsFiniteSet(DOMAIN claims)
    BY ClaimAssumption, FS_Subset DEF ClaimTypeOK
  <1>2. \A c \in DOMAIN claims : Worth(claims)[c] = claims[c].denomination /\
          Worth(claims)[c] \in Int
    BY DEF ClaimTypeOK, Claim, Worth
  <1>3. ASSUME NEW ids \in SUBSET DOMAIN claims
        PROVE  IsFiniteSet(ids) /\ Value(claims, ids) = SumFunctionOnSet(Worth(claims), ids)
                 /\ Value(claims, ids) \in Int
    <2>1. IsFiniteSet(ids)
      BY <1>1, FS_Subset
    <2>2. Value(claims, ids) = SumFunctionOnSet(Worth(claims), ids)
      BY <2>1, ValueIsSum
    <2> QED BY <1>2, <2>1, <2>2, SumIsInt
  <1> QED BY <1>1, <1>2, <1>3 DEF Held

\* Replacing claims by typed ones under fresh ids keeps the types.
LEMMA ReplacedTyped ==
  ASSUME ClaimTypeOK, NEW gone \in SUBSET DOMAIN claims, NEW new,
         DOMAIN new \subseteq FreshIds, \A c \in DOMAIN new : new[c] \in Claim,
         claims' = Replaced(gone, new), deleted' = deleted \cup gone,
         now' \in Nat, retired' = retired,
         issued' \in [Assets -> Int], lost' \in [Assets -> Int]
  PROVE  ClaimTypeOK'
  <1>1. DOMAIN claims' = (DOMAIN claims \ gone) \cup DOMAIN new
    BY DEF Replaced
  <1>2. \A c \in DOMAIN new : claims'[c] = new[c]
    BY DEF Replaced
  <1>3. \A c \in DOMAIN claims \ gone : c \notin DOMAIN new => claims'[c] = claims[c]
    BY DEF Replaced
  <1>4. \A c \in DOMAIN claims' : claims'[c] \in Claim
    BY <1>1, <1>2, <1>3 DEF ClaimTypeOK
  <1> QED BY <1>1, <1>4 DEF ClaimTypeOK, FreshIds

\* Replacing claims of one asset by others of it changes what that asset holds
\* by the difference of their values, and no other asset.
LEMMA ReplacedValue ==
  ASSUME ClaimTypeOK, NEW x \in Assets, NEW gone \in SUBSET Held(x), NEW new,
         IsFiniteSet(DOMAIN new), DOMAIN new \cap DOMAIN claims = {},
         \A c \in DOMAIN new : new[c].asset = x /\ new[c].denomination \in Int,
         claims' = Replaced(gone, new), NEW a \in Assets
  PROVE  /\ Value(claims, Held(a))' = Value(claims, Held(a))
                + IF a = x THEN Value(new, DOMAIN new) - Value(claims, gone) ELSE 0
         /\ Value(claims, Held(a)) \in Int
         /\ Value(new, DOMAIN new) \in Int /\ Value(claims, gone) \in Int
  <1> DEFINE N == DOMAIN new
             K == Held(a) \ gone
  <1>1. /\ DOMAIN claims' = (DOMAIN claims \ gone) \cup N
        /\ \A c \in N : claims'[c] = new[c]
        /\ \A c \in DOMAIN claims \ gone : claims'[c] = claims[c]
    BY DEF Replaced
  <1>2. /\ IsFiniteSet(DOMAIN claims)
        /\ Held(a) \in SUBSET DOMAIN claims /\ gone \in SUBSET DOMAIN claims
        /\ K \in SUBSET DOMAIN claims
        /\ \A c \in DOMAIN claims : Worth(claims)[c] \in Int
    BY ClaimsFinite DEF Held
  <1>3. /\ Value(claims, Held(a)) = SumFunctionOnSet(Worth(claims), Held(a))
        /\ Value(claims, Held(a)) \in Int
        /\ Value(claims, gone) = SumFunctionOnSet(Worth(claims), gone)
        /\ Value(claims, gone) \in Int
        /\ IsFiniteSet(K) /\ IsFiniteSet(gone) /\ IsFiniteSet(Held(a))
    BY <1>2, ClaimsFinite
  <1>4. Value(new, N) = SumFunctionOnSet(Worth(new), N) /\ Value(new, N) \in Int
    <2>1. \A c \in N : Worth(new)[c] \in Int
      BY DEF Worth
    <2>2. N \in SUBSET DOMAIN new
      OBVIOUS
    <2> QED BY <2>1, <2>2, ValueIsSum, SumIsInt
  <1>5. Held(a)' = K \cup (IF a = x THEN N ELSE {})
    BY <1>1 DEF Held
  <1>6. /\ \A c \in K : Worth(claims')[c] = Worth(claims)[c]
        /\ \A c \in N : Worth(claims')[c] = Worth(new)[c] /\ Worth(new)[c] \in Int
    BY <1>1, <1>2 DEF Worth
  <1>7. K \cap N = {}
    BY <1>2
  <1>8. Value(claims, Held(a))' = SumFunctionOnSet(Worth(claims'), Held(a)')
    <2>1. Held(a)' \in SUBSET DOMAIN claims'
      BY DEF Held
    <2>2. IsFiniteSet(Held(a)')
      <3>1. IsFiniteSet(K \cup N)
        <4> HIDE DEF K, N
        <4>1. IsFiniteSet(N)
          BY DEF N
        <4> QED BY <1>3, <4>1, FS_Union
      <3>2. Held(a)' = K \cup N \/ Held(a)' = K
        BY <1>5
      <3> QED BY <1>3, <3>1, <3>2
    <2>3. Value(claims, Held(a))' = Value(claims', Held(a)')
      OBVIOUS
    <2> QED BY <2>1, <2>2, <2>3, ValueIsSum
  <1> HIDE DEF K, N
  <1>9. SumFunctionOnSet(Worth(claims'), K) = SumFunctionOnSet(Worth(claims), K)
    BY <1>3, <1>6, SumOfSame
  <1>10. SumFunctionOnSet(Worth(claims), K) \in Int
    BY <1>2, <1>3, SumIsInt
  <1>11. CASE a = x
    <2>1. Held(a)' = K \cup N
      BY <1>5, <1>11
    <2>2. SumFunctionOnSet(Worth(claims'), N) = SumFunctionOnSet(Worth(new), N)
      BY <1>6, SumOfSame DEF N
    <2>3. SumFunctionOnSet(Worth(claims'), K \cup N) =
            SumFunctionOnSet(Worth(claims'), K) + SumFunctionOnSet(Worth(claims'), N)
      <3>1. \A c \in K \cup N : Worth(claims')[c] \in Int
        BY <1>2, <1>6
      <3>2. IsFiniteSet(N)
        BY DEF N
      <3> QED BY <1>3, <1>7, <3>1, <3>2, SumOfUnion
    <2>4. SumFunctionOnSet(Worth(claims), Held(a)) =
            SumFunctionOnSet(Worth(claims), K) + SumFunctionOnSet(Worth(claims), gone)
      <3>1. K \cup gone = Held(a) /\ K \cap gone = {}
        BY <1>11 DEF K
      <3>2. SumFunctionOnSet(Worth(claims), K \cup gone) =
              SumFunctionOnSet(Worth(claims), K) + SumFunctionOnSet(Worth(claims), gone)
        BY <1>2, <1>3, <3>1, SumOfUnion
      <3> QED BY <3>1, <3>2
    <2>5. Value(claims, Held(a))' = SumFunctionOnSet(Worth(claims), K) + Value(new, DOMAIN new)
      BY <1>4, <1>8, <1>9, <2>1, <2>2, <2>3 DEF N
    <2>6. Value(claims, Held(a)) = SumFunctionOnSet(Worth(claims), K) + Value(claims, gone)
      BY <1>3, <2>4
    <2>7. Value(new, DOMAIN new) \in Int
      BY <1>4 DEF N
    <2> QED BY <1>3, <1>10, <1>11, <2>5, <2>6, <2>7
  <1>12. CASE a # x
    <2>1. K = Held(a) /\ Held(a)' = K
      BY <1>5, <1>12 DEF K, Held
    <2>2. Value(claims, Held(a))' = Value(claims, Held(a))
      BY <1>3, <1>8, <1>9, <2>1
    <2>3. Value(new, DOMAIN new) \in Int
      BY <1>4 DEF N
    <2> QED BY <1>3, <1>12, <2>2, <2>3
  <1> QED BY <1>11, <1>12

\* Rewriting owners and states changes no value.
LEMMA RewrittenValue ==
  ASSUME ClaimTypeOK, DOMAIN claims' = DOMAIN claims,
         \A c \in DOMAIN claims :
           /\ claims'[c].asset = claims[c].asset
           /\ claims'[c].denomination = claims[c].denomination,
         NEW a \in Assets
  PROVE  Value(claims, Held(a))' = Value(claims, Held(a))
  <1>1. Held(a)' = Held(a) /\ Held(a) \in SUBSET DOMAIN claims'
    BY DEF Held
  <1>2. IsFiniteSet(Held(a)) /\ Value(claims, Held(a)) = SumFunctionOnSet(Worth(claims), Held(a))
    BY ClaimsFinite
  <1>3. Value(claims', Held(a)) = SumFunctionOnSet(Worth(claims'), Held(a))
    BY <1>1, <1>2, ValueIsSum
  <1>4. \A c \in Held(a) : Worth(claims')[c] = Worth(claims)[c]
    BY DEF Held, Worth
  <1>5. Value(claims, Held(a))' = Value(claims', Held(a))
    BY <1>1
  <1> HIDE DEF Held
  <1> QED BY <1>2, <1>3, <1>4, <1>5, SumOfSame

\* create_claim makes a claim of the asset and the value asked for.
LEMMA NewClaimTyped ==
  ASSUME NEW i \in Users \cup {System}, NEW a \in Assets, NEW d \in Int, NEW o \in Users,
         NEW m \in Nat \cup {None}, now \in Nat
  PROVE  /\ NewClaim(i, a, d, o, m) \in Claim
         /\ NewClaim(i, a, d, o, m).asset = a /\ NewClaim(i, a, d, o, m).denomination = d
  <1>1. m \notin {None, 0} => now + m * Minute \in Nat
    BY ClaimAssumption
  <1>2. (IF m \in {None, 0} THEN None ELSE now + m * Minute) \in Nat \cup {None}
    BY <1>1
  <1> QED BY <1>2 DEF NewClaim, Claim, ClaimStates

\* The loop of merge_claims deletes claims of the first one's asset only.
LEMMA MergedOfOneAsset ==
  ASSUME NEW ids \in ClaimLists
  PROVE  /\ MergedIds(ids) \in SUBSET Held(claims[ids[1]].asset)
         /\ MergedIds(ids) # {} => ids[1] \in DOMAIN claims
  <1>1. PICK n \in 1..MaxMerge : ids \in [1..n -> ClaimIds]
    BY DEF ClaimLists
  <1>2. n \in Nat /\ DOMAIN ids = 1..n
    BY <1>1, ClaimAssumption
  <1>3. ASSUME NEW k \in DOMAIN ids, MergesThrough(ids, k)
        PROVE  /\ ids[k] \in DOMAIN claims /\ claims[ids[k]].asset = claims[ids[1]].asset
               /\ ids[1] \in DOMAIN claims
    <2>1. k \in 1..k /\ 1 \in 1..k
      BY <1>2
    <2> QED BY <1>3, <2>1 DEF MergesThrough
  <1> QED BY <1>3 DEF MergedIds, Held

\* The value of a single claim.
LEMMA ValueOfOne ==
  ASSUME NEW f, NEW c, c \in DOMAIN f, f[c].denomination \in Int
  PROVE  Value(f, {c}) = f[c].denomination
  <1>1. IsFiniteSet({}) /\ c \notin {} /\ {} \cup {c} = {c}
    BY FS_EmptySet
  <1>2. \A d \in {} \cup {c} : Worth(f)[d] \in Int
    BY DEF Worth
  <1>3. SumFunctionOnSet(Worth(f), {} \cup {c}) = Worth(f)[c] + SumFunctionOnSet(Worth(f), {})
    BY <1>1, <1>2, SumWith
  <1>4. SumFunctionOnSet(Worth(f), {}) = 0
    BY SumOfNone
  <1>5. Value(f, {c}) = SumFunctionOnSet(Worth(f), {c})
    BY <1>1, FS_AddElement, ValueIsSum
  <1> QED BY <1>1, <1>3, <1>4, <1>5 DEF Worth

\* ValueConserved is inductive once the claims are typed.
ValueInv == ClaimTypeOK /\ ValueConserved

\* ValueConserved with the claims of an asset named.
LEMMA ConservedHeld ==
  ValueConserved <=> \A a \in Assets : Value(claims, Held(a)) + lost[a] = issued[a]
  BY DEF ValueConserved, Held

\* What create_claim adds is what it counts as issued.
LEMMA CreateConserves ==
  ASSUME ValueInv, NEW id \in ClaimIds, NEW issuer \in Users, NEW owner \in Users,
         NEW asset \in Assets, NEW d \in Int, NEW minutes \in Nat,
         CreateClaim(id, issuer, asset, d, owner, minutes)
  PROVE  ValueInv'
  <1> DEFINE fresh == NewClaim(issuer, asset, d, owner, minutes)
             new == [c \in {id} |-> fresh]
  <1>1. ClaimTypeOK /\ now \in Nat /\ issued \in [Assets -> Int] /\ lost \in [Assets -> Int]
        /\ d \in Int /\ minutes \in Nat
    BY ClaimAssumption DEF ValueInv, ClaimTypeOK
  <1>2. /\ id \in FreshIds /\ claims' = Replaced({}, new)
        /\ issued' = [issued EXCEPT ![asset] = @ + d]
        /\ deleted' = deleted \cup {} /\ now' = now /\ lost' = lost /\ retired' = retired
    BY DEF CreateClaim
  <1>3. fresh \in Claim /\ fresh.asset = asset /\ fresh.denomination = d
    BY <1>1, NewClaimTyped
  <1> HIDE DEF fresh
  <1>4. /\ issued' \in [Assets -> Int]
        /\ \A a \in Assets : issued'[a] = issued[a] + IF a = asset THEN d ELSE 0
    BY <1>1, <1>2
  <1>5. /\ DOMAIN new \subseteq FreshIds
        /\ \A c \in DOMAIN new : new[c] \in Claim /\ new[c].asset = asset /\
             new[c].denomination \in Int
    BY <1>1, <1>2, <1>3
  <1>6. Value(new, DOMAIN new) = d /\ IsFiniteSet(DOMAIN new)
    <2>1. Value(new, {id}) = new[id].denomination
      BY <1>1, <1>3, ValueOfOne
    <2> QED BY <1>3, <2>1, FS_EmptySet, FS_AddElement
  <1>7. Value(claims, {}) = 0
    BY <1>1, ClaimsFinite, SumOfNone
  <1>8. ClaimTypeOK'
    <2> HIDE DEF new
    <2> QED BY <1>1, <1>2, <1>4, <1>5, ReplacedTyped
  <1>9. ASSUME NEW a \in Assets PROVE (Value(claims, Held(a)) + lost[a] = issued[a])'
    <2> HIDE DEF new
    <2>1. /\ Value(claims, Held(a))' = Value(claims, Held(a))
                + IF a = asset THEN Value(new, DOMAIN new) - Value(claims, {}) ELSE 0
          /\ Value(claims, Held(a)) \in Int
      <3>1. {} \in SUBSET Held(asset) /\ DOMAIN new \cap DOMAIN claims = {}
        BY <1>5 DEF FreshIds
      <3> QED BY <1>1, <1>2, <1>5, <1>6, <3>1, ReplacedValue
    <2>2. Value(claims, Held(a)) + lost[a] = issued[a] /\ lost[a] \in Int
      BY <1>1, ConservedHeld DEF ValueInv
    <2> QED BY <1>1, <1>2, <1>4, <1>6, <1>7, <2>1, <2>2
  <1>10. ValueConserved'
    BY <1>9 DEF ValueConserved, Held
  <1> QED BY <1>8, <1>10 DEF ValueInv

\* The parts of a split are worth the claim they replace.
LEMMA SplitConserves ==
  ASSUME ValueInv, NEW c \in DOMAIN claims, NEW ids \in SUBSET FreshIds,
         NEW parts \in [ids -> Denominations], SplitClaim(c, parts)
  PROVE  ValueInv'
  <1> DEFINE x == claims[c].asset
             Part(p) == NewClaim(claims[c].issuer, x, parts[p], claims[c].owner, claims[c].expiry)
             new == [p \in DOMAIN parts |-> Part(p)]
  <1>1. /\ ClaimTypeOK /\ now \in Nat /\ issued \in [Assets -> Int] /\ lost \in [Assets -> Int]
        /\ claims[c] \in Claim
    BY DEF ValueInv, ClaimTypeOK
  <1>2. /\ SumFunction(parts) = claims[c].denomination
        /\ claims' = Replaced({c}, new) /\ deleted' = deleted \cup {c}
        /\ now' = now /\ issued' = issued /\ lost' = lost /\ retired' = retired
    BY DEF SplitClaim, SumsTo
  <1>3. /\ x \in Assets /\ claims[c].denomination \in Int /\
             claims[c].issuer \in Users \cup {System}
        /\ claims[c].owner \in Users /\ claims[c].expiry \in Nat \cup {None}
    BY <1>1 DEF Claim
  <1>4. DOMAIN parts = ids /\ \A p \in ids : parts[p] \in Int
    BY ClaimAssumption
  <1>5. ASSUME NEW p \in ids
        PROVE  new[p] \in Claim /\ new[p].asset = x /\ new[p].denomination = parts[p]
    <2>1. new[p] = Part(p)
      BY <1>4
    <2>2. parts[p] \in Int
      BY <1>4
    <2> HIDE DEF new, x
    <2>3. Part(p) \in Claim /\ Part(p).asset = x /\ Part(p).denomination = parts[p]
      <3>1. PICK i \in Users \cup {System}, a \in Assets, o \in Users, m \in Nat \cup {None} :
              /\ i = claims[c].issuer /\ a = x /\ o = claims[c].owner /\ m = claims[c].expiry
        BY <1>3
      <3>2. /\ NewClaim(i, a, parts[p], o, m) \in Claim
            /\ NewClaim(i, a, parts[p], o, m).asset = a
            /\ NewClaim(i, a, parts[p], o, m).denomination = parts[p]
        <4>1. NewClaim(i, a, parts[p], o, m) \in Claim
          BY <1>1, <2>2, NewClaimTyped
        <4> QED BY <4>1 DEF NewClaim
      <3> QED BY <3>1, <3>2
    <2> QED BY <2>1, <2>3
  <1>6. /\ DOMAIN new = ids /\ ids \subseteq ClaimIds /\ ids \cap DOMAIN claims = {}
        /\ IsFiniteSet(ids)
    BY <1>4, ClaimAssumption, FS_Subset DEF FreshIds
  <1> HIDE DEF new, Part
  <1>7. Value(new, DOMAIN new) = claims[c].denomination
    <2>1. Value(new, ids) = SumFunctionOnSet(Worth(new), ids)
      BY <1>6, ValueIsSum
    <2>2. \A p \in ids : Worth(new)[p] = parts[p]
      BY <1>5, <1>6 DEF Worth
    <2>3. SumFunction(parts) = SumFunctionOnSet(parts, ids)
      BY <1>4 DEF SumFunction
    <2>4. SumFunctionOnSet(Worth(new), ids) = SumFunctionOnSet(parts, ids)
      BY <1>6, <2>2, SumOfSame
    <2> QED BY <1>2, <1>6, <2>1, <2>3, <2>4
  <1>8. Value(claims, {c}) = claims[c].denomination
    BY <1>3, ValueOfOne
  <1>9. ClaimTypeOK'
    BY <1>1, <1>2, <1>5, <1>6, ReplacedTyped
  <1>10. ASSUME NEW a \in Assets PROVE (Value(claims, Held(a)) + lost[a] = issued[a])'
    <2>1. /\ Value(claims, Held(a))' = Value(claims, Held(a))
                + IF a = x THEN Value(new, DOMAIN new) - Value(claims, {c}) ELSE 0
          /\ Value(claims, Held(a)) \in Int
      <3>1. {c} \in SUBSET Held(x) /\ DOMAIN new \cap DOMAIN claims = {} /\
              IsFiniteSet(DOMAIN new)
        BY <1>6 DEF Held
      <3>2. \A p \in DOMAIN new : new[p].asset = x /\ new[p].denomination \in Int
        BY <1>4, <1>5, <1>6
      <3> QED BY <1>1, <1>2, <1>3, <3>1, <3>2, ReplacedValue
    <2>2. Value(claims, Held(a)) + lost[a] = issued[a]
      BY <1>1, ConservedHeld DEF ValueInv
    <2> QED BY <1>2, <1>3, <1>7, <1>8, <2>1, <2>2
  <1>11. ValueConserved'
    BY <1>10 DEF ValueConserved, Held
  <1> QED BY <1>9, <1>11 DEF ValueInv

\* The claim merge_claims makes is worth those it deletes.
LEMMA MergeConserves ==
  ASSUME ValueInv, NEW ids \in ClaimLists, NEW id \in ClaimIds, NEW owner \in Users,
         MergeClaims(ids, id, owner)
  PROVE  ValueInv'
  <1> DEFINE x == claims[ids[1]].asset
             gone == MergedIds(ids)
             fresh == NewClaim(System, x, Value(claims, gone), owner, None)
             new == [c \in {id} |-> fresh]
  <1>1. ClaimTypeOK /\ now \in Nat /\ issued \in [Assets -> Int] /\ lost \in [Assets -> Int]
    BY DEF ValueInv, ClaimTypeOK
  <1>2. /\ id \in FreshIds /\ claims' = Replaced(gone, new)
        /\ deleted' = deleted \cup gone /\ now' = now /\ lost' = lost /\ issued' = issued
        /\ retired' = retired
        /\ MergesThrough(ids, Len(ids))
    BY DEF MergeClaims
  <1>3. gone \in SUBSET Held(x) /\ gone \in SUBSET DOMAIN claims
    BY MergedOfOneAsset DEF Held
  <1>4. x \in Assets
    <2>1. PICK n \in 1..MaxMerge : ids \in [1..n -> ClaimIds]
      BY DEF ClaimLists
    <2>2. n \in Nat /\ n >= 1
      BY <2>1, ClaimAssumption
    <2>3. ids \in Seq(ClaimIds) /\ Len(ids) = n
      BY <2>1, <2>2
    <2>4. ids[1] \in DOMAIN claims
      BY <1>2, <2>2, <2>3 DEF MergesThrough
    <2> QED BY <1>1, <2>4 DEF ClaimTypeOK, Claim
  <1>5. Value(claims, gone) \in Int
    BY <1>1, <1>3, ClaimsFinite
  <1> HIDE DEF gone, x
  <1>6. fresh \in Claim /\ fresh.asset = x /\ fresh.denomination = Value(claims, gone)
    <2>1. System \in Users \cup {System} /\ None \in Nat \cup {None}
      OBVIOUS
    <2>2. PICK a \in Assets, v \in Int : a = x /\ v = Value(claims, gone)
      BY <1>4, <1>5
    <2>3. /\ NewClaim(System, a, v, owner, None) \in Claim
          /\ NewClaim(System, a, v, owner, None).asset = a
          /\ NewClaim(System, a, v, owner, None).denomination = v
      <3>1. NewClaim(System, a, v, owner, None) \in Claim
        BY <1>1, <2>1, NewClaimTyped
      <3> QED BY <3>1 DEF NewClaim
    <2> QED BY <2>2, <2>3
  <1> HIDE DEF fresh
  <1>7. /\ DOMAIN new \subseteq FreshIds
        /\ \A c \in DOMAIN new : new[c] \in Claim /\ new[c].asset = x /\
             new[c].denomination \in Int
    BY <1>2, <1>5, <1>6
  <1>8. Value(new, DOMAIN new) = Value(claims, gone) /\ IsFiniteSet(DOMAIN new)
    <2>1. Value(new, {id}) = new[id].denomination
      BY <1>5, <1>6, ValueOfOne
    <2> QED BY <1>6, <2>1, FS_EmptySet, FS_AddElement
  <1> HIDE DEF new
  <1>9. ClaimTypeOK'
    BY <1>1, <1>2, <1>3, <1>7, ReplacedTyped
  <1>10. ASSUME NEW a \in Assets PROVE (Value(claims, Held(a)) + lost[a] = issued[a])'
    <2>1. /\ Value(claims, Held(a))' = Value(claims, Held(a))
                + IF a = x THEN Value(new, DOMAIN new) - Value(claims, gone) ELSE 0
          /\ Value(claims, Held(a)) \in Int
      <3>1. DOMAIN new \cap DOMAIN claims = {}
        BY <1>7 DEF FreshIds
      <3> QED BY <1>1, <1>2, <1>3, <1>4, <1>7, <1>8, <3>1, ReplacedValue
    <2>2. Value(claims, Held(a)) + lost[a] = issued[a]
      BY <1>1, ConservedHeld DEF ValueInv
    <2> QED BY <1>2, <1>5, <1>8, <2>1, <2>2
  <1>11. ValueConserved'
    BY <1>10 DEF ValueConserved, Held
  <1> QED BY <1>9, <1>11 DEF ValueInv

\* A merge that raises half-way counts what it deleted as lost.
LEMMA MergeFailConserves ==
  ASSUME ValueInv, NEW ids \in ClaimLists, MergeFails(ids)
  PROVE  ValueInv'
  <1> DEFINE x == claims[ids[1]].asset
             gone == MergedIds(ids)
             new == [c \in {} |-> c]
  <1>1. ClaimTypeOK /\ now \in Nat /\ issued \in [Assets -> Int] /\ lost \in [Assets -> Int]
    BY DEF ValueInv, ClaimTypeOK
  <1>2. /\ claims' = Replaced(gone, new) /\ gone # {}
        /\ deleted' = deleted \cup gone /\ now' = now /\ issued' = issued /\ retired' = retired
        /\ lost' = [lost EXCEPT ![x] = @ + Value(claims, gone)]
    BY DEF MergeFails
  <1>3. gone \in SUBSET Held(x) /\ gone \in SUBSET DOMAIN claims /\ x \in Assets
    <2>1. gone \in SUBSET Held(x) /\ ids[1] \in DOMAIN claims
      BY <1>2, MergedOfOneAsset
    <2> QED BY <1>1, <2>1 DEF Held, ClaimTypeOK, Claim
  <1>4. Value(claims, gone) \in Int
    BY <1>1, <1>3, ClaimsFinite
  <1>5. DOMAIN new = {} /\ IsFiniteSet(DOMAIN new) /\ DOMAIN new \subseteq FreshIds
    BY FS_EmptySet
  <1>6. Value(new, DOMAIN new) = 0
    BY <1>5, ValueIsSum, SumOfNone
  <1> HIDE DEF gone, x, new
  <1>7. /\ lost' \in [Assets -> Int]
        /\ \A a \in Assets : lost'[a] = lost[a] + IF a = x THEN Value(claims, gone) ELSE 0
    <2>1. PICK v \in Int : v = Value(claims, gone)
      BY <1>4
    <2>2. lost' = [lost EXCEPT ![x] = @ + v]
      BY <1>2, <2>1
    <2>3. lost' \in [Assets -> Int] /\
            \A a \in Assets : lost'[a] = lost[a] + IF a = x THEN v ELSE 0
      BY <1>1, <1>3, <2>2
    <2> QED BY <2>1, <2>3
  <1>8. ClaimTypeOK'
    BY <1>1, <1>2, <1>3, <1>5, <1>7, ReplacedTyped
  <1>9. ASSUME NEW a \in Assets PROVE (Value(claims, Held(a)) + lost[a] = issued[a])'
    <2>1. /\ Value(claims, Held(a))' = Value(claims, Held(a))
                + IF a = x THEN Value(new, DOMAIN new) - Value(claims, gone) ELSE 0
          /\ Value(claims, Held(a)) \in Int
      BY <1>1, <1>2, <1>3, <1>5, ReplacedValue
    <2>2. Value(claims, Held(a)) + lost[a] = issued[a] /\ lost[a] \in Int
      BY <1>1, ConservedHeld DEF ValueInv
    <2> QED BY <1>2, <1>4, <1>6, <1>7, <2>1, <2>2
  <1>10. ValueConserved'
    BY <1>9 DEF ValueConserved, Held
  <1> QED BY <1>8, <1>10 DEF ValueInv

\* Transfers, revocations and burnings rewrite one claim.
LEMMA RewriteConserves ==
  ASSUME ValueInv, NEW c \in DOMAIN claims, NEW o \in Users, NEW s \in ClaimStates,
         DOMAIN claims' = DOMAIN claims,
         claims'[c] = [claims[c] EXCEPT !.owner = o, !.state = s],
         \A d \in DOMAIN claims : d # c => claims'[d] = claims[d],
         UNCHANGED <<deleted, now, issued, lost>>,
         retired' \subseteq retired \cup {c}
  PROVE  ValueInv'
  <1>1. ClaimTypeOK /\ claims[c] \in Claim
    BY DEF ValueInv, ClaimTypeOK
  <1>2. /\ claims'[c] \in Claim /\ claims'[c].asset = claims[c].asset
        /\ claims'[c].denomination = claims[c].denomination
    <2> DEFINE once == [claims[c] EXCEPT !.owner = o]
    <2>1. /\ once \in Claim /\ once.asset = claims[c].asset
          /\ once.denomination = claims[c].denomination
      BY <1>1 DEF Claim
    <2>2. claims'[c] = [once EXCEPT !.state = s]
      OBVIOUS
    <2> HIDE DEF once
    <2> QED BY <2>1, <2>2 DEF Claim
  <1>3. ClaimTypeOK'
    BY <1>1, <1>2 DEF ClaimTypeOK
  <1>4. \A d \in DOMAIN claims : /\ claims'[d].asset = claims[d].asset
                                 /\ claims'[d].denomination = claims[d].denomination
    BY <1>2
  <1>5. \A a \in Assets : Value(claims, Held(a))' = Value(claims, Held(a))
    BY <1>1, <1>4, RewrittenValue
  <1>6. \A a \in Assets : (Value(claims, Held(a)) + lost[a] = issued[a])'
    BY <1>5, ConservedHeld DEF ValueInv
  <1>7. ValueConserved'
    BY <1>6 DEF ValueConserved, Held
  <1> QED BY <1>3, <1>7 DEF ValueInv

\* Steps that leave the claims alone.
LEMMA QuietConserves ==
  ASSUME ValueInv, UNCHANGED <<claims, deleted, issued, lost, retired>>, now' \in Nat
  PROVE  ValueInv'
  <1>1. ClaimTypeOK'
    BY DEF ValueInv, ClaimTypeOK
  <1>2. ValueConserved'
    BY DEF ValueInv, ValueConserved, Value
  <1> QED BY <1>1, <1>2 DEF ValueInv

\* Every method of the claim-note service conserves value.
LEMMA ClaimsConserve ==
  ASSUME ValueInv, ClaimNext
  PROVE  ValueInv'
  <1>1. ASSUME NEW c \in DOMAIN claims, NEW to_user \in Users, TransferClaim(c, to_user)
        PROVE  ValueInv'
    <2>1. /\ claims' = [claims EXCEPT ![c].owner = to_user, ![c].state = "transferred"]
          /\ UNCHANGED <<deleted, now, issued, lost, retired>>
      BY <1>1 DEF TransferClaim
    <2>2. "transferred" \in ClaimStates
      BY DEF ClaimStates
    <2>3. /\ DOMAIN claims' = DOMAIN claims
          /\ claims'[c] = [claims[c] EXCEPT !.owner = to_user, !.state = "transferred"]
          /\ \A d \in DOMAIN claims : d # c => claims'[d] = claims[d]
      BY <2>1
    <2> QED BY <2>1, <2>2, <2>3, RewriteConserves
  <1>2. ASSUME NEW c \in DOMAIN claims, NEW issuer_id \in Users \cup {System},
               RevokeClaim(c, issuer_id)
        PROVE  ValueInv'
    <2>1. /\ claims' = [claims EXCEPT ![c].state = "revoked"]
          /\ UNCHANGED <<deleted, now, issued, lost, retired>>
      BY <1>2 DEF RevokeClaim
    <2>2. "revoked" \in ClaimStates /\ claims[c] \in Claim /\ claims[c].owner \in Users
      BY DEF ClaimStates, ValueInv, ClaimTypeOK, Claim
    <2>3. claims'[c] = [claims[c] EXCEPT !.owner = claims[c].owner, !.state = "revoked"]
      BY <2>1, <2>2 DEF Claim
    <2> QED BY <2>1, <2>2, <2>3, RewriteConserves
  <1>3. CASE Tick
    BY <1>3, QuietConserves DEF Tick, ValueInv, ClaimTypeOK
  <1>4. ASSUME NEW c \in DOMAIN claims, BurnClaim(c)
        PROVE  ValueInv'
    <2>1. /\ claims' = [claims EXCEPT ![c].state = "burned"]
          /\ UNCHANGED <<deleted, now, issued, lost>> /\ retired' = retired \cup {c}
      BY <1>4 DEF BurnClaim, Burned
    <2>2. "burned" \in ClaimStates /\ claims[c] \in Claim /\ claims[c].owner \in Users
      BY DEF ClaimStates, ValueInv, ClaimTypeOK, Claim
    <2>3. claims'[c] = [claims[c] EXCEPT !.owner = claims[c].owner, !.state = "burned"]
      BY <2>1, <2>2 DEF Claim
    <2> QED BY <2>1, <2>2, <2>3, RewriteConserves
  <1>5. CASE CreateNext(Assets, Denominations, ExpiryMinutes)
    BY <1>5, CreateConserves, ClaimAssumption DEF CreateNext
  <1>6. CASE ClaimCall
    BY <1>1, <1>2, <1>4, <1>6, SplitConserves, MergeConserves, MergeFailConserves
       DEF ClaimCall
  <1> QED BY <1>3, <1>5, <1>6 DEF ClaimNext

\* Settling a redemption burns its claim, which stays on record with its
\* value.
LEMMA ValueInvStep == ValueInv /\ [Next]_vars => ValueInv'
  <1> SUFFICES ASSUME ValueInv, [Next]_vars PROVE ValueInv'
    OBVIOUS
  <1>1. CASE UNCHANGED claimVars
    BY <1>1, QuietConserves DEF claimVars, ValueInv, ClaimTypeOK
  <1>2. ASSUME NEW r, NEW c, NEW rail, Settle(r, c, rail)
        PROVE  ValueInv'
    <2>1. /\ c \in DOMAIN claims /\ claims' = [claims EXCEPT ![c].state = "burned"]
          /\ UNCHANGED <<deleted, now, issued, lost, retired>>
      BY <1>2 DEF Settle, Burned
    <2>2. "burned" \in ClaimStates /\ claims[c] \in Claim /\ claims[c].owner \in Users
      BY <2>1 DEF ClaimStates, ValueInv, ClaimTypeOK, Claim
    <2>3. claims'[c] = [claims[c] EXCEPT !.owner = claims[c].owner, !.state = "burned"]
      BY <2>1, <2>2 DEF Claim
    <2> QED BY <2>1, <2>2, <2>3, RewriteConserves
  <1>3. CASE RedemptionNext
    BY <1>1, <1>2, <1>3 DEF RedemptionNext, Redeem, ApproveRedemption, RejectRedemption
  <1> QED BY <1>1, <1>3, ClaimsConserve DEF Next, vars

\* Nothing is issued at first.
LEMMA InitValueInv == Init => ValueInv
  <1> SUFFICES ASSUME Init PROVE ValueInv
    OBVIOUS
  <1>1. /\ DOMAIN claims = {} /\ deleted = {} /\ now = 0
        /\ issued = [a \in Assets |-> 0] /\ lost = [a \in Assets |-> 0] /\ retired = {}
    BY DEF Init, ClaimInit
  <1>2. ClaimTypeOK
    BY <1>1 DEF ClaimTypeOK
  <1>3. ASSUME NEW a \in Assets PROVE Value(claims, Held(a)) + lost[a] = issued[a]
    <2>1. Held(a) = {}
      BY <1>1 DEF Held
    <2>2. Value(claims, {}) = 0
      BY <1>2, ClaimsFinite, SumOfNone
    <2> QED BY <1>1, <2>1, <2>2
  <1> QED BY <1>2, <1>3, ConservedHeld DEF ValueInv

\* Whatever the ids, assets, denominations and the order of calls, the claims
\* of each asset and the losses of its failed merges add up to what
\* create_claim issued of it: splitting and merging make no value and lose
\* none.
THEOREM NoValueMade == Spec => []ValueConserved
  <1>1. ValueInv => ValueConserved
    BY DEF ValueInv
  <1> QED
    BY <1>1, InitValueInv, ValueInvStep, PTL DEF Spec

-----------------------------------------------------------------------------
(***************************************************************************)
(* Claims change hands once.                                               *)
(***************************************************************************)

\* The step of HandedOverOnce.
HandsOverOnce ==
  \A c \in DOMAIN claims :
    claims[c].state # "created" =>
      /\ c \in DOMAIN claims'
      /\ [claims'[c] EXCEPT !.state = claims[c].state] = claims[c]
      /\ claims[c].state = "burned" => claims'[c].state = "burned"

\* Splits and merges replace created claims only, by claims under new ids.
LEMMA ReplacedHandsOver ==
  ASSUME ClaimTypeOK, NEW gone \in SUBSET DOMAIN claims, NEW new,
         DOMAIN new \cap DOMAIN claims = {},
         \A c \in gone : claims[c].state = "created",
         claims' = Replaced(gone, new)
  PROVE  HandsOverOnce
  <1>1. ASSUME NEW c \in DOMAIN claims, claims[c].state # "created"
        PROVE  c \in DOMAIN claims' /\ claims'[c] = claims[c]
    BY <1>1 DEF Replaced
  <1>2. \A c \in DOMAIN claims : [claims[c] EXCEPT !.state = claims[c].state] = claims[c]
    BY DEF ClaimTypeOK, Claim
  <1> QED BY <1>1, <1>2 DEF HandsOverOnce

\* Rewriting one claim: its owner changes only if it was created, and a burned
\* one stays burned.
LEMMA RewriteHandsOver ==
  ASSUME ClaimTypeOK, NEW c \in DOMAIN claims, NEW o \in Users, NEW s \in ClaimStates,
         claims[c].state = "created" \/ o = claims[c].owner,
         claims[c].state = "burned" => s = "burned",
         claims' = [claims EXCEPT ![c] = [claims[c] EXCEPT !.owner = o, !.state = s]]
  PROVE  HandsOverOnce
  <1>1. /\ DOMAIN claims' = DOMAIN claims
        /\ claims'[c] = [claims[c] EXCEPT !.owner = o, !.state = s]
        /\ \A d \in DOMAIN claims : d # c => claims'[d] = claims[d]
    OBVIOUS
  <1>2. \A d \in DOMAIN claims : [claims[d] EXCEPT !.state = claims[d].state] = claims[d]
    BY DEF ClaimTypeOK, Claim
  <1>3. ASSUME claims[c].state # "created"
        PROVE  /\ [claims'[c] EXCEPT !.state = claims[c].state] = claims[c]
               /\ claims'[c].state = s
    <2> DEFINE once == [claims[c] EXCEPT !.owner = o]
    <2>1. once = claims[c] /\ claims[c] \in Claim
      BY <1>3 DEF ClaimTypeOK, Claim
    <2>2. claims'[c] = [once EXCEPT !.state = s]
      BY <1>1
    <2> HIDE DEF once
    <2> QED BY <2>1, <2>2 DEF Claim
  <1> QED BY <1>1, <1>2, <1>3 DEF HandsOverOnce

\* Burning a claim.
LEMMA BurnHandsOver ==
  ASSUME ClaimTypeOK, NEW c \in DOMAIN claims, claims' = Burned(c)
  PROVE  HandsOverOnce
  <1>1. /\ claims' = [claims EXCEPT ![c].state = "burned"]
        /\ "burned" \in ClaimStates /\ claims[c] \in Claim /\ claims[c].owner \in Users
    BY DEF Burned, ClaimStates, ClaimTypeOK, Claim
  <1>2. [claims[c] EXCEPT !.owner = claims[c].owner, !.state = "burned"]
          = [claims[c] EXCEPT !.state = "burned"]
    BY <1>1 DEF Claim
  <1>3. claims' = [claims EXCEPT ![c] =
                     [claims[c] EXCEPT !.owner = claims[c].owner, !.state = "burned"]]
    BY <1>1, <1>2
  <1> QED BY <1>1, <1>3, RewriteHandsOver

\* Every method of the claim-note service.
LEMMA ClaimStepHandsOver ==
  ASSUME ClaimTypeOK, ClaimNext
  PROVE  HandsOverOnce
  <1>1. ASSUME NEW c \in DOMAIN claims, NEW to_user \in Users, TransferClaim(c, to_user)
        PROVE  HandsOverOnce
    <2>1. claims[c].state = "created" /\ "transferred" \in ClaimStates
      BY <1>1 DEF TransferClaim, Transferable, ClaimStates
    <2>2. claims' = [claims EXCEPT ![c].owner = to_user, ![c].state = "transferred"]
      BY <1>1 DEF TransferClaim
    <2> DEFINE once == [claims EXCEPT ![c].owner = to_user]
    <2>3. once = [claims EXCEPT ![c] = [claims[c] EXCEPT !.owner = to_user]]
      OBVIOUS
    <2>4. claims' = [once EXCEPT ![c] = [once[c] EXCEPT !.state = "transferred"]]
      BY <2>2
    <2> HIDE DEF once
    <2>5. claims' = [claims EXCEPT ![c]
            = [claims[c] EXCEPT !.owner = to_user, !.state = "transferred"]]
      BY <2>3, <2>4
    <2> QED BY <2>1, <2>5, RewriteHandsOver
  <1>2. ASSUME NEW c \in DOMAIN claims, NEW issuer_id \in Users \cup {System},
               RevokeClaim(c, issuer_id)
        PROVE  HandsOverOnce
    <2>1. /\ claims' = [claims EXCEPT ![c].state = "revoked"]
          /\ claims[c].state # "burned" /\ "revoked" \in ClaimStates
          /\ claims[c] \in Claim /\ claims[c].owner \in Users
      BY <1>2 DEF RevokeClaim, Revocable, ClaimStates, ClaimTypeOK, Claim
    <2>2. [claims[c] EXCEPT !.owner = claims[c].owner] = claims[c]
      BY <2>1 DEF Claim
    <2>3. [claims[c] EXCEPT !.owner = claims[c].owner, !.state = "revoked"]
            = [claims[c] EXCEPT !.state = "revoked"]
      BY <2>1 DEF Claim
    <2>4. claims' = [claims EXCEPT ![c] =
                       [claims[c] EXCEPT !.owner = claims[c].owner, !.state = "revoked"]]
      BY <2>1, <2>3
    <2> QED BY <2>1, <2>4, RewriteHandsOver
  <1>3. ASSUME NEW id \in ClaimIds, NEW issuer, NEW owner, NEW asset, NEW d, NEW minutes,
               CreateClaim(id, issuer, asset, d, owner, minutes)
        PROVE  HandsOverOnce
    <2> DEFINE new == [c \in {id} |-> NewClaim(issuer, asset, d, owner, minutes)]
    <2>1. claims' = Replaced({}, new) /\ DOMAIN new \cap DOMAIN claims = {}
      BY <1>3 DEF CreateClaim, FreshIds
    <2> HIDE DEF new
    <2> QED BY <2>1, ReplacedHandsOver
  <1>4. ASSUME NEW c \in DOMAIN claims, NEW parts, SplitClaim(c, parts)
        PROVE  HandsOverOnce
    <2> DEFINE new == [p \in DOMAIN parts |->
                        NewClaim(claims[c].issuer, claims[c].asset, parts[p],
                                 claims[c].owner, claims[c].expiry)]
    <2>1. /\ claims' = Replaced({c}, new) /\ DOMAIN new \cap DOMAIN claims = {}
          /\ claims[c].state = "created"
      BY <1>4 DEF SplitClaim, FreshIds
    <2> HIDE DEF new
    <2> QED BY <2>1, ReplacedHandsOver
  <1>5. ASSUME NEW ids \in ClaimLists, NEW id \in ClaimIds, NEW owner,
               MergeClaims(ids, id, owner)
        PROVE  HandsOverOnce
    <2> DEFINE new == [c \in {id} |-> NewClaim(System, claims[ids[1]].asset,
                          Value(claims, MergedIds(ids)), owner, None)]
    <2>1. claims' = Replaced(MergedIds(ids), new) /\ DOMAIN new \cap DOMAIN claims = {}
      BY <1>5 DEF MergeClaims, FreshIds
    <2> HIDE DEF new
    <2> QED BY <2>1, MergedCreated, ReplacedHandsOver
  <1>6. ASSUME NEW ids \in ClaimLists, MergeFails(ids)
        PROVE  HandsOverOnce
    <2> DEFINE new == [c \in {} |-> c]
    <2>1. claims' = Replaced(MergedIds(ids), new) /\ DOMAIN new \cap DOMAIN claims = {}
      BY <1>6 DEF MergeFails
    <2> HIDE DEF new
    <2> QED BY <2>1, MergedCreated, ReplacedHandsOver
  <1>7. CASE Tick
    BY <1>7 DEF Tick, HandsOverOnce, ClaimTypeOK, Claim
  <1>8. ASSUME NEW c \in DOMAIN claims, BurnClaim(c)
        PROVE  HandsOverOnce
    BY <1>8, BurnHandsOver DEF BurnClaim
  <1>9. CASE ClaimCall
    BY <1>1, <1>2, <1>4, <1>5, <1>6, <1>8, <1>9 DEF ClaimCall
  <1> QED BY <1>3, <1>7, <1>9 DEF ClaimNext, CreateNext

\* A claim out of its first state keeps its owner, its value and its place on
\* record for good, in every step of the flow.
THEOREM ClaimsHandedOver == Spec => HandedOverOnce
  <1>1. ASSUME ValueInv, [Next]_vars PROVE [HandsOverOnce]_claimVars
    <2>1. ClaimTypeOK
      BY <1>1 DEF ValueInv
    <2>2. CASE ClaimNext
      BY <2>1, <2>2, ClaimStepHandsOver
    <2>3. CASE UNCHANGED claimVars
      BY <2>3
    <2>4. CASE RedemptionNext
      <3>1. ASSUME NEW r, NEW c \in DOMAIN claims, NEW user, NEW key, NEW chain,
                   Redeem(r, c, user, key, chain)
            PROVE  [HandsOverOnce]_claimVars
        <4>1. UNCHANGED claimVars \/ claims' = Burned(c)
          BY <3>1 DEF Redeem, Settle
        <4> QED BY <2>1, <4>1, BurnHandsOver
      <3>2. ASSUME NEW r, NEW operator, NEW required, ApproveRedemption(r, operator, required)
            PROVE  [HandsOverOnce]_claimVars
        <4>1. \/ UNCHANGED claimVars
              \/ receipts[r].claim \in DOMAIN claims /\ claims' = Burned(receipts[r].claim)
          BY <3>2 DEF ApproveRedemption, Settle
        <4> QED BY <2>1, <4>1, BurnHandsOver
      <3>3. ASSUME NEW r, RejectRedemption(r) PROVE [HandsOverOnce]_claimVars
        BY <3>3 DEF RejectRedemption
      <3> QED BY <2>4, <3>1, <3>2, <3>3 DEF RedemptionNext
    <2> QED BY <1>1, <2>2, <2>3, <2>4 DEF Next, vars
  <1> QED BY <1>1, InitValueInv, ValueInvStep, PTL DEF Spec, HandedOverOnce, HandsOverOnce

-----------------------------------------------------------------------------
(***************************************************************************)
(* Requests and batches.                                                   *)
(***************************************************************************)

\* The batches a request is in.
In(i) == {b \in DOMAIN batches : i \in batches[b].requests}

\* OneBatchPerRequest is inductive once requests and batches are typed.
BatchesInv ==
  /\ SettlementTypeOK(ReceiptIds)
  /\ OneBatchPerRequest

\* OneBatchPerRequest with the batches of a request named.
LEMMA BatchedOnce ==
  OneBatchPerRequest <=>
    \A i \in DOMAIN requests :
      /\ Cardinality(In(i)) = IF requests[i].status = "batched" THEN 1 ELSE 0
      /\ \A b \in In(i) : batches[b].rail = requests[i].rail
  BY DEF OneBatchPerRequest, In

\* What the types say of requests and batches.
LEMMA BatchFacts ==
  ASSUME BatchesInv
  PROVE  /\ requests \in Seq(Request(ReceiptIds)) /\ batches \in Seq(Batch)
         /\ Len(requests) \in Nat /\ DOMAIN requests = 1..Len(requests)
         /\ Len(batches) \in Nat /\ DOMAIN batches = 1..Len(batches)
         /\ \A i \in DOMAIN requests : requests[i] \in Request(ReceiptIds)
         /\ \A b \in DOMAIN batches : batches[b] \in Batch
         /\ \A i : IsFiniteSet(In(i)) /\ In(i) \in SUBSET DOMAIN batches
  <1>1. requests \in Seq(Request(ReceiptIds)) /\ batches \in Seq(Batch)
    BY DEF BatchesInv, SettlementTypeOK
  <1>2. /\ Len(requests) \in Nat /\ DOMAIN requests = 1..Len(requests)
        /\ Len(batches) \in Nat /\ DOMAIN batches = 1..Len(batches)
    BY <1>1, LenProperties
  <1>3. /\ \A i \in DOMAIN requests : requests[i] \in Request(ReceiptIds)
        /\ \A b \in DOMAIN batches : batches[b] \in Batch
    BY <1>1, <1>2, ElementOfSeq
  <1>4. IsFiniteSet(DOMAIN batches)
    BY <1>2, FS_Interval
  <1>5. \A i : In(i) \in SUBSET DOMAIN batches
    BY DEF In
  <1> QED BY <1>1, <1>2, <1>3, <1>4, <1>5, FS_Subset

\* A batch remains one when requests are appended.
LEMMA BatchGrows ==
  ASSUME Len(requests) \in Nat, Len(requests') \in Nat, Len(requests) <= Len(requests'),
           NEW x \in Batch
  PROVE  x \in Batch'
  <1>1. 1..Len(requests) \subseteq 1..Len(requests')
    OBVIOUS
  <1> QED BY <1>1 DEF Batch, BatchStates

\* A new request is pending and in no batch.
LEMMA SubmitBatches ==
  ASSUME BatchesInv, NEW r \in ReceiptIds \cup {NoReceipt}, NEW rail \in Rails,
         SubmitRequest(r, rail)
  PROVE  BatchesInv'
  <1> DEFINE req == [receipt |-> r, rail |-> rail, status |-> "pending"]
             n == Len(requests) + 1
  <1>1. /\ requests \in Seq(Request(ReceiptIds)) /\ batches \in Seq(Batch)
        /\ Len(requests) \in Nat /\ DOMAIN requests = 1..Len(requests)
        /\ Len(batches) \in Nat /\ DOMAIN batches = 1..Len(batches)
        /\ \A b \in DOMAIN batches : batches[b] \in Batch
    BY BatchFacts
  <1>2. req \in Request(ReceiptIds) /\ req.status = "pending"
    BY DEF Request
  <1>3. requests' = Append(requests, req) /\ batches' = batches
    BY DEF SubmitRequest
  <1> HIDE DEF req
  <1>4. /\ requests' \in Seq(Request(ReceiptIds)) /\ Len(requests') = n
        /\ DOMAIN requests' = 1..n /\ requests'[n] = req
        /\ \A i \in DOMAIN requests : requests'[i] = requests[i]
    BY <1>1, <1>2, <1>3, AppendProperties, LenProperties
  <1>5. batches' \in Seq(Batch')
    <2>1. \A b \in DOMAIN batches : batches[b] \in Batch'
      BY <1>1, <1>4, BatchGrows
    <2>2. batches \in [1..Len(batches) -> Batch']
      BY <1>1, <2>1, LenProperties
    <2> QED BY <1>1, <1>3, <2>2
  <1>6. SettlementTypeOK(ReceiptIds)'
    BY <1>4, <1>5 DEF SettlementTypeOK, Request, Batch
  <1>7. \A i : In(i)' = In(i)
    BY <1>3 DEF In
  <1>8. In(n) = {}
    BY <1>1 DEF In, Batch
  <1>9. ASSUME NEW i \in DOMAIN requests'
        PROVE  /\ Cardinality(In(i)') = IF requests'[i].status = "batched" THEN 1 ELSE 0
               /\ \A b \in In(i)' : batches'[b].rail = requests'[i].rail
    <2>1. CASE i = n
      BY <1>2, <1>4, <1>7, <1>8, <2>1, FS_EmptySet
    <2>2. CASE i # n
      <3>1. i \in DOMAIN requests
        BY <1>1, <1>4, <2>2
      <3>2. requests'[i] = requests[i]
        BY <1>4, <3>1
      <3> QED BY <1>3, <1>7, <3>1, <3>2, BatchedOnce DEF BatchesInv
    <2> QED BY <2>1, <2>2
  <1>10. OneBatchPerRequest'
    BY <1>9 DEF OneBatchPerRequest, In
  <1> QED BY <1>6, <1>10 DEF BatchesInv

\* build_batch takes the pending requests of a rail, which are in no batch,
\* and marks them.
LEMMA BuildBatches ==
  ASSUME BatchesInv, NEW rail \in Rails, BuildBatch(rail)
  PROVE  BatchesInv'
  <1> DEFINE built == [rail |-> rail, requests |-> Collected(rail), status |-> "collecting"]
             n == Len(batches) + 1
  <1>1. /\ requests \in Seq(Request(ReceiptIds)) /\ batches \in Seq(Batch)
        /\ Len(requests) \in Nat /\ DOMAIN requests = 1..Len(requests)
        /\ Len(batches) \in Nat /\ DOMAIN batches = 1..Len(batches)
        /\ \A i \in DOMAIN requests : requests[i] \in Request(ReceiptIds)
        /\ \A i : IsFiniteSet(In(i)) /\ In(i) \in SUBSET DOMAIN batches
    BY BatchFacts
  <1>2. built \in Batch /\ built.rail = rail /\ built.requests = Collected(rail)
    BY <1>1 DEF Batch, BatchStates, Collected
  <1>3. batches' = Append(batches, built) /\ requests' = Batched(Collected(rail))
    BY DEF BuildBatch
  <1> HIDE DEF built
  <1>4. /\ batches' \in Seq(Batch) /\ Len(batches') = n
        /\ DOMAIN batches' = 1..n /\ batches'[n] = built
        /\ \A b \in DOMAIN batches : batches'[b] = batches[b]
    BY <1>1, <1>2, <1>3, AppendProperties, LenProperties
  <1>5. /\ DOMAIN requests' = DOMAIN requests
        /\ \A i \in DOMAIN requests :
             /\ requests'[i] \in Request(ReceiptIds) /\ requests'[i].rail = requests[i].rail
             /\ i \in Collected(rail) => requests'[i].status = "batched"
             /\ i \notin Collected(rail) => requests'[i] = requests[i]
    BY <1>1, <1>3 DEF Batched, Request
  <1>6. requests' \in Seq(Request(ReceiptIds)) /\ Len(requests') = Len(requests)
    <2>1. requests' = [i \in 1..Len(requests) |-> requests'[i]]
      BY <1>1, <1>3 DEF Batched
    <2> QED BY <1>1, <1>5, <2>1
  <1>7. batches' \in Seq(Batch')
    BY <1>4, <1>6 DEF Batch
  <1>8. SettlementTypeOK(ReceiptIds)'
    BY <1>6, <1>7 DEF SettlementTypeOK, Request
  <1>9. /\ \A i \in Collected(rail) : In(i)' = In(i) \cup {n}
        /\ \A i \in DOMAIN requests \ Collected(rail) : In(i)' = In(i)
        /\ \A i : n \notin In(i)
    BY <1>1, <1>2, <1>4 DEF In
  <1>10. ASSUME NEW i \in DOMAIN requests'
         PROVE  /\ Cardinality(In(i)') = IF requests'[i].status = "batched" THEN 1 ELSE 0
                /\ \A b \in In(i)' : batches'[b].rail = requests'[i].rail
    <2>1. /\ Cardinality(In(i)) = IF requests[i].status = "batched" THEN 1 ELSE 0
          /\ \A b \in In(i) : batches[b].rail = requests[i].rail
      BY <1>5, BatchedOnce DEF BatchesInv
    <2>2. CASE i \in Collected(rail)
      <3>1. requests[i].rail = rail /\ requests[i].status = "pending"
        BY <2>2 DEF Collected
      <3>2. Cardinality(In(i)) = 0 /\ Cardinality(In(i) \cup {n}) = Cardinality(In(i)) + 1
        BY <1>1, <1>9, <2>1, <3>1, FS_AddElement
      <3>3. requests'[i].status = "batched" /\ requests'[i].rail = rail
        BY <1>5, <2>2, <3>1
      <3>4. \A b \in In(i) \cup {n} : batches'[b].rail = rail
        BY <1>1, <1>2, <1>4, <2>1, <3>1
      <3>5. In(i)' = In(i) \cup {n}
        BY <1>9, <2>2
      <3>6. Cardinality(In(i)') = 1
        BY <3>2, <3>5
      <3>7. \A b \in In(i)' : batches'[b].rail = requests'[i].rail
        BY <3>3, <3>4, <3>5
      <3> HIDE DEF In
      <3> QED BY <3>3, <3>6, <3>7
    <2>3. CASE i \notin Collected(rail)
      <3>1. In(i)' = In(i) /\ requests'[i] = requests[i]
        BY <1>5, <1>9, <2>3
      <3> QED BY <1>1, <1>4, <2>1, <3>1
    <2> QED BY <2>2, <2>3
  <1>11. OneBatchPerRequest'
    BY <1>10 DEF OneBatchPerRequest, In
  <1> QED BY <1>8, <1>11 DEF BatchesInv

\* Approving, broadcasting and confirming change a batch's status only.
LEMMA StatusBatches ==
  ASSUME BatchesInv, NEW b \in DOMAIN batches, NEW status \in BatchStates, SetStatus(b, status)
  PROVE  BatchesInv'
  <1>1. /\ requests \in Seq(Request(ReceiptIds)) /\ batches \in Seq(Batch)
        /\ Len(batches) \in Nat /\ DOMAIN batches = 1..Len(batches)
        /\ \A a \in DOMAIN batches : batches[a] \in Batch
    BY BatchFacts
  <1>2. /\ batches' = [batches EXCEPT ![b] = [batches[b] EXCEPT !.status = status]]
        /\ requests' = requests
    BY DEF SetStatus
  <1>3. /\ DOMAIN batches' = DOMAIN batches
        /\ batches'[b] = [batches[b] EXCEPT !.status = status]
        /\ \A a \in DOMAIN batches : a # b => batches'[a] = batches[a]
    BY <1>2
  <1>4. \A a \in DOMAIN batches : /\ batches'[a] \in Batch
                                  /\ batches'[a].requests = batches[a].requests
                                  /\ batches'[a].rail = batches[a].rail
    BY <1>1, <1>3 DEF Batch
  <1>5. batches' \in Seq(Batch)
    <2>1. batches' \in [1..Len(batches) -> Batch]
      <3>1. batches' = [a \in 1..Len(batches) |-> batches'[a]]
        BY <1>1, <1>2
      <3> QED BY <1>1, <1>4, <3>1
    <2> QED BY <1>1, <2>1
  <1>6. SettlementTypeOK(ReceiptIds)'
    BY <1>1, <1>2, <1>5 DEF SettlementTypeOK, Request, Batch
  <1>7. \A i : In(i)' = In(i)
    BY <1>3, <1>4 DEF In
  <1>8. OneBatchPerRequest'
    <2>1. \A i \in DOMAIN requests :
            /\ Cardinality(In(i)) = IF requests[i].status = "batched" THEN 1 ELSE 0
            /\ \A a \in In(i) : a \in DOMAIN batches /\ batches[a].rail = requests[i].rail
      BY BatchedOnce DEF BatchesInv, In
    <2>2. \A i \in DOMAIN requests' :
            /\ Cardinality(In(i)') = IF requests'[i].status = "batched" THEN 1 ELSE 0
            /\ \A a \in In(i)' : batches'[a].rail = requests'[i].rail
      BY <1>2, <1>4, <1>7, <2>1
    <2> QED BY <2>2 DEF OneBatchPerRequest, In
  <1> QED BY <1>6, <1>8 DEF BatchesInv

\* Steps that leave the settlement engine alone.
LEMMA QuietBatches ==
  ASSUME BatchesInv, UNCHANGED settlementVars
  PROVE  BatchesInv'
  BY DEF BatchesInv, SettlementTypeOK, OneBatchPerRequest, settlementVars, Request, Batch

-----------------------------------------------------------------------------
(***************************************************************************)
(* What redeem and the decisions make of receipts.                         *)
(***************************************************************************)

\* The receipt redeem adds.
LEMMA RedeemedReceipt ==
  ASSUME NEW r \in ReceiptIds, NEW c \in DOMAIN claims, NEW user \in Users,
         NEW key \in Keys, NEW chain \in Chains, Redeem(r, c, user, key, chain)
  PROVE  \E st \in {"pending_approval", "processing"} :
           /\ r \notin DOMAIN receipts /\ DOMAIN receipts' = DOMAIN receipts \cup {r}
           /\ receipts'[r] = [claim |-> c, user |-> user, key |-> key,
                              amount |-> claims[c].denomination,
                              rail |-> <<claims[c].asset, chain>>, status |-> st,
                              created_at |-> now, approvals |-> <<>>, required |-> 0]
           /\ \A q \in DOMAIN receipts : receipts'[q] = receipts[q]
           /\ now' = now /\ UnderRateLimit(user)
           /\ st = "processing" => ~Large(claims[c].denomination)
           /\ \/ SubmitRequest(r, <<claims[c].asset, chain>>)
              \/ UNCHANGED settlementVars
  <1>1. ASSUME NEW st, AddReceipt(r, c, user, key, chain, st), r \notin DOMAIN receipts
        PROVE  /\ DOMAIN receipts' = DOMAIN receipts \cup {r}
               /\ receipts'[r] = [claim |-> c, user |-> user, key |-> key,
                              amount |-> claims[c].denomination,
                              rail |-> <<claims[c].asset, chain>>, status |-> st,
                              created_at |-> now, approvals |-> <<>>, required |-> 0]
               /\ \A q \in DOMAIN receipts : receipts'[q] = receipts[q]
    BY <1>1 DEF AddReceipt
  <1>2. r \notin DOMAIN receipts /\ UnderRateLimit(user)
    BY DEF Redeem
  <1>3. CASE /\ AddReceipt(r, c, user, key, chain, "pending_approval")
             /\ UNCHANGED <<claimVars, settlementVars>>
    BY <1>1, <1>2, <1>3 DEF claimVars
  <1>4. CASE /\ ~Large(claims[c].denomination)
             /\ AddReceipt(r, c, user, key, chain, "processing")
             /\ Settle(r, c, <<claims[c].asset, chain>>)
    BY <1>1, <1>2, <1>4 DEF Settle
  <1> QED BY <1>3, <1>4 DEF Redeem

\* What a decision leaves of a receipt, and what it changes.
Kept(old, new) ==
  /\ new.claim = old.claim /\ new.user = old.user /\ new.key = old.key /\ new.amount = old.amount
  /\ new.rail = old.rail /\ new.created_at = old.created_at

\* What a decision does to its receipt: approve_redemption adds one new
\* approval, reject_redemption none.
LEMMA DecidedReceipt ==
  ASSUME NEW r \in DOMAIN receipts, receipts[r] \in Receipt,
         \/ \E operator \in Operators, required \in RequiredArgs :
              ApproveRedemption(r, operator, required)
         \/ RejectRedemption(r)
  PROVE  /\ DOMAIN receipts' = DOMAIN receipts
         /\ \A q \in DOMAIN receipts : q # r => receipts'[q] = receipts[q]
         /\ receipts'[r] \in Receipt /\ Kept(receipts[r], receipts'[r])
         /\ now' = now
         /\ SubmitRequest(r, receipts[r].rail) \/ UNCHANGED settlementVars
         /\ \/ /\ receipts'[r].approvals = receipts[r].approvals
               /\ receipts'[r].status = "rejected"
            \/ \E operator \in Operators :
                 /\ NotApprovedBy(r, operator)
                 /\ receipts'[r].approvals = Append(receipts[r].approvals, operator)
                 /\ \/ receipts'[r].status = "pending_approval"
                    \/ /\ receipts'[r].status = "processing"
                       /\ Len(receipts'[r].approvals) >= receipts'[r].required
  <1>1. CASE RejectRedemption(r)
    <2>1. /\ receipts' = [receipts EXCEPT ![r].status = "rejected"]
          /\ UNCHANGED <<claimVars, settlementVars>>
      BY <1>1 DEF RejectRedemption
    <2>2. /\ DOMAIN receipts' = DOMAIN receipts
          /\ receipts'[r] = [receipts[r] EXCEPT !.status = "rejected"]
          /\ \A q \in DOMAIN receipts : q # r => receipts'[q] = receipts[q]
      BY <2>1
    <2>3. /\ receipts'[r] \in Receipt /\ Kept(receipts[r], receipts'[r])
          /\ receipts'[r].approvals = receipts[r].approvals /\ receipts'[r].status = "rejected"
      BY <2>2 DEF Receipt, Kept
    <2> QED BY <2>1, <2>2, <2>3 DEF claimVars
  <1>2. ASSUME NEW operator \in Operators, NEW required \in RequiredArgs,
               ApproveRedemption(r, operator, required)
        PROVE  /\ DOMAIN receipts' = DOMAIN receipts
               /\ \A q \in DOMAIN receipts : q # r => receipts'[q] = receipts[q]
               /\ receipts'[r] \in Receipt /\ Kept(receipts[r], receipts'[r])
               /\ now' = now
               /\ SubmitRequest(r, receipts[r].rail) \/ UNCHANGED settlementVars
               /\ NotApprovedBy(r, operator)
               /\ receipts'[r].approvals = Append(receipts[r].approvals, operator)
               /\ \/ receipts'[r].status = "pending_approval"
                  \/ /\ receipts'[r].status = "processing"
                     /\ Len(receipts'[r].approvals) >= receipts'[r].required
    <2> DEFINE list == Append(receipts[r].approvals, operator)
    <2>1. /\ list \in Seq(Operators) /\ receipts[r].status = "pending_approval"
          /\ NotApprovedBy(r, operator)
      BY <1>2, AppendProperties DEF ApproveRedemption, Undecided, Receipt
    <2>2. CASE /\ Len(list) >= required
               /\ Settle(r, receipts[r].claim, receipts[r].rail)
               /\ receipts' = [receipts EXCEPT ![r].approvals = list, ![r].status = "processing",
                                               ![r].required = required]
      <3> DEFINE once == [receipts EXCEPT ![r].approvals = list]
                 twice == [once EXCEPT ![r].status = "processing"]
      <3>1. once = [receipts EXCEPT ![r] = [receipts[r] EXCEPT !.approvals = list]]
        OBVIOUS
      <3>2. /\ twice = [once EXCEPT ![r] = [once[r] EXCEPT !.status = "processing"]]
            /\ receipts' = [twice EXCEPT ![r] = [twice[r] EXCEPT !.required = required]]
        BY <2>2
      <3> HIDE DEF list, twice
      <3>3. /\ DOMAIN once = DOMAIN receipts /\ DOMAIN twice = DOMAIN receipts
            /\ DOMAIN receipts' = DOMAIN receipts
            /\ once[r] = [receipts[r] EXCEPT !.approvals = list]
            /\ twice[r] = [once[r] EXCEPT !.status = "processing"]
            /\ receipts'[r] = [twice[r] EXCEPT !.required = required]
            /\ \A q \in DOMAIN receipts : q # r => receipts'[q] = receipts[q]
        BY <3>1, <3>2
      <3> HIDE DEF once
      <3>4. /\ once[r] \in Receipt /\ Kept(receipts[r], once[r]) /\ once[r].approvals = list
        BY <2>1, <3>3 DEF Receipt, Kept
      <3>5. /\ twice[r] \in Receipt /\ Kept(once[r], twice[r])
            /\ twice[r].approvals = list /\ twice[r].status = "processing"
        BY <3>3, <3>4 DEF Receipt, Kept
      <3>6. /\ receipts'[r] \in Receipt /\ Kept(twice[r], receipts'[r])
            /\ receipts'[r].approvals = list /\ receipts'[r].status = "processing"
            /\ receipts'[r].required = required
        BY <3>3, <3>5, RedemptionAssumption DEF Receipt, Kept
      <3>8. Kept(receipts[r], receipts'[r])
        BY <3>4, <3>5, <3>6 DEF Kept
      <3>7. now' = now /\ SubmitRequest(r, receipts[r].rail)
        BY <2>2 DEF Settle
      <3> QED BY <2>1, <2>2, <3>3, <3>6, <3>7, <3>8 DEF list
    <2>3. CASE /\ receipts' = [receipts EXCEPT ![r].approvals = list]
               /\ UNCHANGED <<claimVars, settlementVars>>
      <3>1. /\ DOMAIN receipts' = DOMAIN receipts
            /\ receipts'[r] = [receipts[r] EXCEPT !.approvals = list]
            /\ \A q \in DOMAIN receipts : q # r => receipts'[q] = receipts[q]
        BY <2>3
      <3> HIDE DEF list
      <3>2. /\ receipts'[r] \in Receipt /\ Kept(receipts[r], receipts'[r])
            /\ receipts'[r].approvals = list /\ receipts'[r].status = "pending_approval"
        BY <2>1, <3>1 DEF Receipt, Kept
      <3> QED BY <2>1, <2>3, <3>1, <3>2 DEF claimVars, list
    <2> QED BY <1>2, <2>2, <2>3 DEF ApproveRedemption
  <1> QED BY <1>1, <1>2

-----------------------------------------------------------------------------
(***************************************************************************)
(* Approvals and the rate limit are counts: of a list's elements and of    *)
(* the receipts of a window.                                               *)
(***************************************************************************)

\* Receipts are finitely many, typed, and none is from the future.
ReceiptsTyped ==
  /\ IsFiniteSet(DOMAIN receipts)
  /\ DOMAIN receipts \subseteq ReceiptIds
  /\ \A r \in DOMAIN receipts : receipts[r] \in Receipt /\ receipts[r].created_at <= now

\* No operator is in the list twice.
Counted(list) ==
  LET range == {list[k] : k \in DOMAIN list}
  IN IsFiniteSet(range) /\ Cardinality(range) = Len(list)

\* Approvals are by different operators, and a large receipt in processing has
\* as many as the call that settled it asked for.
ApprovalsOK ==
  \A r \in DOMAIN receipts :
    /\ Counted(receipts[r].approvals)
    /\ receipts[r].status = "processing" /\ Large(receipts[r].amount) =>
         Len(receipts[r].approvals) >= receipts[r].required

\* The receipts a user got in the window that ends with second t.
InWindow(user, t) ==
  {r \in DOMAIN receipts :
     receipts[r].user = user /\ receipts[r].created_at \in (t - Window + 1)..t}

\* A new operator keeps the list without repetition.
LEMMA CountedAppend ==
  ASSUME NEW list \in Seq(Operators), Counted(list), NEW o \in Operators,
         o \notin {list[k] : k \in DOMAIN list}
  PROVE  Counted(Append(list, o))
  <1> DEFINE R == {list[k] : k \in DOMAIN list}
             new == Append(list, o)
  <1>1. /\ Len(list) \in Nat /\ DOMAIN list = 1..Len(list)
        /\ Len(new) = Len(list) + 1 /\ DOMAIN new = 1..(Len(list) + 1)
        /\ \A k \in 1..Len(list) : new[k] = list[k]
        /\ new[Len(list) + 1] = o
    BY AppendProperties, LenProperties
  <1> HIDE DEF new
  <1>2. {new[k] : k \in DOMAIN new} = R \cup {o}
    <2>1. ASSUME NEW k \in DOMAIN new PROVE new[k] \in R \cup {o}
      BY <1>1
    <2>2. ASSUME NEW x \in R \cup {o} PROVE \E k \in DOMAIN new : x = new[k]
      <3>1. CASE x = o
        BY <1>1, <3>1
      <3>2. CASE x \in R
        <4>1. PICK k \in DOMAIN list : x = list[k]
          BY <3>2
        <4> QED BY <1>1, <4>1
      <3> QED BY <3>1, <3>2
    <2> QED BY <2>1, <2>2
  <1>3. IsFiniteSet(R) /\ Cardinality(R) = Len(list) /\ o \notin R
    BY DEF Counted
  <1> HIDE DEF R
  <1>4. IsFiniteSet(R \cup {o}) /\ Cardinality(R \cup {o}) = Len(list) + 1
    BY <1>1, <1>3, FS_AddElement
  <1>5. Counted(new)
    BY <1>1, <1>2, <1>4 DEF Counted
  <1> QED BY <1>5 DEF new

\* The empty list.
LEMMA CountedNone == Counted(<<>>)
  <1>1. {<<>>[k] : k \in DOMAIN <<>>} = {}
    OBVIOUS
  <1> QED BY <1>1, FS_EmptySet DEF Counted

\* Deciding a receipt moves it into no other window.
LEMMA WindowStill ==
  ASSUME RateLimitHolds, ReceiptsTyped, DOMAIN receipts' = DOMAIN receipts, now' = now,
         \A r \in DOMAIN receipts : /\ receipts'[r].user = receipts[r].user
                                    /\ receipts'[r].created_at = receipts[r].created_at
  PROVE  RateLimitHolds'
  <1>1. \A user, t : InWindow(user, t)' = InWindow(user, t)
    BY DEF InWindow
  <1>2. \A user \in Users, t \in 0..now : Cardinality(InWindow(user, t)) <= RateLimit
    BY DEF RateLimitHolds, InWindow
  <1>3. \A user \in Users, t \in 0..now' : Cardinality(InWindow(user, t)') <= RateLimit
    BY <1>1, <1>2
  <1> QED BY <1>3 DEF RateLimitHolds, InWindow

\* When a second passes, the newest window holds no receipt the one before it
\* did not: no receipt is from the second that just began.
LEMMA WindowMoves ==
  ASSUME RateLimitHolds, ReceiptsTyped, now \in Nat, receipts' = receipts, now' = now + 1
  PROVE  RateLimitHolds'
  <1>1. \A user, t : InWindow(user, t)' = InWindow(user, t)
    BY DEF InWindow
  <1>2. \A user \in Users, t \in 0..now : Cardinality(InWindow(user, t)) <= RateLimit
    BY DEF RateLimitHolds, InWindow
  <1>3. ASSUME NEW user \in Users, NEW t \in 0..now'
        PROVE  Cardinality(InWindow(user, t)') <= RateLimit
    <2>1. CASE t \in 0..now
      BY <1>1, <1>2, <2>1
    <2>2. CASE t = now + 1
      <3>1. InWindow(user, now + 1) \subseteq InWindow(user, now)
        BY RedemptionAssumption DEF InWindow, ReceiptsTyped, Receipt
      <3>2. IsFiniteSet(InWindow(user, now))
        BY FS_Subset DEF InWindow, ReceiptsTyped
      <3>3. /\ Cardinality(InWindow(user, now + 1)) <= Cardinality(InWindow(user, now))
            /\ Cardinality(InWindow(user, now + 1)) \in Nat
            /\ Cardinality(InWindow(user, now)) \in Nat
        BY <3>1, <3>2, FS_Subset, FS_CardinalityType
      <3>4. Cardinality(InWindow(user, now)) <= RateLimit
        BY <1>2
      <3>5. InWindow(user, t)' = InWindow(user, now + 1)
        BY <1>1, <2>2
      <3>6. Cardinality(InWindow(user, now + 1)) <= RateLimit
        BY <3>3, <3>4, RedemptionAssumption
      <3> QED BY <3>5, <3>6
    <2> QED BY <2>1, <2>2
  <1> QED BY <1>3 DEF RateLimitHolds, InWindow

\* redeem adds to the newest window only, and counted that one before.
LEMMA WindowFills ==
  ASSUME RateLimitHolds, ReceiptsTyped, now \in Nat, now' = now, NEW r, NEW user \in Users,
         r \notin DOMAIN receipts, DOMAIN receipts' = DOMAIN receipts \cup {r},
         receipts'[r].user = user, receipts'[r].created_at = now,
         \A q \in DOMAIN receipts : receipts'[q] = receipts[q],
         UnderRateLimit(user)
  PROVE  RateLimitHolds'
  <1>1. \A u \in Users, t \in 0..now :
          /\ Cardinality(InWindow(u, t)) <= RateLimit
          /\ Cardinality(InWindow(u, t)) \in Nat /\ IsFiniteSet(InWindow(u, t))
    <2>1. \A u, t : InWindow(u, t) \in SUBSET DOMAIN receipts
      BY DEF InWindow
    <2>2. \A u, t : IsFiniteSet(InWindow(u, t))
      BY <2>1, FS_Subset DEF ReceiptsTyped
    <2>3. \A u, t : Cardinality(InWindow(u, t)) \in Nat
      BY <2>2, FS_CardinalityType
    <2>4. \A u \in Users, t \in 0..now : Cardinality(InWindow(u, t)) <= RateLimit
      BY DEF RateLimitHolds, InWindow
    <2> QED BY <2>2, <2>3, <2>4
  <1>2. ASSUME NEW u \in Users, NEW t \in 0..now
        PROVE  Cardinality(InWindow(u, t)') <= RateLimit
    <2>1. CASE u = user /\ t = now
      <3>1. RecentReceipts(user) = InWindow(user, now)
        <4>1. \A q \in DOMAIN receipts :
                receipts[q].created_at \in Nat /\ receipts[q].created_at <= now
          BY DEF ReceiptsTyped, Receipt
        <4>2. Window \in Nat
          BY RedemptionAssumption
        <4>3. \A q \in DOMAIN receipts :
                receipts[q].created_at > now - Window
                  <=> receipts[q].created_at \in (now - Window + 1)..now
          BY <4>1, <4>2
        <4> QED BY <4>3 DEF RecentReceipts, InWindow
      <3>2. Cardinality(InWindow(user, now)) < RateLimit
        BY <3>1 DEF UnderRateLimit
      <3>3. InWindow(u, t)' \subseteq InWindow(user, now) \cup {r}
        BY <2>1 DEF InWindow
      <3>4. r \notin InWindow(user, now)
        BY DEF InWindow
      <3>5. /\ IsFiniteSet(InWindow(user, now) \cup {r})
            /\ Cardinality(InWindow(user, now) \cup {r}) = Cardinality(InWindow(user, now)) + 1
        BY <1>1, <2>1, <3>4, FS_AddElement
      <3>6. /\ Cardinality(InWindow(u, t)') <= Cardinality(InWindow(user, now) \cup {r})
            /\ IsFiniteSet(InWindow(u, t)')
        BY <3>3, <3>5, FS_Subset
      <3>7. Cardinality(InWindow(u, t)') \in Nat /\ Cardinality(InWindow(user, now)) \in Nat
        BY <1>1, <2>1, <3>6, FS_CardinalityType
      <3>8. RateLimit \in Nat
        BY RedemptionAssumption
      <3> HIDE DEF InWindow
      <3> QED BY <3>2, <3>5, <3>6, <3>7, <3>8
    <2>2. CASE ~(u = user /\ t = now)
      <3>1. InWindow(u, t)' = InWindow(u, t)
        BY <2>2, RedemptionAssumption DEF InWindow
      <3> QED BY <1>1, <3>1
    <2> QED BY <2>1, <2>2
  <1>3. \A u \in Users, t \in 0..now' : Cardinality(InWindow(u, t)') <= RateLimit
    BY <1>2
  <1> QED BY <1>3 DEF RateLimitHolds, InWindow

\* The receipts' part of the invariant.
ReceiptsInv == ReceiptsTyped /\ ApprovalsOK /\ RateLimitHolds

\* redeem keeps it.
LEMMA RedeemReceipts ==
  ASSUME ValueInv, ReceiptsInv, NEW r \in ReceiptIds, NEW c \in DOMAIN claims, NEW user \in Users,
         NEW key \in Keys, NEW chain \in Chains, Redeem(r, c, user, key, chain)
  PROVE  ReceiptsInv'
  <1>1. PICK st \in {"pending_approval", "processing"} :
           /\ r \notin DOMAIN receipts /\ DOMAIN receipts' = DOMAIN receipts \cup {r}
           /\ receipts'[r] = [claim |-> c, user |-> user, key |-> key,
                              amount |-> claims[c].denomination,
                              rail |-> <<claims[c].asset, chain>>, status |-> st,
                              created_at |-> now, approvals |-> <<>>, required |-> 0]
           /\ \A q \in DOMAIN receipts : receipts'[q] = receipts[q]
           /\ now' = now /\ UnderRateLimit(user)
           /\ st = "processing" => ~Large(claims[c].denomination)
           /\ \/ SubmitRequest(r, <<claims[c].asset, chain>>)
              \/ UNCHANGED settlementVars
    BY RedeemedReceipt
  <1>2. c \in ClaimIds /\ claims[c].denomination \in Int /\ claims[c].asset \in Assets /\
          now \in Nat
    BY DEF ValueInv, ClaimTypeOK, Claim
  <1>3. receipts'[r] \in Receipt
    BY <1>1, <1>2, RedemptionAssumption DEF Receipt
  <1>4. /\ receipts'[r].user = user /\ receipts'[r].created_at = now
        /\ receipts'[r].approvals = <<>> /\ receipts'[r].status = st
        /\ receipts'[r].amount = claims[c].denomination
    BY <1>1
  <1>5. ReceiptsTyped'
    <2>1. IsFiniteSet(DOMAIN receipts')
      BY <1>1, FS_AddElement DEF ReceiptsInv, ReceiptsTyped
    <2>2. \A q \in DOMAIN receipts' : receipts'[q] \in Receipt /\ receipts'[q].created_at <= now'
      BY <1>1, <1>2, <1>3, <1>4 DEF ReceiptsInv, ReceiptsTyped
    <2> QED BY <1>1, <2>1, <2>2 DEF ReceiptsInv, ReceiptsTyped, Receipt
  <1>6. ApprovalsOK'
    BY <1>1, <1>4, CountedNone DEF ReceiptsInv, ApprovalsOK, Large
  <1>7. RateLimitHolds'
    BY <1>1, <1>2, <1>4, WindowFills DEF ReceiptsInv
  <1> QED BY <1>5, <1>6, <1>7 DEF ReceiptsInv

\* approve_redemption and reject_redemption keep it.
LEMMA DecideReceipts ==
  ASSUME ValueInv, ReceiptsInv, NEW r \in DOMAIN receipts,
         \/ \E operator \in Operators, required \in RequiredArgs :
              ApproveRedemption(r, operator, required)
         \/ RejectRedemption(r)
  PROVE  ReceiptsInv'
  <1>1. receipts[r] \in Receipt /\ receipts[r].created_at <= now
    BY DEF ReceiptsInv, ReceiptsTyped
  <1>2. /\ DOMAIN receipts' = DOMAIN receipts
        /\ \A q \in DOMAIN receipts : q # r => receipts'[q] = receipts[q]
        /\ receipts'[r] \in Receipt /\ Kept(receipts[r], receipts'[r])
        /\ now' = now
        /\ \/ /\ receipts'[r].approvals = receipts[r].approvals
              /\ receipts'[r].status = "rejected"
           \/ \E operator \in Operators :
                /\ NotApprovedBy(r, operator)
                /\ receipts'[r].approvals = Append(receipts[r].approvals, operator)
                /\ \/ receipts'[r].status = "pending_approval"
                   \/ /\ receipts'[r].status = "processing"
                      /\ Len(receipts'[r].approvals) >= receipts'[r].required
    BY <1>1, DecidedReceipt
  <1>3. ReceiptsTyped'
    BY <1>1, <1>2 DEF ReceiptsInv, ReceiptsTyped, Kept, Receipt
  <1>4. ApprovalsOK'
    <2>1. /\ Counted(receipts'[r].approvals)
          /\ receipts'[r].status = "processing" =>
               Len(receipts'[r].approvals) >= receipts'[r].required
      <3>1. Counted(receipts[r].approvals) /\ receipts[r].approvals \in Seq(Operators)
        BY <1>1 DEF ReceiptsInv, ApprovalsOK, Receipt
      <3>2. CASE /\ receipts'[r].approvals = receipts[r].approvals
                 /\ receipts'[r].status = "rejected"
        BY <3>1, <3>2
      <3>3. ASSUME NEW operator \in Operators, NotApprovedBy(r, operator),
                   receipts'[r].approvals = Append(receipts[r].approvals, operator)
            PROVE  Counted(receipts'[r].approvals)
        BY <3>1, <3>3, CountedAppend DEF NotApprovedBy
      <3> QED BY <1>2, <3>2, <3>3
    <2>2. ASSUME NEW q \in DOMAIN receipts
          PROVE  /\ Counted(receipts'[q].approvals)
                 /\ receipts'[q].status = "processing" /\ Large(receipts'[q].amount) =>
                      Len(receipts'[q].approvals) >= receipts'[q].required
      <3>1. CASE q = r
        BY <2>1, <3>1
      <3>2. CASE q # r
        BY <1>2, <3>2 DEF ReceiptsInv, ApprovalsOK
      <3> QED BY <3>1, <3>2
    <2> QED BY <1>2, <2>2 DEF ApprovalsOK, Large, Counted
  <1>5. RateLimitHolds'
    <2>1. \A q \in DOMAIN receipts : /\ receipts'[q].user = receipts[q].user
                                     /\ receipts'[q].created_at = receipts[q].created_at
      BY <1>2 DEF Kept
    <2> QED BY <1>2, <2>1, WindowStill DEF ReceiptsInv
  <1> QED BY <1>3, <1>4, <1>5 DEF ReceiptsInv

\* Steps that leave receipts and clock alone.
LEMMA QuietReceipts ==
  ASSUME ReceiptsInv, UNCHANGED receipts, now' = now
  PROVE  ReceiptsInv'
  <1>1. RateLimitHolds'
    BY WindowStill DEF ReceiptsInv
  <1>2. ReceiptsTyped'
    BY DEF ReceiptsInv, ReceiptsTyped, Receipt
  <1>3. ApprovalsOK'
    BY DEF ReceiptsInv, ApprovalsOK, Large
  <1> QED BY <1>1, <1>2, <1>3 DEF ReceiptsInv

\* The claim-note service leaves the receipts alone, but the clock moves with
\* it.
LEMMA ClaimReceipts ==
  ASSUME ValueInv, ReceiptsInv, ClaimNext, UNCHANGED receipts
  PROVE  ReceiptsInv'
  <1>1. CASE now' = now
    BY <1>1, QuietReceipts
  <1>2. CASE Tick
    <2>1. now \in Nat /\ now' = now + 1
      BY <1>2 DEF Tick, ValueInv, ClaimTypeOK
    <2>2. RateLimitHolds'
      BY <2>1, WindowMoves DEF ReceiptsInv
    <2>3. ReceiptsTyped'
      BY <2>1 DEF ReceiptsInv, ReceiptsTyped, Receipt
    <2> QED BY <2>2, <2>3 DEF ReceiptsInv, ApprovalsOK, Counted, Large
  <1> QED BY <1>1, <1>2 DEF ClaimNext, CreateNext, ClaimCall, CreateClaim, TransferClaim,
                           SplitClaim, MergeFails, MergeClaims, BurnClaim, RevokeClaim

-----------------------------------------------------------------------------
(***************************************************************************)
(* The theorems.                                                           *)
(***************************************************************************)

\* The inductive invariant of the counts.
TypeInv == ValueInv /\ BatchesInv /\ ReceiptsInv

\* The redemption service keeps batches and receipts.
LEMMA RedemptionTypes ==
  ASSUME TypeInv, RedemptionNext
  PROVE  BatchesInv' /\ ReceiptsInv'
  <1>0. SettlementTypeOK(ReceiptIds) /\ ReceiptsInv /\ ValueInv /\ BatchesInv
    BY DEF TypeInv, BatchesInv
  <1>1. ASSUME NEW r \in ReceiptIds, NEW c \in DOMAIN claims, NEW user \in Users,
               NEW key \in Keys, NEW chain \in Chains, Redeem(r, c, user, key, chain)
        PROVE  BatchesInv' /\ ReceiptsInv'
    <2>1. ReceiptsInv'
      BY <1>0, <1>1, RedeemReceipts
    <2>2. SubmitRequest(r, <<claims[c].asset, chain>>) \/ UNCHANGED settlementVars
      BY <1>1, RedeemedReceipt
    <2>3. <<claims[c].asset, chain>> \in Rails
      BY <1>0, RedemptionAssumption DEF ValueInv, ClaimTypeOK, Claim
    <2> QED BY <1>0, <2>1, <2>2, <2>3, SubmitBatches, QuietBatches
  <1>2. ASSUME NEW r \in DOMAIN receipts,
               \/ \E operator \in Operators, required \in RequiredArgs :
                    ApproveRedemption(r, operator, required)
               \/ RejectRedemption(r)
        PROVE  BatchesInv' /\ ReceiptsInv'
    <2>1. ReceiptsInv'
      BY <1>0, <1>2, DecideReceipts
    <2>2. receipts[r] \in Receipt /\ r \in ReceiptIds /\ receipts[r].rail \in Rails
      BY <1>0 DEF ReceiptsInv, ReceiptsTyped, Receipt
    <2>3. SubmitRequest(r, receipts[r].rail) \/ UNCHANGED settlementVars
      BY <1>2, <2>2, DecidedReceipt
    <2> QED BY <1>0, <2>1, <2>2, <2>3, SubmitBatches, QuietBatches
  <1> QED BY <1>1, <1>2 DEF RedemptionNext

\* The settlement engine keeps its batches.
LEMMA SettlementTypes ==
  ASSUME BatchesInv, SettlementNext
  PROVE  BatchesInv'
  <1>1. {"approved", "broadcasting", "completed"} \subseteq BatchStates
    BY DEF BatchStates
  <1>2. ASSUME NEW rail \in Rails, SubmitDirectly(rail) PROVE BatchesInv'
    BY <1>2, SubmitBatches DEF SubmitDirectly
  <1> QED BY <1>1, <1>2, BuildBatches, StatusBatches
          DEF SettlementNext, ApproveBatch, BroadcastBatch, ConfirmBatch

\* Every step keeps the invariant.
LEMMA TypeInvStep == TypeInv /\ [Next]_vars => TypeInv'
  <1> SUFFICES ASSUME TypeInv, [Next]_vars PROVE TypeInv'
    OBVIOUS
  <1>1. ValueInv'
    BY ValueInvStep DEF TypeInv
  <1>2. CASE UNCHANGED vars
    BY <1>1, <1>2, QuietBatches, QuietReceipts DEF vars, claimVars, TypeInv
  <1>3. CASE ClaimNext /\ UNCHANGED <<settlementVars, receipts>>
    BY <1>1, <1>3, QuietBatches, ClaimReceipts DEF TypeInv
  <1>4. CASE SettlementNext /\ UNCHANGED <<claimVars, receipts>>
    BY <1>1, <1>4, SettlementTypes, QuietReceipts DEF TypeInv, claimVars
  <1>5. CASE RedemptionNext
    BY <1>1, <1>5, RedemptionTypes DEF TypeInv
  <1> QED BY <1>2, <1>3, <1>4, <1>5 DEF Next

\* The services start empty.
LEMMA InitTypeInv == Init => TypeInv
  <1> SUFFICES ASSUME Init PROVE TypeInv
    OBVIOUS
  <1>1. requests = <<>> /\ batches = <<>> /\ DOMAIN receipts = {} /\ now = 0
    BY DEF Init, ClaimInit, SettlementInit
  <1>2. BatchesInv
    BY <1>1 DEF BatchesInv, SettlementTypeOK, OneBatchPerRequest
  <1>3. ReceiptsTyped /\ ApprovalsOK
    BY <1>1, FS_EmptySet DEF ReceiptsTyped, ApprovalsOK
  <1>4. RateLimitHolds
    <2>1. \A user, t : InWindow(user, t) = {}
      BY <1>1 DEF InWindow
    <2>2. \A user \in Users, t \in 0..now : Cardinality(InWindow(user, t)) <= RateLimit
      BY <2>1, FS_EmptySet, RedemptionAssumption
    <2> QED BY <2>2 DEF RateLimitHolds, InWindow
  <1> QED BY <1>2, <1>3, <1>4, InitValueInv DEF TypeInv, ReceiptsInv

\* Every value the services keep is of the type the code gives it, the sums
\* merge_claims computes included.
THEOREM TypeCorrect == Spec => []TypeOK
  <1>1. TypeInv => TypeOK
    BY DEF TypeInv, ValueInv, BatchesInv, ReceiptsInv, ReceiptsTyped, TypeOK
  <1> QED BY <1>1, InitTypeInv, TypeInvStep, PTL DEF Spec

\* A request marked batched is in one batch, of its own rail, and no other
\* request is in any: it cannot be paid through two.
THEOREM BatchesDisjoint == Spec => []OneBatchPerRequest
  <1>1. TypeInv => OneBatchPerRequest
    BY DEF TypeInv, BatchesInv
  <1> QED BY <1>1, InitTypeInv, TypeInvStep, PTL DEF Spec

\* In no window of an hour, wherever it is placed and however the calls are
\* spaced, does a user get more receipts than _RATE_LIMIT_PER_HOUR.
THEOREM RateLimited == Spec => []RateLimitHolds
  <1>1. TypeInv => RateLimitHolds
    BY DEF TypeInv, ReceiptsInv
  <1> QED BY <1>1, InitTypeInv, TypeInvStep, PTL DEF Spec

\* A large redemption is settled only with the approvals of as many different
\* operators as the settling call required.
THEOREM ApprovalsCounted == Spec => []ApprovalsReached
  <1>1. TypeInv /\ FlowInv => ApprovalsReached
    <2> SUFFICES ASSUME TypeInv, FlowInv, NEW i \in Paying,
                        Large(receipts[requests[i].receipt].amount)
                 PROVE  LET receipt == receipts[requests[i].receipt]
                            approvers == {receipt.approvals[k] : k \in DOMAIN receipt.approvals}
                        IN Cardinality(approvers) >= receipt.required
      BY DEF ApprovalsReached
    <2>1. /\ requests[i].receipt \in DOMAIN receipts
          /\ receipts[requests[i].receipt].status = "processing"
      BY DEF FlowInv, RequestsOK
    <2> QED BY <2>1 DEF TypeInv, ReceiptsInv, ApprovalsOK, Counted
  <1> QED BY <1>1, InitFlowInv, FlowInvStep, InitTypeInv, TypeInvStep, PTL DEF Spec
=============================================================================
