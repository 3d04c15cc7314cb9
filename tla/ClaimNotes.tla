----------------------------- MODULE ClaimNotes -----------------------------
(***************************************************************************)
(* backend/services/claimnote_service.py: the off-chain claim notes.  The  *)
(* dictionary _claims is the function `claims`; an id that split or merge  *)
(* deletes from it is remembered in `deleted`, because uuid4 never repeats *)
(* one.  The service runs on one event loop and none of its methods        *)
(* awaits: each call is one step.  A call that raises before writing is no *)
(* step; merge_claims also raises after deleting, and that is a step.      *)
(*                                                                         *)
(* Kept out of the record because no method reads it: the PIN hash and     *)
(* salt (redemption never compares the PIN), the nullifier (a fresh random *)
(* value), replay_nonce, version, compliance_state, redemption_policy.     *)
(***************************************************************************)
EXTENDS Integers, FiniteSets, Sequences, Functions

CONSTANTS
  ClaimIds,        \* uuids a claim can get
  Users,           \* user ids
  System,          \* the issuer merge_claims writes
  Assets,          \* asset types
  Denominations,   \* integers accepted as an amount: the code has no lower bound
  ExpiryMinutes,   \* values passed for expiry_minutes, 0 for no expiry
  None,            \* Python's None
  Minute,          \* seconds in a minute
  MaxMerge,        \* longest list passed to merge_claims (bound)
  Horizon          \* last second the clock is followed to (bound)

ASSUME ClaimAssumption ==
  /\ IsFiniteSet(ClaimIds)
  /\ System \notin Users
  /\ Denominations \subseteq Int
  /\ ExpiryMinutes \subseteq Nat
  /\ None \notin Int
  /\ Minute \in Nat \ {0}
  /\ MaxMerge \in Nat
  /\ Horizon \in Nat

VARIABLES
  claims,     \* _claims
  deleted,    \* ids that were in _claims and are no more
  now,        \* datetime.now(timezone.utc).timestamp()
  issued,     \* history: value created by create_claim, per asset
  lost,       \* history: value deleted by merges that raised, per asset
  retired     \* history: claims burned by burn_claim called on its own

claimVars == <<claims, deleted, now, issued, lost, retired>>

ClaimStates == {"created", "transferred", "burned", "revoked"}

Claim == [issuer : Users \cup {System}, asset : Assets, denomination : Int,
          owner : Users, expiry : Nat \cup {None}, state : ClaimStates]

ClaimTypeOK ==
  /\ DOMAIN claims \subseteq ClaimIds
  /\ \A c \in DOMAIN claims : claims[c] \in Claim
  /\ deleted \subseteq ClaimIds
  /\ DOMAIN claims \cap deleted = {}
  /\ now \in Nat
  /\ issued \in [Assets -> Int]
  /\ lost \in [Assets -> Int]
  /\ retired \subseteq ClaimIds

ClaimInit ==
  /\ claims = [c \in {} |-> c]
  /\ deleted = {}
  /\ now = 0
  /\ issued = [a \in Assets |-> 0]
  /\ lost = [a \in Assets |-> 0]
  /\ retired = {}

-----------------------------------------------------------------------------
\* Sum of the denominations of the claims ids.
Value(f, ids) == SumFunction([c \in ids |-> f[c].denomination])

\* Mutant of FreshIds: the id of a deleted claim is used again.
ReusedIds == ClaimIds \ DOMAIN claims

FreshIds == ClaimIds \ (DOMAIN claims \cup deleted)

\* _claims without the ids gone, and with the claims new.
Replaced(gone, new) ==
  [c \in (DOMAIN claims \ gone) \cup DOMAIN new |->
     IF c \in DOMAIN new THEN new[c] ELSE claims[c]]

\* `if expiry_minutes`: neither None nor zero sets an expiry.
NewClaim(issuer, asset, denomination, owner, expiry_minutes) ==
  [issuer |-> issuer, asset |-> asset, denomination |-> denomination,
   owner |-> owner, state |-> "created",
   expiry |-> IF expiry_minutes \in {None, 0} THEN None
              ELSE now + expiry_minutes * Minute]

Expired(c) == claims[c].expiry # None /\ now > claims[c].expiry

CreateClaim(id, issuer, asset, denomination, owner, minutes) ==
  /\ id \in FreshIds
  /\ claims' = Replaced({}, [c \in {id} |->
                              NewClaim(issuer, asset, denomination, owner, minutes)])
  /\ issued' = [issued EXCEPT ![asset] = @ + denomination]
  /\ UNCHANGED <<deleted, now, lost, retired>>

\* Mutant of Transferable: a claim changes hands again.
Unspent(c) == claims[c].state \in {"created", "transferred"}

\* A claim is transferred once: the state "transferred" is not transferable.
Transferable(c) == claims[c].state = "created"

TransferClaim(c, to_user) ==
  /\ c \in DOMAIN claims
  /\ Transferable(c)
  /\ ~Expired(c)
  /\ claims' = [claims EXCEPT ![c].owner = to_user, ![c].state = "transferred"]
  /\ UNCHANGED <<deleted, now, issued, lost, retired>>

\* Mutant of SumsTo: the parts may fall short of the whole.
SumsUpTo(parts, whole) == SumFunction(parts) <= whole

SumsTo(parts, whole) == SumFunction(parts) = whole

\* split_claim: no owner and no expiry check.  The parent's expiry, a time in
\* seconds, is handed to create_claim as a number of minutes.
SplitClaim(c, parts) ==
  /\ c \in DOMAIN claims
  /\ claims[c].state = "created"
  /\ DOMAIN parts \subseteq FreshIds
  /\ SumsTo(parts, claims[c].denomination)
  /\ claims' = Replaced({c}, [p \in DOMAIN parts |->
                 NewClaim(claims[c].issuer, claims[c].asset, parts[p],
                          claims[c].owner, claims[c].expiry)])
  /\ deleted' = deleted \cup {c}
  /\ UNCHANGED <<now, issued, lost, retired>>

\* The loop of merge_claims is still going after the first k ids: each was
\* in the dictionary, created, of the first one's asset, and not met before.
MergesThrough(ids, k) ==
  \A i \in 1..k :
    /\ ids[i] \in DOMAIN claims
    /\ claims[ids[i]].state = "created"
    /\ claims[ids[i]].asset = claims[ids[1]].asset
    /\ \A j \in 1..(i - 1) : ids[j] # ids[i]

\* The ids the loop deletes, before it ends or raises.
MergedIds(ids) == {ids[k] : k \in {j \in DOMAIN ids : MergesThrough(ids, j)}}

MergeClaims(ids, id, new_owner) ==
  /\ MergesThrough(ids, Len(ids))
  /\ id \in FreshIds
  /\ claims' = Replaced(MergedIds(ids), [c \in {id} |->
                 NewClaim(System, claims[ids[1]].asset,
                          Value(claims, MergedIds(ids)), new_owner, None)])
  /\ deleted' = deleted \cup MergedIds(ids)
  /\ UNCHANGED <<now, issued, lost, retired>>

\* merge_claims raises at the first bad id: what it already deleted is gone.
MergeFails(ids) ==
  /\ ~MergesThrough(ids, Len(ids))
  /\ MergedIds(ids) # {}
  /\ claims' = Replaced(MergedIds(ids), [c \in {} |-> c])
  /\ deleted' = deleted \cup MergedIds(ids)
  /\ lost' = [lost EXCEPT ![claims[ids[1]].asset] = @ + Value(claims, MergedIds(ids))]
  /\ UNCHANGED <<now, issued, retired>>

\* Mutant of Burned: the claim is left as it is.
Unburned(c) == claims

\* burn_claim has no check but existence: a revoked claim burns too.
Burned(c) == [claims EXCEPT ![c].state = "burned"]

\* burn_claim called by itself, not by a redemption.
BurnClaim(c) ==
  /\ c \in DOMAIN claims
  /\ claims' = Burned(c)
  /\ retired' = retired \cup {c}
  /\ UNCHANGED <<deleted, now, issued, lost>>

Revocable(c) == claims[c].state \notin {"burned", "revoked"}

RevokeClaim(c, issuer_id) ==
  /\ c \in DOMAIN claims
  /\ claims[c].issuer = issuer_id
  /\ Revocable(c)
  /\ claims' = [claims EXCEPT ![c].state = "revoked"]
  /\ UNCHANGED <<deleted, now, issued, lost, retired>>

Tick ==
  /\ now < Horizon
  /\ now' = now + 1
  /\ UNCHANGED <<claims, deleted, issued, lost, retired>>

ClaimLists == UNION {[1..k -> ClaimIds] : k \in 1..MaxMerge}

CreateNext(assets, amounts, minutes) ==
  \E id \in ClaimIds, issuer, owner \in Users, asset \in assets, d \in amounts, m \in minutes :
    CreateClaim(id, issuer, asset, d, owner, m)

\* What happens to the claims there are.
ClaimCall ==
  \/ \E c \in DOMAIN claims :
       \/ \E to_user \in Users : TransferClaim(c, to_user)
       \/ \E ids \in SUBSET FreshIds : \E parts \in [ids -> Denominations] : SplitClaim(c, parts)
       \/ BurnClaim(c)
       \/ \E issuer_id \in Users \cup {System} : RevokeClaim(c, issuer_id)
  \/ \E ids \in ClaimLists :
       \/ MergeFails(ids)
       \/ \E id \in ClaimIds, owner \in Users : MergeClaims(ids, id, owner)

ClaimNext ==
  \/ CreateNext(Assets, Denominations, ExpiryMinutes)
  \/ ClaimCall
  \/ Tick

-----------------------------------------------------------------------------
(***************************************************************************)
(* Properties of the claims.                                               *)
(***************************************************************************)

\* Splitting and merging neither create nor destroy value, except that a
\* merge that raises half-way destroys what it had consumed: for each asset
\* the claims on record and that loss add up to what was issued.
ValueConserved ==
  \A a \in Assets :
    Value(claims, {c \in DOMAIN claims : claims[c].asset = a}) + lost[a] = issued[a]

\* Once out of "created" a claim has the owner and the value it will keep,
\* and stays on record: no transfer, split or merge reaches it again.
HandedOverOnce ==
  [][\A c \in DOMAIN claims :
       claims[c].state # "created" =>
         /\ c \in DOMAIN claims'
         /\ [claims'[c] EXCEPT !.state = claims[c].state] = claims[c]
         /\ claims[c].state = "burned" => claims'[c].state = "burned"]_claimVars
=============================================================================
