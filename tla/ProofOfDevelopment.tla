------------------------- MODULE ProofOfDevelopment -------------------------
(***************************************************************************)
(* backend/services/proof_of_development.py: a push becomes an emission of *)
(* MEMBRA through tests, a security scan, community votes and governance.  *)
(* The quorum a proof carries is the default of its dataclass; the one the *)
(* service was configured with only appears in messages.  A proof that is  *)
(* tested and scanned again after its execution keeps its votes; one more  *)
(* of them brings it back to governance, which may authorise it again.     *)
(***************************************************************************)
EXTENDS Integers, FiniteSets

CONSTANTS
  ProofIds,            \* uuids a proof can get
  Voters,              \* names passed as voter
  CommunityRequired,   \* community_required of a proof
  Emissions,           \* integers passed to approve_governance
  EmissionCap,         \* emission_cap
  MaxScans             \* clean scans of a proof in a behaviour (bound)

ASSUME PodAssumption ==
  /\ CommunityRequired \in Nat
  /\ Emissions \subseteq Int
  /\ EmissionCap \in Nat
  /\ MaxScans \in Nat

VARIABLES
  devProofs,   \* _proofs
  votes,       \* _votes
  scans,       \* history: clean scans of each proof
  authorised   \* history: the sum of the emissions authorised for each proof

podVars == <<devProofs, votes, scans, authorised>>

Phases == {"push", "tests", "security_scan", "community_review", "governance", "executed",
           "rejected"}

DevProof == [phase : Phases, testsPassed : BOOLEAN, securityClean : BOOLEAN,
             communityVotes : Nat, approved : BOOLEAN, emission : Int]

PodTypeOK ==
  /\ DOMAIN devProofs \subseteq ProofIds
  /\ \A p \in DOMAIN devProofs : devProofs[p] \in DevProof
  /\ votes \in [ProofIds -> SUBSET Voters]
  /\ scans \in [ProofIds -> Nat]
  /\ authorised \in [ProofIds -> Int]

PodInit ==
  /\ devProofs = [p \in {} |-> p]
  /\ votes = [p \in ProofIds |-> {}]
  /\ scans = [p \in ProofIds |-> 0]
  /\ authorised = [p \in ProofIds |-> 0]

-----------------------------------------------------------------------------
RecordPush(p) ==
  /\ p \notin DOMAIN devProofs
  /\ devProofs' = [q \in DOMAIN devProofs \cup {p} |->
       IF q = p THEN [phase |-> "push", testsPassed |-> FALSE, securityClean |-> FALSE,
                      communityVotes |-> 0, approved |-> FALSE, emission |-> 0]
       ELSE devProofs[q]]
  /\ UNCHANGED <<votes, scans, authorised>>

\* Tests are taken in any phase, after the execution too, and clear no vote.
RecordTests(p, passed) ==
  /\ devProofs' = [devProofs EXCEPT ![p].testsPassed = passed,
                     ![p].phase = IF passed THEN "tests" ELSE "rejected"]
  /\ UNCHANGED <<votes, scans, authorised>>

RecordSecurity(p, clean) ==
  /\ devProofs[p].phase = "tests"
  /\ devProofs' = [devProofs EXCEPT ![p].securityClean = clean,
                     ![p].phase = IF clean THEN "security_scan" ELSE "rejected"]
  /\ scans' = IF clean THEN [scans EXCEPT ![p] = @ + 1] ELSE scans
  /\ scans'[p] <= MaxScans
  /\ UNCHANGED <<votes, authorised>>

\* Mutant of MayVote: votes are taken before the tests and the scan.
MayAlwaysVote(p) == TRUE

MayVote(p) == devProofs[p].phase \in {"security_scan", "community_review"}

CastVote(p, voter, approve) ==
  /\ MayVote(p)
  /\ votes' = [votes EXCEPT ![p] = IF approve THEN @ \cup {voter} ELSE @ \ {voter}]
  /\ devProofs' = [devProofs EXCEPT
       ![p].communityVotes = Cardinality(votes'[p]),
       ![p].phase = IF Cardinality(votes'[p]) >= CommunityRequired THEN "governance"
                    ELSE "community_review"]
  /\ UNCHANGED <<scans, authorised>>

ApproveGovernance(p, emission) ==
  /\ devProofs[p].phase = "governance"
  /\ emission <= EmissionCap
  /\ devProofs' = [devProofs EXCEPT ![p].approved = TRUE, ![p].emission = emission,
                     ![p].phase = "executed"]
  /\ authorised' = [authorised EXCEPT ![p] = @ + emission]
  /\ UNCHANGED <<votes, scans>>

\* From any phase; what was approved stays approved.
RejectGovernance(p) ==
  /\ devProofs' = [devProofs EXCEPT ![p].phase = "rejected"]
  /\ UNCHANGED <<votes, scans, authorised>>

PodNext ==
  \/ \E p \in ProofIds : RecordPush(p)
  \/ \E p \in DOMAIN devProofs :
       \/ \E ok \in BOOLEAN : \/ RecordTests(p, ok)
                              \/ RecordSecurity(p, ok)
                              \/ \E voter \in Voters : CastVote(p, voter, ok)
       \/ \E emission \in Emissions : ApproveGovernance(p, emission)
       \/ RejectGovernance(p)

-----------------------------------------------------------------------------
\* However often a proof is tested again, rejected or voted on, it stands
\* before governance or is executed only with passed tests, a clean scan and
\* the community's quorum (approve_governance, proof_of_development.py:157).
\* No two emissions rest on one scan: together those of a proof stay within
\* the cap times its clean scans, and one on its way to governance has a scan
\* that is not used yet.
ExecutedWasReviewed ==
  \A p \in DOMAIN devProofs :
    /\ devProofs[p].phase \in {"governance", "executed"} =>
         /\ devProofs[p].testsPassed /\ devProofs[p].securityClean
         /\ Cardinality(votes[p]) >= CommunityRequired
         /\ devProofs[p].communityVotes = Cardinality(votes[p])
    /\ devProofs[p].phase = "executed" => devProofs[p].approved
    /\ LET used == IF devProofs[p].phase \in {"security_scan", "community_review", "governance"}
                   THEN scans[p] - 1 ELSE scans[p]
       IN authorised[p] <= EmissionCap * used

\* docs/MEMBRA_TOKENOMICS.md:91-96, "Blocks: ... Unlimited emissions": all the
\* emissions one proof of development is ever authorised to make stay within
\* its cap.
EmissionsCapped == \A p \in ProofIds : authorised[p] <= EmissionCap
=============================================================================
