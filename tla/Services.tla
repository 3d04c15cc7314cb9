------------------------------ MODULE Services ------------------------------
(***************************************************************************)
(* The services of the backend that keep their state apart from each       *)
(* other.  None calls another, except that main.py registers an identity   *)
(* and opens its ledger account in one request, and that the reserves read *)
(* the ledger; so a behaviour of all is followed through the service it is *)
(* about, its subject, and the others rest.                                *)
(***************************************************************************)
EXTENDS Reserves, Identity, GasVaultService, TokenRouting, ProofOfVolatility,
        ProofOfDevelopment, CircuitBreaker, WalletAuth, FileLife, Appraisal

VARIABLE subject

Subjects == {"ledger", "identity", "gasvault", "routing", "volatility", "development",
             "breaker", "login", "filelife", "appraisal"}

serviceVars == <<ledgerVars, reservesVars, identityVars, gasVars, routingVars, povVars, podVars,
                 breakerVars, authVars, fileVars, appraisalVars, subject>>

TypeOK ==
  /\ LedgerTypeOK /\ ReservesTypeOK /\ IdentityTypeOK /\ GasTypeOK /\ RoutingTypeOK
  /\ PovTypeOK /\ PodTypeOK /\ BreakerTypeOK /\ AuthTypeOK /\ FileTypeOK /\ AppraisalTypeOK
  /\ subject \in Subjects

Init ==
  /\ LedgerInit /\ ReservesInit /\ IdentityInit /\ GasInit /\ RoutingInit /\ PovInit
  /\ PodInit /\ BreakerInit /\ AuthInit /\ FileInit /\ AppraisalInit
  /\ subject \in Subjects
  /\ subject # "filelife" => budget = CHOOSE b \in Budgets : TRUE

\* A step of the ledger leaves the reserves alone, and the other way around.
LedgerStep ==
  /\ subject = "ledger"
  /\ (LedgerNext /\ UNCHANGED reservesVars) \/ ReservesNext
  /\ UNCHANGED <<identityVars, gasVars, routingVars, povVars, podVars, breakerVars, authVars,
                 fileVars, appraisalVars, subject>>

IdentityStep ==
  /\ subject = "identity"
  /\ IdentityNext
  /\ UNCHANGED <<reservesVars, gasVars, routingVars, povVars, podVars, breakerVars, authVars,
                 fileVars, appraisalVars, subject>>

Rest == UNCHANGED <<ledgerVars, reservesVars, identityVars, subject>>

GasStep ==
  /\ subject = "gasvault" /\ GasNext /\ Rest
  /\ UNCHANGED <<routingVars, povVars, podVars, breakerVars, authVars, fileVars, appraisalVars>>

RoutingStep ==
  /\ subject = "routing" /\ RoutingNext /\ Rest
  /\ UNCHANGED <<gasVars, povVars, podVars, breakerVars, authVars, fileVars, appraisalVars>>

VolatilityStep ==
  /\ subject = "volatility" /\ PovNext /\ Rest
  /\ UNCHANGED <<gasVars, routingVars, podVars, breakerVars, authVars, fileVars, appraisalVars>>

DevelopmentStep ==
  /\ subject = "development" /\ PodNext /\ Rest
  /\ UNCHANGED <<gasVars, routingVars, povVars, breakerVars, authVars, fileVars, appraisalVars>>

BreakerStep(step) ==
  /\ subject = "breaker" /\ step /\ Rest
  /\ UNCHANGED <<gasVars, routingVars, povVars, podVars, authVars, fileVars, appraisalVars>>

LoginStep ==
  /\ subject = "login" /\ AuthNext /\ Rest
  /\ UNCHANGED <<gasVars, routingVars, povVars, podVars, breakerVars, fileVars, appraisalVars>>

FileStep ==
  /\ subject = "filelife" /\ FileNext /\ Rest
  /\ UNCHANGED <<gasVars, routingVars, povVars, podVars, breakerVars, authVars, appraisalVars>>

AppraisalStep ==
  /\ subject = "appraisal" /\ AppraisalNext /\ Rest
  /\ UNCHANGED <<gasVars, routingVars, povVars, podVars, breakerVars, authVars, fileVars>>

Next ==
  \/ LedgerStep
  \/ IdentityStep
  \/ GasStep
  \/ RoutingStep
  \/ VolatilityStep
  \/ DevelopmentStep
  \/ BreakerStep(BreakerNext)
  \/ LoginStep
  \/ FileStep
  \/ AppraisalStep

\* Time passes, and a function called through the breaker ends one way or the
\* other.  Nothing obliges a client to call, and no other service is owed a step.
BreakerFairness ==
  /\ WF_serviceVars(BreakerStep(BreakerTick))
  /\ \A c \in Callers : WF_serviceVars(BreakerStep(OnSuccess(c) \/ OnFailure(c)))

Spec == Init /\ [][Next]_serviceVars /\ BreakerFairness
=============================================================================
