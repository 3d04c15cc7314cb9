--------------------------- MODULE CircuitBreaker ---------------------------
(***************************************************************************)
(* backend/core/circuit_breaker.py: one breaker shared by threads.  A call *)
(* is admitted or refused at once, then runs the caller's function, which  *)
(* ends later, in any order, by returning or raising; admission and the    *)
(* bookkeeping of an end are each one step.  Time is the age of the last   *)
(* failure, followed up to the recovery timeout; the totals are only shown.*)
(***************************************************************************)
EXTENDS Integers, FiniteSets

CONSTANTS
  Callers,            \* threads that call through the breaker
  FailureThreshold,   \* failure_threshold
  RecoveryTimeout,    \* recovery_timeout
  HalfOpenMaxCalls    \* half_open_max_calls

ASSUME BreakerAssumption ==
  /\ FailureThreshold \in Nat \ {0}
  /\ RecoveryTimeout \in Nat
  /\ HalfOpenMaxCalls \in Nat \ {0}

VARIABLES
  breaker,   \* state; failure_count, no further than the threshold; half_open_calls; age
  running,   \* callers inside the function
  diluted    \* history: a success came in while the breaker was open

breakerVars == <<breaker, running, diluted>>

BreakerTypeOK ==
  /\ breaker \in [state : {"closed", "open", "half_open"}, failures : 0..FailureThreshold,
                  trials : 0..HalfOpenMaxCalls, age : 0..RecoveryTimeout]
  /\ running \subseteq Callers
  /\ diluted \in BOOLEAN

BreakerInit ==
  /\ breaker = [state |-> "closed", failures |-> 0, trials |-> 0, age |-> RecoveryTimeout]
  /\ running = {}
  /\ diluted = FALSE

-----------------------------------------------------------------------------
\* Mutant of Retried: a reset of the circuit forgets the failures too.
RetriedAfresh(b) ==
  IF b.state = "open" /\ b.age >= RecoveryTimeout
  THEN [b EXCEPT !.state = "half_open", !.trials = 0, !.failures = 0] ELSE b

\* _should_attempt_reset, when a call finds the circuit open.
Retried(b) ==
  IF b.state = "open" /\ b.age >= RecoveryTimeout
  THEN [b EXCEPT !.state = "half_open", !.trials = 0] ELSE b

LetsThrough(b) == b.state = "closed" \/ (b.state = "half_open" /\ b.trials < HalfOpenMaxCalls)

\* Whether a call made now would be admitted.
Admits == LetsThrough(Retried(breaker))

\* A refused call may still have turned the open circuit half-open, but then
\* it is admitted: HalfOpenMaxCalls is not 0.
Call(c) ==
  /\ c \notin running
  /\ Admits
  /\ LET b == Retried(breaker)
     IN breaker' = IF b.state = "half_open" THEN [b EXCEPT !.trials = @ + 1] ELSE b
  /\ running' = running \cup {c}
  /\ UNCHANGED diluted

OnSuccess(c) ==
  /\ c \in running
  /\ running' = running \ {c}
  /\ breaker' = IF breaker.state = "half_open"
                THEN [breaker EXCEPT !.failures = 0, !.state = "closed", !.trials = 0]
                ELSE [breaker EXCEPT !.failures = 0]
  /\ diluted' = CASE breaker.state = "half_open" -> FALSE
                  [] breaker.state = "open" -> TRUE
                  [] OTHER -> diluted

OnFailure(c) ==
  /\ c \in running
  /\ running' = running \ {c}
  /\ LET counted == IF breaker.failures < FailureThreshold THEN breaker.failures + 1
                    ELSE FailureThreshold
     IN breaker' = [breaker EXCEPT !.failures = counted, !.age = 0,
                      !.state = IF counted >= FailureThreshold THEN "open" ELSE @]
  /\ UNCHANGED diluted

BreakerTick ==
  /\ breaker.age < RecoveryTimeout
  /\ breaker' = [breaker EXCEPT !.age = @ + 1]
  /\ UNCHANGED <<running, diluted>>

BreakerNext ==
  \/ \E c \in Callers : Call(c) \/ OnSuccess(c) \/ OnFailure(c)
  \/ BreakerTick

-----------------------------------------------------------------------------
\* A breaker that refuses calls admits them again some day (call,
\* circuit_breaker.py:51, the comment of line 15 being that half-open tests
\* whether the service recovered), provided that time passes and that functions
\* end.  The exception is real: a success that arrives while the circuit is
\* open clears the failure count, after which the half-open trials can all
\* fail below the threshold and leave a breaker that refuses for good.
BreakerRecovers == ~Admits ~> (Admits \/ diluted)
=============================================================================
