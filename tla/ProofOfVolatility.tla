------------------------- MODULE ProofOfVolatility -------------------------
(***************************************************************************)
(* backend/services/proof_of_volatility.py: three price feeds and three    *)
(* reported figures, and the policy gates that are evaluated whenever one  *)
(* of them arrives.  Of the SOL and gas windows only the age is used, so   *)
(* only the time of the last sample is kept; reasons and proofs' payloads  *)
(* are wording.                                                            *)
(***************************************************************************)
EXTENDS Integers, Sequences, SequencesExt

CONSTANTS
  Prices,          \* integers fed as a MEMBRA price
  MaxSamples,      \* max_samples
  MaxOracleAge,    \* max_oracle_age
  HighSquared,     \* the high and low thresholds of the coefficient of
  LowSquared,      \*   variation, each squared, as <<numerator, denominator>>
  MaxPovProofs,    \* proofs logged in a behaviour (bound)
  PovHorizon       \* last second the clock is followed to (bound)

ASSUME PovAssumption ==
  /\ Prices \subseteq Int
  /\ MaxSamples \in Nat \ {0}
  /\ MaxOracleAge \in Nat
  /\ HighSquared \in Nat \X (Nat \ {0}) /\ LowSquared \in Nat \X (Nat \ {0})
  /\ MaxPovProofs \in Nat /\ PovHorizon \in Nat

VARIABLES
  signals,      \* the windows and the figures
  unlocked,     \* _gates: the actions unlocked
  evaluatedAt,  \* _gates: last_evaluated_at, -1 before the first evaluation
  povProofs,    \* _proofs
  povNow        \* the clock

povVars == <<signals, unlocked, evaluatedAt, povProofs, povNow>>

PolicyActions == {"rebase_execution", "rebase_pause", "capped_emission_proposal",
                  "gasvault_adjustment", "reward_rate_adjustment", "treasury_risk_alert"}

Times == Nat \cup {-1}

Signals == [prices : Seq(Prices), membraAt : Times, solAt : Times, gasAt : Times,
            liquid : BOOLEAN, covered : BOOLEAN, gasCovered : BOOLEAN]

PovTypeOK ==
  /\ signals \in Signals /\ Len(signals.prices) <= MaxSamples
  /\ unlocked \subseteq PolicyActions
  /\ evaluatedAt \in Times
  /\ povProofs \in Seq([approved : BOOLEAN, fresh : BOOLEAN])
  /\ povNow \in Nat

\* Every gate starts locked, rebase_pause too.
PovInit ==
  /\ signals = [prices |-> <<>>, membraAt |-> -1, solAt |-> -1, gasAt |-> -1,
                liquid |-> FALSE, covered |-> FALSE, gasCovered |-> FALSE]
  /\ unlocked = {}
  /\ evaluatedAt = -1
  /\ povProofs = <<>>
  /\ povNow = 0

-----------------------------------------------------------------------------
Push(prices, price) ==
  LET grown == Append(prices, price)
  IN IF Len(grown) > MaxSamples THEN Tail(grown) ELSE grown

\* The coefficient of variation of n prices by its square, which is a fraction
\* with the square of their sum below; it is none without a mean, and a negative
\* mean makes it negative or zero.
Classify(n, sum, variance) ==
  LET AtLeast(q) == sum > 0 /\ variance * q[2] >= q[1] * sum * sum
      AtMost(q) == sum < 0 \/ variance * q[2] <= q[1] * sum * sum
  IN CASE n < 2 \/ sum = 0 -> "unknown"
       [] n >= 2 /\ AtLeast(HighSquared) -> "high"
       [] n >= 2 /\ sum # 0 /\ ~AtLeast(HighSquared) /\ AtMost(LowSquared) -> "low"
       [] OTHER -> "normal"

Sum(prices) == FoldSeq(+, 0, prices)

SumOfSquares(prices) == FoldSeq(LAMBDA p, acc : acc + p * p, 0, prices)

\* volatility_state.
VolatilityState(prices) ==
  Classify(Len(prices), Sum(prices), Len(prices) * SumOfSquares(prices) - Sum(prices) * Sum(prices))

Fresh(s, now) ==
  \A at \in {s.membraAt, s.solAt, s.gasAt} : at # -1 /\ now - at <= MaxOracleAge

\* gate_rules.
GatesOpen(fresh, vol, s) ==
  LET base == fresh /\ s.liquid /\ s.covered
      rule == [a \in PolicyActions |->
        CASE a = "rebase_execution" -> base /\ vol \in {"high", "normal"}
          [] a = "rebase_pause" -> TRUE
          [] a = "capped_emission_proposal" -> base /\ vol = "normal"
          [] a = "gasvault_adjustment" -> base /\ s.gasCovered
          [] a = "reward_rate_adjustment" -> base /\ vol \in {"normal", "low"}
          [] a = "treasury_risk_alert" -> ~s.covered \/ ~fresh \/ vol = "high"]
  IN {a \in PolicyActions : rule[a]}

EvaluateGates ==
  /\ unlocked' = GatesOpen(Fresh(signals', povNow), VolatilityState(signals'.prices), signals')
  /\ evaluatedAt' = povNow
  /\ UNCHANGED <<povProofs, povNow>>

FeedMembraTwap(price) ==
  /\ signals' = [signals EXCEPT !.prices = Push(@, price), !.membraAt = povNow]
  /\ EvaluateGates

FeedSolTwap == signals' = [signals EXCEPT !.solAt = povNow] /\ EvaluateGates

FeedGasFee == signals' = [signals EXCEPT !.gasAt = povNow] /\ EvaluateGates

UpdateLiquidityDepth(enough) == signals' = [signals EXCEPT !.liquid = enough] /\ EvaluateGates

\* Mutant of UpdateTreasuryCoverage: the gates are left as they are.
UpdateWithoutEvaluation(enough) ==
  /\ signals' = [signals EXCEPT !.covered = enough]
  /\ UNCHANGED <<unlocked, evaluatedAt, povProofs, povNow>>

UpdateTreasuryCoverage(enough) ==
  signals' = [signals EXCEPT !.covered = enough] /\ EvaluateGates

UpdateGasvaultCoverage(enough) ==
  signals' = [signals EXCEPT !.gasCovered = enough] /\ EvaluateGates

\* What the caller says was approved is not compared with the gates.
LogProof(approved) ==
  /\ Len(povProofs) < MaxPovProofs
  /\ povProofs' = Append(povProofs, [approved |-> approved, fresh |-> Fresh(signals, povNow)])
  /\ UNCHANGED <<signals, unlocked, evaluatedAt, povNow>>

PovTick ==
  /\ povNow < PovHorizon
  /\ povNow' = povNow + 1
  /\ UNCHANGED <<signals, unlocked, evaluatedAt, povProofs>>

PovNext ==
  \/ \E price \in Prices : FeedMembraTwap(price)
  \/ FeedSolTwap
  \/ FeedGasFee
  \/ \E enough \in BOOLEAN :
       \/ UpdateLiquidityDepth(enough)
       \/ UpdateTreasuryCoverage(enough)
       \/ UpdateGasvaultCoverage(enough)
       \/ LogProof(enough)
  \/ PovTick

-----------------------------------------------------------------------------
\* Every signal evaluates the gates, whichever arrives and in any order: an
\* open gate rests on the liquidity, coverage and volatility on record, and on
\* samples that were within the oracle age at the last evaluation.  What is
\* read after it, OpenGatesAreFresh is about.
OpenGatesRestOnSignals ==
  LET volatility == VolatilityState(signals.prices)
      adjusting == unlocked \ {"rebase_pause", "treasury_risk_alert"}
  IN /\ adjusting # {} =>
          /\ signals.liquid /\ signals.covered
          /\ \A at \in {signals.membraAt, signals.solAt, signals.gasAt} :
               at # -1 /\ at <= evaluatedAt /\ evaluatedAt - at <= MaxOracleAge
     /\ "capped_emission_proposal" \in unlocked =>
          volatility = "normal" /\ {"rebase_execution", "reward_rate_adjustment"} \subseteq unlocked
     /\ "rebase_execution" \in unlocked /\ volatility = "high" => "treasury_risk_alert" \in unlocked
     /\ "gasvault_adjustment" \in unlocked => signals.gasCovered

\* backend/tests/test_membra_services.py:65, "test_gate_blocked_stale_oracles":
\* whenever is_unlocked (proof_of_volatility.py:333) is asked, a gate that
\* adjusts the token is open only if no oracle is stale.
OpenGatesAreFresh ==
  unlocked \ {"rebase_pause", "treasury_risk_alert"} # {} => Fresh(signals, povNow)
=============================================================================
