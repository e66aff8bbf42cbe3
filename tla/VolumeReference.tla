-------------------------- MODULE VolumeReference --------------------------
(***************************************************************************)
(* What calculate_risk_based_volume is for, without its arithmetic: of the *)
(* volumes a broker takes, the largest one whose loss at the stop the      *)
(* account may risk, as far as floats tell.                                *)
(***************************************************************************)
EXTENDS VolumeCalculator, FiniteSets

CONSTANTS MaxEquity, MaxRisk, MaxLoss, MaxSteps    \* bounds of the inputs

VARIABLE input

\* Brokers' limits are whole steps; the profit call may return a loss of either sign.
Inputs ==
  {i \in [equity : -1 .. MaxEquity, risk_percent : 1 .. MaxRisk, loss : -MaxLoss .. MaxLoss,
          volume_step : 0 .. MaxSteps, volume_min : 1 .. MaxSteps, volume_max : 1 .. MaxSteps,
          short : BOOLEAN] :
     /\ i.volume_min <= i.volume_max
     /\ i.volume_step > 0 => /\ i.volume_min % i.volume_step = 0
                             /\ i.volume_max % i.volume_step = 0}

Result ==
  CalculateRiskBasedVolume(100, 90, input.loss, input.equity, input.risk_percent, input,
                           input.short)

\* What the broker takes.
Tradable == {v \in input.volume_min .. input.volume_max : v % input.volume_step = 0}

\* What the account may lose, and what v lots of 1/LotUnits lose at the loss of one lot.
Allowed == input.equity * input.risk_percent * LotUnits

Loss(v) == v * AbsoluteValue(input.loss) * 100

Affordable(v) == Loss(v) <= Allowed

\* A volume is found only when the broker takes it and the account can afford it, and no
\* larger one is given away but one that would lose the allowed amount to the last unit,
\* which the floored float quotient may miss: "rounded down to the broker's volume_step
\* -- never up, and never past volume_max" (PORTFOLIO_CASE_STUDY.md).
LargestUpToRounding ==
  IF input.loss = 0 \/ input.volume_step = 0 THEN Result.status = "REJECTED_VOLUME"
  ELSE LET candidates == {v \in Tradable : Affordable(v)}
           taken == IF Result.status = "ok" THEN Result.volume ELSE 0
       IN  /\ Result.status \in {"ok", "REJECTED_VOLUME_BELOW_MINIMUM"}
           /\ Result.status = "ok" => Result.volume \in candidates
           /\ \A v \in candidates : v > taken => Loss(v) = Allowed
=============================================================================
