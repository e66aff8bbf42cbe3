-------------------------- MODULE VolumeCalculator --------------------------
(***************************************************************************)
(* calculate_risk_based_volume of app/services/volume_calculator.py.       *)
(* Volumes are multiples of 1/LotUnits lot, and a result is                *)
(* [status, volume] with status "ok" or the status the pipeline finishes   *)
(* with.  `loss' is what order_calc_profit says one lot loses at the stop; *)
(* `symbol' carries the broker's volume_min, volume_max and volume_step.   *)
(* Money and volumes are whole numbers of their units; the code divides    *)
(* floats, so the quotient it floors may fall `short' of a whole number    *)
(* the exact one would be.                                                 *)
(***************************************************************************)
EXTENDS Integers

CONSTANT LotUnits    \* volume units in one lot

ASSUME LotUnitsAssumption == LotUnits \in Nat \ {0}

AbsoluteValue(n) == IF n < 0 THEN -n ELSE n

\* math.floor of a float quotient: 0.29 / 0.01 is 28.99..., one short of 29.
FlooredQuotient(a, b, short) ==
  (a \div b) - (IF short /\ a # 0 /\ a % b = 0 THEN 1 ELSE 0)

\* The number of steps is rounded up.
RiskVolumeRoundedUp(equity, risk_percent, risk_per_lot, step, short) ==
  step * ((equity * risk_percent * LotUnits) \div (100 * risk_per_lot * step) + 1)

\* floor((equity * risk_percent / 100) / risk_per_lot / step) * step
RiskVolume(equity, risk_percent, risk_per_lot, step, short) ==
  step * FlooredQuotient(equity * risk_percent * LotUnits, 100 * risk_per_lot * step, short)

CalculateRiskBasedVolume(entry_price, stop_loss, loss, equity, risk_percent, symbol, short) ==
  LET risk_per_lot == AbsoluteValue(loss)
      usable == entry_price > 0 /\ stop_loss > 0 /\ risk_per_lot > 0
                  /\ symbol.volume_step > 0
      volume == RiskVolume(equity, risk_percent, risk_per_lot, symbol.volume_step, short)
  IN  IF ~usable THEN [status |-> "REJECTED_VOLUME", volume |-> 0]
      ELSE IF volume < symbol.volume_min
           THEN [status |-> "REJECTED_VOLUME_BELOW_MINIMUM", volume |-> volume]
           ELSE [status |-> "ok",
                 volume |-> IF volume > symbol.volume_max THEN symbol.volume_max ELSE volume]
=============================================================================
