----------------------------- MODULE GateProofs -----------------------------
(***************************************************************************)
(* What stands before a send: the settings the process was started with,   *)
(* the stop loss, the day's loss, the risk, the positions and the trades   *)
(* of the day.  Every check is made in a stage of its own, the send comes  *)
(* stages later; the proofs show that nothing a check relied on changes in *)
(* between.                                                                *)
(***************************************************************************)
EXTENDS RecordProofs

\* A live process runs under settings that Settings() accepted.
SettingsOK == phase # "down" => Accepted(settings)

\* From the position check on, the stop loss lies on the losing side of the entry.
StopOK ==
  job.stage \in {"positions", "size", "check", "send"} =>
    CheckStopLoss(Payload.action, Payload.stop_loss, job.entry,
                  settings.require_stop_loss) = "ok"

\* From the order check on, the day's loss and the risk are within the limits.
LimitsOK == job.stage \in {"check", "send"} => WithinDailyLoss /\ WithinRisk

\* What is sent is sent by a process that may.
LiveOK == job.stage = "send" => live_execution_allowed(settings)

\* What the stages a job has passed established still holds of it as it is now.
GateInv == SettingsOK /\ StopOK /\ LimitsOK /\ LiveOK

\* An account has one baseline a day.
OneBaselineADay ==
  \A b, c \in baselines : b.account_key = c.account_key /\ b.day = c.day => b = c

----------------------------------------------------------------------------
(* The arithmetic of the risk                                               *)

\* What \div says of a product.
LEMMA QuotientBound ==
  ASSUME NEW a \in Int, NEW b \in Nat \ {0}
  PROVE  a \div b \in Int /\ b * (a \div b) <= a
  OBVIOUS

\* Multiplying by a natural number keeps an order.
LEMMA ProductMonotonic ==
  ASSUME NEW n \in Nat, NEW k \in Int, NEW m \in Int, k <= m
  PROVE  n * k <= n * m
  OBVIOUS

\* A product with a positive factor that is not negative has no negative factor.
LEMMA FactorNotNegative ==
  ASSUME NEW n \in Nat \ {0}, NEW k \in Int, 0 <= k * n
  PROVE  0 <= k
  OBVIOUS

FitsRisk(volume, stop, loss, e, risk, symbol) ==
  /\ volume \in symbol.volume_min .. symbol.volume_max
  /\ volume * AbsoluteValue(loss) * 100 <= e * risk * LotUnits
  /\ loss # 0 /\ stop > 0

\* A volume that passes stays within what the risk allows and within the limits of
\* the symbol, the one cut down to the maximum included.
LEMMA VolumeWithinRisk ==
  ASSUME NEW entry \in Int, NEW stop \in Int, NEW loss \in Int, NEW e \in Int,
         NEW risk \in Nat, NEW symbol, NEW short \in BOOLEAN,
         symbol \in [point : Nat, volume_min : Nat, volume_max : Nat, volume_step : Nat],
         symbol.volume_min <= symbol.volume_max,
         NEW result,
         result = CalculateRiskBasedVolume(entry, stop, loss, e, risk, symbol, short),
         result.status = "ok"
  PROVE  FitsRisk(result.volume, stop, loss, e, risk, symbol)
<1> DEFINE rpl == AbsoluteValue(loss)
           step == symbol.volume_step
           a == e * risk * LotUnits
           b == 100 * rpl * step
           q == FlooredQuotient(a, b, short)
           full == step * q
           v == result.volume
<1>1. rpl > 0 /\ step > 0 /\ stop > 0
  BY DEF CalculateRiskBasedVolume
<1>2. rpl \in Nat \ {0} /\ step \in Nat \ {0} /\ loss # 0
  BY <1>1 DEF AbsoluteValue
<1>3. a \in Int /\ b \in Nat \ {0}
  BY <1>2, LotUnitsAssumption
<1>4. q \in Int /\ b * q <= a
  <2> HIDE DEF a, b
  <2> QED
    BY <1>3, FloorBound
<1>5. RiskVolume(e, risk, rpl, step, short) = full
  BY DEF RiskVolume
<1>6. full \in Int /\ full >= symbol.volume_min
      /\ v = IF full > symbol.volume_max THEN symbol.volume_max ELSE full
  <2>1. full \in Int
    <3> HIDE DEF q, step
    <3> QED
      BY <1>2, <1>4
  <2> HIDE DEF full, rpl
  <2> QED
    BY <2>1, <1>1, <1>5 DEF CalculateRiskBasedVolume, rpl
<1>7. v \in symbol.volume_min .. symbol.volume_max /\ v <= full /\ v \in Nat
  <2> HIDE DEF full, v
  <2> QED
    BY <1>6
<1>8. v * rpl * 100 <= full * rpl * 100
  <2>1. (rpl * 100) * v <= (rpl * 100) * full
    <3>1. rpl * 100 \in Nat
      BY <1>2
    <3> HIDE DEF full, v, rpl
    <3> QED
      BY <3>1, <1>6, <1>7, ProductMonotonic
  <2> HIDE DEF full, v, rpl
  <2> QED
    BY <2>1, <1>2, <1>6, <1>7
<1>9. full * rpl * 100 = b * q
  <2> HIDE DEF q, rpl, step
  <2> QED
    BY <1>2, <1>4
<1>10. v * rpl * 100 <= a
  <2> HIDE DEF v, a, b, q, full, rpl
  <2>1. v * rpl * 100 \in Int /\ full * rpl * 100 \in Int /\ b * q \in Int
    BY <1>2, <1>3, <1>4, <1>6, <1>7
  <2> QED
    BY <2>1, <1>3, <1>4, <1>8, <1>9
<1> QED
  BY <1>1, <1>2, <1>7, <1>10 DEF FitsRisk

----------------------------------------------------------------------------
(* The stages that check                                                    *)

\* The position check follows a stop loss on the losing side of the entry that was read.
LEMMA MarketEstablishes ==
  ASSUME SafetyInv, CheckMarket, job'.stage = "positions"
  PROVE  CheckStopLoss(Payload.action, Payload.stop_loss, job.entry,
                       settings.require_stop_loss)' = "ok"
<1>1. PICK available, tick, clock, quote, broker_now :
        LET entry == IF Payload.action = "BUY" THEN quote.ask ELSE quote.bid
            point == SymbolInfo[SymbolMap[Payload.symbol]].point
            trades_today ==
              count_executed_trades_since(job.key, StartOfTradingDay(broker_now))
        IN  Continue([job EXCEPT !.entry = entry, !.day = TradingDayKey(broker_now)],
              Require(available, "REJECTED_SYMBOL_UNAVAILABLE")
                \odot Require(tick, "FAILED_MT5_UNAVAILABLE")
                \odot Require(clock, "FAILED_BROKER_TIME_UNKNOWN")
                \odot CheckStopLoss(Payload.action, Payload.stop_loss, entry,
                                    settings.require_stop_loss)
                \odot CheckSpread(quote, point, settings.max_spread_points)
                \odot CheckDailyTradeLimit(trades_today, settings.max_trades_per_day),
              "positions")
  BY DEF CheckMarket
<1> DEFINE entry == IF Payload.action = "BUY" THEN quote.ask ELSE quote.bid
           point == SymbolInfo[SymbolMap[Payload.symbol]].point
           trades_today == count_executed_trades_since(job.key, StartOfTradingDay(broker_now))
           terminal == Require(available, "REJECTED_SYMBOL_UNAVAILABLE")
                         \odot Require(tick, "FAILED_MT5_UNAVAILABLE")
                         \odot Require(clock, "FAILED_BROKER_TIME_UNKNOWN")
           stop == CheckStopLoss(Payload.action, Payload.stop_loss, entry,
                                 settings.require_stop_loss)
           spread == CheckSpread(quote, point, settings.max_spread_points)
           trades == CheckDailyTradeLimit(trades_today, settings.max_trades_per_day)
           j == [job EXCEPT !.entry = entry, !.day = TradingDayKey(broker_now)]
<1>2. job \in Job /\ UNCHANGED <<settings, signals>>
  BY JobHasType DEF CheckMarket, InStage, Idle, environment, store
<1>3. Continue(j, terminal \odot stop \odot spread \odot trades, "positions")
  BY <1>1
<1> HIDE DEF terminal, stop, spread, trades, entry
<1>4. job'.entry = entry /\ job'.signal = job.signal
  BY <1>2, <1>3 DEF Continue, Job
<1>5. terminal \odot stop \odot spread \odot trades = "ok"
  BY <1>2, <1>3 DEF Continue, Job
<1>6. stop = "ok"
  BY <1>5, AllChecksPassed
<1>7. Payload' = Payload
  BY <1>2, <1>4 DEF Payload
<1> QED
  BY <1>2, <1>4, <1>6, <1>7 DEF stop, CheckStopLoss

LEMMA SizeOfNatural ==
  ASSUME NEW n \in Nat
  PROVE  AbsoluteValue(n) = n /\ AbsoluteValue(-n) = n
  BY DEF AbsoluteValue

\* The bounds Settings() enforces that the arithmetic needs.
LEMMA AcceptedBounds ==
  ASSUME NEW c, Accepted(c)
  PROVE  c.max_risk_percent \in 1 .. 100
  BY DEF Accepted, WithinBounds

\* The volume loses at the stop what its price distance says.
LEMMA LossIsDistance ==
  ASSUME NEW entry \in Int, NEW stop \in Nat \ {0}, NEW action \in {"BUY", "SELL"},
         NEW required, CheckStopLoss(action, stop, entry, required) = "ok",
         ContractSize * (entry - stop) # 0
  PROVE  \/ /\ action = "BUY" /\ entry - stop > 0
            /\ AbsoluteValue(ContractSize * (entry - stop)) = ContractSize * (entry - stop)
         \/ /\ action = "SELL" /\ stop - entry > 0
            /\ AbsoluteValue(ContractSize * (entry - stop)) = ContractSize * (stop - entry)
<1>1. \/ action = "BUY" /\ stop < entry
      \/ action = "SELL" /\ stop > entry
  <2>1. CheckStopLoss(action, stop, entry, required)
          = Require(/\ action = "BUY"  => stop < entry
                    /\ action = "SELL" => stop > entry, "REJECTED_STOP_LOSS")
    BY DEF CheckStopLoss, NoStopLoss
  <2> QED
    BY <2>1 DEF Require
<1>2. CASE action = "BUY" /\ stop < entry
  <2>1. entry - stop > 0 /\ entry - stop \in Nat /\ ContractSize \in Nat
    BY <1>2, MarketAssumption
  <2>2. ContractSize * (entry - stop) \in Nat
    BY <2>1
  <2> QED
    BY <1>2, <2>1, <2>2, SizeOfNatural
<1>3. CASE action = "SELL" /\ stop > entry
  <2>1. stop - entry > 0 /\ stop - entry \in Nat /\ ContractSize \in Nat
    BY <1>3, MarketAssumption
  <2>2. ContractSize * (stop - entry) \in Nat
        /\ ContractSize * (entry - stop) = -(ContractSize * (stop - entry))
    BY <2>1
  <2> QED
    BY <1>3, <2>1, <2>2, SizeOfNatural
<1> QED
  BY <1>1, <1>2, <1>3

\* The stage after the sizing follows a loss and a risk within their limits, measured
\* by the equity, the entry and the stop that are on the job.
LEMMA SizeEstablishes ==
  ASSUME SafetyInv, GateInv, SizeOrder, job'.stage = "check"
  PROVE  WithinDailyLoss' /\ WithinRisk'
<1> DEFINE Loss(priced) == IF priced THEN ContractSize * (job.entry - Payload.stop_loss) ELSE 0
           DailyLoss(b) == CheckDailyLoss(job.equity, b.equity, settings.max_daily_loss_percent)
           Risk == CheckRiskPercent(Payload.risk_percent, settings.max_risk_percent)
           symbol == SymbolInfo[SymbolMap[Payload.symbol]]
           Volume(priced, short) ==
             CalculateRiskBasedVolume(job.entry, Payload.stop_loss, Loss(priced), job.equity,
                                      Payload.risk_percent, symbol, short)
<1>1. /\ job.stage = "size" /\ job # Idle /\ phase # "down"
      /\ Payload.symbol \in DOMAIN SymbolMap /\ job \in Job /\ Payload \in Payloads
      /\ UNCHANGED <<settings, signals>>
  BY JobHasType DEF SizeOrder, InStage, Idle, SafetyInv, JobOK, Unsent, environment
<1>2. /\ job.entry \in Int /\ job.equity \in Int
      /\ Payload.stop_loss \in Nat /\ Payload.risk_percent \in Nat
      /\ Payload.action \in {"BUY", "SELL"}
      /\ symbol \in [point : Nat, volume_min : Nat, volume_max : Nat, volume_step : Nat]
      /\ symbol.volume_min <= symbol.volume_max
      /\ ContractSize \in Nat /\ settings.max_risk_percent \in Nat
  <2>1. job.entry \in Int /\ job.equity \in Int
    BY <1>1, JobHasNumbers
  <2>2. settings.max_risk_percent \in 1 .. 100
    BY <1>1, AcceptedBounds DEF GateInv, SettingsOK
  <2>3. Payload.stop_loss \in Nat /\ Payload.risk_percent \in Nat /\ Payload.action \in {"BUY", "SELL"}
    BY <1>1, PayloadsAssumption
  <2>4. /\ symbol \in [point : Nat, volume_min : Nat, volume_max : Nat, volume_step : Nat]
        /\ symbol.volume_min <= symbol.volume_max
    BY <1>1, MarketAssumption
  <2> HIDE DEF symbol
  <2> QED
    BY <2>1, <2>2, <2>3, <2>4, MarketAssumption
<1>3. ASSUME NEW priced \in BOOLEAN, NEW short \in BOOLEAN, Volume(priced, short).status = "ok"
      PROVE  /\ Loss(priced) = ContractSize * (job.entry - Payload.stop_loss)
             /\ Volume(priced, short).volume \in symbol.volume_min .. symbol.volume_max
             /\ Volume(priced, short).volume * AbsoluteValue(Loss(priced)) * 100
                  <= job.equity * Payload.risk_percent * LotUnits
             /\ Loss(priced) # 0 /\ Payload.stop_loss > 0
  <2>1. Loss(priced) \in Int
    BY <1>2
  <2>2. Volume(priced, short) = CalculateRiskBasedVolume(job.entry, Payload.stop_loss, Loss(priced),
                           job.equity, Payload.risk_percent, symbol, short)
    OBVIOUS
  <2>3. /\ Volume(priced, short).volume \in symbol.volume_min .. symbol.volume_max
        /\ Volume(priced, short).volume * AbsoluteValue(Loss(priced)) * 100
             <= job.equity * Payload.risk_percent * LotUnits
        /\ Loss(priced) # 0 /\ Payload.stop_loss > 0
    <3> HIDE DEF Loss, Volume, symbol
    <3>1. /\ job.entry \in Int /\ Payload.stop_loss \in Int /\ job.equity \in Int
          /\ Payload.risk_percent \in Nat /\ Loss(priced) \in Int /\ short \in BOOLEAN
      BY <1>2, <1>3, <2>1
    <3>2. Volume(priced, short).status = "ok"
      BY <1>3
    <3>3. /\ symbol \in [point : Nat, volume_min : Nat, volume_max : Nat, volume_step : Nat]
          /\ symbol.volume_min <= symbol.volume_max
      BY <1>2
    <3>4. FitsRisk(Volume(priced, short).volume, Payload.stop_loss, Loss(priced), job.equity,
                   Payload.risk_percent, symbol)
      BY <2>2, <3>1, <3>2, <3>3, VolumeWithinRisk
    <3> QED
      BY <3>4 DEF FitsRisk
  <2> QED
    BY <2>3
<1>4. PICK priced \in BOOLEAN, short \in BOOLEAN,
           b \in {x \in baselines' : x.account_key = job.key /\ x.day = job.day} :
        IF DailyLoss(b) \odot Risk = "ok" /\ Payload.stop_loss = NoStopLoss THEN job' = Idle
        ELSE Continue([job EXCEPT !.volume = Volume(priced, short).volume],
                      (DailyLoss(b) \odot Risk) \odot Volume(priced, short).status, "check")
  BY DEF SizeOrder, Answers
<1>5. /\ job'.key = job.key /\ job'.day = job.day /\ job'.equity = job.equity
      /\ job'.entry = job.entry /\ job'.signal = job.signal
      /\ job'.volume = Volume(priced, short).volume
      /\ (DailyLoss(b) \odot Risk) \odot Volume(priced, short).status = "ok"
  <2> HIDE DEF DailyLoss, Risk, Volume
  <2>1. Continue([job EXCEPT !.volume = Volume(priced, short).volume],
                 (DailyLoss(b) \odot Risk) \odot Volume(priced, short).status, "check")
    BY <1>4 DEF Idle
  <2> QED
    BY <1>1, <2>1 DEF Continue, Job
<1>6. DailyLoss(b) = "ok" /\ Risk = "ok" /\ Volume(priced, short).status = "ok"
  <2> HIDE DEF DailyLoss, Risk, Volume
  <2> QED
    BY <1>5, AllChecksPassed
<1>7. Payload' = Payload
  BY <1>1, <1>5 DEF Payload
<1>8. WithinDailyLoss'
  <2>1. (b.equity - job.equity) * 100 < settings.max_daily_loss_percent * b.equity
    BY <1>6, RequirementHolds DEF CheckDailyLoss
  <2> QED
    BY <1>1, <1>4, <1>5, <2>1 DEF WithinDailyLoss, BaselinesOf
<1> DEFINE v == Volume(priced, short).volume
<1>9. /\ Loss(priced) = ContractSize * (job.entry - Payload.stop_loss)
      /\ v \in symbol.volume_min .. symbol.volume_max
      /\ v * AbsoluteValue(Loss(priced)) * 100 <= job.equity * Payload.risk_percent * LotUnits
      /\ Loss(priced) # 0 /\ Payload.stop_loss > 0
  <2> HIDE DEF Loss, Volume
  <2> QED
    BY <1>6, <1>3
<1> DEFINE distance == IF Payload.action = "BUY" THEN job.entry - Payload.stop_loss
                       ELSE Payload.stop_loss - job.entry
           risked == v * ContractSize * distance * 100
           allowed == job.equity * Payload.risk_percent * LotUnits
<1>10. distance > 0 /\ AbsoluteValue(Loss(priced)) = ContractSize * distance
  <2>1. Loss(priced) = ContractSize * (job.entry - Payload.stop_loss)
    BY <1>9
  <2>2. CheckStopLoss(Payload.action, Payload.stop_loss, job.entry,
                      settings.require_stop_loss) = "ok"
    BY <1>1 DEF GateInv, StopOK
  <2> QED
    BY <1>2, <1>9, <2>1, <2>2, LossIsDistance
<1>11. v \in Nat /\ distance \in Nat /\ distance # 0
  <2> HIDE DEF v
  <2> QED
    BY <1>2, <1>9, <1>10
<1>12. risked <= allowed /\ risked \in Nat /\ allowed \in Int
  <2> HIDE DEF v, distance, Loss
  <2>1. v * (ContractSize * distance) * 100 = v * ContractSize * distance * 100
    BY <1>2, <1>11
  <2>2. v * ContractSize * distance * 100 \in Nat
    BY <1>2, <1>11
  <2> QED
    BY <1>2, <1>9, <1>10, <2>1, <2>2, LotUnitsAssumption
<1>13. Payload.risk_percent \in Nat \ {0} /\ Payload.risk_percent <= settings.max_risk_percent
  BY <1>6, <1>2 DEF CheckRiskPercent, Require
<1>14. allowed <= job.equity * settings.max_risk_percent * LotUnits
  <2>1. job.equity \in Nat
    <3>1. 0 <= (job.equity * Payload.risk_percent) * LotUnits
      <4> HIDE DEF risked
      <4> QED
        BY <1>12
    <3>2. 0 <= job.equity * Payload.risk_percent
      BY <3>1, <1>2, LotUnitsAssumption, FactorNotNegative
    <3> QED
      BY <3>2, <1>2, <1>13, FactorNotNegative
  <2>2. LotUnits * (job.equity * Payload.risk_percent)
          <= LotUnits * (job.equity * settings.max_risk_percent)
    <3>1. job.equity * Payload.risk_percent <= job.equity * settings.max_risk_percent
      BY <2>1, <1>2, <1>13, ProductMonotonic
    <3>2. /\ job.equity * Payload.risk_percent \in Int
          /\ job.equity * settings.max_risk_percent \in Int /\ LotUnits \in Nat
      BY <2>1, <1>2, LotUnitsAssumption
    <3> QED
      BY <3>1, <3>2, ProductMonotonic
  <2> QED
    BY <2>1, <2>2, <1>2, LotUnitsAssumption
<1>15. risked <= job.equity * settings.max_risk_percent * LotUnits
  <2>1. job.equity * settings.max_risk_percent * LotUnits \in Int
    BY <1>2, LotUnitsAssumption
  <2> HIDE DEF risked, allowed
  <2> QED
    BY <1>12, <1>14, <2>1
<1>16. WithinRisk'
  <2> HIDE DEF Volume
  <2> QED
    BY <1>1, <1>5, <1>7, <1>9, <1>10, <1>12, <1>15 DEF WithinRisk, NoStopLoss
<1> QED
  BY <1>8, <1>16

----------------------------------------------------------------------------
(* What the gates have established holds until the send                     *)

\* Only Settings() decides what a process starts with, and only a start does.
LEMMA SettingsStay == ASSUME SafetyInv, SettingsOK, [Next]_vars PROVE SettingsOK'
<1>1. CASE Boot
  BY <1>1 DEF Boot, SettingsOK
<1>2. CASE Work
  BY <1>2, WorkKeepsWorld DEF SettingsOK
<1>3. CASE ~Boot /\ ~Work
  <2>1. UNCHANGED settings /\ (phase' # "down" => phase # "down")
    BY <1>3 DEF Next, vars, Submit, Lifecycle, StartWorker, FailStart, ShutdownGateway,
       CloseStore, Exit, Reconcile, Stop, Crash, World, FillOrder, VoidOrder, ClosePosition,
       MoveEquity, SwitchAccount, Tick, process
  <2> QED
    BY <2>1 DEF SettingsOK
<1> QED
  BY <1>1, <1>2, <1>3

\* The gates are about the job, its signal, its settings and its baselines; a step that
\* leaves these alone leaves them alone.
LEMMA GatesUndisturbed ==
  ASSUME StopOK, LimitsOK, LiveOK, UNCHANGED <<job, settings, baselines>>,
         signals'[job.signal].payload = signals[job.signal].payload
  PROVE  StopOK' /\ LimitsOK' /\ LiveOK'
<1>1. Payload' = Payload
  BY DEF Payload
<1>2. StopOK' /\ LiveOK'
  BY <1>1 DEF StopOK, LiveOK, CheckStopLoss, live_execution_allowed
<1>3. (WithinDailyLoss <=> WithinDailyLoss') /\ (WithinRisk <=> WithinRisk')
  BY <1>1 DEF WithinDailyLoss, WithinRisk, BaselinesOf
<1> QED
  BY <1>2, <1>3 DEF LimitsOK

\* A job that is over, or at a stage before or after the gates, claims nothing.
LEMMA NothingClaimed ==
  ASSUME job'.stage \notin {"positions", "size", "check", "send"}
  PROVE  StopOK' /\ LimitsOK' /\ LiveOK'
  BY DEF StopOK, LimitsOK, LiveOK

\* The market stage.
LEMMA GatesAfterMarket ==
  ASSUME SafetyInv, GateInv, CheckMarket
  PROVE  StopOK' /\ LimitsOK' /\ LiveOK'
<1>1. job \in Job /\ job.stage = "market"
  BY JobInStage DEF CheckMarket, Stages, DatabaseStages
<1>2. job'.stage \in {"finish", "positions"}
  BY <1>1 DEF CheckMarket, Continue, Job
<1>3. CASE job'.stage = "positions"
  <2>1. LimitsOK' /\ LiveOK'
    BY <1>3 DEF LimitsOK, LiveOK
  <2>2. StopOK'
    BY <1>3, MarketEstablishes DEF StopOK
  <2> QED
    BY <2>1, <2>2
<1> QED
  BY <1>2, <1>3, NothingClaimed

\* The positions stage: the stop loss was checked against the entry still on the job.
LEMMA GatesAfterPositions ==
  ASSUME SafetyInv, GateInv, QueryPositions
  PROVE  StopOK' /\ LimitsOK' /\ LiveOK'
<1>1. job \in Job /\ job.stage = "positions" /\ UNCHANGED <<settings, signals>>
  BY JobInStage DEF QueryPositions, Stages, TerminalStages, environment, store
<1>2. PICK verdict : Continue(job, verdict, "size")
  BY DEF QueryPositions
<1>3. \/ job'.stage = "finish"
      \/ /\ job'.stage = "size" /\ job'.entry = job.entry /\ job'.signal = job.signal
  BY <1>1, <1>2 DEF Continue, Job
<1>4. CASE job'.stage = "size" /\ job'.entry = job.entry /\ job'.signal = job.signal
  <2>1. Payload' = Payload
    BY <1>1, <1>4 DEF Payload
  <2>2. StopOK'
    BY <1>1, <1>4, <2>1 DEF GateInv, StopOK, CheckStopLoss
  <2> QED
    BY <1>4, <2>2 DEF LimitsOK, LiveOK
<1> QED
  BY <1>3, <1>4, NothingClaimed

\* The size stage.
LEMMA GatesAfterSize ==
  ASSUME SafetyInv, GateInv, SizeOrder
  PROVE  StopOK' /\ LimitsOK' /\ LiveOK'
<1>1. job \in Job /\ job.stage = "size" /\ UNCHANGED <<settings, signals>>
  BY JobInStage DEF SizeOrder, Stages, DatabaseStages, environment
<1>2. \/ job' = Idle
      \/ \E w, verdict : Continue([job EXCEPT !.volume = w], verdict, "check")
  BY DEF SizeOrder
<1>3. \/ job' = Idle
      \/ job'.stage = "finish"
      \/ job'.stage = "check" /\ job'.entry = job.entry /\ job'.signal = job.signal
  BY <1>1, <1>2 DEF Continue, Job
<1>4. CASE job'.stage = "check" /\ job'.entry = job.entry /\ job'.signal = job.signal
  <2>1. Payload' = Payload
    BY <1>1, <1>4 DEF Payload
  <2>2. StopOK'
    BY <1>1, <1>4, <2>1 DEF GateInv, StopOK, CheckStopLoss
  <2>3. LimitsOK'
    BY <1>4, SizeEstablishes DEF LimitsOK
  <2> QED
    BY <1>4, <2>2, <2>3 DEF LiveOK
<1> QED
  BY <1>3, <1>4, NothingClaimed DEF Idle

\* The check stage: what is sent next is what was sized, by a process that may.
LEMMA GatesAfterCheck ==
  ASSUME SafetyInv, GateInv, CheckOrder
  PROVE  StopOK' /\ LimitsOK' /\ LiveOK'
<1>1. job \in Job /\ job.stage = "check" /\ UNCHANGED <<settings, signals, baselines>>
  BY JobInStage DEF CheckOrder, Stages, DatabaseStages, environment, store
<1>2. PICK passed :
        Continue(job, Require(passed, "REJECTED_ORDER_CHECK")
                        \odot Require(live_execution_allowed(settings), "DRY_RUN_APPROVED"),
                 "send")
  BY DEF CheckOrder
<1>3. \/ job'.stage = "finish"
      \/ /\ job' = [job EXCEPT !.stage = "send"] /\ job'.stage = "send"
         /\ live_execution_allowed(settings)
  BY <1>1, <1>2, Continued, AllChecksPassed, RequirementHolds DEF Require, \odot
<1>4. CASE /\ job' = [job EXCEPT !.stage = "send"] /\ job'.stage = "send"
           /\ live_execution_allowed(settings)
  <2>1. /\ job'.signal = job.signal /\ job'.entry = job.entry /\ job'.key = job.key
        /\ job'.day = job.day /\ job'.equity = job.equity /\ job'.volume = job.volume
    BY <1>1, <1>4 DEF Job
  <2>2. Payload' = Payload
    BY <1>1, <2>1 DEF Payload
  <2>3. StopOK'
    BY <1>1, <2>1, <2>2 DEF GateInv, StopOK, CheckStopLoss
  <2>4. (WithinDailyLoss <=> WithinDailyLoss') /\ (WithinRisk <=> WithinRisk')
    BY <1>1, <2>1, <2>2 DEF WithinDailyLoss, WithinRisk, BaselinesOf
  <2>5. LimitsOK'
    BY <1>1, <2>4 DEF GateInv, LimitsOK
  <2>6. LiveOK'
    BY <1>1, <1>4 DEF LiveOK, live_execution_allowed
  <2> QED
    BY <2>3, <2>5, <2>6
<1> QED
  BY <1>3, <1>4, NothingClaimed

\* Every step of the worker keeps the gates.
LEMMA WorkGates == ASSUME SafetyInv, GateInv, Work PROVE StopOK' /\ LimitsOK' /\ LiveOK'
<1>1. CASE ClaimNextPending
  BY <1>1, NothingClaimed DEF ClaimNextPending
<1>2. CASE SettleSignal \/ AbandonJob
  BY <1>2, NothingClaimed DEF SettleSignal, AbandonJob, Idle
<1>3. CASE StartProcessing
  BY <1>3, JobInStage, NothingClaimed DEF StartProcessing, Continue, Job, Stages, DatabaseStages
<1>4. CASE SetSymbolNormalized
  BY <1>4, JobInStage, NothingClaimed DEF SetSymbolNormalized, Continue, Job, Stages, DatabaseStages
<1>5. CASE IdentifyAccount
  BY <1>5, JobInStage, NothingClaimed DEF IdentifyAccount, Continue, Job, Stages, DatabaseStages
<1>6. CASE SendOrder
  BY <1>6, JobInStage, NothingClaimed DEF SendOrder, Job, Stages, TerminalStages
<1>7. CASE RecordReply
  BY <1>7, JobInStage, NothingClaimed DEF RecordReply, Continue, Job, Stages, DatabaseStages
<1>8. CASE FinishExecution
  BY <1>8, JobInStage, NothingClaimed DEF FinishExecution, Job, Stages, DatabaseStages
<1> QED
  BY <1>1, <1>3, <1>4, <1>5, <1>6, <1>7, <1>8, <1>2, GatesAfterMarket, GatesAfterPositions,
     GatesAfterSize, GatesAfterCheck DEF Work

\* No step of any actor weakens what the gates have established: a restart changes the
\* settings, but never under a running job.
LEMMA NextGates == ASSUME SafetyInv, GateInv, [Next]_vars PROVE GateInv'
<1>1. SettingsOK'
  BY SettingsStay DEF GateInv
<1>2. CASE Work
  BY <1>1, <1>2, WorkGates DEF GateInv
<1>3. CASE ~Work
  <2>1. CASE job' = Idle
    BY <1>1, <2>1, NothingClaimed DEF GateInv, Idle
  <2>2. CASE job' # Idle
    <3>1. UNCHANGED <<job, baselines, settings>> /\ job # Idle
      BY <1>3, <2>2, OthersKeepJob
    <3>2. signals'[job.signal].payload = signals[job.signal].payload
      BY <3>1, JobHasType, RowsKept
    <3> QED
      BY <1>1, <3>1, <3>2, GatesUndisturbed DEF GateInv
  <2> QED
    BY <2>1, <2>2
<1> QED
  BY <1>2, <1>3

\* Every order is sent past gates that still hold.
LEMMA GatesCorrect == Spec => []GateInv
<1>1. Init => GateInv
  BY DEF Init, GateInv, SettingsOK, StopOK, LimitsOK, LiveOK, Idle
<1>2. SafetyInv /\ GateInv /\ [Next]_vars => GateInv'
  BY NextGates
<1>3. Spec => []SafetyInv
  BY SafetyCorrect
<1> QED
  BY <1>1, <1>2, <1>3, PTL DEF Spec

----------------------------------------------------------------------------
(* The theorems                                                             *)

\* Only the stage that sends lengthens the broker's book.
LEMMA OnlySendsSend ==
  ASSUME SafetyInv, [Next]_vars, Len(book') > Len(book)
  PROVE  job.stage = "send" /\ job # Idle
<1>1. book \in Seq(Order) /\ Len(book) \in Nat
  BY DEF SafetyInv, TypeOK
<1>2. CASE Work
  <2>1. SendOrder
    BY <1>1, <1>2, WorkKeepsWorld
  <2> QED
    BY <2>1 DEF SendOrder, InStage, Idle
<1>3. CASE ~Work
  <2>1. DOMAIN book' = DOMAIN book
    BY <1>3, OthersKeepJob
  <2>2. SafetyInv'
    BY NextSafety
  <2>3. book' \in Seq(Order) /\ Len(book') \in Nat
    BY <2>2 DEF SafetyInv, TypeOK
  <2>4. Len(book') = Len(book)
    BY <1>1, <2>1, <2>3
  <2> QED
    BY <1>1, <2>4
<1> QED
  BY <1>2, <1>3

\* A process that runs dry never sends, whatever an earlier one has left behind.
THEOREM DryRunSendsNothing == Spec => DryRunNeverSends
<1>1. SafetyInv /\ GateInv /\ [Next]_vars =>
        [Len(book') > Len(book) => settings.live_execution_enabled /\ ~settings.dry_run]_vars
  BY OnlySendsSend DEF GateInv, LiveOK, live_execution_allowed
<1> QED
  BY <1>1, SafetyCorrect, GatesCorrect, PTL DEF Spec, DryRunNeverSends

\* Only a process with a server, a numeric login and no unasked door ever sends.
THEOREM SendsOnlyConfigured == Spec => LiveIsConfigured
<1>1. SafetyInv /\ GateInv /\ [Next]_vars =>
        [Len(book') > Len(book) =>
           /\ settings.mt5_server # "" /\ settings.mt5_login = "number"
           /\ settings.host = "loopback" \/ settings.allow_remote_binding]_vars
  <2> SUFFICES ASSUME SafetyInv, GateInv, [Next]_vars, Len(book') > Len(book)
               PROVE  /\ settings.mt5_server # "" /\ settings.mt5_login = "number"
                      /\ settings.host = "loopback" \/ settings.allow_remote_binding
    OBVIOUS
  <2>1. live_execution_allowed(settings) /\ phase # "down"
    BY OnlySendsSend DEF GateInv, LiveOK, SafetyInv, JobOK
  <2>2. Accepted(settings)
    BY <2>1 DEF GateInv, SettingsOK
  <2>3. enforce_local_binding(settings) /\ validate_live_execution_config(settings)
    BY <2>2 DEF Accepted
  <2> QED
    BY <2>1, <2>3 DEF enforce_local_binding, validate_live_execution_config,
       live_execution_allowed
<1> QED
  BY <1>1, SafetyCorrect, GatesCorrect, PTL DEF Spec, LiveIsConfigured

\* Nothing is sent on an account that had lost the day's limit when the job read it.
THEOREM LossIsGuarded == Spec => []LossGuard
<1>1. GateInv => LossGuard
  BY DEF GateInv, LimitsOK, LossGuard
<1> QED
  BY <1>1, GatesCorrect, PTL

\* What is sent risks no more at its stop than the signal and the settings allow.
THEOREM RiskIsBounded == Spec => []RiskBounded
<1>1. GateInv => RiskBounded
  BY DEF GateInv, LimitsOK, RiskBounded
<1> QED
  BY <1>1, GatesCorrect, PTL

----------------------------------------------------------------------------
\* A baseline is written once: the sizing adds one only where there is none.
LEMMA BaselinesGrow ==
  ASSUME SafetyInv, OneBaselineADay, [Next]_vars
  PROVE  baselines \subseteq baselines' /\ OneBaselineADay'
<1>1. CASE UNCHANGED baselines
  BY <1>1 DEF OneBaselineADay
<1>2. CASE SizeOrder
  BY <1>2 DEF SizeOrder, BaselinesWith, BaselinesOf, OneBaselineADay
<1>3. UNCHANGED baselines \/ SizeOrder
  <2>1. CASE Work
    BY <2>1 DEF Work, ClaimNextPending, StartProcessing, SetSymbolNormalized, IdentifyAccount,
       CheckMarket, QueryPositions, CheckOrder, SendOrder, RecordReply, FinishExecution,
       SettleSignal, AbandonJob, store
  <2>2. CASE ~Work
    BY <2>2, OthersKeepJob
  <2> QED
    BY <2>1, <2>2
<1> QED
  BY <1>1, <1>2, <1>3

\* The first equity of an account's day stays its baseline, restarts included.
THEOREM BaselineStays == Spec => BaselineFrozen
<1>1. Init => OneBaselineADay
  BY DEF Init, OneBaselineADay
<1>2. SafetyInv /\ OneBaselineADay /\ [Next]_vars => OneBaselineADay'
  BY BaselinesGrow
<1>3. SafetyInv /\ OneBaselineADay /\ [Next]_vars =>
        [/\ baselines \subseteq baselines'
         /\ \A b, c \in baselines' :
              b.account_key = c.account_key /\ b.day = c.day => b = c]_vars
  <2> SUFFICES ASSUME SafetyInv, OneBaselineADay, [Next]_vars
               PROVE  /\ baselines \subseteq baselines'
                      /\ \A b, c \in baselines' :
                           b.account_key = c.account_key /\ b.day = c.day => b = c
    OBVIOUS
  <2> QED
    BY BaselinesGrow DEF OneBaselineADay
<1> QED
  BY <1>1, <1>2, <1>3, SafetyCorrect, PTL DEF Spec, BaselineFrozen

----------------------------------------------------------------------------
(* The positions of an account                                              *)

\* A part of a finite set is finite, and no larger.
LEMMA SmallerPart ==
  ASSUME NEW S, IsFiniteSet(S), NEW T, T \subseteq S
  PROVE  /\ IsFiniteSet(T) /\ Cardinality(T) \in Nat /\ Cardinality(S) \in Nat
         /\ Cardinality(T) <= Cardinality(S)
  BY FS_Subset, FS_CardinalityType

\* One element more makes a set larger by at most one.
LEMMA OneMore ==
  ASSUME NEW S, IsFiniteSet(S), NEW x, NEW T, T \subseteq S \cup {x}
  PROVE  /\ IsFiniteSet(T) /\ Cardinality(T) \in Nat /\ Cardinality(S) \in Nat
         /\ Cardinality(T) <= Cardinality(S) + 1
<1>1. IsFiniteSet(S \cup {x}) /\ Cardinality(S \cup {x}) <= Cardinality(S) + 1
      /\ Cardinality(S) \in Nat
  BY FS_AddElement, FS_CardinalityType
<1>2. /\ IsFiniteSet(T) /\ Cardinality(T) \in Nat /\ Cardinality(S \cup {x}) \in Nat
      /\ Cardinality(T) <= Cardinality(S \cup {x})
  BY <1>1, SmallerPart
<1> QED
  BY <1>1, <1>2

\* The rows of a table are finitely many.
LEMMA FiniteTables ==
  ASSUME SafetyInv
  PROVE  IsFiniteSet(DOMAIN book) /\ IsFiniteSet(DOMAIN executions)
<1>1. /\ DOMAIN book = 1 .. Len(book) /\ Len(book) \in Int
      /\ DOMAIN executions = 1 .. Len(executions) /\ Len(executions) \in Int
  BY DEF SafetyInv, TypeOK
<1> QED
  BY <1>1, FS_Interval

\* Positions an account holds from orders that filled while they were sent.
HeldBy(a) == {i \in OpenPositions(a) : book[i].fill = "on_send"}

\* An account that passed the position check still has room for one more.
RoomOK ==
  job # Idle /\ job.stage \in {"size", "check", "send"} =>
    Cardinality(HeldBy(account)) < settings.max_open_positions

LEMMA PositionsFinite ==
  ASSUME SafetyInv, NEW a
  PROVE  IsFiniteSet(HeldBy(a)) /\ Cardinality(HeldBy(a)) \in Nat
<1>1. HeldBy(a) \subseteq DOMAIN book
  BY DEF HeldBy, OpenPositions
<1> QED
  BY <1>1, FiniteTables, SmallerPart

\* A position is added by a send only.
LEMMA PositionsShrink ==
  ASSUME SafetyInv, [Next]_vars, ~SendOrder, NEW a
  PROVE  Cardinality(HeldBy(a)') <= Cardinality(HeldBy(a)) /\ Cardinality(HeldBy(a)') \in Nat
<1>1. DOMAIN book' = DOMAIN book
  BY OthersKeepJob, WorkKeepsWorld
<1>2. ASSUME NEW i \in HeldBy(a)' PROVE i \in HeldBy(a)
  <2>1. /\ i \in DOMAIN book /\ book'[i].account = a /\ book'[i].open
        /\ book'[i].fill = "on_send"
    BY <1>1 DEF HeldBy, OpenPositions
  <2> QED
    BY <2>1, OrdersStay DEF OrderKept, HeldBy, OpenPositions
<1> QED
  BY <1>2, PositionsFinite, SmallerPart

LEMMA PositionsGrow ==
  ASSUME SafetyInv, SendOrder, NEW a
  PROVE  /\ Cardinality(HeldBy(a)') <= Cardinality(HeldBy(a)) + 1
         /\ a # account => Cardinality(HeldBy(a)') <= Cardinality(HeldBy(a))
         /\ Cardinality(HeldBy(a)') \in Nat
<1>1. ASSUME NEW i \in HeldBy(a)', i \in DOMAIN book PROVE i \in HeldBy(a)
  <2>1. book'[i] = book[i]
    BY <1>1, SendResult
  <2> QED
    BY <1>1, <2>1 DEF HeldBy, OpenPositions
<1>2. ASSUME NEW i \in HeldBy(a)', i \notin DOMAIN book
      PROVE  i = Len(book) + 1 /\ a = account
  <2>1. i \in DOMAIN book' /\ book'[i].account = a
    BY DEF HeldBy, OpenPositions
  <2> QED
    BY <1>2, <2>1, SendResult
<1>3. /\ HeldBy(a)' \subseteq HeldBy(a) \cup {Len(book) + 1}
      /\ a # account => HeldBy(a)' \subseteq HeldBy(a)
  BY <1>1, <1>2
<1> QED
  BY <1>3, PositionsFinite, OneMore, SmallerPart

LEMMA RoomStep ==
  ASSUME SafetyInv, RoomOK, [Next]_vars, ~SwitchMidJob
  PROVE  RoomOK'
<1> DEFINE Roomy == {"size", "check", "send"}
<1> SUFFICES ASSUME job' # Idle, job'.stage \in Roomy
             PROVE  Cardinality(HeldBy(account)') < settings'.max_open_positions
  BY DEF RoomOK
<1>1. settings.max_open_positions \in Nat
  BY SettingsAssumption DEF SafetyInv, TypeOK
<1>2. ASSUME job # Idle, job.stage \in Roomy, UNCHANGED <<settings, account>>, ~SendOrder
      PROVE  Cardinality(HeldBy(account)') < settings'.max_open_positions
  <2>1. PICK a : a = account
    OBVIOUS
  <2>2. /\ Cardinality(HeldBy(a)') <= Cardinality(HeldBy(a))
        /\ Cardinality(HeldBy(a)') \in Nat /\ Cardinality(HeldBy(a)) \in Nat
    BY <1>2, PositionsShrink, PositionsFinite
  <2>3. Cardinality(HeldBy(a)) < settings.max_open_positions
    BY <1>2, <2>1 DEF RoomOK
  <2>4. HeldBy(account)' = HeldBy(a)'
    BY <1>2, <2>1 DEF HeldBy, OpenPositions
  <2>5. Cardinality(HeldBy(a)') < settings.max_open_positions
    BY <1>1, <2>2, <2>3
  <2> QED
    BY <1>2, <2>4, <2>5
<1>3. CASE ~Work
  <2>1. job # Idle /\ job.stage \in Roomy /\ UNCHANGED <<settings, account>>
    BY <1>3, OthersKeepJob
  <2>2. ~SendOrder
    BY <1>3 DEF Work
  <2> QED
    BY <1>2, <2>1, <2>2
<1>4. CASE QueryPositions
  <2>1. job \in Job /\ job # Idle /\ UNCHANGED <<settings, account, book>>
    BY <1>4, JobInStage DEF QueryPositions, environment, Stages, TerminalStages
  <2>2. PICK answered \in BOOLEAN :
          Continue(job,
            Require(answered, "FAILED_MT5_STATE_UNKNOWN")
              \odot CheckPositionLimit(Cardinality(OpenPositions(account)),
                                       settings.max_open_positions),
            "size")
    BY <1>4 DEF QueryPositions, Answers
  <2>3. CheckPositionLimit(Cardinality(OpenPositions(account)),
                           settings.max_open_positions) = "ok"
    BY <2>1, <2>2, Continued, AllChecksPassed
  <2>4. Cardinality(OpenPositions(account)) < settings.max_open_positions
    BY <2>3 DEF CheckPositionLimit, Require
  <2>5. HeldBy(account) \subseteq OpenPositions(account) /\ OpenPositions(account) \subseteq DOMAIN book
    BY DEF HeldBy, OpenPositions
  <2>6. /\ Cardinality(HeldBy(account)) <= Cardinality(OpenPositions(account))
        /\ Cardinality(HeldBy(account)) \in Nat /\ Cardinality(OpenPositions(account)) \in Nat
    BY <2>5, FiniteTables, SmallerPart
  <2>7. HeldBy(account)' = HeldBy(account)
    BY <2>1 DEF HeldBy, OpenPositions
  <2>8. Cardinality(HeldBy(account)) < settings.max_open_positions
    BY <1>1, <2>4, <2>6
  <2> QED
    BY <2>1, <2>7, <2>8
<1>5. CASE SizeOrder \/ CheckOrder
  <2>1. /\ job # Idle /\ job.stage \in Roomy /\ UNCHANGED <<settings, account>>
    BY <1>5, CheckingStages, WorkKeepsWorld DEF SizeOrder, CheckOrder, InStage, Work
  <2>2. ~SendOrder
    BY <1>5 DEF SizeOrder, CheckOrder, SendOrder, InStage
  <2> QED
    BY <1>2, <2>1, <2>2
<1>6. ~Work \/ QueryPositions \/ SizeOrder \/ CheckOrder
  <2>1. ~SettleSignal /\ ~AbandonJob
    BY DEF SettleSignal, AbandonJob
  <2>2. ClaimNextPending => job'.stage = "start"
    BY DEF ClaimNextPending
  <2>3. ~StartProcessing /\ ~IdentifyAccount
    BY StartWrites, AccountWrites
  <2>4. ~SendOrder /\ ~RecordReply /\ ~FinishExecution
    BY SendResult, RecordWrites, FinishWrites
  <2>5. ~SetSymbolNormalized
    <3> SUFFICES ASSUME SetSymbolNormalized PROVE FALSE
      OBVIOUS
    <3>1. job.stage = "symbol" /\ (job'.stage = "account" <=> job.stage = "symbol")
      BY CheckingStages DEF SetSymbolNormalized, InStage
    <3> QED
      BY <3>1
  <2>6. ~CheckMarket
    <3> SUFFICES ASSUME CheckMarket PROVE FALSE
      OBVIOUS
    <3>1. job \in Job
      BY JobInStage DEF CheckMarket, Stages, DatabaseStages
    <3>2. PICK e, d, verdict : Continue([job EXCEPT !.entry = e, !.day = d], verdict, "positions")
      BY DEF CheckMarket
    <3> QED
      BY <3>1, <3>2 DEF Continue, Job
  <2> QED
    BY <2>1, <2>2, <2>3, <2>4, <2>5, <2>6 DEF Work
<1> QED
  BY <1>3, <1>4, <1>5, <1>6

LEMMA PositionLimitStep ==
  ASSUME SafetyInv, RoomOK, PositionLimit, [Next]_vars
  PROVE  PositionLimit'
<1>1. ASSUME NEW a \in Accounts
      PROVE  \E c \in SettingsChoices : Cardinality(HeldBy(a)') <= c.max_open_positions
  <2>1. PICK c \in SettingsChoices : Cardinality(HeldBy(a)) <= c.max_open_positions
    BY <1>1 DEF PositionLimit, HeldBy
  <2>2. c.max_open_positions \in Nat /\ Cardinality(HeldBy(a)) \in Nat
    BY SettingsAssumption, PositionsFinite
  <2>3. ASSUME Cardinality(HeldBy(a)') <= Cardinality(HeldBy(a)), Cardinality(HeldBy(a)') \in Nat
        PROVE  Cardinality(HeldBy(a)') <= c.max_open_positions
    BY <2>1, <2>2, <2>3
  <2>4. CASE SendOrder /\ a = account
    <3>1. Cardinality(HeldBy(a)) < settings.max_open_positions
      BY <2>4, SendResult DEF RoomOK, Idle
    <3>2. settings \in SettingsChoices /\ settings.max_open_positions \in Nat
      BY SettingsAssumption DEF SafetyInv, TypeOK
    <3>3. Cardinality(HeldBy(a)') <= Cardinality(HeldBy(a)) + 1 /\ Cardinality(HeldBy(a)') \in Nat
      BY <2>4, PositionsGrow
    <3>4. Cardinality(HeldBy(a)') <= settings.max_open_positions
      BY <2>2, <3>1, <3>2, <3>3
    <3> QED
      BY <3>2, <3>4
  <2>5. CASE SendOrder /\ a # account
    BY <2>1, <2>3, <2>5, PositionsGrow
  <2>6. CASE ~SendOrder
    BY <2>1, <2>3, <2>6, PositionsShrink
  <2> QED
    BY <2>4, <2>5, <2>6
<1> QED
  BY <1>1 DEF PositionLimit, HeldBy

\* However jobs, fills, recoveries and restarts interleave, an account holds no more
\* positions than MAX_OPEN_POSITIONS, but for orders that filled later, as long as
\* the login does not change under a running job.
THEOREM PositionsAreLimited ==
  ASSUME ~SwitchMidJob
  PROVE  Spec => []PositionLimit
<1>1. Init => RoomOK /\ PositionLimit
  <2> SUFFICES ASSUME Init PROVE RoomOK /\ PositionLimit
    OBVIOUS
  <2>1. \A a : HeldBy(a) = {}
    BY DEF Init, HeldBy, OpenPositions
  <2>2. settings \in SettingsChoices /\ settings.max_open_positions \in Nat /\ Cardinality({}) = 0
    BY SettingsAssumption, FS_EmptySet DEF Init
  <2>3. \A a : Cardinality(HeldBy(a)) <= settings.max_open_positions
    BY <2>1, <2>2
  <2>4. PositionLimit
    BY <2>2, <2>3 DEF PositionLimit, HeldBy
  <2> QED
    BY <2>4 DEF Init, RoomOK
<1>2. SafetyInv /\ RoomOK /\ PositionLimit /\ [Next]_vars => RoomOK' /\ PositionLimit'
  BY RoomStep, PositionLimitStep
<1> QED
  BY <1>1, <1>2, SafetyCorrect, PTL DEF Spec

----------------------------------------------------------------------------
(* The trades of a day                                                      *)

\* Executions rows that count_executed_trades_since counts.
CountedTrades(key, since) ==
  {i \in DOMAIN executions : /\ executions[i].status \in Executions
                             /\ executions[i].account_key = key
                             /\ executions[i].started_at >= since}

DealTime(i) == book[executions[i].order_ticket].at

\* One job after the other: no row is younger than that of the running job, and with a
\* broker's clock that is not ahead of UTC every trade was dealt before a later row was
\* started.
LastRowOK == job # Idle /\ job.stage # "start" => \A j \in DOMAIN executions : j <= job.exec

SequenceOK ==
  BrokerOffset <= 0 =>
    \A i, j \in DOMAIN executions :
      executions[i].status \in Executions /\ i < j => DealTime(i) <= executions[j].started_at

\* The job has passed the count of the day's trades and has not sent yet, or it has
\* sent and its trade is not counted yet.
Sending == job # Idle /\ job.stage \in {"positions", "size", "check", "send"}

Sent == /\ job # Idle
        /\ \/ job.stage = "record" /\ job.reply \in Fills
           \/ job.stage = "finish" /\ job.verdict \in Executions

\* Until it is counted there is room for it on the day the count was made for, and
\* the deal is not earlier than that day.
RoomForTrade ==
  Cardinality(CountedTrades(job.key, DayLength * job.day)) < settings.max_trades_per_day

CountOK ==
  /\ Sending => RoomForTrade /\ DayLength * job.day <= BrokerNow
  /\ Sent => RoomForTrade /\ DayLength * job.day <= book[job.ticket].at

\* Trades of an account on a day whose jobs were started on that day or later.
DayTrades(a, day) == {i \in TradesOn(a, day) : ~Straddles(i, day)}

DaysOK ==
  \A a \in Accounts \cup {NoValue}, day \in Int : \E c \in SettingsChoices :
    Cardinality(DayTrades(a, day)) <= c.max_trades_per_day

\* Days are intervals: a moment after the start of a day is on that day or later.
LEMMA DayBounds ==
  ASSUME NEW t \in Int
  PROVE  /\ TradingDayKey(t) \in Int /\ DayLength * TradingDayKey(t) <= t
         /\ t < DayLength * (TradingDayKey(t) + 1)
<1>1. DayLength \in Nat \ {0}
  BY DayLengthAssumption
<1>2. t \div DayLength \in Int /\ DayLength * (t \div DayLength) <= t
  BY <1>1, QuotientBound
<1>3. t < DayLength * (t \div DayLength + 1)
  BY <1>1
<1> QED
  BY <1>2, <1>3 DEF TradingDayKey

LEMMA DayNotEarlier ==
  ASSUME NEW t \in Int, NEW day \in Int, DayLength * day <= t
  PROVE  DayLength * day <= DayLength * TradingDayKey(t)
<1>1. DayLength \in Nat \ {0} /\ TradingDayKey(t) \in Int
  BY DayLengthAssumption, DayBounds
<1>2. DayLength * day < DayLength * (TradingDayKey(t) + 1)
  BY <1>1, DayBounds
<1>3. day < TradingDayKey(t) + 1
  <2> SUFFICES ASSUME TradingDayKey(t) + 1 <= day PROVE FALSE
    BY <1>1
  <2>1. DayLength * (TradingDayKey(t) + 1) <= DayLength * day
    BY <1>1, ProductMonotonic
  <2> QED
    BY <1>1, <1>2, <2>1
<1> QED
  BY <1>1, <1>3, ProductMonotonic

\* A counted row stays what it is; a row comes to count only when its job finishes.
LEMMA TradesKept ==
  ASSUME SafetyInv, RecordInv, [Next]_vars, NEW k \in DOMAIN executions',
         executions'[k].status \in Executions, ~(FinishExecution /\ k = job.exec)
  PROVE  /\ k \in DOMAIN executions /\ executions[k].status \in Executions
         /\ executions'[k].account_key = executions[k].account_key
         /\ executions'[k].started_at = executions[k].started_at
         /\ executions'[k].order_ticket = executions[k].order_ticket
         /\ DealTime(k)' = DealTime(k)
<1>1. ASSUME k \in DOMAIN executions, executions'[k].status = executions[k].status,
             executions'[k].account_key = executions[k].account_key,
             executions'[k].order_ticket = executions[k].order_ticket
      PROVE  /\ k \in DOMAIN executions /\ executions[k].status \in Executions
             /\ executions'[k].account_key = executions[k].account_key
             /\ executions'[k].started_at = executions[k].started_at
             /\ executions'[k].order_ticket = executions[k].order_ticket
             /\ DealTime(k)' = DealTime(k)
  <2>1. executions'[k].started_at = executions[k].started_at
    BY <1>1, ExecutionsKept DEF ExecutionKept
  <2>2. TicketOf(executions[k].order_ticket, executions[k].signal)
    BY <1>1 DEF RecordInv, RowsOK
  <2>3. book'[executions[k].order_ticket].at = book[executions[k].order_ticket].at
    BY <2>2, TicketsStay
  <2> QED
    BY <1>1, <2>1, <2>3 DEF DealTime
<1>2. CASE UNCHANGED executions
  BY <1>1, <1>2
<1>3. CASE StartProcessing
  <2>1. "PROCESSING" \notin Executions
    BY DEF Executions
  <2> QED
    BY <1>1, <1>3, <2>1, StartWrites
<1>4. CASE IdentifyAccount
  <2>1. k \in DOMAIN executions /\ ExecutionKept(k)
    BY <1>4, AccountWrites
  <2>2. CASE k # job.exec
    <3>1. executions'[k] = executions[k]
      BY <2>1, <2>2 DEF ExecutionKept
    <3> QED
      BY <1>1, <2>1, <3>1
  <2>3. CASE k = job.exec
    <3>1. executions[k].status \in Executions
      BY <1>4, <2>3, AccountWrites
    <3>2. job # Idle /\ job.stage = "account"
      BY <1>4, JobInStage DEF IdentifyAccount, Stages, DatabaseStages
    <3>3. executions[k].signal = job.signal /\ OrdersOf(job.signal) = {}
      BY <2>3, <3>2 DEF RecordInv, JobRecordOK, SafetyInv, JobOK, Unsent
    <3>4. TicketOf(executions[k].order_ticket, executions[k].signal)
      BY <2>1, <3>1 DEF RecordInv, RowsOK
    <3> QED
      BY <3>3, <3>4 DEF TicketOf, OrdersOf
  <2> QED
    BY <2>2, <2>3
<1>5. CASE RecordReply
  <2>1. k \in DOMAIN executions /\ ExecutionKept(k)
    BY <1>5, RecordWrites
  <2>2. CASE k # job.exec
    <3>1. executions'[k] = executions[k]
      BY <2>1, <2>2 DEF ExecutionKept
    <3> QED
      BY <1>1, <2>1, <3>1
  <2>3. CASE k = job.exec
    BY <1>1, <1>5, <2>1, <2>3, RecordWrites
  <2> QED
    BY <2>2, <2>3
<1>6. CASE FinishExecution
  <2>1. k \in DOMAIN executions /\ ExecutionKept(k) /\ k # job.exec
    BY <1>6, FinishWrites
  <2>2. executions'[k] = executions[k]
    BY <2>1 DEF ExecutionKept
  <2> QED
    BY <1>1, <2>1, <2>2
<1>7. \/ StartProcessing \/ IdentifyAccount \/ RecordReply \/ FinishExecution
      \/ UNCHANGED executions
  <2>1. CASE Work
    BY <2>1, CheckingStages DEF Work, ClaimNextPending, SendOrder, SettleSignal, AbandonJob, store
  <2>2. CASE ~Work
    BY <2>2, OthersKeepJob
  <2> QED
    BY <2>1, <2>2
<1> QED
  BY <1>2, <1>3, <1>4, <1>5, <1>6, <1>7

\* The trade a finished job adds: its own deal on its own account.
LEMMA TradeAdded ==
  ASSUME SafetyInv, RecordInv, KeyOK, FinishExecution,
         executions'[job.exec].status \in Executions
  PROVE  /\ Sent /\ job.exec \in DOMAIN executions /\ UNCHANGED <<book, settings>>
         /\ executions'[job.exec].account_key = job.key
         /\ executions'[job.exec].started_at = executions[job.exec].started_at
         /\ job.ticket \in DOMAIN book
         /\ DealTime(job.exec)' = book[job.ticket].at /\ job'.exec = job.exec
<1>1. /\ job.stage = "finish" /\ job.verdict \in Executions /\ job # Idle
      /\ job.exec \in DOMAIN executions /\ job'.exec = job.exec
      /\ executions'[job.exec].account_key = executions[job.exec].account_key
      /\ job.reply \in Fills => executions'[job.exec].order_ticket = job.ticket
  BY FinishWrites DEF Idle
<1>2. job.reply \in Fills /\ TicketOf(job.ticket, job.signal) /\ executions[job.exec].account_key = job.key
  BY <1>1 DEF RecordInv, JobRecordOK, KeyOK
<1>3. UNCHANGED <<book, settings>>
  BY DEF FinishExecution, environment
<1>4. executions'[job.exec].started_at = executions[job.exec].started_at
  BY <1>1, FinishWrites DEF ExecutionKept
<1> QED
  BY <1>1, <1>2, <1>3, <1>4 DEF Sent, TicketOf, DealTime

LEMMA LastRowStep ==
  ASSUME SafetyInv, LastRowOK, [Next]_vars
  PROVE  LastRowOK'
<1>1. ASSUME job' = Idle \/ job'.stage = "start" PROVE LastRowOK'
  BY <1>1 DEF LastRowOK
<1>2. ASSUME job # Idle, job.stage # "start", job'.exec = job.exec,
             DOMAIN executions' = DOMAIN executions
      PROVE  LastRowOK'
  BY <1>2 DEF LastRowOK
<1>3. CASE ~Work
  BY <1>1, <1>3, OthersKeepJob DEF LastRowOK
<1>4. CASE ClaimNextPending
  BY <1>1, <1>4 DEF ClaimNextPending
<1>5. CASE StartProcessing
  <2>1. DOMAIN executions = 1 .. Len(executions) /\ Len(executions) \in Nat
    BY DEF SafetyInv, TypeOK
  <2>2. job'.exec = Len(executions) + 1
        /\ DOMAIN executions' = DOMAIN executions \cup {Len(executions) + 1}
    BY <1>5, StartWrites
  <2>3. \A j \in DOMAIN executions' : j <= Len(executions) + 1
    BY <2>1, <2>2
  <2> QED
    BY <2>2, <2>3 DEF LastRowOK
<1>6. CASE SetSymbolNormalized \/ CheckMarket \/ QueryPositions \/ SizeOrder \/ CheckOrder
  <2>1. /\ UNCHANGED executions /\ job # Idle /\ job.stage # "start"
        /\ job' = Idle \/ job'.exec = job.exec
    BY <1>6, CheckingStages
  <2> QED
    BY <1>1, <1>2, <2>1
<1>7. CASE IdentifyAccount
  <2>1. job # Idle /\ job.stage # "start"
    BY <1>7, JobInStage DEF IdentifyAccount, Stages, DatabaseStages
  <2> QED
    BY <1>2, <1>7, <2>1, AccountWrites
<1>8. CASE SendOrder
  <2>1. job # Idle /\ job.stage # "start" /\ UNCHANGED executions /\ job'.exec = job.exec
    BY <1>8, SendResult DEF Idle
  <2> QED
    BY <1>2, <2>1
<1>9. CASE RecordReply
  <2>1. job # Idle /\ job.stage # "start"
    BY <1>9, RecordWrites DEF Idle
  <2> QED
    BY <1>2, <1>9, <2>1, RecordWrites
<1>10. CASE FinishExecution
  <2>1. job # Idle /\ job.stage # "start"
    BY <1>10, FinishWrites DEF Idle
  <2> QED
    BY <1>2, <1>10, <2>1, FinishWrites
<1>11. CASE SettleSignal \/ AbandonJob
  BY <1>1, <1>11 DEF SettleSignal, AbandonJob
<1> QED
  BY <1>3, <1>4, <1>5, <1>6, <1>7, <1>8, <1>9, <1>10, <1>11 DEF Work

\* With a broker's clock that is not ahead of UTC, what is dealt is dealt before what
\* is started next.
LEMMA SequenceStep ==
  ASSUME SafetyInv, RecordInv, KeyOK, DealsInPast, LastRowOK, SequenceOK, [Next]_vars
  PROVE  SequenceOK'
<1> SUFFICES ASSUME BrokerOffset <= 0, NEW i \in DOMAIN executions', NEW j \in DOMAIN executions',
                    executions'[i].status \in Executions, i < j
             PROVE  DealTime(i)' <= executions'[j].started_at
  BY DEF SequenceOK
<1>1. ~(FinishExecution /\ i = job.exec)
  <2> SUFFICES ASSUME FinishExecution, i = job.exec PROVE FALSE
    OBVIOUS
  <2>1. j \in DOMAIN executions /\ job # Idle /\ job.stage # "start" /\ i \in DOMAIN executions
    BY FinishWrites DEF Idle
  <2>2. j <= job.exec
    BY <2>1 DEF LastRowOK
  <2>3. i \in Int /\ j \in Int
    BY <2>1 DEF SafetyInv, TypeOK
  <2> QED
    BY <2>2, <2>3
<1>2. i \in DOMAIN executions /\ executions[i].status \in Executions /\ DealTime(i)' = DealTime(i)
  BY <1>1, TradesKept
<1>3. CASE j \in DOMAIN executions
  <2>1. executions'[j].started_at = executions[j].started_at
    BY <1>3, ExecutionsKept DEF ExecutionKept
  <2> QED
    BY <1>2, <1>3, <2>1 DEF SequenceOK
<1>4. CASE j \notin DOMAIN executions
  <2>1. StartProcessing
    <3>1. Work
      BY <1>4, OthersKeepJob
    <3>2. \/ StartProcessing \/ IdentifyAccount \/ RecordReply \/ FinishExecution
          \/ UNCHANGED executions
      BY <3>1, CheckingStages DEF Work, ClaimNextPending, SendOrder, SettleSignal, AbandonJob, store
    <3> QED
      BY <1>4, <3>2, AccountWrites, RecordWrites, FinishWrites
  <2>2. executions'[j].started_at = utc
    BY <1>4, <2>1, StartWrites
  <2>3. TicketOf(executions[i].order_ticket, executions[i].signal)
    BY <1>2 DEF RecordInv, RowsOK
  <2>4. PICK k \in DOMAIN book : k = executions[i].order_ticket
    BY <2>3 DEF TicketOf
  <2>5. book[k] \in Order /\ book[k].at <= BrokerNow
    BY <2>4 DEF SafetyInv, TypeOK, DealsInPast
  <2>6. DealTime(i) = book[k].at /\ book[k].at \in Int
    BY <2>4, <2>5 DEF DealTime, Order
  <2>7. utc \in Int /\ BrokerOffset \in Int
    BY ClockAssumption DEF SafetyInv, TypeOK
  <2>8. book[k].at <= utc
    BY <2>5, <2>6, <2>7 DEF BrokerNow
  <2> QED
    BY <1>2, <2>2, <2>6, <2>8
<1> QED
  BY <1>3, <1>4

\* What an unfinished job leaves of the count.
LEMMA CountUndisturbed ==
  ASSUME SafetyInv, RecordInv, [Next]_vars, ~FinishExecution, NEW key, NEW since
  PROVE  Cardinality(CountedTrades(key, since)') <= Cardinality(CountedTrades(key, since))
         /\ Cardinality(CountedTrades(key, since)') \in Nat
         /\ Cardinality(CountedTrades(key, since)) \in Nat
<1>1. ASSUME NEW k \in CountedTrades(key, since)' PROVE k \in CountedTrades(key, since)
  <2>1. k \in DOMAIN executions' /\ executions'[k].status \in Executions
    BY DEF CountedTrades
  <2>2. /\ k \in DOMAIN executions /\ executions[k].status \in Executions
        /\ executions'[k].account_key = executions[k].account_key
        /\ executions'[k].started_at = executions[k].started_at
    BY <2>1, TradesKept
  <2> QED
    BY <1>1, <2>2 DEF CountedTrades
<1>2. CountedTrades(key, since) \subseteq DOMAIN executions
  BY DEF CountedTrades
<1>3. IsFiniteSet(CountedTrades(key, since))
  BY <1>2, FiniteTables, SmallerPart
<1> QED
  BY <1>1, <1>3, SmallerPart

LEMMA RoomUndisturbed ==
  ASSUME SafetyInv, RecordInv, [Next]_vars, ~FinishExecution, RoomForTrade,
         job'.key = job.key, job'.day = job.day, settings' = settings
  PROVE  RoomForTrade'
<1>1. PICK key, since : key = job.key /\ since = DayLength * job.day
  OBVIOUS
<1>2. /\ Cardinality(CountedTrades(key, since)') <= Cardinality(CountedTrades(key, since))
      /\ Cardinality(CountedTrades(key, since)') \in Nat
      /\ Cardinality(CountedTrades(key, since)) \in Nat
  BY CountUndisturbed
<1>3. settings.max_trades_per_day \in Nat
  BY SettingsAssumption DEF SafetyInv, TypeOK
<1>4. Cardinality(CountedTrades(key, since)) < settings.max_trades_per_day
  BY <1>1 DEF RoomForTrade
<1>5. CountedTrades(job.key, DayLength * job.day)' = CountedTrades(key, since)'
  BY <1>1 DEF CountedTrades
<1>6. Cardinality(CountedTrades(key, since)') < settings.max_trades_per_day
  BY <1>2, <1>3, <1>4
<1> QED
  BY <1>5, <1>6 DEF RoomForTrade

\* The count the market check makes.
LEMMA MarketCounts ==
  ASSUME SafetyInv, CheckMarket, job'.stage = "positions"
  PROVE  RoomForTrade' /\ DayLength * job'.day <= BrokerNow'
<1>1. job \in Job /\ UNCHANGED <<settings, executions, utc>>
  BY JobInStage DEF CheckMarket, Stages, DatabaseStages, environment, store
<1>2. PICK available \in Answers("symbol"), tick \in Answers("tick"), clock \in Answers("clock"),
           quote \in Quotes, broker_now \in server_time :
        LET entry == IF Payload.action = "BUY" THEN quote.ask ELSE quote.bid
            point == SymbolInfo[SymbolMap[Payload.symbol]].point
            trades_today ==
              count_executed_trades_since(job.key, StartOfTradingDay(broker_now))
        IN  Continue([job EXCEPT !.entry = entry, !.day = TradingDayKey(broker_now)],
              Require(available, "REJECTED_SYMBOL_UNAVAILABLE")
                \odot Require(tick, "FAILED_MT5_UNAVAILABLE")
                \odot Require(clock, "FAILED_BROKER_TIME_UNKNOWN")
                \odot CheckStopLoss(Payload.action, Payload.stop_loss, entry,
                                    settings.require_stop_loss)
                \odot CheckSpread(quote, point, settings.max_spread_points)
                \odot CheckDailyTradeLimit(trades_today, settings.max_trades_per_day),
              "positions")
  BY DEF CheckMarket
<1> DEFINE entry == IF Payload.action = "BUY" THEN quote.ask ELSE quote.bid
           checks == Require(available, "REJECTED_SYMBOL_UNAVAILABLE")
                       \odot Require(tick, "FAILED_MT5_UNAVAILABLE")
                       \odot Require(clock, "FAILED_BROKER_TIME_UNKNOWN")
                       \odot CheckStopLoss(Payload.action, Payload.stop_loss, entry,
                                           settings.require_stop_loss)
                       \odot CheckSpread(quote, SymbolInfo[SymbolMap[Payload.symbol]].point,
                                         settings.max_spread_points)
<1> DEFINE limit == CheckDailyTradeLimit(
                      count_executed_trades_since(job.key, StartOfTradingDay(broker_now)),
                      settings.max_trades_per_day)
<1>3. limit = "ok" /\ job'.key = job.key /\ job'.day = TradingDayKey(broker_now)
  <2>1. Continue([job EXCEPT !.entry = entry, !.day = TradingDayKey(broker_now)],
                 checks \odot limit, "positions")
    BY <1>2
  <2> HIDE DEF limit, checks, entry
  <2>2. checks \odot limit = "ok" /\ job'.key = job.key /\ job'.day = TradingDayKey(broker_now)
    BY <1>1, <2>1 DEF Continue, Job
  <2> QED
    BY <2>2, AllChecksPassed
<1>4. count_executed_trades_since(job.key, StartOfTradingDay(broker_now))
        < settings.max_trades_per_day
  BY <1>3 DEF CheckDailyTradeLimit, Require
<1>5. Cardinality(CountedTrades(job.key, DayLength * TradingDayKey(broker_now)))
        < settings.max_trades_per_day
  BY <1>4 DEF count_executed_trades_since, StartOfTradingDay, CountedTrades
<1>6. CountedTrades(job.key, DayLength * job.day)'
        = CountedTrades(job.key, DayLength * TradingDayKey(broker_now))
  BY <1>1, <1>3 DEF CountedTrades
<1>7. BrokerNow \in Int /\ BrokerNow' = BrokerNow
  BY <1>1, ClockAssumption DEF BrokerNow, SafetyInv, TypeOK
<1>8. broker_now \in Int /\ broker_now <= BrokerNow
  BY <1>7, ClockAssumption DEF server_time
<1>9. DayLength * TradingDayKey(broker_now) <= BrokerNow
  <2>1. DayLength * TradingDayKey(broker_now) <= broker_now
    BY <1>8, DayBounds
  <2>2. DayLength * TradingDayKey(broker_now) \in Int
    BY <1>8, DayBounds, DayLengthAssumption
  <2> QED
    BY <1>7, <1>8, <2>1, <2>2
<1> QED
  BY <1>1, <1>3, <1>5, <1>6, <1>7, <1>9 DEF RoomForTrade

\* The broker's clock goes forward only.
LEMMA BrokerClock ==
  ASSUME SafetyInv, [Next]_vars, NEW m \in Int, m <= BrokerNow
  PROVE  m <= BrokerNow'
<1>1. utc \in Int /\ BrokerOffset \in Int /\ (utc' = utc \/ utc' = utc + 1)
  BY ClockAssumption, OthersKeepJob, WorkKeepsWorld DEF SafetyInv, TypeOK
<1>2. BrokerNow \in Int /\ (BrokerNow' = BrokerNow \/ BrokerNow' = BrokerNow + 1)
  BY <1>1 DEF BrokerNow
<1> QED
  BY <1>2

LEMMA CountStep ==
  ASSUME SafetyInv, RecordInv, CountOK, [Next]_vars
  PROVE  CountOK'
<1>1. SafetyInv' /\ JobRecordOK'
  BY NextSafety, JobRecordStep DEF RecordInv
<1>2. ASSUME job' = Idle \/ job'.stage \in {"start", "symbol", "account", "market", "settle"}
      PROVE  CountOK'
  BY <1>2 DEF CountOK, Sending, Sent
<1>3. ASSUME UNCHANGED book, job # Idle, job.stage \in Unsent,
             job' # Idle, job'.signal = job.signal, job'.stage # "record"
      PROVE  ~Sent'
  BY <1>1, <1>3, NoTradeBeforeSend DEF Sent
<1>4. ASSUME job # Idle PROVE job \in Job /\ job.day \in Int /\ DayLength * job.day \in Int
  <2>1. job \in Job /\ job.day \in Int
    BY <1>4, JobHasType DEF Job
  <2> QED
    BY <2>1, DayLengthAssumption
<1>5. ASSUME Sending, ~FinishExecution, job'.key = job.key, job'.day = job.day, settings' = settings
      PROVE  RoomForTrade' /\ DayLength * job'.day <= BrokerNow'
  <2>1. RoomForTrade'
    BY <1>5, RoomUndisturbed DEF CountOK
  <2>2. DayLength * job.day <= BrokerNow /\ DayLength * job.day \in Int
    BY <1>4, <1>5 DEF CountOK, Sending
  <2>3. DayLength * job.day <= BrokerNow'
    <3>1. PICK m \in Int : m = DayLength * job.day
      BY <2>2
    <3> QED
      BY <2>2, <3>1, BrokerClock
  <2> QED
    BY <1>5, <2>1, <2>3
<1>6. ASSUME Sent, ~FinishExecution, job'.key = job.key, job'.day = job.day, settings' = settings,
             job'.ticket = job.ticket
      PROVE  RoomForTrade' /\ DayLength * job'.day <= book'[job'.ticket].at
  <2>1. RoomForTrade' /\ DayLength * job.day <= book[job.ticket].at
    BY <1>6, RoomUndisturbed DEF CountOK
  <2>2. TicketOf(job.ticket, job.signal)
    BY <1>6 DEF RecordInv, JobRecordOK, Sent
  <2>3. book'[job.ticket].at = book[job.ticket].at
    BY <2>2, TicketsStay
  <2> QED
    BY <1>6, <2>1, <2>3
<1>7. CASE ~Work
  <2>1. job' = job \/ job' = Idle
    BY <1>7, OthersKeepJob
  <2>2. CASE job' = job /\ job # Idle
    <3>1. settings' = settings /\ ~FinishExecution
      BY <1>7, <2>2, OthersKeepJob DEF Work
    <3> QED
      BY <1>5, <1>6, <2>2, <3>1 DEF CountOK, Sending, Sent
  <2> QED
    BY <1>2, <2>1, <2>2
<1>8. CASE CheckMarket
  <2>1. /\ UNCHANGED book /\ job # Idle /\ job.stage \in Unsent /\ job \in Job
    BY <1>8, CheckingStages, JobHasType
  <2>2. job'.stage \in {"positions", "finish"} /\ job'.signal = job.signal
    <3>1. PICK e, d, verdict : Continue([job EXCEPT !.entry = e, !.day = d], verdict, "positions")
      BY <1>8 DEF CheckMarket
    <3> QED
      BY <2>1, <3>1 DEF Continue, Job
  <2>3. job' # Idle /\ ~Sent'
    BY <1>3, <2>1, <2>2 DEF Idle
  <2>4. Sending' => job'.stage = "positions"
    BY <2>2 DEF Sending
  <2> QED
    BY <1>8, <2>3, <2>4, MarketCounts DEF CountOK
<1>9. CASE QueryPositions \/ SizeOrder \/ CheckOrder
  <2>1. /\ UNCHANGED <<book, settings>> /\ job # Idle /\ job.stage \in Unsent
        /\ job.stage \in {"positions", "size", "check"}
    BY <1>9, CheckingStages, WorkKeepsWorld DEF QueryPositions, SizeOrder, CheckOrder, InStage, Work
  <2>2. CASE job' # Idle
    <3>1. /\ job'.signal = job.signal /\ job'.key = job.key /\ job'.day = job.day
          /\ job'.stage # "record"
      BY <1>9, <2>1, <2>2, CheckingStages DEF CheckMarket, InStage
    <3>2. ~FinishExecution /\ Sending
      BY <2>1 DEF FinishExecution, InStage, Sending
    <3>3. ~Sent'
      BY <1>3, <2>1, <2>2, <3>1
    <3> QED
      BY <1>5, <2>1, <3>1, <3>2, <3>3 DEF CountOK
  <2> QED
    BY <1>2, <2>2
<1>10. CASE SetSymbolNormalized
  <2>1. job.stage = "symbol" /\ (job' = Idle \/ job'.stage = "account")
    BY <1>10, CheckingStages DEF SetSymbolNormalized, InStage
  <2> QED
    BY <1>2, <2>1
<1>11. CASE IdentifyAccount \/ StartProcessing
  <2>1. /\ UNCHANGED book /\ job # Idle /\ job.stage \in Unsent
        /\ job'.signal = job.signal /\ job'.stage \in {"symbol", "market", "finish"}
    <3>1. CASE IdentifyAccount
      BY <3>1, JobInStage, AccountWrites DEF IdentifyAccount, Stages, DatabaseStages, Unsent, broker
    <3>2. CASE StartProcessing
      BY <3>2, StartWrites DEF Unsent
    <3> QED
      BY <1>11, <3>1, <3>2
  <2>2. job' # Idle
    BY <2>1 DEF Idle
  <2>3. ~Sent'
    BY <1>3, <2>1, <2>2
  <2>4. ~Sending'
    BY <2>1 DEF Sending
  <2> QED
    BY <2>3, <2>4 DEF CountOK
<1>12. CASE SendOrder
  <2>1. /\ job.stage = "send" /\ job \in Job /\ job'.stage = "record"
        /\ job'.key = job.key /\ job'.day = job.day /\ UNCHANGED settings
    BY <1>12, SendResult
  <2>2. Sending /\ ~FinishExecution /\ ~Sending'
    BY <2>1 DEF Sending, Idle, FinishExecution, InStage
  <2>3. RoomForTrade' /\ DayLength * job.day <= BrokerNow
    BY <2>1, <2>2, RoomUndisturbed DEF CountOK
  <2>4. job'.reply \in Fills => book'[job'.ticket].at = BrokerNow
    BY <1>12, SendResult
  <2>5. Sent' => job'.reply \in Fills
    BY <2>1 DEF Sent
  <2> QED
    BY <2>1, <2>2, <2>3, <2>4, <2>5 DEF CountOK
<1>13. CASE RecordReply
  <2>1. /\ job.stage = "record" /\ job # Idle /\ job'.stage = "finish"
        /\ job'.verdict = SendVerdict(job.reply) /\ job'.key = job.key /\ job'.day = job.day
        /\ job'.ticket = job.ticket /\ UNCHANGED settings
    BY <1>13, RecordWrites DEF RecordReply, environment, Idle
  <2>2. ~FinishExecution /\ ~Sending'
    BY <2>1 DEF FinishExecution, InStage, Sending
  <2>3. Sent' => Sent
    BY <2>1 DEF Sent, SendVerdict, Executions, Fills
  <2> QED
    BY <1>6, <2>1, <2>2, <2>3 DEF CountOK
<1>14. CASE FinishExecution
  BY <1>2, <1>14, FinishWrites
<1>15. CASE ClaimNextPending
  <2>1. job'.stage = "start"
    BY <1>15 DEF ClaimNextPending
  <2> QED
    BY <1>2, <2>1
<1>16. CASE SettleSignal \/ AbandonJob
  BY <1>2, <1>16 DEF SettleSignal, AbandonJob
<1> QED
  BY <1>7, <1>8, <1>9, <1>10, <1>11, <1>12, <1>13, <1>14, <1>15, <1>16
  DEF Work

\* The columns the days are reckoned with.
LEMMA ColumnTypes ==
  ASSUME SafetyInv
  PROVE  /\ \A i \in DOMAIN executions : /\ executions[i].started_at \in Nat
                                         /\ executions[i].account_key \in Accounts \cup {NoValue}
         /\ \A k \in DOMAIN book : book[k].at \in Int
<1>1. \A i \in DOMAIN executions : executions[i] \in Execution
  BY DEF SafetyInv, TypeOK
<1>2. \A k \in DOMAIN book : book[k] \in Order
  BY DEF SafetyInv, TypeOK
<1> QED
  BY <1>1, <1>2 DEF Execution, Order

\* A trade that comes to count had room on its day.
LEMMA DaysStep ==
  ASSUME SafetyInv, RecordInv, KeyOK, CountOK, DaysOK, [Next]_vars
  PROVE  DaysOK'
<1> SUFFICES ASSUME NEW a \in Accounts \cup {NoValue}, NEW day \in Int
             PROVE  \E c \in SettingsChoices : Cardinality(DayTrades(a, day)') <= c.max_trades_per_day
  BY DEF DaysOK
<1>1. ASSUME NEW k \in DayTrades(a, day)', ~(FinishExecution /\ k = job.exec)
      PROVE  k \in DayTrades(a, day)
  <2>1. /\ k \in DOMAIN executions' /\ executions'[k].status \in Executions
        /\ executions'[k].account_key = a /\ TradingDayKey(DealTime(k)') = day
        /\ ~(executions'[k].started_at < day * DayLength)
    BY DEF DayTrades, TradesOn, Straddles, DealTime, TradingDayKey
  <2>2. /\ k \in DOMAIN executions /\ executions[k].status \in Executions
        /\ executions'[k].account_key = executions[k].account_key
        /\ executions'[k].started_at = executions[k].started_at
        /\ DealTime(k)' = DealTime(k)
    BY <1>1, <2>1, TradesKept
  <2> QED
    BY <2>1, <2>2 DEF DayTrades, TradesOn, Straddles, DealTime
<1>2. IsFiniteSet(DayTrades(a, day)) /\ Cardinality(DayTrades(a, day)) \in Nat
  <2>1. DayTrades(a, day) \subseteq DOMAIN executions
    BY DEF DayTrades, TradesOn
  <2> QED
    BY <2>1, FiniteTables, SmallerPart
<1>3. CASE DayTrades(a, day)' \subseteq DayTrades(a, day)
  <2>1. PICK c \in SettingsChoices : Cardinality(DayTrades(a, day)) <= c.max_trades_per_day
    BY DEF DaysOK
  <2>2. Cardinality(DayTrades(a, day)') <= Cardinality(DayTrades(a, day))
        /\ Cardinality(DayTrades(a, day)') \in Nat
    BY <1>2, <1>3, SmallerPart
  <2>3. c.max_trades_per_day \in Nat
    BY SettingsAssumption
  <2>4. Cardinality(DayTrades(a, day)') <= c.max_trades_per_day
    BY <1>2, <2>1, <2>2, <2>3
  <2> QED
    BY <2>4
<1>4. CASE ~(DayTrades(a, day)' \subseteq DayTrades(a, day))
  <2>1. PICK k \in DayTrades(a, day)' : FinishExecution /\ k = job.exec
    BY <1>1, <1>4
  <2>2. /\ executions'[job.exec].status \in Executions
        /\ executions'[job.exec].account_key = a /\ TradingDayKey(DealTime(k)') = day
    BY <2>1 DEF DayTrades, TradesOn, DealTime
  <2>3. /\ Sent /\ job.key = a /\ job.ticket \in DOMAIN book
        /\ TradingDayKey(book[job.ticket].at) = day
    BY <2>1, <2>2, TradeAdded
  <2>4. RoomForTrade /\ DayLength * job.day <= book[job.ticket].at
    BY <2>3 DEF CountOK
  <2>5. /\ job.day \in Int /\ book[job.ticket].at \in Int
    <3>1. job \in Job
      BY <2>3, JobHasType DEF Sent
    <3> QED
      BY <2>3, <3>1, ColumnTypes DEF Job
  <2>6. DayLength * job.day <= DayLength * day
    BY <2>3, <2>4, <2>5, DayNotEarlier
  <2>7. DayLength * day = day * DayLength /\ DayLength * day \in Int /\ DayLength * job.day \in Int
    BY <2>5, DayLengthAssumption
  <2> DEFINE counted == CountedTrades(job.key, DayLength * job.day)
  <2>8. ASSUME NEW m \in DayTrades(a, day)', m # job.exec PROVE m \in counted
    <3>1. m \in DayTrades(a, day)
      BY <1>1, <2>8
    <3>2. /\ m \in DOMAIN executions /\ executions[m].status \in Executions
          /\ executions[m].account_key = a /\ ~(executions[m].started_at < day * DayLength)
      BY <3>1 DEF DayTrades, TradesOn, Straddles
    <3>3. executions[m].started_at \in Nat
      BY <3>2, ColumnTypes
    <3>4. executions[m].started_at >= DayLength * job.day
      BY <2>6, <2>7, <3>2, <3>3
    <3> QED
      BY <2>3, <3>2, <3>4 DEF CountedTrades
  <2>9. counted \subseteq DOMAIN executions
    BY DEF CountedTrades
  <2>10. Cardinality(counted) < settings.max_trades_per_day
    BY <2>4 DEF RoomForTrade
  <2> HIDE DEF counted
  <2>11. DayTrades(a, day)' \subseteq counted \cup {job.exec} /\ IsFiniteSet(counted)
    BY <2>8, <2>9, FiniteTables, SmallerPart
  <2>12. /\ Cardinality(DayTrades(a, day)') <= Cardinality(counted) + 1
         /\ Cardinality(DayTrades(a, day)') \in Nat /\ Cardinality(counted) \in Nat
    <3>1. PICK x : x = job.exec
      OBVIOUS
    <3> QED
      BY <2>11, <3>1, OneMore
  <2>13. settings \in SettingsChoices /\ settings.max_trades_per_day \in Nat
    BY SettingsAssumption DEF SafetyInv, TypeOK
  <2>14. Cardinality(DayTrades(a, day)') <= settings.max_trades_per_day
    BY <2>10, <2>12, <2>13
  <2> QED
    BY <2>13, <2>14
<1> QED
  BY <1>3, <1>4

\* Everything the limit of a day rests on.
TradeInv == LastRowOK /\ SequenceOK /\ CountOK /\ DaysOK

\* Two trades of one day whose jobs were both started before it would be one job.
LEMMA OneStraddles ==
  ASSUME SafetyInv, RecordInv, SequenceOK, BrokerOffset <= 0, NEW a, NEW day \in Int
  PROVE  Cardinality({j \in TradesOn(a, day) : Straddles(j, day)}) <= 1
<1> DEFINE S == {j \in TradesOn(a, day) : Straddles(j, day)}
<1>1. ASSUME NEW j \in S, NEW k \in S, j < k PROVE FALSE
  <2>1. /\ j \in DOMAIN executions /\ k \in DOMAIN executions
        /\ executions[j].status \in Executions /\ TradingDayKey(DealTime(j)) = day
        /\ executions[k].started_at < day * DayLength
    BY DEF TradesOn, Straddles, DealTime
  <2>2. DealTime(j) <= executions[k].started_at
    BY <1>1, <2>1 DEF SequenceOK
  <2>3. TicketOf(executions[j].order_ticket, executions[j].signal)
    BY <2>1 DEF RecordInv, RowsOK
  <2>4. DealTime(j) \in Int
    BY <2>3, ColumnTypes DEF TicketOf, DealTime
  <2>5. executions[k].started_at \in Int
    BY <2>1, ColumnTypes
  <2>6. DayLength * day <= DealTime(j)
    BY <2>1, <2>4, DayBounds
  <2>7. DayLength * day = day * DayLength /\ DayLength * day \in Int
    BY DayLengthAssumption
  <2> QED
    BY <2>1, <2>2, <2>4, <2>5, <2>6, <2>7
<1>2. S \subseteq Int
  BY DEF TradesOn, SafetyInv, TypeOK
<1>3. \A j, k \in S : j = k
  <2> HIDE DEF S
  <2> QED
    BY <1>1, <1>2
<1>4. CASE S = {}
  BY <1>4, FS_EmptySet
<1>5. CASE S # {}
  <2>1. PICK j : S = {j}
    BY <1>3, <1>5
  <2>2. Cardinality({j}) = 1
    BY FS_Singleton
  <2> QED
    BY <2>1, <2>2
<1> QED
  BY <1>4, <1>5

\* Whatever the broker's clock, the executions table never has more trades of an account
\* whose jobs were started within one broker day than MAX_TRADES_PER_DAY allows; with a
\* clock that is not ahead of UTC it has at most one more, whose job ran over midnight.
THEOREM TradesAreLimited == Spec => []TradeLimit
<1>1. Init => TradeInv
  <2> SUFFICES ASSUME Init PROVE TradeInv
    OBVIOUS
  <2>1. executions = <<>> /\ job = Idle /\ settings \in SettingsChoices
    BY DEF Init
  <2>2. \A a, day : DayTrades(a, day) = {}
    BY <2>1 DEF DayTrades, TradesOn
  <2>3. Cardinality({}) = 0 /\ settings.max_trades_per_day \in Nat
    BY <2>1, SettingsAssumption, FS_EmptySet
  <2>4. \A a, day : Cardinality(DayTrades(a, day)) <= settings.max_trades_per_day
    BY <2>2, <2>3
  <2>5. DaysOK
    BY <2>1, <2>4 DEF DaysOK
  <2> QED
    BY <2>1, <2>5 DEF TradeInv, LastRowOK, SequenceOK, CountOK, Sending, Sent
<1>2. SafetyInv /\ RecordInv /\ KeyOK /\ DealsInPast /\ TradeInv /\ [Next]_vars => TradeInv'
  BY LastRowStep, SequenceStep, CountStep, DaysStep DEF TradeInv
<1>3. SafetyInv /\ RecordInv /\ TradeInv => TradeLimit
  <2> SUFFICES ASSUME SafetyInv, RecordInv, TradeInv,
                      NEW i \in DOMAIN executions, executions[i].status \in Executions
               PROVE  LET a == executions[i].account_key
                          day == TradingDayKey(book[executions[i].order_ticket].at)
                          straddling == {j \in TradesOn(a, day) : Straddles(j, day)}
                      IN  /\ BrokerOffset <= 0 => Cardinality(straddling) <= 1
                          /\ \E c \in SettingsChoices :
                               Cardinality(TradesOn(a, day) \ straddling) <= c.max_trades_per_day
    BY DEF TradeLimit
  <2> DEFINE a == executions[i].account_key
             day == TradingDayKey(book[executions[i].order_ticket].at)
             straddling == {j \in TradesOn(a, day) : Straddles(j, day)}
  <2>1. TicketOf(executions[i].order_ticket, executions[i].signal)
    BY DEF RecordInv, RowsOK
  <2>2. book[executions[i].order_ticket].at \in Int
    BY <2>1, ColumnTypes DEF TicketOf
  <2>3. day \in Int /\ a \in Accounts \cup {NoValue}
    BY <2>2, DayBounds, ColumnTypes
  <2>4. TradesOn(a, day) \ straddling = DayTrades(a, day)
    BY DEF DayTrades
  <2> HIDE DEF a, day
  <2>5. BrokerOffset <= 0 => Cardinality(straddling) <= 1
    BY <2>3, OneStraddles DEF TradeInv
  <2>6. \E c \in SettingsChoices : Cardinality(DayTrades(a, day)) <= c.max_trades_per_day
    BY <2>3 DEF TradeInv, DaysOK
  <2>7. /\ BrokerOffset <= 0 => Cardinality(straddling) <= 1
        /\ \E c \in SettingsChoices :
             Cardinality(TradesOn(a, day) \ straddling) <= c.max_trades_per_day
    BY <2>4, <2>5, <2>6
  <2> QED
    BY <2>7 DEF a, day
<1> QED
  BY <1>1, <1>2, <1>3, SafetyCorrect, RecordsCorrect, KeysCorrect, DealsArePast, PTL DEF Spec

----------------------------------------------------------------------------
(* The trades no row counts                                                 *)

FilledOnSend(s) == \E k \in OrdersOf(s) : book[k].fill = "on_send"

\* The row of a job is open until the job finishes it.
OpenRow ==
  job # Idle /\ job.stage \notin {"start", "settle"} => executions[job.exec].status \notin Executions

\* When every order is answered, a fill on send is answered as one and settled as one.
AnsweredOK ==
  "unanswered" \notin Faults /\ job # Idle /\ FilledOnSend(job.signal) =>
    /\ job.stage = "record" => job.reply \in Fills
    /\ job.stage \in {"finish", "settle"} => job.verdict \in Executions

\* A job that outlived its worker has an interruption of its own to be lost to.
Ending == job # Idle /\ phase \in {"stopping", "disconnected", "closed"}

UncountedOK ==
  {"unanswered", "exception"} \cap Faults = {} =>
    /\ Cardinality(Uncounted) <= interruptions
    /\ Ending => Cardinality(Uncounted) + 1 <= interruptions

LEMMA OpenRowStep ==
  ASSUME SafetyInv, OpenRow, [Next]_vars
  PROVE  OpenRow'
<1>1. ASSUME job' = Idle PROVE OpenRow'
  BY <1>1 DEF OpenRow
<1>2. ASSUME job # Idle, job.stage \notin {"start", "settle"}, UNCHANGED executions,
             job'.exec = job.exec
      PROVE  OpenRow'
  BY <1>2 DEF OpenRow
<1>3. CASE ~Work
  <2>1. UNCHANGED executions /\ job' \in {job, Idle}
    BY <1>3, OthersKeepJob
  <2> QED
    BY <2>1 DEF OpenRow
<1>4. CASE ClaimNextPending
  <2>1. job'.stage = "start"
    BY <1>4 DEF ClaimNextPending
  <2> QED
    BY <2>1 DEF OpenRow
<1>5. CASE StartProcessing
  <2>1. executions'[job'.exec].status = "PROCESSING"
    BY <1>5, StartWrites
  <2> QED
    BY <2>1 DEF OpenRow, Executions
<1>6. CASE SetSymbolNormalized \/ CheckMarket \/ QueryPositions \/ SizeOrder \/ CheckOrder
  <2>1. /\ job # Idle /\ job.stage \notin {"start", "settle"} /\ UNCHANGED executions
        /\ job' = Idle \/ job'.exec = job.exec
    BY <1>6, CheckingStages DEF Unsent
  <2> QED
    BY <1>1, <1>2, <2>1
<1>7. CASE IdentifyAccount
  <2>1. /\ job # Idle /\ job.stage = "account" /\ job'.exec = job.exec
        /\ executions'[job.exec].status = executions[job.exec].status
    BY <1>7, JobInStage, AccountWrites DEF IdentifyAccount, Stages, DatabaseStages
  <2> QED
    BY <2>1 DEF OpenRow
<1>8. CASE SendOrder
  <2>1. job # Idle /\ job.stage = "send" /\ UNCHANGED executions /\ job'.exec = job.exec
    BY <1>8, SendResult DEF Idle
  <2> QED
    BY <1>2, <2>1
<1>9. CASE RecordReply
  <2>1. /\ job # Idle /\ job.stage = "record" /\ job'.exec = job.exec
        /\ executions'[job.exec].status = executions[job.exec].status
    BY <1>9, RecordWrites DEF Idle
  <2> QED
    BY <2>1 DEF OpenRow
<1>10. CASE FinishExecution
  <2>1. job'.stage = "settle"
    BY <1>10, FinishWrites
  <2> QED
    BY <2>1 DEF OpenRow
<1>11. CASE SettleSignal \/ AbandonJob
  BY <1>1, <1>11 DEF SettleSignal, AbandonJob
<1> QED
  BY <1>3, <1>4, <1>5, <1>6, <1>7, <1>8, <1>9, <1>10, <1>11 DEF Work

\* A row that counts keeps counting, for the same order.
LEMMA CountedStays ==
  ASSUME SafetyInv, OpenRow, [Next]_vars, NEW i \in DOMAIN executions,
         executions[i].status \in Executions
  PROVE  /\ i \in DOMAIN executions' /\ executions'[i].status \in Executions
         /\ executions'[i].order_ticket = executions[i].order_ticket
<1>1. ExecutionKept(i)
  BY ExecutionsKept
<1>2. CASE executions'[i] = executions[i]
  BY <1>1, <1>2 DEF ExecutionKept
<1>3. CASE job # Idle /\ i = job.exec /\ job.stage \in {"account", "record", "finish"}
  BY <1>3 DEF OpenRow
<1> QED
  BY <1>1, <1>2, <1>3 DEF ExecutionKept

\* An answered order that was filled on send was answered as filled.
LEMMA FillIsAnswered ==
  ASSUME SafetyInv, SendOrder, "unanswered" \notin Faults,
         NEW k \in DOMAIN book', k \notin DOMAIN book, book'[k].fill = "on_send"
  PROVE  job'.reply \in Fills
<1>1. PICK reply \in OrderReplies, result \in {"none", "working", "on_send"} :
        /\ result \in OrderOutcomes(reply) /\ job'.reply = reply
        /\ book' = IF result = "none" THEN book
                   ELSE Append(book, [signal |-> job.signal, account |-> account,
                                      at |-> BrokerNow, fill |-> result,
                                      open |-> result = "on_send"])
  <2>1. PICK reply \in OrderReplies : \E result \in OrderOutcomes(reply) :
          /\ book' = IF result = "none" THEN book
                     ELSE Append(book, [signal |-> job.signal, account |-> account,
                                        at |-> BrokerNow, fill |-> result,
                                        open |-> result = "on_send"])
          /\ job' = [job EXCEPT !.stage = "record", !.reply = reply,
                                !.ticket = IF reply = NoValue THEN 0 ELSE Len(book')]
    BY DEF SendOrder
  <2>2. job \in Job
    BY SendResult
  <2>3. \A result \in OrderOutcomes(reply) : result \in {"none", "working", "on_send"}
    BY DEF OrderOutcomes
  <2> QED
    BY <2>1, <2>2, <2>3 DEF Job
<1>2. result # "none"
  BY <1>1
<1>3. book'[Len(book) + 1].fill = result
  <2> DEFINE order == [signal |-> job.signal, account |-> account, at |-> BrokerNow,
                       fill |-> result, open |-> result = "on_send"]
  <2>1. order \in Order /\ order.fill = result
    <3>1. BrokerNow \in Int /\ account \in Accounts /\ job.signal \in Signals
      BY SendResult, ClockAssumption DEF BrokerNow, SafetyInv, TypeOK, Job
    <3> QED
      BY <1>1, <1>2, <3>1 DEF Order
  <2>2. book' = Append(book, order) /\ book \in Seq(Order)
    BY <1>1, <1>2 DEF SafetyInv, TypeOK
  <2> HIDE DEF order
  <2> QED
    BY <2>1, <2>2, AppendProperties
<1>4. k = Len(book) + 1
  BY SendResult
<1>5. result = "on_send"
  BY <1>3, <1>4
<1>6. reply # NoValue
  <2> SUFFICES ASSUME reply = NoValue PROVE FALSE
    OBVIOUS
  <2>1. ~connected
    BY DEF OrderReplies, NoValue
  <2> QED
    BY <1>1, <1>2, <2>1 DEF OrderOutcomes, NoValue
<1> QED
  BY <1>1, <1>5, <1>6 DEF OrderOutcomes, OrderReplies, Replies, Fills, NoValue

LEMMA AnsweredStep ==
  ASSUME SafetyInv, SafetyInv', AnsweredOK, [Next]_vars
  PROVE  AnsweredOK'
<1> SUFFICES ASSUME "unanswered" \notin Faults, job' # Idle,
                    job'.stage \in {"record", "finish", "settle"},
                    NEW k \in DOMAIN book', book'[k].signal = job'.signal,
                    book'[k].fill = "on_send"
             PROVE  /\ job'.stage = "record" => job'.reply \in Fills
                    /\ job'.stage \in {"finish", "settle"} => job'.verdict \in Executions
  BY DEF AnsweredOK, FilledOnSend, OrdersOf
<1>1. CASE k \notin DOMAIN book
  <2>1. SendOrder
    BY <1>1, OthersKeepJob, WorkKeepsWorld
  <2>2. job'.reply \in Fills /\ job'.stage = "record"
    BY <1>1, <2>1, FillIsAnswered, SendResult
  <2> QED
    BY <2>2
<1>2. CASE k \in DOMAIN book
  <2>1. book[k].fill = "on_send" /\ book[k].signal = job'.signal
    BY <1>2, OrdersStay DEF OrderKept, Filled
  <2>2. ASSUME job # Idle, job'.signal = job.signal
        PROVE  FilledOnSend(job.signal) /\ job.stage \notin Unsent
    BY <1>2, <2>1, <2>2 DEF FilledOnSend, OrdersOf, SafetyInv, JobOK
  <2>3. CASE ~Work
    <3>1. job' = job
      BY <2>3, OthersKeepJob
    <3> QED
      BY <2>2, <3>1 DEF AnsweredOK
  <2>4. CASE StartProcessing
    BY <2>2, <2>4, StartWrites DEF Unsent
  <2>5. CASE SetSymbolNormalized \/ CheckMarket \/ QueryPositions \/ SizeOrder \/ CheckOrder
    BY <2>2, <2>5, CheckingStages DEF Unsent
  <2>6. CASE IdentifyAccount
    <3>1. job # Idle /\ job.stage = "account" /\ job'.signal = job.signal
      BY <2>6, JobInStage, AccountWrites DEF IdentifyAccount, Stages, DatabaseStages
    <3> QED
      BY <2>2, <3>1 DEF Unsent
  <2>7. CASE SendOrder
    <3>1. job # Idle /\ job.stage = "send" /\ job'.signal = job.signal
      BY <2>7, SendResult DEF Idle
    <3> QED
      BY <2>2, <3>1 DEF Unsent
  <2>8. CASE RecordReply
    <3>1. /\ job # Idle /\ job.stage = "record" /\ job'.signal = job.signal
          /\ job'.stage = "finish" /\ job'.verdict = SendVerdict(job.reply)
      BY <2>8, RecordWrites DEF Idle
    <3>2. job.reply \in Fills
      BY <2>2, <3>1 DEF AnsweredOK
    <3> QED
      BY <3>1, <3>2 DEF SendVerdict, Fills, Executions, NoValue
  <2>9. CASE FinishExecution
    <3>1. /\ job # Idle /\ job.stage = "finish" /\ job'.signal = job.signal
          /\ job'.stage = "settle" /\ job'.verdict = job.verdict
      BY <2>9, FinishWrites DEF Idle
    <3> QED
      BY <2>2, <3>1 DEF AnsweredOK
  <2>10. CASE ClaimNextPending \/ SettleSignal \/ AbandonJob
    <3>1. ClaimNextPending => job'.stage = "start"
      BY DEF ClaimNextPending
    <3> QED
      BY <2>10, <3>1 DEF SettleSignal, AbandonJob
  <2> QED
    BY <2>3, <2>4, <2>5, <2>6, <2>7, <2>8, <2>9, <2>10 DEF Work
<1> QED
  BY <1>1, <1>2

\* The steps after which a job is no more.
LEMMA JobEnds ==
  ASSUME SafetyInv, [Next]_vars, job # Idle, job' = Idle
  PROVE  \/ SizeOrder \/ SettleSignal \/ AbandonJob \/ Crash
         \/ Stop /\ job.stage = "start"
<1>1. CASE Work
  <2>1. ~SetSymbolNormalized /\ ~CheckMarket /\ ~QueryPositions /\ ~CheckOrder
    <3>1. ASSUME NEW entry, NEW day, NEW verdict, NEW stage \in Stages,
                 Continue(job, verdict, stage)
                   \/ Continue([job EXCEPT !.entry = entry, !.day = day], verdict, stage)
          PROVE  FALSE
      <4>1. job'.stage \in {stage, "finish"}
        BY <3>1, JobHasType DEF Continue, Job
      <4> QED
        BY <4>1 DEF Idle, Stages, DatabaseStages, TerminalStages
    <3> USE DEF Stages, DatabaseStages, TerminalStages
    <3>2. ~SetSymbolNormalized
      BY <3>1 DEF SetSymbolNormalized
    <3>3. CheckMarket => \E entry, day, verdict :
                           Continue([job EXCEPT !.entry = entry, !.day = day], verdict, "positions")
      BY DEF CheckMarket
    <3>4. ~QueryPositions
      BY <3>1 DEF QueryPositions
    <3>5. ~CheckOrder
      BY <3>1 DEF CheckOrder
    <3>6. "positions" \in Stages
      OBVIOUS
    <3> HIDE DEF Stages
    <3> QED
      BY <3>1, <3>2, <3>3, <3>4, <3>5, <3>6
  <2>2. ~StartProcessing
    BY JobHasType DEF StartProcessing, Continue, Job, Idle
  <2>3. ~IdentifyAccount /\ ~RecordReply /\ ~FinishExecution
    BY AccountWrites, RecordWrites, FinishWrites
  <2>4. ~SendOrder
    BY SendResult DEF Idle
  <2>5. ~ClaimNextPending
    BY DEF ClaimNextPending
  <2> QED
    BY <1>1, <2>1, <2>2, <2>3, <2>4, <2>5 DEF Work
<1>2. CASE Stop \/ Crash
  BY <1>2 DEF Stop
<1>3. CASE Lifecycle
  BY <1>3 DEF Lifecycle, Boot, StartWorker, FailStart, ShutdownGateway, CloseStore, Exit, Reconcile
<1>4. CASE World
  BY <1>4, WorldKeepsOrders DEF process
<1>5. CASE \E s \in Signals, p \in Payloads : Submit(s, p)
  BY <1>5 DEF Submit
<1>6. CASE UNCHANGED vars
  BY <1>6 DEF vars
<1> QED
  BY <1>1, <1>2, <1>3, <1>4, <1>5, <1>6 DEF Next

\* A trade is lost to the count with its job: only a crash, or the closed store that a
\* stop has left, ends a job between its fill and the row.
LEMMA LostWithItsJob ==
  ASSUME SafetyInv, RecordInv, OpenRow, AnsweredOK, [Next]_vars,
         {"unanswered", "exception"} \cap Faults = {},
         NEW k \in Uncounted', k \notin Uncounted
  PROVE  /\ job # Idle /\ job' = Idle /\ k \in OrdersOf(job.signal)
         /\ Crash \/ (AbandonJob /\ phase = "closed")
<1>1. /\ k \in DOMAIN book' /\ book'[k].fill = "on_send"
      /\ ~(job' # Idle /\ job'.signal = book'[k].signal)
      /\ \A i \in DOMAIN executions' :
           executions'[i].status \in Executions => executions'[i].order_ticket # k
  BY DEF Uncounted
<1>2. k \in DOMAIN book
  <2> SUFFICES ASSUME k \notin DOMAIN book PROVE FALSE
    OBVIOUS
  <2>1. SendOrder
    BY <1>1, OthersKeepJob, WorkKeepsWorld
  <2>2. book'[k].signal = job.signal /\ job'.signal = job.signal /\ job' # Idle
    BY <1>1, <2>1, SendResult DEF Idle
  <2> QED
    BY <1>1, <2>2
<1>3. book[k].fill = "on_send" /\ book'[k].signal = book[k].signal
  BY <1>1, <1>2, OrdersStay DEF OrderKept, Filled
<1>4. \A i \in DOMAIN executions :
        executions[i].status \in Executions => executions[i].order_ticket # k
  BY <1>1, CountedStays
<1>5. job # Idle /\ job.signal = book[k].signal
  BY <1>2, <1>3, <1>4 DEF Uncounted
<1>6. k \in OrdersOf(job.signal) /\ FilledOnSend(job.signal)
  BY <1>2, <1>3, <1>5 DEF OrdersOf, FilledOnSend
<1>7. job.stage \notin Unsent
  BY <1>5, <1>6 DEF SafetyInv, JobOK
<1>8. job' = Idle
  <2>1. CASE Work
    <3>1. ~ClaimNextPending
      BY <1>5 DEF ClaimNextPending
    <3>2. job.stage \notin {"start", "symbol", "account", "market", "positions", "size", "check", "send"}
      BY <1>7 DEF Unsent
    <3>3. RecordReply \/ FinishExecution \/ SettleSignal \/ AbandonJob
      BY <2>1, <3>1, <3>2 DEF Work, StartProcessing, SetSymbolNormalized, IdentifyAccount,
         CheckMarket, QueryPositions, SizeOrder, CheckOrder, SendOrder, InStage
    <3>4. ~RecordReply /\ ~FinishExecution
      BY <1>1, <1>3, <1>5, RecordWrites, FinishWrites
    <3> QED
      BY <3>3, <3>4 DEF SettleSignal, AbandonJob
  <2>2. CASE ~Work
    BY <1>1, <1>3, <1>5, <2>2, OthersKeepJob
  <2> QED
    BY <2>1, <2>2
<1>9. ~SettleSignal
  <2> SUFFICES ASSUME SettleSignal PROVE FALSE
    OBVIOUS
  <2>1. job.stage = "settle" /\ UNCHANGED executions
    BY JobInStage DEF SettleSignal, Stages, DatabaseStages
  <2>2. job.verdict \in Executions
    BY <1>5, <1>6, <2>1 DEF AnsweredOK
  <2>3. /\ executions[job.exec].status \in Executions /\ job.exec \in DOMAIN executions
        /\ executions[job.exec].signal = job.signal
    BY <1>5, <2>1, <2>2 DEF RecordInv, JobRecordOK, SafetyInv, JobOK
  <2>4. TicketOf(executions[job.exec].order_ticket, job.signal)
    BY <2>3 DEF RecordInv, RowsOK
  <2>5. executions[job.exec].order_ticket = k
    BY <1>2, <1>5, <2>4 DEF TicketOf, SafetyInv, BookOK
  <2> QED
    BY <1>4, <2>3, <2>5
<1>10. ~SizeOrder /\ job.stage # "start"
  <2>1. "size" \in Unsent /\ "start" \in Unsent
    BY DEF Unsent
  <2> QED
    BY <1>7, <2>1 DEF SizeOrder, InStage
<1>11. AbandonJob => phase = "closed"
  <2> SUFFICES ASSUME AbandonJob PROVE phase = "closed"
    OBVIOUS
  <2>1. "account" \in Unsent
    BY DEF Unsent
  <2>2. ~StoreOpen
    BY <1>7, <2>1 DEF AbandonJob, Raises
  <2> QED
    BY <1>5, <2>2 DEF StoreOpen, SafetyInv, TypeOK, JobOK, PhaseNames
<1> QED
  BY <1>5, <1>6, <1>8, <1>9, <1>10, <1>11, JobEnds

\* Only a stop makes a job one that outlives its worker.
LEMMA EndingByStop ==
  ASSUME SafetyInv, [Next]_vars, Ending'
  PROVE  Ending \/ (Stop /\ interruptions' = interruptions + 1)
<1>1. CASE Work
  <2>1. UNCHANGED phase
    BY <1>1, WorkKeepsWorld
  <2>2. phase # "running" /\ job' # Idle
    BY <2>1 DEF Ending
  <2>3. job # Idle
    <3>1. ~ClaimNextPending
      BY <2>1, <2>2 DEF ClaimNextPending
    <3>2. StartProcessing \/ SetSymbolNormalized \/ IdentifyAccount \/ CheckMarket
            \/ QueryPositions \/ SizeOrder \/ CheckOrder \/ SendOrder \/ RecordReply
            \/ FinishExecution \/ SettleSignal \/ AbandonJob
      BY <1>1, <3>1 DEF Work
    <3>3. AbandonJob \/ \E stage \in Stages : InStage(stage)
      BY <3>2 DEF StartProcessing, SetSymbolNormalized, IdentifyAccount, CheckMarket,
         QueryPositions, SizeOrder, CheckOrder, SendOrder, RecordReply, FinishExecution,
         SettleSignal, Stages, DatabaseStages, TerminalStages
    <3> QED
      BY <3>3, JobInStage DEF AbandonJob
  <2> QED
    BY <2>1, <2>3 DEF Ending
<1>2. CASE ~Work
  <2>1. job' = job
    BY <1>2, OthersKeepJob DEF Ending
  <2>2. CASE Stop
    BY <2>2 DEF Stop, Interrupt
  <2>3. CASE Crash
    BY <2>3 DEF Crash, Ending
  <2>4. CASE Lifecycle
    BY <2>1, <2>4 DEF Lifecycle, Boot, StartWorker, FailStart, ShutdownGateway, CloseStore, Exit,
       Reconcile, Ending
  <2>5. CASE World
    BY <2>1, <2>5, WorldKeepsOrders DEF process, Ending
  <2>6. CASE \E s \in Signals, p \in Payloads : Submit(s, p)
    BY <2>1, <2>6 DEF Submit, Ending
  <2>7. CASE UNCHANGED vars
    BY <2>7 DEF vars, Ending
  <2> QED
    BY <1>2, <2>2, <2>3, <2>4, <2>5, <2>6, <2>7 DEF Next
<1> QED
  BY <1>1, <1>2

\* Interruptions are only ever added.
LEMMA InterruptionsGrow ==
  ASSUME SafetyInv, [Next]_vars
  PROVE  /\ interruptions \in Nat /\ interruptions' \in {interruptions, interruptions + 1}
         /\ Crash => interruptions' = interruptions + 1
<1>1. interruptions \in Nat
  BY DEF SafetyInv, TypeOK
<1>2. CASE Work
  BY <1>1, <1>2, WorkKeepsWorld DEF Crash, Interrupt
<1>3. CASE Stop \/ Crash
  BY <1>1, <1>3 DEF Stop, Crash, Interrupt
<1>4. CASE Lifecycle
  BY <1>1, <1>4 DEF Lifecycle, Boot, StartWorker, FailStart, ShutdownGateway, CloseStore, Exit,
     Reconcile, Crash, Interrupt
<1>5. CASE World
  BY <1>1, <1>5, WorldKeepsOrders DEF process, Crash, Interrupt
<1>6. CASE \E s \in Signals, p \in Payloads : Submit(s, p)
  BY <1>1, <1>6 DEF Submit, Crash, Interrupt
<1>7. CASE UNCHANGED vars
  BY <1>1, <1>7 DEF vars, Crash, Interrupt
<1> QED
  BY <1>2, <1>3, <1>4, <1>5, <1>6, <1>7 DEF Next

LEMMA UncountedStep ==
  ASSUME SafetyInv, RecordInv, OpenRow, AnsweredOK, UncountedOK, [Next]_vars
  PROVE  UncountedOK'
<1> SUFFICES ASSUME {"unanswered", "exception"} \cap Faults = {}
             PROVE  /\ Cardinality(Uncounted') <= interruptions'
                    /\ Ending' => Cardinality(Uncounted') + 1 <= interruptions'
  BY DEF UncountedOK
<1>1. /\ Cardinality(Uncounted) <= interruptions
      /\ Ending => Cardinality(Uncounted) + 1 <= interruptions
  BY DEF UncountedOK
<1>2. IsFiniteSet(Uncounted) /\ Cardinality(Uncounted) \in Nat
  <2>1. Uncounted \subseteq DOMAIN book
    BY DEF Uncounted
  <2> QED
    BY <2>1, FiniteTables, SmallerPart
<1>3. /\ interruptions \in Nat /\ interruptions' \in {interruptions, interruptions + 1}
      /\ Crash => interruptions' = interruptions + 1
  BY InterruptionsGrow
<1>4. CASE Uncounted' \subseteq Uncounted
  <2>1. Cardinality(Uncounted') \in Nat /\ Cardinality(Uncounted') <= Cardinality(Uncounted)
    BY <1>2, <1>4, SmallerPart
  <2>2. Ending' => Ending \/ interruptions' = interruptions + 1
    BY EndingByStop
  <2> QED
    BY <1>1, <1>2, <1>3, <2>1, <2>2
<1>5. CASE ~(Uncounted' \subseteq Uncounted)
  <2>1. PICK k : k \in Uncounted' /\ k \notin Uncounted
    BY <1>5
  <2>2. /\ job # Idle /\ job' = Idle /\ k \in OrdersOf(job.signal)
        /\ Crash \/ (AbandonJob /\ phase = "closed")
    BY <2>1, LostWithItsJob
  <2>3. ASSUME NEW m \in Uncounted', m \notin Uncounted PROVE m = k
    <3>1. m \in OrdersOf(job.signal)
      BY <2>3, LostWithItsJob
    <3> QED
      BY <2>2, <3>1 DEF OrdersOf, SafetyInv, BookOK
  <2>4. Uncounted' \subseteq Uncounted \cup {k}
    BY <2>3
  <2>5. Cardinality(Uncounted') \in Nat /\ Cardinality(Uncounted') <= Cardinality(Uncounted) + 1
    BY <1>2, <2>4, OneMore
  <2>6. ~Ending'
    BY <2>2 DEF Ending
  <2>7. Crash \/ Ending
    BY <2>2 DEF Ending
  <2> QED
    BY <1>1, <1>2, <1>3, <2>5, <2>6, <2>7
<1> QED
  BY <1>4, <1>5

\* With the broker answering and no call raising, every trade made while it was sent has
\* its row counted, but for one for each crash or stop: what recoveries and restarts add to
\* a day beyond MAX_TRADES_PER_DAY is bounded by the number of interruptions.
THEOREM TradesEscapeByInterruption == Spec => []UncountedByInterruption
<1>1. Init => OpenRow /\ AnsweredOK /\ UncountedOK
  <2> SUFFICES ASSUME Init PROVE OpenRow /\ AnsweredOK /\ UncountedOK
    OBVIOUS
  <2>1. job = Idle /\ book = <<>> /\ interruptions = 0
    BY DEF Init
  <2>2. Uncounted = {} /\ Cardinality({}) = 0
    BY <2>1, FS_EmptySet DEF Uncounted
  <2> QED
    BY <2>1, <2>2 DEF OpenRow, AnsweredOK, UncountedOK, Ending
<1>2. SafetyInv /\ SafetyInv' /\ RecordInv /\ OpenRow /\ AnsweredOK /\ UncountedOK /\ [Next]_vars =>
        OpenRow' /\ AnsweredOK' /\ UncountedOK'
  BY OpenRowStep, AnsweredStep, UncountedStep
<1>3. UncountedOK => UncountedByInterruption
  BY DEF UncountedOK, UncountedByInterruption
<1> QED
  BY <1>1, <1>2, <1>3, SafetyCorrect, RecordsCorrect, PTL DEF Spec
=============================================================================
