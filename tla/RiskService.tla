---------------------------- MODULE RiskService ----------------------------
(***************************************************************************)
(* The predicates of app/services/risk_service.py.  A check returns "ok"   *)
(* or the status the pipeline finishes with.  Times are whole units of the *)
(* model's clock, prices whole points, equities whole money units, so each *)
(* comparison of fractions is written with the denominators multiplied     *)
(* out: it is the comparison the code makes, in exact arithmetic.          *)
(***************************************************************************)
EXTENDS Integers

CONSTANTS
  FUTURE_TOLERANCE,  \* FUTURE_TOLERANCE_SECONDS, in clock units
  DayLength          \* clock units in a calendar day

ASSUME FutureToleranceAssumption == FUTURE_TOLERANCE \in Nat
ASSUME DayLengthAssumption == DayLength \in Nat \ {0}

NoStopLoss == 0      \* stop_loss is None; a submitted price is positive

\* The pipeline's early returns: the first check that is not "ok" decides.
a \odot b == IF a = "ok" THEN b ELSE a

Require(holds, status) == IF holds THEN "ok" ELSE status

CheckFreshness(timestamp, max_age, now) ==
  LET age == now - timestamp
  IN  Require(age <= max_age, "REJECTED_STALE")
        \odot Require(age >= -FUTURE_TOLERANCE, "REJECTED_FUTURE_TIMESTAMP")

CheckRiskPercent(risk_percent, max_risk_percent) ==
  Require(risk_percent > 0 /\ risk_percent <= max_risk_percent, "REJECTED_RISK")

CheckStopLoss(action, stop_loss, entry_price, require_stop_loss) ==
  Require(IF stop_loss = NoStopLoss
          THEN ~require_stop_loss
          ELSE /\ action = "BUY"  => stop_loss < entry_price
               /\ action = "SELL" => stop_loss > entry_price,
          "REJECTED_STOP_LOSS")

CheckSpread(quote, point, max_spread_points) ==
  Require(/\ quote.bid > 0 /\ quote.ask > 0 /\ point > 0
          /\ quote.ask >= quote.bid
          /\ quote.ask - quote.bid <= max_spread_points * point,
          "REJECTED_SPREAD")

\* The daily trade limit lets the day's last trade be sent again.
CheckDailyTradeLimitOffByOne(trades_today, max_trades_per_day) ==
  Require(trades_today <= max_trades_per_day, "REJECTED_DAILY_TRADE_LIMIT")

CheckDailyTradeLimit(trades_today, max_trades_per_day) ==
  Require(trades_today < max_trades_per_day, "REJECTED_DAILY_TRADE_LIMIT")

\* A count equal to the limit still passes.
CheckPositionLimitOffByOne(open_positions, max_open_positions) ==
  Require(open_positions <= max_open_positions, "REJECTED_POSITION_LIMIT")

CheckPositionLimit(open_positions, max_open_positions) ==
  Require(open_positions < max_open_positions, "REJECTED_POSITION_LIMIT")

\* A loss of exactly the limit still passes.
CheckDailyLossOffByOne(current_equity, baseline_equity, max_daily_loss_percent) ==
  Require((baseline_equity - current_equity) * 100
            <= max_daily_loss_percent * baseline_equity,
          "REJECTED_DAILY_LOSS")

\* (baseline - current) / baseline * 100 < max, with a positive baseline.
CheckDailyLoss(current_equity, baseline_equity, max_daily_loss_percent) ==
  Require(/\ baseline_equity > 0
          /\ (baseline_equity - current_equity) * 100
               < max_daily_loss_percent * baseline_equity,
          "REJECTED_DAILY_LOSS")

TradingDayKey(now) == now \div DayLength

StartOfTradingDay(now) == DayLength * TradingDayKey(now)
=============================================================================
