------------------------- MODULE MCExecutionBridge -------------------------
(***************************************************************************)
(* Instances of ExecutionBridge for TLC.  Prices are in points, money in   *)
(* units of one, volumes in hundredths of a lot; with one unit of money    *)
(* per point and lot, risking 1 % of 1000 over 10 points buys one lot.     *)
(***************************************************************************)
EXTENDS BridgeProperties, TLC

IdTag == [s \in Signals |-> s]

Symmetry == Permutations(Signals) \cup Permutations(Accounts)

MapEurusd == [r \in {"EURUSD"} |-> "EURUSD.x"]

InfoEurusd ==
  [r \in {"EURUSD.x"} |-> [point |-> 1, volume_min |-> 1, volume_max |-> 100, volume_step |-> 1]]

FairQuote == [bid |-> 100, ask |-> 101]

LiveSettings ==
  [dry_run |-> FALSE, live_execution_enabled |-> TRUE, require_stop_loss |-> TRUE,
   allow_market_buy |-> TRUE, allow_market_sell |-> TRUE, max_risk_percent |-> 1,
   max_daily_loss_percent |-> 3, max_open_positions |-> 3, max_trades_per_day |-> 5,
   max_spread_points |-> 3, max_signal_age_seconds |-> 60, host |-> "loopback",
   allow_remote_binding |-> FALSE, port |-> 8200, mt5_server |-> "Demo",
   mt5_login |-> "number"]

Buy == [timestamp |-> 0, symbol |-> "EURUSD", action |-> "BUY", risk_percent |-> 1,
        stop_loss |-> 91]

Unmapped == [Buy EXCEPT !.symbol = "XAUUSD"]

OneQuote == {FairQuote}
OneEquity == {1000}
Live == {LiveSettings}
LiveOrDry == {LiveSettings, [LiveSettings EXCEPT !.dry_run = TRUE]}
OneBuy == {Buy}
BuyOrUnmapped == {Buy, Unmapped}
NoFaults == {}
AllFaults == FaultKinds

----------------------------------------------------------------------------
(* gates: every kind of signal, quote and setting the checks tell apart     *)

GatePayloads ==
  [timestamp : {0}, symbol : {"EURUSD"}, action : {"BUY", "SELL"}, risk_percent : {1, 2, 4},
   stop_loss : {NoStopLoss, 91, 101, 110}]
    \cup {[Buy EXCEPT !.timestamp = t] : t \in {-5, -4, 2, 3}} \cup {Unmapped}

GateQuotes == {FairQuote, [bid |-> 100, ask |-> 104], [bid |-> 101, ask |-> 100],
               [bid |-> 0, ask |-> 100]}

\* What Settings() raises on.
RefusedSettings ==
  {[LiveSettings EXCEPT !.mt5_server = ""], [LiveSettings EXCEPT !.mt5_login = "text"],
   [LiveSettings EXCEPT !.host = "remote"], [LiveSettings EXCEPT !.max_open_positions = 0]}

GateSettings ==
  LET base == [LiveSettings EXCEPT !.max_risk_percent = 2, !.max_signal_age_seconds = 5]
  IN  {base, [base EXCEPT !.require_stop_loss = FALSE],
       [base EXCEPT !.allow_market_sell = FALSE], [base EXCEPT !.allow_market_buy = FALSE],
       [base EXCEPT !.dry_run = TRUE, !.mt5_login = ""],
       [base EXCEPT !.live_execution_enabled = FALSE, !.mt5_login = "text"]}
    \cup RefusedSettings

\* A minimum and a step that make small risks too small and large ones rounded.
InfoCoarse ==
  [r \in {"EURUSD.x"} |-> [point |-> 1, volume_min |-> 60, volume_max |-> 150, volume_step |-> 30]]

----------------------------------------------------------------------------
(* daily_limits: one position, one trade a day, 3 % of loss                 *)

TightSettings ==
  {[LiveSettings EXCEPT !.max_open_positions = 1, !.max_trades_per_day = 1]}

TwoEquities == {1000, 970}
RestingOrders == {"placed"}

\* liveness: every failure but an exception, which strands its signal until a restart.
AnsweredFaults == FaultKinds \ {"exception"}

----------------------------------------------------------------------------
(* Instances that refute one claim of the documentation each                *)

OneTradeADay == {[LiveSettings EXCEPT !.max_trades_per_day = 1]}
BuyAtTen == {[Buy EXCEPT !.timestamp = 10]}
=============================================================================
