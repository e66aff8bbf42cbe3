---------------------------- MODULE BridgeProofs ----------------------------
(***************************************************************************)
(* Proofs about ExecutionBridge for every value of its constants.          *)
(***************************************************************************)
EXTENDS BridgeProperties, FiniteSetTheorems, SequenceTheorems, TLAPS

\* A single check either passes or names a refusal.
LEMMA VerdictOfRequire ==
  ASSUME NEW h \in BOOLEAN, NEW status \in NoTrade
  PROVE  Require(h, status) \in NoTrade \cup {"ok"}
  BY DEF Require

\* So do two checks made one after the other.
LEMMA VerdictOfSequence ==
  ASSUME NEW a \in NoTrade \cup {"ok"}, NEW b \in NoTrade \cup {"ok"}
  PROVE  a \odot b \in NoTrade \cup {"ok"}
  BY DEF \odot

\* Every check of risk_service.py passes or names a refusal, whatever its inputs.
LEMMA VerdictsOfChecks ==
  /\ \A t, m, n : CheckFreshness(t, m, n) \in NoTrade \cup {"ok"}
  /\ \A p, m : CheckRiskPercent(p, m) \in NoTrade \cup {"ok"}
  /\ \A a, s, e, r : CheckStopLoss(a, s, e, r) \in NoTrade \cup {"ok"}
  /\ \A q, p, m : CheckSpread(q, p, m) \in NoTrade \cup {"ok"}
  /\ \A n, m : CheckDailyTradeLimit(n, m) \in NoTrade \cup {"ok"}
  /\ \A n, m : CheckPositionLimit(n, m) \in NoTrade \cup {"ok"}
  /\ \A c, b, m : CheckDailyLoss(c, b, m) \in NoTrade \cup {"ok"}
  BY DEF CheckFreshness, CheckRiskPercent, CheckStopLoss, CheckSpread,
         CheckDailyTradeLimit, CheckPositionLimit, CheckDailyLoss, Require, \odot,
         NoTrade, Rejections

\* The number of whole steps never exceeds the exact quotient, short of a whole number or not.
LEMMA FloorBound ==
  ASSUME NEW a \in Int, NEW b \in Nat \ {0}, NEW short \in BOOLEAN
  PROVE  FlooredQuotient(a, b, short) \in Int /\ b * FlooredQuotient(a, b, short) <= a
<1>1. a \div b \in Int /\ b * (a \div b) <= a /\ b * ((a \div b) - 1) <= a
  OBVIOUS
<1>2. FlooredQuotient(a, b, short) \in {a \div b, (a \div b) - 1}
  BY <1>1 DEF FlooredQuotient
<1> QED
  BY <1>1, <1>2

\* calculate_risk_based_volume returns a volume, and passes or names a refusal.
LEMMA VolumeResult ==
  ASSUME NEW entry \in Int, NEW stop \in Int, NEW loss \in Int, NEW e \in Int,
         NEW risk \in Int, NEW symbol, NEW short \in BOOLEAN,
         symbol \in [point : Nat, volume_min : Nat, volume_max : Nat, volume_step : Nat]
  PROVE  /\ CalculateRiskBasedVolume(entry, stop, loss, e, risk, symbol, short).status
              \in NoTrade \cup {"ok"}
         /\ CalculateRiskBasedVolume(entry, stop, loss, e, risk, symbol, short).volume \in Int
<1> DEFINE rpl == AbsoluteValue(loss)
           step == symbol.volume_step
           volume == RiskVolume(e, risk, rpl, step, short)
<1>1. rpl \in Nat /\ step \in Nat
  BY DEF AbsoluteValue
<1>2. rpl > 0 /\ step > 0 => volume \in Int
  <2> SUFFICES ASSUME rpl > 0, step > 0 PROVE volume \in Int
    OBVIOUS
  <2>1. 100 * rpl * step \in Nat \ {0}
    BY <1>1
  <2>2. e * risk * LotUnits \in Int
    BY LotUnitsAssumption
  <2>3. FlooredQuotient(e * risk * LotUnits, 100 * rpl * step, short) \in Int
    BY <2>1, <2>2, FloorBound
  <2> QED
    BY <2>3, <1>1 DEF RiskVolume
<1> QED
  BY <1>1, <1>2 DEF CalculateRiskBasedVolume, NoTrade, Rejections

----------------------------------------------------------------------------
(* What a step of the job leaves alone                                      *)

\* Orders and statuses untouched, the invariant's parts about them still hold.
LEMMA TablesUntouched ==
  ASSUME SafetyInv, UNCHANGED <<phase, signals, stuck, book>>
  PROVE  BookOK' /\ RecoveryOK' /\ ExecutedMeansFilled'
  BY DEF SafetyInv, BookOK, RecoveryOK, ExecutedMeansFilled, Known, OrdersOf, Filled

\* A check that passes or fails moves the job on and keeps it sound.
LEMMA ContinueKeepsJob ==
  ASSUME SafetyInv, job \in Job, job.stage \in Unsent,
         UNCHANGED <<phase, signals, book>>,
         DOMAIN executions \subseteq DOMAIN executions',
         NEW j \in Job, j.signal = job.signal, j.exec \in DOMAIN executions',
         NEW verdict \in NoTrade \cup {"ok"}, NEW stage \in Unsent \ {"start"},
         verdict = "ok" => Payload.symbol \in DOMAIN SymbolMap,
         Continue(j, verdict, stage)
  PROVE  job' \in Job /\ JobOK'
<1>1. job' \in Job
  <2>1. stage \in Stages /\ "finish" \in Stages
    BY DEF Stages, DatabaseStages, TerminalStages, Unsent
  <2>2. verdict \in ExecutionStatus \cup {"ok"}
    BY DEF NoTrade, Rejections, ServiceFailures, DryRunOutcomes, ExecutionStatus
  <2> QED
    BY <2>1, <2>2 DEF Continue, Job
<1>2. job.stage # "idle" /\ job # Idle
  BY DEF Unsent, Idle
<1>3. JobOK' 
  <2>1. job'.signal = job.signal /\ job'.exec = j.exec
    BY DEF Continue, Job
  <2>2. \/ verdict = "ok" /\ job'.stage = stage
        \/ verdict \in NoTrade /\ job'.stage = "finish" /\ job'.verdict = verdict
    BY DEF Continue, Job
  <2>3. verdict \in NoTrade => verdict \in Settled /\ verdict \notin Executions
    BY DEF NoTrade, Rejections, ServiceFailures, DryRunOutcomes, Settled, Executions,
           ExecutionStatus
  <2>4. OrdersOf(job.signal)' = {}
    BY <1>2, <2>1 DEF SafetyInv, JobOK, OrdersOf
  <2>5. Payload' = Payload
    BY <2>1 DEF Payload
  <2> QED
    BY <1>2, <2>1, <2>2, <2>3, <2>4, <2>5, "finish" \notin Unsent, "record" \notin Unsent
    DEF SafetyInv, JobOK, Known, Unsent
<1> QED
  BY <1>1, <1>3

\* The signal a job works on is stored, and its row has its type.
LEMMA JobHasType ==
  ASSUME SafetyInv, job # Idle
  PROVE  /\ job \in Job /\ job.signal \in Known /\ job.signal \in Signals
         /\ signals[job.signal] \in Row /\ Payload \in Payloads
  BY DEF SafetyInv, TypeOK, JobOK, Job, Row, Payload

\* A row of the executions table rewritten in place.
LEMMA RowRewritten ==
  ASSUME NEW S, NEW q \in Seq(S), NEW i \in DOMAIN q, NEW e \in S
  PROVE  [q EXCEPT ![i] = e] \in Seq(S) /\ DOMAIN [q EXCEPT ![i] = e] = DOMAIN q
<1>1. i \in 1 .. Len(q) /\ DOMAIN q = 1 .. Len(q)
  OBVIOUS
<1> QED
  BY <1>1, ExceptSeq

----------------------------------------------------------------------------
(* The steps of the pipeline up to the send                                 *)

\* Claiming: the queued signal it starts has no order yet.
LEMMA ClaimStep == SafetyInv /\ ClaimNextPending => SafetyInv'
<1> SUFFICES ASSUME SafetyInv, ClaimNextPending PROVE SafetyInv'
  OBVIOUS
<1>1. PICK s \in NextPending :
        /\ signals' = [signals EXCEPT ![s].status = "PROCESSING", ![s].attempt_count = @ + 1]
        /\ job' = [stage |-> "start", signal |-> s, exec |-> 0, verdict |-> "ok",
                   reply |-> NoValue, ticket |-> 0, key |-> NoValue, equity |-> 0,
                   entry |-> 0, day |-> 0, volume |-> 0]
  BY DEF ClaimNextPending
<1>2. s \in Known /\ signals[s].status = "PENDING" /\ s \in Signals /\ signals[s] \in Row
  BY DEF NextPending, WithStatus, Known, SafetyInv, TypeOK
<1>3. /\ UNCHANGED <<phase, connected, settings, stuck, account, equity, utc,
                     interruptions, executions, baselines, book>>
      /\ phase = "running"
  BY DEF ClaimNextPending, environment
<1>4. Known' = Known /\ signals' \in [Known -> Row] /\ signals'[s].status = "PROCESSING"
      /\ \A t \in Known \ {s} : signals'[t] = signals[t]
  <2> DEFINE row == [signals[s] EXCEPT !.status = "PROCESSING", !.attempt_count = @ + 1]
  <2>1. row \in Row /\ row.status = "PROCESSING"
    <3>1. "PROCESSING" \in ExecutionStatus /\ signals[s].attempt_count + 1 \in Nat
      BY <1>2 DEF Row, ExecutionStatus
    <3> QED
      BY <1>2, <3>1 DEF Row
  <2>2. signals' = [signals EXCEPT ![s] = row]
    BY <1>1
  <2> HIDE DEF row
  <2> QED
    BY <2>1, <2>2, <1>2 DEF Known, SafetyInv, TypeOK
<1>5. job' \in Job /\ job'.stage = "start" /\ job'.signal = s
  BY <1>1, <1>2 DEF Job, Stages, DatabaseStages, Replies, NoValue
<1>6. TypeOK'
  BY <1>3, <1>4, <1>5 DEF SafetyInv, TypeOK
<1>7. stuck = {}
  BY <1>3 DEF SafetyInv, RecoveryOK
<1>8. OrdersOf(s) = {} /\ \A t : OrdersOf(t)' = OrdersOf(t)
  BY <1>2, <1>3 DEF SafetyInv, BookOK, OrdersOf
<1>9. JobOK'
  BY <1>3, <1>4, <1>5, <1>8, <1>2 DEF JobOK, Unsent
<1>10. BookOK'
  BY <1>3, <1>4, <1>2, <1>8 DEF SafetyInv, BookOK, NoTrade, Rejections, ServiceFailures,
     DryRunOutcomes
<1>11. ExecutedMeansFilled'
  BY <1>3, <1>4, <1>2, <1>8 DEF SafetyInv, ExecutedMeansFilled, Filled, Executions
<1> QED
  BY <1>3, <1>6, <1>7, <1>9, <1>10, <1>11 DEF SafetyInv, RecoveryOK

\* The execution row of the attempt, and the checks that need no terminal.
LEMMA StartStep == SafetyInv /\ StartProcessing => SafetyInv'
<1> SUFFICES ASSUME SafetyInv, StartProcessing PROVE SafetyInv'
  OBVIOUS
<1> DEFINE row == [signal |-> job.signal, attempt |-> signals[job.signal].attempt_count,
                   started_at |-> utc, account_key |-> NoValue, status |-> "PROCESSING",
                   order_send_retcode |-> NoValue, order_ticket |-> 0]
           j == [job EXCEPT !.exec = Len(executions')]
           verdict == CheckFreshness(Payload.timestamp, settings.max_signal_age_seconds, utc)
                        \odot Require(IF Payload.action = "BUY" THEN settings.allow_market_buy
                                      ELSE settings.allow_market_sell, "REJECTED_RISK")
                        \odot Require(Payload.symbol \in DOMAIN SymbolMap, "REJECTED_SYMBOL")
<1>1. job.stage = "start" /\ job # Idle
  BY DEF StartProcessing, InStage, Idle
<1>2. row \in Execution
  BY <1>1, JobHasType DEF Execution, Row, ExecutionStatus, Replies, NoValue, SafetyInv, TypeOK
<1>3. /\ executions' = Append(executions, row) /\ Continue(j, verdict, "symbol")
      /\ UNCHANGED <<phase, connected, settings, stuck, account, equity, utc,
                     interruptions, signals, baselines, book>>
  BY DEF StartProcessing, insert_execution, environment
<1>4. /\ executions' \in Seq(Execution) /\ Len(executions') = Len(executions) + 1
      /\ DOMAIN executions \subseteq DOMAIN executions'
      /\ Len(executions') \in DOMAIN executions' /\ Len(executions') \in Nat
  BY <1>2, <1>3, AppendProperties DEF SafetyInv, TypeOK
<1>5. verdict \in NoTrade \cup {"ok"} /\ (verdict = "ok" => Payload.symbol \in DOMAIN SymbolMap)
  BY VerdictsOfChecks DEF Require, \odot, NoTrade, Rejections
<1>6. j \in Job /\ j.signal = job.signal /\ j.exec \in DOMAIN executions'
  BY <1>1, <1>4, JobHasType DEF Job
<1> HIDE DEF j, verdict, row
<1>7. job' \in Job /\ JobOK'
  BY <1>1, <1>3, <1>4, <1>5, <1>6, JobHasType, ContinueKeepsJob DEF Unsent
<1>8. TypeOK'
  BY <1>3, <1>4, <1>7 DEF SafetyInv, TypeOK, Known
<1> QED
  BY <1>3, <1>7, <1>8, TablesUntouched DEF SafetyInv

\* The mapped symbol is written to the row of the signal under way.
LEMMA SymbolStep == SafetyInv /\ SetSymbolNormalized => SafetyInv'
<1> SUFFICES ASSUME SafetyInv, SetSymbolNormalized PROVE SafetyInv'
  OBVIOUS
<1> DEFINE s == job.signal
           row == [signals[s] EXCEPT !.symbol_normalized = SymbolMap[Payload.symbol]]
<1>1. job.stage = "symbol" /\ job # Idle
  BY DEF SetSymbolNormalized, InStage, Idle
<1>2. Payload.symbol \in DOMAIN SymbolMap /\ signals[s].status = "PROCESSING"
  BY <1>1 DEF SafetyInv, JobOK, Unsent
<1>3. row \in Row /\ row.status = "PROCESSING" /\ row.payload = signals[s].payload
  BY <1>1, <1>2, JobHasType DEF Row
<1>4. /\ signals' = [signals EXCEPT ![s] = row] /\ job' = [job EXCEPT !.stage = "account"]
      /\ UNCHANGED <<phase, connected, settings, stuck, account, equity, utc,
                     interruptions, executions, baselines, book>>
  BY DEF SetSymbolNormalized, environment, Continue
<1>5. /\ Known' = Known /\ signals' \in [Known -> Row]
      /\ \A t \in Known : signals'[t].status = signals[t].status
                          /\ signals'[t].payload = signals[t].payload
  BY <1>3, <1>4, <1>1, <1>2, JobHasType DEF Known, SafetyInv, TypeOK
<1>6. job' \in Job /\ job'.stage = "account" /\ job'.signal = s /\ job'.exec = job.exec
  BY <1>1, <1>4, JobHasType DEF Job, Stages, DatabaseStages
<1>7. TypeOK'
  BY <1>4, <1>5, <1>6 DEF SafetyInv, TypeOK
<1>8. \A t : OrdersOf(t)' = OrdersOf(t)
  BY <1>4 DEF OrdersOf
<1>9. Payload' = Payload
  BY <1>1, <1>5, <1>6, JobHasType DEF Payload
<1>10. JobOK'
  BY <1>1, <1>2, <1>4, <1>5, <1>6, <1>8, <1>9, JobHasType DEF SafetyInv, JobOK, Unsent
<1>11. BookOK' /\ RecoveryOK' /\ ExecutedMeansFilled'
  BY <1>4, <1>5, <1>8 DEF SafetyInv, BookOK, RecoveryOK, ExecutedMeansFilled, Filled
<1> QED
  BY <1>7, <1>10, <1>11 DEF SafetyInv

\* The account key is written to the attempt's execution row.
LEMMA AccountStep == SafetyInv /\ IdentifyAccount => SafetyInv'
<1> SUFFICES ASSUME SafetyInv, IdentifyAccount PROVE SafetyInv'
  OBVIOUS
<1>1. PICK up \in BOOLEAN, known \in BOOLEAN :
        LET key == account_key_for(account, up /\ known)
        IN  /\ connected' = up
            /\ Continue([job EXCEPT !.key = key, !.equity = equity[account]],
                        Require(key # NoValue, "FAILED_MT5_UNAVAILABLE"), "market")
            /\ executions' = [executions EXCEPT ![job.exec].account_key = key]
  BY DEF IdentifyAccount, ConnectAnswers
<1> DEFINE key == account_key_for(account, up /\ known)
           j == [job EXCEPT !.key = key, !.equity = equity[account]]
           verdict == Require(key # NoValue, "FAILED_MT5_UNAVAILABLE")
           row == [executions[job.exec] EXCEPT !.account_key = key]
<1>2. /\ job.stage = "account" /\ job # Idle /\ job.exec \in DOMAIN executions
      /\ Payload.symbol \in DOMAIN SymbolMap
  BY DEF IdentifyAccount, InStage, Idle, SafetyInv, JobOK, Unsent
<1>3. UNCHANGED <<phase, settings, stuck, signals, baselines, book, account, equity, utc,
                  interruptions>>
  BY DEF IdentifyAccount, broker
<1>4. key \in Accounts \cup {NoValue} /\ equity[account] \in EquityLevels
  BY DEF account_key_for, SafetyInv, TypeOK
<1>5. executions[job.exec] \in Execution
  BY <1>2 DEF SafetyInv, TypeOK
<1>6. row \in Execution
  BY <1>4, <1>5 DEF Execution
<1>7. executions' = [executions EXCEPT ![job.exec] = row]
  BY <1>1
<1>8. executions' \in Seq(Execution) /\ DOMAIN executions' = DOMAIN executions
  BY <1>2, <1>6, <1>7, RowRewritten DEF SafetyInv, TypeOK
<1>9. j \in Job /\ j.signal = job.signal /\ j.exec = job.exec
  BY <1>2, <1>4, JobHasType DEF Job
<1>10. verdict \in NoTrade \cup {"ok"} /\ Continue(j, verdict, "market")
  BY <1>1 DEF Require, NoTrade, ServiceFailures
<1> HIDE DEF j, verdict, row, key
<1>11. job' \in Job /\ JobOK'
  BY <1>2, <1>3, <1>8, <1>9, <1>10, JobHasType, ContinueKeepsJob DEF Unsent
<1>12. TypeOK'
  BY <1>1, <1>3, <1>8, <1>11 DEF SafetyInv, TypeOK, Known
<1> QED
  BY <1>3, <1>11, <1>12, TablesUntouched DEF SafetyInv

\* A stage that only reads the tables and the terminal keeps the invariant when
\* its job keeps its type.
LEMMA ReadOnlyStage ==
  ASSUME SafetyInv, job # Idle, job.stage \in Unsent \ {"start"},
         UNCHANGED <<environment, store, book>>,
         NEW j \in Job, j.signal = job.signal, j.exec = job.exec,
         NEW verdict \in NoTrade \cup {"ok"}, NEW stage \in Unsent \ {"start"},
         Continue(j, verdict, stage)
  PROVE  SafetyInv'
<1>1. /\ job.exec \in DOMAIN executions /\ Payload.symbol \in DOMAIN SymbolMap
      /\ UNCHANGED <<phase, connected, settings, stuck, account, equity, utc,
                     interruptions, signals, executions, baselines, book>>
  BY DEF SafetyInv, JobOK, environment, store
<1>2. job' \in Job /\ JobOK'
  BY <1>1, JobHasType, ContinueKeepsJob
<1>3. TypeOK'
  BY <1>1, <1>2 DEF SafetyInv, TypeOK, Known
<1> QED
  BY <1>1, <1>2, <1>3, TablesUntouched DEF SafetyInv

\* The market checks read tables and terminal only.
LEMMA MarketStep == SafetyInv /\ CheckMarket => SafetyInv'
<1> SUFFICES ASSUME SafetyInv, CheckMarket PROVE SafetyInv'
  OBVIOUS
<1>1. job.stage = "market" /\ job # Idle /\ UNCHANGED <<environment, store, book>>
  BY DEF CheckMarket, InStage, Idle
<1>2. PICK available \in Answers("symbol"), tick \in Answers("tick"),
           clock \in Answers("clock"), quote \in Quotes, broker_now \in server_time :
        LET entry == IF Payload.action = "BUY" THEN quote.ask ELSE quote.bid
            point == SymbolInfo[SymbolMap[Payload.symbol]].point
            trades_today ==
              count_executed_trades_since(job.key, StartOfTradingDay(broker_now))
        IN  Continue([job EXCEPT !.entry = entry, !.day = TradingDayKey(broker_now)],
              Require(available, "REJECTED_SYMBOL_UNAVAILABLE")
                \odot Require(tick, "FAILED_MT5_UNAVAILABLE")
                \odot Require(clock, "FAILED_BROKER_TIME_UNKNOWN")
                \odot CheckStopLoss(Payload.action, Payload.stop_loss, entry,
                                    settings.require_stop_loss)
                \odot CheckSpread(quote, point, settings.max_spread_points)
                \odot CheckDailyTradeLimit(trades_today, settings.max_trades_per_day),
              "positions")
  BY DEF CheckMarket
<1>8. available \in BOOLEAN /\ tick \in BOOLEAN /\ clock \in BOOLEAN
  BY DEF Answers
<1> DEFINE entry == IF Payload.action = "BUY" THEN quote.ask ELSE quote.bid
           point == SymbolInfo[SymbolMap[Payload.symbol]].point
           trades_today ==
             count_executed_trades_since(job.key, StartOfTradingDay(broker_now))
           j == [job EXCEPT !.entry = entry, !.day = TradingDayKey(broker_now)]
           verdict ==
             Require(available, "REJECTED_SYMBOL_UNAVAILABLE")
               \odot Require(tick, "FAILED_MT5_UNAVAILABLE")
               \odot Require(clock, "FAILED_BROKER_TIME_UNKNOWN")
               \odot CheckStopLoss(Payload.action, Payload.stop_loss, entry,
                                   settings.require_stop_loss)
               \odot CheckSpread(quote, point, settings.max_spread_points)
               \odot CheckDailyTradeLimit(trades_today, settings.max_trades_per_day)
<1>3. entry \in Int
  BY MarketAssumption
<1>4. TradingDayKey(broker_now) \in Int
  <2>1. broker_now \in Int
    BY ClockAssumption DEF server_time, BrokerNow, SafetyInv, TypeOK
  <2> QED
    BY <2>1, DayLengthAssumption DEF TradingDayKey
<1>5. j \in Job /\ j.signal = job.signal /\ j.exec = job.exec
  BY <1>1, <1>3, <1>4, JobHasType DEF Job
<1>6. Continue(j, verdict, "positions")
  BY <1>2
<1>7. verdict \in NoTrade \cup {"ok"}
  <2>1. /\ Require(available, "REJECTED_SYMBOL_UNAVAILABLE") \in NoTrade \cup {"ok"}
        /\ Require(tick, "FAILED_MT5_UNAVAILABLE") \in NoTrade \cup {"ok"}
        /\ Require(clock, "FAILED_BROKER_TIME_UNKNOWN") \in NoTrade \cup {"ok"}
    BY <1>8 DEF Require, NoTrade, Rejections, ServiceFailures
  <2> QED
    BY <2>1, VerdictsOfChecks, VerdictOfSequence
<1> HIDE DEF j, verdict
<1> QED
  BY <1>1, <1>5, <1>6, <1>7, ReadOnlyStage DEF Unsent

\* The position check reads the terminal only.
LEMMA PositionsStep == SafetyInv /\ QueryPositions => SafetyInv'
<1> SUFFICES ASSUME SafetyInv, QueryPositions PROVE SafetyInv'
  OBVIOUS
<1> DEFINE verdict(answered) ==
             Require(answered, "FAILED_MT5_STATE_UNKNOWN")
               \odot CheckPositionLimit(Cardinality(OpenPositions(account)),
                                        settings.max_open_positions)
<1>1. job.stage = "positions" /\ job # Idle /\ UNCHANGED <<environment, store, book>>
  BY DEF QueryPositions, InStage, Idle
<1>2. PICK answered \in BOOLEAN : Continue(job, verdict(answered), "size")
  BY DEF QueryPositions, Answers
<1>3. verdict(answered) \in NoTrade \cup {"ok"}
  BY VerdictsOfChecks, VerdictOfSequence DEF Require, NoTrade, ServiceFailures
<1> HIDE DEF verdict
<1> QED
  BY <1>1, <1>2, <1>3, JobHasType, ReadOnlyStage DEF Unsent

\* order_check reads the terminal only, and a dry run is settled without an order.
LEMMA CheckStep == SafetyInv /\ CheckOrder => SafetyInv'
<1> SUFFICES ASSUME SafetyInv, CheckOrder PROVE SafetyInv'
  OBVIOUS
<1> DEFINE verdict(passed) ==
             Require(passed, "REJECTED_ORDER_CHECK")
               \odot Require(live_execution_allowed(settings), "DRY_RUN_APPROVED")
<1>1. job.stage = "check" /\ job # Idle /\ UNCHANGED <<environment, store, book>>
  BY DEF CheckOrder, InStage, Idle
<1>2. PICK passed \in BOOLEAN : Continue(job, verdict(passed), "send")
  BY DEF CheckOrder, Answers
<1>3. verdict(passed) \in NoTrade \cup {"ok"}
  BY DEF Require, \odot, NoTrade, Rejections, DryRunOutcomes
<1> HIDE DEF verdict
<1> QED
  BY <1>1, <1>2, <1>3, JobHasType, ReadOnlyStage DEF Unsent

\* The baseline of the day is the one thing written while the order is sized.
LEMMA SizeStep == SafetyInv /\ SizeOrder => SafetyInv'
<1> SUFFICES ASSUME SafetyInv, SizeOrder PROVE SafetyInv'
  OBVIOUS
<1> DEFINE Loss(priced) == IF priced THEN ContractSize * (job.entry - Payload.stop_loss) ELSE 0
           Limits(b) ==
             CheckDailyLoss(job.equity, b.equity, settings.max_daily_loss_percent)
               \odot CheckRiskPercent(Payload.risk_percent, settings.max_risk_percent)
           Volume(priced, short) ==
             CalculateRiskBasedVolume(job.entry, Payload.stop_loss, Loss(priced), job.equity,
               Payload.risk_percent, SymbolInfo[SymbolMap[Payload.symbol]], short)
<1>1. /\ job.stage = "size" /\ job # Idle /\ job.exec \in DOMAIN executions
      /\ Payload.symbol \in DOMAIN SymbolMap
  BY DEF SizeOrder, InStage, Idle, SafetyInv, JobOK, Unsent
<1>2. UNCHANGED <<phase, connected, settings, stuck, account, equity, utc, interruptions,
                  signals, executions, book>>
  BY DEF SizeOrder, environment
<1>3. PICK priced \in BOOLEAN, short \in BOOLEAN, b \in baselines' :
        IF Limits(b) = "ok" /\ Payload.stop_loss = NoStopLoss THEN job' = Idle
        ELSE Continue([job EXCEPT !.volume = Volume(priced, short).volume],
                      Limits(b) \odot Volume(priced, short).status, "check")
  BY DEF SizeOrder, Answers
<1>4. Limits(b) \in NoTrade \cup {"ok"}
  BY VerdictsOfChecks, VerdictOfSequence
<1>5. Volume(priced, short).status \in NoTrade \cup {"ok"} /\ Volume(priced, short).volume \in Int
  <2>1. job.entry \in Int /\ job.equity \in Int
    BY <1>1, JobHasType, MarketAssumption DEF Job
  <2>2. Payload.stop_loss \in Int /\ Payload.risk_percent \in Int
    BY <1>1, JobHasType, PayloadsAssumption
  <2>3. Loss(priced) \in Int
    BY <2>1, <2>2, MarketAssumption
  <2>4. SymbolInfo[SymbolMap[Payload.symbol]]
          \in [point : Nat, volume_min : Nat, volume_max : Nat, volume_step : Nat]
    BY <1>1, MarketAssumption
  <2> HIDE DEF Loss
  <2> QED
    BY <2>1, <2>2, <2>3, <2>4, VolumeResult
<1> DEFINE j == [job EXCEPT !.volume = Volume(priced, short).volume]
           verdict == Limits(b) \odot Volume(priced, short).status
<1>6. verdict \in NoTrade \cup {"ok"} /\ j \in Job /\ j.signal = job.signal /\ j.exec = job.exec
  <2> HIDE DEF Limits, Volume
  <2> QED
    BY <1>1, <1>4, <1>5, JobHasType, VerdictOfSequence DEF Job
<1>7. job' = Idle \/ Continue(j, verdict, "check")
  BY <1>3
<1> HIDE DEF Limits, Volume, j, verdict
<1>8. job' \in {Idle} \cup Job /\ JobOK'
  <2>1. CASE job' = Idle
    BY <2>1 DEF JobOK
  <2>2. CASE Continue(j, verdict, "check")
    BY <1>1, <1>2, <1>6, <2>2, JobHasType, ContinueKeepsJob DEF Unsent
  <2> QED
    BY <1>7, <2>1, <2>2
<1>9. baselines' \subseteq [account_key : Accounts \cup {NoValue}, day : Int,
                            equity : EquityLevels \cup {0}]
  BY <1>1, JobHasType DEF SizeOrder, BaselinesWith, Job, SafetyInv, TypeOK
<1>10. TypeOK'
  BY <1>2, <1>8, <1>9 DEF SafetyInv, TypeOK, Known
<1> QED
  BY <1>2, <1>8, <1>10, TablesUntouched DEF SafetyInv

----------------------------------------------------------------------------
(* The send and what follows it                                             *)

\* The send appends at most one order, of a signal that had none.
LEMMA SendStep == SafetyInv /\ SendOrder => SafetyInv'
<1> SUFFICES ASSUME SafetyInv, SendOrder PROVE SafetyInv'
  OBVIOUS
<1> DEFINE s == job.signal
           Order_(result) == [signal |-> s, account |-> account,
                               at |-> BrokerNow,
                               fill |-> result, open |-> result = "on_send"]
<1>1. job.stage = "send" /\ job # Idle
  BY DEF SendOrder, InStage, Idle
<1>12. PICK reply \in OrderReplies : \E result \in OrderOutcomes(reply) :
        /\ book' = IF result = "none" THEN book ELSE Append(book, Order_(result))
        /\ job' = [job EXCEPT !.stage = "record", !.reply = reply,
                              !.ticket = IF reply = NoValue THEN 0 ELSE Len(book')]
  BY DEF SendOrder
<1>2. PICK result \in OrderOutcomes(reply) :
        /\ book' = IF result = "none" THEN book ELSE Append(book, Order_(result))
        /\ job' = [job EXCEPT !.stage = "record", !.reply = reply,
                              !.ticket = IF reply = NoValue THEN 0 ELSE Len(book')]
  BY <1>12
<1>3. /\ UNCHANGED <<phase, connected, settings, stuck, account, equity, utc, interruptions,
                     signals, executions, baselines>>
      /\ job.exec \in DOMAIN executions /\ OrdersOf(s) = {}
      /\ signals[s].status = "PROCESSING" /\ phase \notin {"down", "recovering"}
  BY <1>1 DEF SendOrder, environment, store, SafetyInv, JobOK, Unsent
<1>4. /\ reply \in Replies /\ result \in {"none", "working", "on_send"}
      /\ reply = "OTHER" => result = "none"
      /\ reply \in {"DONE", "DONE_PARTIAL"} => result = "on_send"
  BY DEF OrderReplies, OrderOutcomes, Replies
<1>5. book \in Seq(Order) /\ s \in Signals /\ s \in Known /\ account \in Accounts
  BY <1>1, JobHasType DEF SafetyInv, TypeOK
<1>6. result # "none" => Order_(result) \in Order
  <2>1. BrokerNow \in Int
    BY ClockAssumption DEF BrokerNow, SafetyInv, TypeOK
  <2> QED
    BY <1>4, <1>5, <2>1 DEF Order
<1>7. book' \in Seq(Order) /\ Len(book') \in Nat
  BY <1>2, <1>5, <1>6, AppendProperties
<1>8. /\ job' \in Job /\ job'.stage = "record" /\ job'.reply = reply
      /\ job'.signal = s /\ job'.exec = job.exec
  BY <1>1, <1>2, <1>4, <1>7, JobHasType DEF Job, Stages, DatabaseStages
<1>9. TypeOK'
  BY <1>3, <1>7, <1>8 DEF SafetyInv, TypeOK, Known
<1>10. CASE result = "none"
  <2>1. book' = book /\ \A t : OrdersOf(t)' = OrdersOf(t)
    BY <1>2, <1>10 DEF OrdersOf
  <2>2. JobOK'
    BY <1>3, <1>4, <1>5, <1>8, <1>10, <2>1 DEF JobOK, Unsent, Known
  <2> QED
    BY <1>3, <1>9, <2>1, <2>2, TablesUntouched DEF SafetyInv
<1>11. CASE result # "none"
  <2>1. /\ DOMAIN book' = 1 .. Len(book) + 1 /\ DOMAIN book = 1 .. Len(book)
        /\ \A i \in DOMAIN book : book'[i] = book[i] /\ book[i].signal # s
        /\ book'[Len(book) + 1].signal = s /\ book'[Len(book) + 1].fill = result
        /\ Len(book) \in Nat
    <3>1. \A i \in DOMAIN book : book[i].signal # s
      BY <1>3 DEF OrdersOf
    <3> QED
      BY <1>2, <1>5, <1>6, <1>11, <3>1, AppendProperties
  <2>2. \A i \in DOMAIN book' : i \in DOMAIN book \/ i = Len(book) + 1
    BY <2>1
  <2>3. BookOK'
    BY <1>3, <1>5, <2>1, <2>2 DEF SafetyInv, BookOK, Known, NoTrade, Rejections,
       ServiceFailures, DryRunOutcomes
  <2>4. \A t \in Known : FilledOrderOf(t) => FilledOrderOf(t)'
    BY <2>1 DEF FilledOrderOf, OrdersOf, Filled
  <2>5. ExecutedMeansFilled'
    BY <1>3, <2>4 DEF SafetyInv, ExecutedMeansFilled, FilledOrderOf, Known
  <2>6. result = "on_send" => FilledOrderOf(s)'
    BY <1>8, <2>1 DEF FilledOrderOf, OrdersOf, Filled
  <2>7. JobOK'
    BY <1>3, <1>4, <1>5, <1>8, <1>11, <2>6 DEF JobOK, Unsent, Known
  <2>8. RecoveryOK'
    BY <1>3 DEF SafetyInv, RecoveryOK, Known
  <2> QED
    BY <1>9, <2>3, <2>5, <2>7, <2>8 DEF SafetyInv
<1> QED
  BY <1>10, <1>11

\* The recorded reply leads to a verdict that tells the truth about the order.
LEMMA RecordStep == SafetyInv /\ RecordReply => SafetyInv'
<1> SUFFICES ASSUME SafetyInv, RecordReply PROVE SafetyInv'
  OBVIOUS
<1> DEFINE row == [executions[job.exec] EXCEPT !.order_send_retcode = job.reply]
           v == SendVerdict(job.reply)
<1>1. job.stage = "record" /\ job # Idle /\ job.exec \in DOMAIN executions
  BY DEF RecordReply, InStage, Idle, SafetyInv, JobOK
<1>2. job \in Job /\ job.reply \in Replies /\ job.signal \in Known
  BY <1>1, JobHasType DEF Job
<1>3. /\ executions' = [executions EXCEPT ![job.exec] = row] /\ Continue(job, v, "finish")
      /\ UNCHANGED <<phase, connected, settings, stuck, account, equity, utc, interruptions,
                     signals, baselines, book>>
  BY DEF RecordReply, environment
<1>4. row \in Execution
  <2>1. executions[job.exec] \in Execution
    BY <1>1 DEF SafetyInv, TypeOK
  <2> QED
    BY <1>2, <2>1 DEF Execution
<1> HIDE DEF row
<1>5. executions' \in Seq(Execution) /\ DOMAIN executions' = DOMAIN executions
  BY <1>1, <1>3, <1>4, RowRewritten DEF SafetyInv, TypeOK
<1>6. /\ v # "ok" /\ v \in Settled /\ v \in ExecutionStatus
      /\ v \in NoTrade => job.reply = "OTHER"
      /\ v \in Executions => job.reply \in {"DONE", "DONE_PARTIAL"}
  BY <1>2 DEF SendVerdict, Replies, NoValue, Settled, ExecutionStatus, NoTrade, Executions,
     Rejections, ServiceFailures, DryRunOutcomes
<1>7. job' = [job EXCEPT !.stage = "finish", !.verdict = v]
  BY <1>3, <1>6 DEF Continue
<1> HIDE DEF v
<1>8. /\ job' \in Job /\ job'.stage = "finish" /\ job'.verdict = v
      /\ job'.signal = job.signal /\ job'.exec = job.exec
  BY <1>2, <1>6, <1>7 DEF Job, Stages, DatabaseStages
<1>9. TypeOK'
  BY <1>3, <1>5, <1>8 DEF SafetyInv, TypeOK, Known
<1>10. /\ OrdersOf(job.signal)' = OrdersOf(job.signal)
       /\ FilledOrderOf(job.signal)' = FilledOrderOf(job.signal)
  BY <1>3, <1>8 DEF OrdersOf, FilledOrderOf, Filled
<1>11. JobOK'
  BY <1>1, <1>3, <1>5, <1>6, <1>8, <1>10 DEF SafetyInv, JobOK, Unsent, Known
<1> QED
  BY <1>3, <1>9, <1>11, TablesUntouched DEF SafetyInv

\* finish(), first transaction: the verdict reaches the execution row.
LEMMA FinishStep == SafetyInv /\ FinishExecution => SafetyInv'
<1> SUFFICES ASSUME SafetyInv, FinishExecution PROVE SafetyInv'
  OBVIOUS
<1> DEFINE ticket == IF job.reply \in {"DONE", "DONE_PARTIAL", "PLACED"} THEN job.ticket
                     ELSE executions[job.exec].order_ticket
           row == [executions[job.exec] EXCEPT !.status = job.verdict, !.order_ticket = ticket]
<1>1. /\ job.stage = "finish" /\ job # Idle /\ job.exec \in DOMAIN executions
      /\ job.verdict \in Settled
  BY DEF FinishExecution, InStage, Idle, SafetyInv, JobOK
<1>2. job \in Job
  BY <1>1, JobHasType
<1>3. /\ executions' = [executions EXCEPT ![job.exec] = row]
      /\ job' = [job EXCEPT !.stage = "settle"]
      /\ UNCHANGED <<phase, connected, settings, stuck, account, equity, utc, interruptions,
                     signals, baselines, book>>
  BY DEF FinishExecution, environment
<1>4. row \in Execution
  <2>1. executions[job.exec] \in Execution
    BY <1>1 DEF SafetyInv, TypeOK
  <2>2. job.verdict \in ExecutionStatus /\ ticket \in Nat
    BY <1>1, <1>2, <2>1 DEF Settled, Job, Execution
  <2> HIDE DEF ticket
  <2> QED
    BY <2>1, <2>2 DEF Execution
<1> HIDE DEF row
<1>5. executions' \in Seq(Execution) /\ DOMAIN executions' = DOMAIN executions
  BY <1>1, <1>3, <1>4, RowRewritten DEF SafetyInv, TypeOK
<1>6. /\ job' \in Job /\ job'.stage = "settle" /\ job'.verdict = job.verdict
      /\ job'.signal = job.signal /\ job'.exec = job.exec
  BY <1>2, <1>3 DEF Job, Stages, DatabaseStages
<1>7. TypeOK'
  BY <1>3, <1>5, <1>6 DEF SafetyInv, TypeOK, Known
<1>8. /\ OrdersOf(job.signal)' = OrdersOf(job.signal)
      /\ FilledOrderOf(job.signal)' = FilledOrderOf(job.signal)
  BY <1>3, <1>6 DEF OrdersOf, FilledOrderOf, Filled
<1>9. JobOK'
  BY <1>1, <1>3, <1>5, <1>6, <1>8 DEF SafetyInv, JobOK, Unsent, Known
<1> QED
  BY <1>3, <1>7, <1>9, TablesUntouched DEF SafetyInv

\* One signal's status moves from PROCESSING to a settled one that tells the truth
\* about its order: what SettleSignal and Reconcile have in common.
LEMMA StatusSettled ==
  ASSUME SafetyInv, NEW s \in Known, NEW status \in Settled,
         signals[s].status = "PROCESSING",
         signals' = [signals EXCEPT ![s].status = status],
         UNCHANGED book,
         status \in NoTrade => OrdersOf(s) = {},
         status \in Executions => FilledOrderOf(s)
  PROVE  /\ Known' = Known /\ signals' \in [Known -> Row]
         /\ \A t \in Known \ {s} : signals'[t] = signals[t]
         /\ BookOK' /\ ExecutedMeansFilled'
<1> DEFINE row == [signals[s] EXCEPT !.status = status]
<1>1. signals \in [Known -> Row] /\ signals[s] \in Row /\ status \in ExecutionStatus
      /\ status # "PENDING"
  BY DEF SafetyInv, TypeOK, Settled
<1>2. row \in Row /\ row.status = status
  BY <1>1 DEF Row
<1>3. signals' = [signals EXCEPT ![s] = row]
  OBVIOUS
<1> HIDE DEF row
<1>4. /\ Known' = Known /\ signals' \in [Known -> Row] /\ signals'[s].status = status
      /\ \A t \in Known \ {s} : signals'[t] = signals[t]
  BY <1>1, <1>2, <1>3 DEF Known
<1>5. BookOK'
  BY <1>1, <1>4 DEF SafetyInv, BookOK, OrdersOf
<1>6. ExecutedMeansFilled'
  BY <1>4 DEF SafetyInv, ExecutedMeansFilled, FilledOrderOf, OrdersOf, Filled
<1> QED
  BY <1>4, <1>5, <1>6

\* finish(), second transaction: the verdict reaches the signal.
LEMMA SettleStep == SafetyInv /\ SettleSignal => SafetyInv'
<1> SUFFICES ASSUME SafetyInv, SettleSignal PROVE SafetyInv'
  OBVIOUS
<1>1. /\ job.stage = "settle" /\ job # Idle /\ job.verdict \in Settled
      /\ job.verdict \in NoTrade => OrdersOf(job.signal) = {}
      /\ job.verdict \in Executions => FilledOrderOf(job.signal)
      /\ job.signal \in Known /\ signals[job.signal].status = "PROCESSING"
      /\ phase \notin {"down", "recovering"}
  BY DEF SettleSignal, InStage, Idle, SafetyInv, JobOK
<1>2. /\ signals' = [signals EXCEPT ![job.signal].status = job.verdict] /\ job' = Idle
      /\ UNCHANGED <<phase, connected, settings, stuck, account, equity, utc, interruptions,
                     executions, baselines, book>>
  BY DEF SettleSignal, update_signal_status, environment
<1>3. /\ Known' = Known /\ signals' \in [Known -> Row]
      /\ BookOK' /\ ExecutedMeansFilled'
  BY <1>1, <1>2, StatusSettled
<1>4. stuck = {}
  BY <1>1 DEF SafetyInv, RecoveryOK
<1> QED
  BY <1>2, <1>3, <1>4 DEF SafetyInv, TypeOK, JobOK, RecoveryOK

\* An exception drops the job and nothing else.
LEMMA AbandonStep == SafetyInv /\ AbandonJob => SafetyInv'
<1> SUFFICES ASSUME SafetyInv, AbandonJob PROVE SafetyInv'
  OBVIOUS
<1>1. /\ job' = Idle
      /\ UNCHANGED <<phase, connected, settings, stuck, account, equity, utc, interruptions,
                     signals, executions, baselines, book>>
  BY DEF AbandonJob, environment, store
<1>2. TypeOK' /\ JobOK'
  BY <1>1 DEF SafetyInv, TypeOK, JobOK, Known
<1> QED
  BY <1>1, <1>2, TablesUntouched DEF SafetyInv

\* Every step of the worker and its pipeline keeps the invariant.
LEMMA WorkStep == SafetyInv /\ Work => SafetyInv'
  BY ClaimStep, StartStep, SymbolStep, AccountStep, MarketStep, PositionsStep, SizeStep,
     CheckStep, SendStep, RecordStep, FinishStep, SettleStep, AbandonStep DEF Work

----------------------------------------------------------------------------
(* Intake, the life of the process, the world                               *)

\* A submission adds a queued signal without an order, or changes nothing.
LEMMA SubmitStep ==
  ASSUME SafetyInv, NEW s \in Signals, NEW p \in Payloads, Submit(s, p)
  PROVE  SafetyInv'
<1>1. /\ signals' = insert_signal_if_new(s, p) /\ phase = "running"
      /\ UNCHANGED <<phase, connected, settings, stuck, job, executions, baselines,
                     book, account, equity, utc, interruptions>>
  BY DEF Submit, broker
<1>2. Cardinality(Known) + 1 \in Nat
  BY SignalsAssumption, FS_Subset, FS_CardinalityType DEF SafetyInv, TypeOK
<1>3. NewRow(p) \in Row /\ NewRow(p).status = "PENDING"
  BY <1>2 DEF NewRow, Row, Known, ExecutionStatus
<1>4. /\ Known' = Known \cup {s} /\ signals' \in [Known' -> Row]
      /\ \A t \in Known : signals'[t] = signals[t]
      /\ s \notin Known => signals'[s].status = "PENDING"
  BY <1>1, <1>3 DEF insert_signal_if_new, Known, SafetyInv, TypeOK
<1>5. TypeOK'
  BY <1>1, <1>4 DEF SafetyInv, TypeOK
<1>6. \A t : OrdersOf(t)' = OrdersOf(t) /\ FilledOrderOf(t)' = FilledOrderOf(t)
  BY <1>1 DEF OrdersOf, FilledOrderOf, Filled
<1>7. JobOK'
  <2> SUFFICES ASSUME job # Idle PROVE JobOK'
    BY <1>1 DEF JobOK
  <2>1. Payload' = Payload /\ signals'[job.signal] = signals[job.signal]
    BY <1>1, <1>4, JobHasType DEF Payload
  <2> QED
    BY <1>1, <1>4, <1>6, <2>1 DEF SafetyInv, JobOK
<1>8. BookOK' /\ RecoveryOK'
  BY <1>1, <1>4 DEF SafetyInv, BookOK, RecoveryOK
<1>9. ExecutedMeansFilled'
  <2>1. "PENDING" \notin Executions
    BY DEF Executions
  <2> QED
    BY <1>1, <1>4, <2>1 DEF SafetyInv, ExecutedMeansFilled, OrdersOf, Filled
<1> QED
  BY <1>5, <1>7, <1>8, <1>9 DEF SafetyInv

\* The recovery calls a signal executed only when it found its filled deal.
LEMMA ReconcileTellsTruth ==
  ASSUME SafetyInv, NEW s \in Signals, Reconcile(s)
  PROVE  /\ s \in Known /\ signals[s].status = "PROCESSING" /\ job = Idle
         /\ \E v \in Settled :
              /\ signals' = [signals EXCEPT ![s].status = v]
              /\ v \notin NoTrade
              /\ v \in Executions => FilledOrderOf(s)
<1>1. PICK up \in BOOLEAN, answered \in BOOLEAN :
        signals' = [signals EXCEPT ![s].status = ReconcileVerdict(s, up, answered)]
  BY DEF Reconcile, update_signal_status, ConnectAnswers
<1>2. s \in Known /\ signals[s].status = "PROCESSING" /\ job = Idle
  BY DEF Reconcile, SafetyInv, RecoveryOK, JobOK
<1>3. DealFound(s) => FilledOrderOf(s)
  <2> SUFFICES ASSUME DealFound(s) PROVE FilledOrderOf(s)
    OBVIOUS
  <2>1. PICK i \in DOMAIN book : Filled(i) /\ Tag[book[i].signal] = Tag[s]
    BY DEF DealFound
  <2>2. book[i].signal \in Signals
    BY <2>1 DEF SafetyInv, TypeOK, BookOK
  <2>3. book[i].signal = s
    BY <2>1, <2>2, TagAssumption
  <2> QED
    BY <2>1, <2>3 DEF FilledOrderOf, OrdersOf
<1> DEFINE v == ReconcileVerdict(s, up, answered)
<1>4. /\ v \in Settled /\ v \notin NoTrade
      /\ v \in Executions => FilledOrderOf(s)
  BY <1>3 DEF ReconcileVerdict, Settled, ExecutionStatus, NoTrade, Executions, Rejections,
     ServiceFailures, DryRunOutcomes
<1> HIDE DEF v
<1> QED
  BY <1>1, <1>2, <1>4 DEF v

\* So a reconciliation keeps the invariant.
LEMMA ReconcileStep ==
  ASSUME SafetyInv, NEW s \in Signals, Reconcile(s)
  PROVE  SafetyInv'
<1>1. /\ phase = "recovering" /\ s \in stuck /\ stuck' = stuck \ {s} /\ connected' \in BOOLEAN
      /\ UNCHANGED <<phase, settings, job, executions, baselines, book, account, equity,
                     utc, interruptions>>
  BY DEF Reconcile, ConnectAnswers, rest, broker
<1>2. s \in Known /\ signals[s].status = "PROCESSING" /\ job = Idle
  BY ReconcileTellsTruth
<1>3. PICK v \in Settled :
        /\ signals' = [signals EXCEPT ![s].status = v]
        /\ v \notin NoTrade
        /\ v \in Executions => FilledOrderOf(s)
  BY ReconcileTellsTruth
<1>4. /\ Known' = Known /\ signals' \in [Known -> Row]
      /\ \A t \in Known \ {s} : signals'[t] = signals[t]
      /\ BookOK' /\ ExecutedMeansFilled'
  BY <1>1, <1>2, <1>3, StatusSettled
<1> QED
  BY <1>1, <1>2, <1>4 DEF SafetyInv, TypeOK, JobOK, RecoveryOK

\* A step of the process's life that leaves the tables and the broker alone.
LEMMA LifeStep ==
  ASSUME SafetyInv, UNCHANGED <<signals, executions, baselines, book, account, equity, utc>>,
         phase' \in PhaseNames, connected' \in BOOLEAN, settings' \in SettingsChoices,
         interruptions' \in Nat,
         \/ job' = Idle
         \/ job' = job /\ phase' \notin {"down", "recovering"},
         stuck' \subseteq WithStatus("PROCESSING"),
         stuck' # {} => phase' = "recovering"
  PROVE  SafetyInv'
<1>1. \A t : OrdersOf(t)' = OrdersOf(t) /\ FilledOrderOf(t)' = FilledOrderOf(t)
  BY DEF OrdersOf, FilledOrderOf, Filled
<1>2. stuck' \subseteq Known' /\ Known' = Known
  BY DEF WithStatus, Known
<1>3. TypeOK'
  BY <1>2 DEF SafetyInv, TypeOK
<1>4. JobOK'
  <2>1. CASE job' = Idle
    BY <2>1 DEF JobOK
  <2>2. CASE job' = job /\ phase' \notin {"down", "recovering"}
    BY <1>1, <1>2, <2>2 DEF SafetyInv, JobOK, Payload
  <2> QED
    BY <2>1, <2>2
<1>5. BookOK' /\ RecoveryOK' /\ ExecutedMeansFilled'
  BY <1>1, <1>2 DEF SafetyInv, BookOK, RecoveryOK, ExecutedMeansFilled, Filled, WithStatus
<1> QED
  BY <1>3, <1>4, <1>5 DEF SafetyInv

\* Starting, stopping and crashing keep the invariant.
LEMMA ProcessSteps ==
  ASSUME SafetyInv,
         \/ Boot \/ StartWorker \/ FailStart \/ ShutdownGateway \/ CloseStore \/ Exit
         \/ Stop \/ Crash
  PROVE  SafetyInv'
<1> USE DEF PhaseNames
<1>1. /\ connected \in BOOLEAN /\ settings \in SettingsChoices /\ interruptions \in Nat
      /\ stuck \subseteq WithStatus("PROCESSING") /\ (stuck # {} => phase = "recovering")
      /\ phase \in {"down", "recovering"} => job = Idle
  BY DEF SafetyInv, TypeOK, RecoveryOK, JobOK, WithStatus, Known
<1>2. CASE Boot
  BY <1>1, <1>2, LifeStep DEF Boot, find_stuck_processing, rest, broker
<1>3. CASE StartWorker
  BY <1>1, <1>3, LifeStep DEF StartWorker, rest, broker
<1>4. CASE ShutdownGateway
  BY <1>1, <1>4, LifeStep DEF ShutdownGateway, rest, broker
<1>5. CASE CloseStore
  BY <1>1, <1>5, LifeStep DEF CloseStore, rest, broker
<1>6. CASE Exit
  BY <1>1, <1>6, LifeStep DEF Exit, rest, broker
<1>7. CASE Stop
  BY <1>1, <1>7, LifeStep DEF Stop, Interrupt, rest, broker
<1>8. CASE Crash
  <2>1. /\ phase' = "down" /\ job' = Idle /\ stuck' = {} /\ connected' = FALSE
        /\ interruptions' = interruptions + 1
        /\ UNCHANGED <<settings, signals, executions, baselines, book, account, equity, utc>>
    BY <1>8 DEF Crash, Interrupt, rest, broker
  <2>2. interruptions' \in Nat
    BY <1>1, <2>1
  <2>3. settings' \in SettingsChoices
    BY <1>1, <2>1
  <2>4. phase' \in PhaseNames /\ connected' \in BOOLEAN /\ stuck' \subseteq WithStatus("PROCESSING")
    BY <2>1
  <2> QED
    BY <2>1, <2>2, <2>3, <2>4, LifeStep
<1>9. CASE FailStart
  BY <1>1, <1>9, LifeStep DEF FailStart, rest, broker
<1> QED
  BY <1>2, <1>3, <1>4, <1>5, <1>6, <1>7, <1>8, <1>9

\* What the broker, the operator at the terminal and the clock do on their own: an
\* order keeps its signal, and once filled it stays filled.
LEMMA OrderRewritten ==
  ASSUME SafetyInv, NEW i \in DOMAIN book, NEW e \in Order, e.signal = book[i].signal,
         Filled(i) => e.fill = book[i].fill,
         book' = [book EXCEPT ![i] = e],
         UNCHANGED <<process, account, equity, utc>>
  PROVE  SafetyInv'
<1>1. UNCHANGED <<phase, connected, settings, stuck, job, signals, executions, baselines,
                  interruptions, account, equity, utc>>
  BY DEF process, store
<1>2. /\ book' \in Seq(Order) /\ DOMAIN book' = DOMAIN book /\ book'[i] = e
      /\ \A k \in DOMAIN book \ {i} : book'[k] = book[k]
  BY RowRewritten DEF SafetyInv, TypeOK
<1>3. TypeOK'
  BY <1>1, <1>2 DEF SafetyInv, TypeOK, Known
<1>4. \A t : OrdersOf(t)' = OrdersOf(t)
  BY <1>2 DEF OrdersOf
<1>5. \A k \in DOMAIN book : Filled(k) => Filled(k)'
  BY <1>2 DEF Filled
<1>6. \A t : FilledOrderOf(t) => FilledOrderOf(t)'
  BY <1>4, <1>5 DEF FilledOrderOf, OrdersOf
<1>7. JobOK'
  BY <1>1, <1>4, <1>6 DEF SafetyInv, JobOK, Known, Payload
<1>8. BookOK'
  BY <1>1, <1>2 DEF SafetyInv, BookOK, Known
<1>9. ExecutedMeansFilled'
  BY <1>1, <1>6 DEF SafetyInv, ExecutedMeansFilled, FilledOrderOf, Known
<1> QED
  BY <1>1, <1>3, <1>7, <1>8, <1>9 DEF SafetyInv, RecoveryOK, Known

\* A step of the clock, the equity or the login disturbs nothing but its own type.
LEMMA SurroundingsStep ==
  ASSUME SafetyInv, UNCHANGED <<process, book>>,
         account' \in Accounts, equity' \in [Accounts -> EquityLevels], utc' \in Nat
  PROVE  SafetyInv'
<1>1. UNCHANGED <<phase, connected, settings, stuck, job, signals, executions, baselines,
                  interruptions, book>>
  BY DEF process, store
<1>2. TypeOK'
  BY <1>1 DEF SafetyInv, TypeOK, Known
<1>3. JobOK'
  BY <1>1 DEF SafetyInv, JobOK, Known, Payload, OrdersOf, FilledOrderOf, Filled
<1> QED
  BY <1>1, <1>2, <1>3, TablesUntouched DEF SafetyInv

\* No step of the world outside the process breaks the invariant.
LEMMA WorldStep == SafetyInv /\ World => SafetyInv'
<1> SUFFICES ASSUME SafetyInv, World PROVE SafetyInv'
  OBVIOUS
<1>1. /\ account \in Accounts /\ equity \in [Accounts -> EquityLevels] /\ utc \in Nat
      /\ \A i \in DOMAIN book : book[i] \in Order
  BY DEF SafetyInv, TypeOK
<1>2. ASSUME NEW i \in DOMAIN book, FillOrder(i) PROVE SafetyInv'
  <2> DEFINE e == [book[i] EXCEPT !.fill = "later", !.open = TRUE, !.at = BrokerNow]
  <2>1. BrokerNow \in Int
    BY <1>1, ClockAssumption DEF BrokerNow
  <2>2. e \in Order /\ e.signal = book[i].signal
    BY <1>1, <2>1 DEF Order
  <2>3. book' = [book EXCEPT ![i] = e] /\ ~Filled(i) /\ UNCHANGED <<process, account, equity, utc>>
    BY <1>2 DEF FillOrder, WorkingOrder, Filled
  <2> HIDE DEF e
  <2> QED
    BY <2>2, <2>3, OrderRewritten
<1>3. ASSUME NEW i \in DOMAIN book, VoidOrder(i) PROVE SafetyInv'
  <2> DEFINE e == [book[i] EXCEPT !.fill = "void"]
  <2>1. e \in Order /\ e.signal = book[i].signal
    BY <1>1 DEF Order
  <2>2. book' = [book EXCEPT ![i] = e] /\ ~Filled(i) /\ UNCHANGED <<process, account, equity, utc>>
    BY <1>3 DEF VoidOrder, WorkingOrder, Filled
  <2> HIDE DEF e
  <2> QED
    BY <2>1, <2>2, OrderRewritten
<1>4. ASSUME NEW i \in DOMAIN book, ClosePosition(i) PROVE SafetyInv'
  <2> DEFINE e == [book[i] EXCEPT !.open = FALSE]
  <2>1. e \in Order /\ e.signal = book[i].signal /\ e.fill = book[i].fill
    BY <1>1 DEF Order
  <2>2. book' = [book EXCEPT ![i] = e] /\ UNCHANGED <<process, account, equity, utc>>
    BY <1>4 DEF ClosePosition
  <2> HIDE DEF e
  <2> QED
    BY <2>1, <2>2, OrderRewritten
<1>5. ASSUME NEW a \in Accounts, NEW level \in EquityLevels, MoveEquity(a, level)
      PROVE  SafetyInv'
  BY <1>1, <1>5, SurroundingsStep DEF MoveEquity
<1>6. ASSUME NEW a \in Accounts, SwitchAccount(a) PROVE SafetyInv'
  BY <1>1, <1>6, SurroundingsStep DEF SwitchAccount
<1>7. CASE Tick
  BY <1>1, <1>7, SurroundingsStep DEF Tick, broker
<1> QED
  BY <1>2, <1>3, <1>4, <1>5, <1>6, <1>7 DEF World

----------------------------------------------------------------------------
(* The theorems                                                             *)

\* A bridge that was never started is safe.
LEMMA InitSafety == Init => SafetyInv
<1> SUFFICES ASSUME Init PROVE SafetyInv
  OBVIOUS
<1>1. Known = {} /\ signals \in [Known -> Row] /\ book = <<>>
  BY DEF Init, Known
<1>2. <<>> \in Seq(Order) /\ <<>> \in Seq(Execution)
  OBVIOUS
<1>3. TypeOK
  BY <1>1, <1>2, ClockAssumption DEF Init, TypeOK, PhaseNames
<1>4. JobOK /\ BookOK /\ RecoveryOK /\ ExecutedMeansFilled
  BY <1>1 DEF Init, JobOK, BookOK, RecoveryOK, ExecutedMeansFilled
<1> QED
  BY <1>3, <1>4 DEF SafetyInv

\* SafetyInv is inductive: no step of any actor breaks it.
LEMMA NextSafety == SafetyInv /\ [Next]_vars => SafetyInv'
<1> SUFFICES ASSUME SafetyInv, [Next]_vars PROVE SafetyInv'
  OBVIOUS
<1>1. CASE \E s \in Signals, p \in Payloads : Submit(s, p)
  BY <1>1, SubmitStep
<1>2. CASE Work
  BY <1>2, WorkStep
<1>3. CASE \E s \in Signals : Reconcile(s)
  BY <1>3, ReconcileStep
<1>4. CASE \/ Boot \/ StartWorker \/ FailStart \/ ShutdownGateway \/ CloseStore \/ Exit
           \/ Stop \/ Crash
  BY <1>4, ProcessSteps
<1>5. CASE World
  BY <1>5, WorldStep
<1>6. CASE UNCHANGED vars
  <2>1. UNCHANGED <<process, book>> /\ UNCHANGED <<account, equity, utc>>
    BY <1>6 DEF vars, process, store, broker
  <2>2. account \in Accounts /\ equity \in [Accounts -> EquityLevels] /\ utc \in Nat
    BY DEF SafetyInv, TypeOK
  <2> QED
    BY <2>1, <2>2, SurroundingsStep
<1> QED
  BY <1>1, <1>2, <1>3, <1>4, <1>5, <1>6 DEF Next, Lifecycle

\* In every behaviour of the bridge, with any number of signals, crashes, restarts
\* and failures of the terminal, the invariant holds.
THEOREM SafetyCorrect == Spec => []SafetyInv
<1>1. Init => SafetyInv
  BY InitSafety
<1>2. SafetyInv /\ [Next]_vars => SafetyInv'
  BY NextSafety
<1> QED
  BY <1>1, <1>2, PTL DEF Spec

\* Every variable keeps its type.
THEOREM TypeCorrect == Spec => []TypeOK
<1>1. SafetyInv => TypeOK
  BY DEF SafetyInv
<1> QED
  BY <1>1, SafetyCorrect, PTL

\* Whatever is lost, retried, crashed or recovered, a signal never has two orders.
THEOREM NoDuplicateOrder == Spec => []AtMostOneOrder
<1>1. SafetyInv => AtMostOneOrder
  <2> SUFFICES ASSUME SafetyInv, NEW s \in Signals PROVE Cardinality(OrdersOf(s)) <= 1
    BY DEF AtMostOneOrder
  <2>1. \A i, j \in OrdersOf(s) : i = j
    BY DEF SafetyInv, BookOK, OrdersOf
  <2>2. CASE OrdersOf(s) = {}
    BY <2>2, FS_EmptySet
  <2>3. CASE OrdersOf(s) # {}
    <3>1. PICK i : OrdersOf(s) = {i}
      BY <2>1, <2>3
    <3>2. Cardinality({i}) = 1
      BY FS_Singleton
    <3> QED
      BY <3>1, <3>2
  <2> QED
    BY <2>2, <2>3
<1> QED
  BY <1>1, SafetyCorrect, PTL

\* A filled order is never hidden behind a rejected, failed or dry-run signal.
THEOREM ExposureOnRecord == Spec => []NoSilentExposure
<1>1. SafetyInv => NoSilentExposure
  BY DEF SafetyInv, BookOK, NoSilentExposure
<1> QED
  BY <1>1, SafetyCorrect, PTL

\* Executed, also when only the recovery says so, means filled.
THEOREM ExecutedIsTrue == Spec => []ExecutedMeansFilled
<1>1. SafetyInv => ExecutedMeansFilled
  BY DEF SafetyInv
<1> QED
  BY <1>1, SafetyCorrect, PTL

\* One row rewritten: what a step that touches a single signal has to leave of it.
LEMMA OneRowRewritten ==
  ASSUME SafetyInv, NEW s \in Known, signals[s].status \notin Settled,
         NEW row, row.payload = signals[s].payload,
         signals' = [signals EXCEPT ![s] = row],
         NEW t \in Known
  PROVE  /\ t \in Known' /\ signals'[t].payload = signals[t].payload
         /\ signals[t].status \in Settled => signals'[t].status = signals[t].status
<1>1. CASE t = s
  BY <1>1 DEF SafetyInv, TypeOK, Known
<1>2. CASE t # s
  BY <1>2 DEF SafetyInv, TypeOK, Known
<1> QED
  BY <1>1, <1>2

\* A stored row stays: its payload for good, its status once it is settled.
LEMMA RowsKept ==
  ASSUME SafetyInv, [Next]_vars, NEW t \in Known
  PROVE  /\ t \in Known' /\ signals'[t].payload = signals[t].payload
         /\ signals[t].status \in Settled => signals'[t].status = signals[t].status
<1> DEFINE Kept(u) == /\ u \in Known' /\ signals'[u].payload = signals[u].payload
                      /\ signals[u].status \in Settled => signals'[u].status = signals[u].status
<1> SUFFICES Kept(t)
  OBVIOUS
<1>1. "PENDING" \notin Settled /\ "PROCESSING" \notin Settled
  BY DEF Settled
<1>2. ASSUME UNCHANGED signals PROVE Kept(t)
  BY <1>2 DEF Known
<1>3. ASSUME NEW s \in Signals, NEW p \in Payloads, Submit(s, p) PROVE Kept(t)
  BY <1>3 DEF Submit, insert_signal_if_new, Known
<1>4. CASE ClaimNextPending
  <2>1. PICK s \in NextPending :
          signals' = [signals EXCEPT ![s].status = "PROCESSING", ![s].attempt_count = @ + 1]
    BY <1>4 DEF ClaimNextPending
  <2> DEFINE row == [signals[s] EXCEPT !.status = "PROCESSING", !.attempt_count = @ + 1]
  <2>2. s \in Known /\ signals[s].status = "PENDING" /\ signals[s] \in Row
    BY DEF NextPending, WithStatus, Known, SafetyInv, TypeOK
  <2>3. row.payload = signals[s].payload /\ signals' = [signals EXCEPT ![s] = row]
    BY <2>1, <2>2 DEF Row
  <2> HIDE DEF row
  <2> QED
    BY <1>1, <2>2, <2>3, OneRowRewritten
<1>5. CASE SetSymbolNormalized
  <2> DEFINE s == job.signal
             row == [signals[s] EXCEPT !.symbol_normalized = SymbolMap[Payload.symbol]]
  <2>1. s \in Known /\ signals[s].status = "PROCESSING" /\ signals[s] \in Row
    BY <1>5, JobHasType DEF SetSymbolNormalized, InStage, Idle, SafetyInv, JobOK
  <2>2. row.payload = signals[s].payload /\ signals' = [signals EXCEPT ![s] = row]
    BY <1>5, <2>1 DEF SetSymbolNormalized, Row
  <2> HIDE DEF row, s
  <2> QED
    BY <1>1, <2>1, <2>2, OneRowRewritten
<1>6. CASE SettleSignal
  <2> DEFINE s == job.signal
             row == [signals[s] EXCEPT !.status = job.verdict]
  <2>1. s \in Known /\ signals[s].status = "PROCESSING" /\ signals[s] \in Row
    BY <1>6, JobHasType DEF SettleSignal, InStage, Idle, SafetyInv, JobOK
  <2>2. row.payload = signals[s].payload /\ signals' = [signals EXCEPT ![s] = row]
    BY <1>6, <2>1 DEF SettleSignal, update_signal_status, Row
  <2> HIDE DEF row, s
  <2> QED
    BY <1>1, <2>1, <2>2, OneRowRewritten
<1>7. ASSUME NEW s \in Signals, Reconcile(s) PROVE Kept(t)
  <2>1. PICK up, answered :
          signals' = [signals EXCEPT ![s].status = ReconcileVerdict(s, up, answered)]
    BY <1>7 DEF Reconcile, update_signal_status
  <2> DEFINE row == [signals[s] EXCEPT !.status = ReconcileVerdict(s, up, answered)]
  <2>2. s \in Known /\ signals[s].status = "PROCESSING" /\ signals[s] \in Row
    BY <1>7 DEF Reconcile, SafetyInv, RecoveryOK, TypeOK
  <2>3. row.payload = signals[s].payload /\ signals' = [signals EXCEPT ![s] = row]
    BY <2>1, <2>2 DEF Row
  <2> HIDE DEF row
  <2> QED
    BY <1>1, <2>2, <2>3, OneRowRewritten
<1>8. CASE Work
  <2>1. \/ ClaimNextPending \/ SetSymbolNormalized \/ SettleSignal \/ UNCHANGED signals
    BY <1>8 DEF Work, StartProcessing, IdentifyAccount, CheckMarket, QueryPositions,
       SizeOrder, CheckOrder, SendOrder, RecordReply, FinishExecution, AbandonJob, store
  <2> QED
    BY <1>2, <1>4, <1>5, <1>6, <2>1
<1>9. CASE Lifecycle \/ Stop \/ Crash
  <2>1. (\E s \in Signals : Reconcile(s)) \/ UNCHANGED signals
    BY <1>9 DEF Lifecycle, Boot, StartWorker, FailStart, ShutdownGateway, CloseStore, Exit, Stop, Crash
  <2> QED
    BY <1>2, <1>7, <2>1
<1>10. CASE World
  BY <1>2, <1>10 DEF World, FillOrder, VoidOrder, ClosePosition, MoveEquity, SwitchAccount,
     Tick, process, store
<1>11. CASE UNCHANGED vars
  BY <1>2, <1>11 DEF vars, store
<1> QED
  BY <1>3, <1>8, <1>9, <1>10, <1>11 DEF Next

\* The job of a stage.
LEMMA JobInStage ==
  ASSUME SafetyInv, NEW stage \in Stages, InStage(stage)
  PROVE  /\ job # Idle /\ job \in Job /\ job.stage = stage
         /\ job.signal \in Known /\ signals[job.signal] \in Row
<1>1. job.stage = stage /\ job # Idle
  BY DEF InStage, Idle, Stages, DatabaseStages, TerminalStages
<1> QED
  BY <1>1, JobHasType

\* A stage either passes the job on or finishes it.
LEMMA Continued ==
  ASSUME NEW j \in Job, NEW verdict, NEW stage, Continue(j, verdict, stage)
  PROVE  \/ job'.stage = "finish"
         \/ verdict = "ok" /\ job' = [j EXCEPT !.stage = stage] /\ job'.stage = stage
  BY DEF Continue, Job

\* The first refusal decides: a verdict of "ok" is one of every check.
LEMMA AllChecksPassed ==
  ASSUME NEW a, NEW b, a \odot b = "ok"
  PROVE  a = "ok" /\ b = "ok"
  BY DEF \odot

\* A requirement that passes holds.
LEMMA RequirementHolds ==
  ASSUME NEW h, NEW status, status # "ok", Require(h, status) = "ok"
  PROVE  h
  BY DEF Require

\* The numbers a job carries are numbers.
LEMMA JobHasNumbers ==
  ASSUME NEW j \in Job
  PROVE  j.entry \in Int /\ j.equity \in Int
<1>1. EquityLevels \cup {0} \subseteq Int
  BY MarketAssumption
<1>2. j.entry \in Int /\ j.equity \in EquityLevels \cup {0}
  BY DEF Job
<1> QED
  BY <1>1, <1>2

\* What an order keeps from step to step, whatever becomes of it at the broker: the
\* moment of a fill is the moment it happens, and only a resting order fills.
OrderKept(i) ==
  /\ i \in DOMAIN book' /\ book'[i].signal = book[i].signal
  /\ book'[i].account = book[i].account
  /\ Filled(i) => book'[i].fill = book[i].fill /\ book'[i].at = book[i].at
  /\ ~Filled(i) => book'[i].fill # "on_send" /\ book'[i].at \in {book[i].at, BrokerNow}
  /\ book'[i].open /\ book'[i].fill = "on_send" => book[i].open

\* One order rewritten in place.
LEMMA OneOrderRewritten ==
  ASSUME SafetyInv, NEW i \in DOMAIN book, NEW e, book' = [book EXCEPT ![i] = e],
         e.signal = book[i].signal, e.account = book[i].account,
         Filled(i) => e.fill = book[i].fill /\ e.at = book[i].at,
         ~Filled(i) => e.fill # "on_send" /\ e.at \in {book[i].at, BrokerNow},
         e.open /\ e.fill = "on_send" => book[i].open
  PROVE  DOMAIN book' = DOMAIN book /\ \A k \in DOMAIN book : OrderKept(k)
<1>1. DOMAIN book' = DOMAIN book /\ book'[i] = e /\ \A k \in DOMAIN book \ {i} : book'[k] = book[k]
  BY DEF SafetyInv, TypeOK
<1>2. OrderKept(i)
  BY <1>1 DEF OrderKept
<1>3. ASSUME NEW k \in DOMAIN book \ {i} PROVE OrderKept(k)
  BY <1>1, <1>3 DEF OrderKept, Filled
<1> QED
  BY <1>1, <1>2, <1>3

\* The world changes orders only as OrderKept says, and nothing of the process.
LEMMA WorldKeepsOrders ==
  ASSUME SafetyInv, World
  PROVE  /\ UNCHANGED process
         /\ DOMAIN book' = DOMAIN book /\ \A k \in DOMAIN book : OrderKept(k)
         /\ utc' \in {utc, utc + 1}
         /\ account' = account \/ SwitchMidJob \/ job = Idle
<1>1. \A k \in DOMAIN book : book[k] \in Order
  BY DEF SafetyInv, TypeOK
<1>2. ASSUME UNCHANGED book PROVE DOMAIN book' = DOMAIN book /\ \A k \in DOMAIN book : OrderKept(k)
  <2>1. \A k \in DOMAIN book : ~Filled(k) => book[k].fill # "on_send"
    BY DEF Filled
  <2> QED
    BY <1>2, <2>1 DEF OrderKept
<1>3. ASSUME NEW i \in DOMAIN book, FillOrder(i)
      PROVE  DOMAIN book' = DOMAIN book /\ \A k \in DOMAIN book : OrderKept(k)
  <2> DEFINE e == [book[i] EXCEPT !.fill = "later", !.open = TRUE, !.at = BrokerNow]
  <2>1. book' = [book EXCEPT ![i] = e] /\ ~Filled(i)
    BY <1>3 DEF FillOrder, WorkingOrder, Filled
  <2>2. /\ e.signal = book[i].signal /\ e.account = book[i].account /\ e.fill = "later"
        /\ e.at = BrokerNow
    BY <1>1 DEF Order
  <2> HIDE DEF e
  <2> QED
    BY <2>1, <2>2, OneOrderRewritten
<1>4. ASSUME NEW i \in DOMAIN book, VoidOrder(i)
      PROVE  DOMAIN book' = DOMAIN book /\ \A k \in DOMAIN book : OrderKept(k)
  <2> DEFINE e == [book[i] EXCEPT !.fill = "void"]
  <2>1. book' = [book EXCEPT ![i] = e] /\ ~Filled(i)
    BY <1>4 DEF VoidOrder, WorkingOrder, Filled
  <2>2. /\ e.signal = book[i].signal /\ e.account = book[i].account /\ e.fill = "void"
        /\ e.at = book[i].at
    BY <1>1 DEF Order
  <2> HIDE DEF e
  <2> QED
    BY <2>1, <2>2, OneOrderRewritten
<1>5. ASSUME NEW i \in DOMAIN book, ClosePosition(i)
      PROVE  DOMAIN book' = DOMAIN book /\ \A k \in DOMAIN book : OrderKept(k)
  <2> DEFINE e == [book[i] EXCEPT !.open = FALSE]
  <2>1. book' = [book EXCEPT ![i] = e] /\ (~Filled(i) => book[i].fill # "on_send")
    BY <1>5 DEF ClosePosition, Filled
  <2>2. /\ e.signal = book[i].signal /\ e.account = book[i].account /\ e.fill = book[i].fill
        /\ e.at = book[i].at /\ e.open = FALSE
    BY <1>1 DEF Order
  <2> HIDE DEF e
  <2> QED
    BY <2>1, <2>2, OneOrderRewritten
<1>6. /\ UNCHANGED process /\ utc' \in {utc, utc + 1}
      /\ account' = account \/ SwitchMidJob \/ job = Idle
  BY DEF World, FillOrder, VoidOrder, ClosePosition, MoveEquity, SwitchAccount, Tick, broker
<1>7. \/ UNCHANGED book
      \/ \E i \in DOMAIN book : FillOrder(i) \/ VoidOrder(i) \/ ClosePosition(i)
  BY DEF World, MoveEquity, SwitchAccount, Tick, broker
<1> QED
  BY <1>2, <1>3, <1>4, <1>5, <1>6, <1>7

\* Outside the worker nothing writes the executions or the baselines, sends an order
\* or changes a running job or the settings it runs under.
LEMMA OthersKeepJob ==
  ASSUME SafetyInv, [Next]_vars, ~Work
  PROVE  /\ UNCHANGED <<executions, baselines>> /\ job' \in {job, Idle}
         /\ job # Idle => settings' = settings /\ stuck = {}
         /\ DOMAIN book' = DOMAIN book /\ \A k \in DOMAIN book : OrderKept(k)
         /\ utc' \in {utc, utc + 1}
         /\ account' = account \/ SwitchMidJob \/ job = Idle
<1>1. ASSUME UNCHANGED book PROVE DOMAIN book' = DOMAIN book /\ \A k \in DOMAIN book : OrderKept(k)
  <2>1. \A k \in DOMAIN book : ~Filled(k) => book[k].fill # "on_send"
    BY DEF Filled
  <2> QED
    BY <1>1, <2>1 DEF OrderKept
<1>2. job # Idle => phase \notin {"down", "recovering"} /\ stuck = {}
  BY DEF SafetyInv, JobOK, RecoveryOK
<1>3. CASE World
  BY <1>2, <1>3, WorldKeepsOrders DEF process, store
<1>4. CASE \E s \in Signals, p \in Payloads : Submit(s, p)
  BY <1>1, <1>2, <1>4 DEF Submit, broker
<1>5. CASE Lifecycle
  BY <1>1, <1>2, <1>5 DEF Lifecycle, Boot, StartWorker, FailStart, ShutdownGateway, CloseStore,
     Exit, Reconcile, rest, broker
<1>6. CASE Stop \/ Crash
  BY <1>1, <1>2, <1>6 DEF Stop, Crash, rest, broker
<1>7. CASE UNCHANGED vars
  BY <1>1, <1>2, <1>7 DEF vars, store, broker
<1> QED
  BY <1>3, <1>4, <1>5, <1>6, <1>7 DEF Next

\* The worker leaves the world and its own process alone, and every order but the
\* one it sends.
LEMMA WorkKeepsWorld ==
  ASSUME SafetyInv, Work
  PROVE  /\ UNCHANGED <<phase, settings, stuck, account, equity, utc, interruptions>>
         /\ SendOrder \/ UNCHANGED book
  BY DEF Work, ClaimNextPending, StartProcessing, SetSymbolNormalized, IdentifyAccount,
     CheckMarket, QueryPositions, SizeOrder, CheckOrder, SendOrder, RecordReply,
     FinishExecution, SettleSignal, AbandonJob, environment, broker

\* No resubmission, restart, recovery or late thread changes a settled verdict or
\* what a source has asked for.
THEOREM SettledStays == Spec => SettledForever
<1>1. SafetyInv /\ [Next]_vars =>
        [\A s \in Known : /\ signals'[s].payload = signals[s].payload
                          /\ signals[s].status \in Settled
                               => signals'[s].status = signals[s].status]_vars
  BY RowsKept
<1>2. Spec => []SafetyInv
  BY SafetyCorrect
<1> QED
  BY <1>1, <1>2, PTL DEF Spec, SettledForever

=============================================================================
