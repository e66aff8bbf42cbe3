-------------------------- MODULE ExecutionBridge --------------------------
(***************************************************************************)
(* The core of the bridge as one state machine: the HTTP intake, the       *)
(* single worker (app/worker/execution_worker.py), the pipeline it runs in *)
(* a thread for each signal and the restart recovery                       *)
(* (app/services/execution_service.py), the SQLite tables they share       *)
(* (app/storage/database.py), the start and the stop of the process        *)
(* (app/main.py), and the MetaTrader terminal and its broker as far as the *)
(* code can see them through app/services/mt5_gateway.py.                  *)
(*                                                                         *)
(* A step of the pipeline is what happens between two points where a crash *)
(* or another actor can be noticed: one database transaction, or one call  *)
(* of the terminal, with the pure checks around it.                        *)
(***************************************************************************)
EXTENDS Integers, Sequences, FiniteSets, ExecutionStatuses, RiskService,
        VolumeCalculator, Settings

CONSTANTS
  Signals,           \* signal_id values the sources use
  Payloads,          \* [timestamp, symbol, action, risk_percent, stop_loss]
  Tag,               \* Tag[s] is meb_comment(s), a 40-bit hash of the id
  Accounts,          \* "server|login" identities the terminal can log in to
  SettingsChoices,   \* settings the process may be started with
  SymbolMap,         \* raw symbol -> broker symbol, a partial function
  SymbolInfo,        \* broker symbol -> [point, volume_min, volume_max, volume_step]
  ContractSize,      \* money one lot gains per point
  Quotes,            \* [bid, ask] quotes the terminal may show
  EquityLevels,      \* values of account.equity
  BrokerOffset,      \* the broker's clock minus UTC
  TickLag,           \* age a symbol's last tick may have, bounded
  RECONCILIATION_LOOKBACK,  \* how far back the recovery searches the history
  Faults,            \* kinds of failure this instance allows, see FaultKinds
  SwitchMidJob,      \* may the terminal's login change while a signal is processed?
  InitUtc, MaxUtc,   \* bounds of the clock
  MaxInterruptions   \* bound on the number of crashes and stops

FaultKinds ==
  {"connect", "account", "symbol", "tick", "clock", "positions", "profit",
   "check", "history", "partial", "placed", "rejected", "unanswered", "exception"}

NoValue == "NULL"    \* a NULL column

ASSUME SignalsAssumption == IsFiniteSet(Signals)
ASSUME TagAssumption == \A s, t \in Signals : Tag[s] = Tag[t] => s = t
ASSUME AccountsAssumption == NoValue \notin Accounts
ASSUME ClockAssumption ==
  /\ InitUtc \in Nat /\ MaxUtc \in Nat /\ BrokerOffset \in Int
  /\ TickLag \in Nat /\ RECONCILIATION_LOOKBACK \in Nat
ASSUME PayloadsAssumption ==
  \A p \in Payloads : /\ p.stop_loss \in Nat /\ p.risk_percent \in Nat
                      /\ p.action \in {"BUY", "SELL"}
ASSUME MarketAssumption ==
  /\ Quotes \subseteq [bid : Nat, ask : Nat] /\ EquityLevels \subseteq Int
  /\ ContractSize \in Nat
  /\ \A r \in DOMAIN SymbolMap :
       /\ SymbolInfo[SymbolMap[r]] \in [point : Nat, volume_min : Nat, volume_max : Nat,
                                        volume_step : Nat]
       /\ SymbolInfo[SymbolMap[r]].volume_min <= SymbolInfo[SymbolMap[r]].volume_max
ASSUME SettingsAssumption ==
  \A c \in SettingsChoices : c.max_open_positions \in Nat /\ c.max_trades_per_day \in Nat
ASSUME BoundAssumption == MaxInterruptions \in Nat
ASSUME FaultsAssumption == Faults \subseteq FaultKinds /\ SwitchMidJob \in BOOLEAN

VARIABLES
  phase,          \* where the process is: PhaseNames, in the order of a life
  connected,      \* is the terminal initialised for this process?
  settings,       \* the Settings the process was started with
  stuck,          \* PROCESSING rows the recovery still has to reconcile
  job,            \* the local state of process_signal, or Idle
  signals,        \* table signals: signal_id -> row
  executions,     \* table executions, in order of id
  baselines,      \* table daily_loss_baseline: {[account_key, day, equity]}
  book,           \* the broker: orders it received, in order of ticket
  account,        \* the account the terminal is logged in to
  equity,         \* the equity of each account
  utc,            \* the wall clock
  interruptions   \* crashes and stops so far

store == <<signals, executions, baselines>>
broker == <<book, account, equity>>
vars == <<phase, connected, settings, stuck, job, store, broker, utc, interruptions>>

PhaseNames ==
  {"down", "recovering", "running", "stopping", "disconnected", "closed"}

Idle == [stage |-> "idle"]

DatabaseStages == {"start", "symbol", "account", "market", "size", "check",
                   "record", "finish", "settle"}

\* The two calls of the terminal between which no transaction is made.
TerminalStages == {"positions", "send"}

Stages == DatabaseStages \cup TerminalStages

Replies == {"DONE", "DONE_PARTIAL", "PLACED", "OTHER", NoValue}

----------------------------------------------------------------------------
(* The tables                                                              *)

StoreOpen == phase \in {"recovering", "running", "stopping", "disconnected"}

NewRow(p) ==
  [id |-> Cardinality(DOMAIN signals) + 1, payload |-> p, status |-> "PENDING",
   symbol_normalized |-> NoValue, attempt_count |-> 0]

\* INSERT OR REPLACE: the retry of a submission overwrites the row.
InsertSignalOrReplace(s, p) ==
  [t \in DOMAIN signals \cup {s} |-> IF t = s THEN NewRow(p) ELSE signals[t]]

\* INSERT OR IGNORE: a signal_id already stored keeps its row.
insert_signal_if_new(s, p) ==
  [t \in DOMAIN signals \cup {s} |->
     IF t \in DOMAIN signals THEN signals[t] ELSE NewRow(p)]

\* The symbol given, or none, is stored, without COALESCE.
update_signal_status_and_symbol(s, status) ==
  [signals EXCEPT ![s].status = status, ![s].symbol_normalized = NoValue]

update_signal_status(s, status) == [signals EXCEPT ![s].status = status]

insert_execution(s) ==
  Append(executions,
         [signal |-> s, attempt |-> signals[s].attempt_count, started_at |-> utc,
          account_key |-> NoValue, status |-> "PROCESSING",
          order_send_retcode |-> NoValue, order_ticket |-> 0])

WithStatus(status) == {s \in DOMAIN signals : signals[s].status = status}

\* ORDER BY id DESC: the queue is drained from its young end.
NextPendingYoungest ==
  {s \in WithStatus("PENDING") :
     \A t \in WithStatus("PENDING") : signals[t].id <= signals[s].id}

NextPending ==
  {s \in WithStatus("PENDING") :
     \A t \in WithStatus("PENDING") : signals[s].id <= signals[t].id}

\* The search forgets to ask for the status the crash left behind.
FindUnfinished == WithStatus("PROCESSING") \cup WithStatus("REVIEW_REQUIRED")

\* The recovery is left out of the start-up.
FindNothing == {}

find_stuck_processing == WithStatus("PROCESSING")

count_executed_trades_since(key, since) ==
  Cardinality({i \in DOMAIN executions :
                 /\ executions[i].status \in Executions
                 /\ executions[i].account_key = key
                 /\ executions[i].started_at >= since})

BaselinesOf(key, day) == {b \in baselines : b.account_key = key /\ b.day = day}

\* The latest equity overwrites the day's baseline.
BaselinesOverwritten(key, day, e) ==
  (baselines \ BaselinesOf(key, day)) \cup {[account_key |-> key, day |-> day, equity |-> e]}

\* get_daily_loss_baseline, then set_daily_loss_baseline when there is none.
BaselinesWith(key, day, e) ==
  IF BaselinesOf(key, day) # {} THEN baselines
  ELSE baselines \cup {[account_key |-> key, day |-> day, equity |-> e]}

----------------------------------------------------------------------------
(* The terminal and its broker, as the gateway shows them                  *)

BrokerNow == utc + BrokerOffset

\* The broker's clock as the symbol's last tick shows it.
server_time == {BrokerNow - lag : lag \in 0 .. TickLag}

\* TRUE for a usable answer, FALSE for None or a failure.
Answers(kind) ==
  {a \in BOOLEAN : IF a THEN connected ELSE ~connected \/ kind \in Faults}

\* _ensure_connected converts MT5_LOGIN to a number before it calls initialize().
ConnectRaises == ~connected /\ settings.mt5_login = "text"

\* initialize() starts the terminal, so it does not depend on `connected'.
ConnectAnswers == {a \in BOOLEAN : a \/ "connect" \in Faults}

\* Positions that carry the bridge's magic number.
OpenPositions(a) == {i \in DOMAIN book : book[i].account = a /\ book[i].open}

Filled(i) == book[i].fill \in {"on_send", "later"}

OrderReplies ==
  IF ~connected THEN {NoValue}
  ELSE {"DONE"} \cup {r \in Replies : \/ r = "DONE_PARTIAL" /\ "partial" \in Faults
                                      \/ r = "PLACED" /\ "placed" \in Faults
                                      \/ r = "OTHER" /\ "rejected" \in Faults
                                      \/ r = NoValue /\ "unanswered" \in Faults}

\* What became of the request by the time the call returned.
OrderOutcomes(reply) ==
  CASE reply \in {"DONE", "DONE_PARTIAL"} -> {"on_send"}
    [] reply = "PLACED"                   -> {"working"}
    [] reply = "OTHER"                    -> {"none"}
    [] OTHER -> IF connected THEN {"none", "working", "on_send"} ELSE {"none"}

----------------------------------------------------------------------------
(* Intake: POST /api/signals, served between start-up and shutdown         *)

Submit(s, p) ==
  /\ phase = "running"
  /\ signals' = insert_signal_if_new(s, p)
  /\ UNCHANGED <<phase, connected, settings, stuck, job, executions, baselines,
                 broker, utc, interruptions>>

----------------------------------------------------------------------------
(* The pipeline: claim_next_pending, then process_signal in a thread       *)

environment ==
  <<phase, connected, settings, stuck, account, equity, utc, interruptions>>

Payload == signals[job.signal].payload

\* The next stage, or the one that writes the verdict of a failed check.
Continue(j, verdict, stage) ==
  job' = IF verdict = "ok" THEN [j EXCEPT !.stage = stage]
         ELSE [j EXCEPT !.stage = "finish", !.verdict = verdict]

InStage(stage) ==
  /\ job.stage = stage
  /\ stage \in DatabaseStages => StoreOpen

ClaimNextPending ==
  /\ phase = "running" /\ job = Idle
  /\ \E s \in NextPending :
       /\ signals' = [signals EXCEPT ![s].status = "PROCESSING", ![s].attempt_count = @ + 1]
       /\ job' = [stage |-> "start", signal |-> s, exec |-> 0, verdict |-> "ok",
                  reply |-> NoValue, ticket |-> 0, key |-> NoValue, equity |-> 0,
                  entry |-> 0, day |-> 0, volume |-> 0]
  /\ UNCHANGED <<environment, executions, baselines, book>>

\* insert_execution, freshness, action enablement, symbol mapping.
StartProcessing ==
  /\ InStage("start")
  /\ executions' = insert_execution(job.signal)
  /\ Continue([job EXCEPT !.exec = Len(executions')],
        CheckFreshness(Payload.timestamp, settings.max_signal_age_seconds, utc)
          \odot Require(IF Payload.action = "BUY" THEN settings.allow_market_buy
                        ELSE settings.allow_market_sell, "REJECTED_RISK")
          \odot Require(Payload.symbol \in DOMAIN SymbolMap, "REJECTED_SYMBOL"),
        "symbol")
  /\ UNCHANGED <<environment, signals, baselines, book>>

SetSymbolNormalized ==
  /\ InStage("symbol")
  /\ signals' = [signals EXCEPT ![job.signal].symbol_normalized = SymbolMap[Payload.symbol]]
  /\ Continue(job, "ok", "account")
  /\ UNCHANGED <<environment, executions, baselines, book>>

\* Every login shares one key.
AccountKeyShared(a, known) == CHOOSE key \in Accounts : TRUE

\* None when server or login cannot be read.
account_key_for(a, known) == IF known THEN a ELSE NoValue

\* _ensure_connected, account_info, account_key_for; equity is read once, here.
IdentifyAccount ==
  /\ InStage("account") /\ ~ConnectRaises
  /\ \E up \in ConnectAnswers : \E known \in {a \in BOOLEAN : a \/ "account" \in Faults} :
       LET key == account_key_for(account, up /\ known)
       IN  /\ connected' = up
           /\ Continue([job EXCEPT !.key = key, !.equity = equity[account]],
                       Require(key # NoValue, "FAILED_MT5_UNAVAILABLE"), "market")
           /\ executions' = [executions EXCEPT ![job.exec].account_key = key]
  /\ UNCHANGED <<phase, settings, stuck, signals, baselines, broker, utc, interruptions>>

\* ensure_symbol, symbol_info_tick, server_time; stop loss, spread, trade count.
CheckMarket ==
  /\ InStage("market")
  /\ \E available \in Answers("symbol"), tick \in Answers("tick"),
        clock \in Answers("clock"), quote \in Quotes, broker_now \in server_time :
       LET entry == IF Payload.action = "BUY" THEN quote.ask ELSE quote.bid
           point == SymbolInfo[SymbolMap[Payload.symbol]].point
           trades_today ==
             count_executed_trades_since(job.key, StartOfTradingDay(broker_now))
       IN  Continue([job EXCEPT !.entry = entry, !.day = TradingDayKey(broker_now)],
             Require(available, "REJECTED_SYMBOL_UNAVAILABLE")
               \odot Require(tick, "FAILED_MT5_UNAVAILABLE")
               \odot Require(clock, "FAILED_BROKER_TIME_UNKNOWN")
               \odot CheckStopLoss(Payload.action, Payload.stop_loss, entry,
                                   settings.require_stop_loss)
               \odot CheckSpread(quote, point, settings.max_spread_points)
               \odot CheckDailyTradeLimit(trades_today, settings.max_trades_per_day),
             "positions")
  /\ UNCHANGED <<environment, store, book>>

QueryPositions ==
  /\ InStage("positions")
  /\ \E answered \in Answers("positions") :
       Continue(job,
         Require(answered, "FAILED_MT5_STATE_UNKNOWN")
           \odot CheckPositionLimit(Cardinality(OpenPositions(account)),
                                    settings.max_open_positions),
         "size")
  /\ UNCHANGED <<environment, store, book>>

\* Daily loss against the day's baseline, risk percent, volume.  A stop_loss of
\* None is compared with a number there: the exception ends the job.
SizeOrder ==
  /\ InStage("size")
  /\ baselines' = BaselinesWith(job.key, job.day, job.equity)
  /\ \E priced \in Answers("profit"), short \in BOOLEAN,
        b \in {x \in baselines' : x.account_key = job.key /\ x.day = job.day} :
       LET loss == IF priced THEN ContractSize * (job.entry - Payload.stop_loss) ELSE 0
           limits == CheckDailyLoss(job.equity, b.equity, settings.max_daily_loss_percent)
                       \odot CheckRiskPercent(Payload.risk_percent, settings.max_risk_percent)
           volume == CalculateRiskBasedVolume(job.entry, Payload.stop_loss, loss, job.equity,
                       Payload.risk_percent, SymbolInfo[SymbolMap[Payload.symbol]], short)
       IN  IF limits = "ok" /\ Payload.stop_loss = NoStopLoss THEN job' = Idle
           ELSE Continue([job EXCEPT !.volume = volume.volume],
                        limits \odot volume.status, "check")
  /\ UNCHANGED <<environment, signals, executions, book>>

\* order_check; a dry run ends here.
CheckOrder ==
  /\ InStage("check")
  /\ \E passed \in Answers("check") :
       Continue(job,
         Require(passed, "REJECTED_ORDER_CHECK")
           \odot Require(live_execution_allowed(settings), "DRY_RUN_APPROVED"),
         "send")
  /\ UNCHANGED <<environment, store, book>>

\* A send without an answer is tried again.
SendOrderRetries ==
  /\ InStage("send")
  /\ \E reply \in OrderReplies : \E outcome \in OrderOutcomes(reply) :
       /\ book' = IF outcome = "none" THEN book
                  ELSE Append(book, [signal |-> job.signal, account |-> account,
                                     at |-> BrokerNow,
                                     fill |-> outcome, open |-> outcome = "on_send"])
       /\ job' = [job EXCEPT !.stage = IF reply = NoValue THEN "send" ELSE "record",
                             !.reply = reply, !.ticket = Len(book')]
  /\ UNCHANGED <<environment, store>>

\* order_send: the irreversible step.
SendOrder ==
  /\ InStage("send")
  /\ \E reply \in OrderReplies : \E outcome \in OrderOutcomes(reply) :
       /\ book' = IF outcome = "none" THEN book
                  ELSE Append(book, [signal |-> job.signal, account |-> account,
                                     at |-> BrokerNow,
                                     fill |-> outcome, open |-> outcome = "on_send"])
       /\ job' = [job EXCEPT !.stage = "record", !.reply = reply,
                             !.ticket = IF reply = NoValue THEN 0 ELSE Len(book')]
  /\ UNCHANGED <<environment, store>>

\* A missing answer is taken for a refusal.
SendVerdictUnansweredFails(reply) ==
  CASE reply = "DONE"         -> "EXECUTED"
    [] reply = "DONE_PARTIAL" -> "EXECUTED_PARTIAL"
    [] reply = "PLACED"       -> "REVIEW_REQUIRED"
    [] OTHER                  -> "FAILED_ORDER_SEND"

\* A resting order is taken for a trade.
SendVerdictPlacedExecutes(reply) ==
  CASE reply \in {"DONE", "PLACED"} -> "EXECUTED"
    [] reply = "DONE_PARTIAL"       -> "EXECUTED_PARTIAL"
    [] reply = NoValue              -> "REVIEW_REQUIRED"
    [] OTHER                        -> "FAILED_ORDER_SEND"

\* The retcode itself is stored as the status.
SendVerdictRaw(reply) == reply

SendVerdict(reply) ==
  CASE reply = "DONE"                -> "EXECUTED"
    [] reply = "DONE_PARTIAL"        -> "EXECUTED_PARTIAL"
    [] reply \in {"PLACED", NoValue} -> "REVIEW_REQUIRED"
    [] OTHER                         -> "FAILED_ORDER_SEND"

RecordReply ==
  /\ InStage("record")
  /\ executions' = [executions EXCEPT ![job.exec].order_send_retcode = job.reply]
  /\ Continue(job, SendVerdict(job.reply), "finish")
  /\ UNCHANGED <<environment, signals, baselines, book>>

\* The trade is left to the signals table, as the recovery leaves it.
FinishSignalOnly ==
  /\ InStage("finish")
  /\ job' = [job EXCEPT !.stage = "settle"]
  /\ UNCHANGED <<environment, store, book>>

\* finish(), first transaction: only a reply that names an order stores its ticket.
FinishExecution ==
  /\ InStage("finish")
  /\ executions' = [executions EXCEPT ![job.exec].status = job.verdict,
                      ![job.exec].order_ticket =
                         IF job.reply \in {"DONE", "DONE_PARTIAL", "PLACED"} THEN job.ticket ELSE @]
  /\ job' = [job EXCEPT !.stage = "settle"]
  /\ UNCHANGED <<environment, signals, baselines, book>>

\* finish(), second transaction.
SettleSignal ==
  /\ InStage("settle")
  /\ signals' = update_signal_status(job.signal, job.verdict)
  /\ job' = Idle
  /\ UNCHANGED <<environment, executions, baselines, book>>

\* A closed database keeps the thread waiting.
RaisesOnFaultOnly == "exception" \in Faults

\* A closed database raises at every stage that uses it, and so does a login
\* that is no number where the terminal is first needed.
Raises ==
  \/ "exception" \in Faults
  \/ ~StoreOpen /\ job.stage \in DatabaseStages
  \/ job.stage = "account" /\ ConnectRaises

\* An exception leaves process_signal: the loop logs it and goes on.
AbandonJob ==
  /\ job # Idle /\ Raises
  /\ job' = Idle
  /\ UNCHANGED <<environment, store, book>>

Work ==
  \/ ClaimNextPending \/ StartProcessing \/ SetSymbolNormalized \/ IdentifyAccount
  \/ CheckMarket \/ QueryPositions \/ SizeOrder \/ CheckOrder \/ SendOrder
  \/ RecordReply \/ FinishExecution \/ SettleSignal \/ AbandonJob

----------------------------------------------------------------------------
(* The life of the process                                                 *)

rest == <<executions, baselines, broker, utc>>

Boot ==
  /\ phase = "down"
  /\ phase' = "recovering"
  /\ settings' \in {c \in SettingsChoices : Accepted(c)}
  /\ stuck' = find_stuck_processing
  /\ UNCHANGED <<connected, job, signals, rest, interruptions>>

\* Only the deals of the current broker day are looked through.
DealFoundToday(s) ==
  \E i \in DOMAIN book :
    /\ Filled(i) /\ book[i].account = account /\ Tag[book[i].signal] = Tag[s]
    /\ book[i].at \in StartOfTradingDay(utc) .. utc

\* _find_deal_by_comment: deals are stamped by the broker's clock, the window is
\* cut out of UTC.
DealFound(s) ==
  \E i \in DOMAIN book :
    /\ Filled(i) /\ book[i].account = account /\ Tag[book[i].signal] = Tag[s]
    /\ book[i].at \in utc - RECONCILIATION_LOOKBACK .. utc

\* A signal without a trace at the broker goes back to the queue.
ReconcileVerdictRequeues(s, up, answered) ==
  IF up /\ answered /\ DealFound(s) THEN "RECOVERED_EXECUTED"
  ELSE IF up THEN "PENDING" ELSE "REVIEW_REQUIRED"

\* No trace at the broker is taken for a failed send.
ReconcileVerdictFails(s, up, answered) ==
  IF ~up THEN "REVIEW_REQUIRED"
  ELSE IF answered /\ DealFound(s) THEN "RECOVERED_EXECUTED" ELSE "FAILED_ORDER_SEND"

ReconcileVerdict(s, up, answered) ==
  IF up /\ answered /\ DealFound(s) THEN "RECOVERED_EXECUTED" ELSE "REVIEW_REQUIRED"

\* reconcile_stuck_signal; a history query that fails counts as an empty one.
Reconcile(s) ==
  /\ phase = "recovering" /\ s \in stuck /\ ~ConnectRaises
  /\ \E up \in ConnectAnswers : \E answered \in {a \in BOOLEAN : a \/ "history" \in Faults} :
       /\ connected' = up
       /\ signals' = update_signal_status(s, ReconcileVerdict(s, up, answered))
  /\ stuck' = stuck \ {s}
  /\ UNCHANGED <<phase, settings, job, rest, interruptions>>

StartWorker ==
  /\ phase = "recovering" /\ stuck = {}
  /\ phase' = "running"
  /\ UNCHANGED <<connected, settings, stuck, job, signals, rest, interruptions>>

\* An exception in the recovery leaves the lifespan before the worker is started:
\* the process exits.
FailStart ==
  /\ phase = "recovering"
  /\ "exception" \in Faults \/ (stuck # {} /\ ConnectRaises)
  /\ phase' = "down" /\ stuck' = {} /\ connected' = FALSE
  /\ UNCHANGED <<settings, job, signals, rest, interruptions>>

Interrupt == interruptions < MaxInterruptions /\ interruptions' = interruptions + 1

\* worker.stop(): the task ends, the thread it waited for does not, unless the
\* executor had not picked it up yet.
Stop ==
  /\ phase = "running" /\ Interrupt
  /\ phase' = "stopping"
  /\ job' = job \/ (job # Idle /\ job.stage = "start" /\ job' = Idle)
  /\ UNCHANGED <<connected, settings, stuck, signals, rest>>

ShutdownGateway ==
  /\ phase = "stopping"
  /\ phase' = "disconnected"
  /\ connected' = FALSE
  /\ UNCHANGED <<settings, stuck, job, signals, rest, interruptions>>

CloseStore ==
  /\ phase = "disconnected"
  /\ phase' = "closed"
  /\ UNCHANGED <<connected, settings, stuck, job, signals, rest, interruptions>>

\* The interpreter waits for the executor's thread before it exits.
Exit ==
  /\ phase = "closed" /\ job = Idle
  /\ phase' = "down"
  /\ connected' = FALSE
  /\ UNCHANGED <<settings, stuck, job, signals, rest, interruptions>>

Crash ==
  /\ phase # "down" /\ Interrupt
  /\ phase' = "down" /\ job' = Idle /\ stuck' = {} /\ connected' = FALSE
  /\ UNCHANGED <<settings, signals, rest>>

Lifecycle ==
  \/ Boot \/ StartWorker \/ FailStart \/ ShutdownGateway \/ CloseStore \/ Exit
  \/ \E s \in Signals : Reconcile(s)

----------------------------------------------------------------------------
(* What the world does on its own                                          *)

process == <<phase, connected, settings, stuck, job, store, interruptions>>

WorkingOrder(i) == i \in DOMAIN book /\ book[i].fill = "working"

FillOrder(i) ==
  /\ WorkingOrder(i)
  /\ book' = [book EXCEPT ![i].fill = "later", ![i].open = TRUE,
                          ![i].at = BrokerNow]
  /\ UNCHANGED <<process, account, equity, utc>>

VoidOrder(i) ==
  /\ WorkingOrder(i)
  /\ book' = [book EXCEPT ![i].fill = "void"]
  /\ UNCHANGED <<process, account, equity, utc>>

ClosePosition(i) ==
  /\ i \in DOMAIN book /\ book[i].open
  /\ book' = [book EXCEPT ![i].open = FALSE]
  /\ UNCHANGED <<process, account, equity, utc>>

MoveEquity(a, level) ==
  /\ equity' = [equity EXCEPT ![a] = level]
  /\ UNCHANGED <<process, book, account, utc>>

SwitchAccount(a) ==
  /\ SwitchMidJob \/ job = Idle
  /\ account' = a
  /\ UNCHANGED <<process, book, equity, utc>>

Tick ==
  /\ utc < MaxUtc
  /\ utc' = utc + 1
  /\ UNCHANGED <<process, broker>>

World ==
  \/ \E i \in DOMAIN book : FillOrder(i) \/ VoidOrder(i) \/ ClosePosition(i)
  \/ \E a \in Accounts, level \in EquityLevels : MoveEquity(a, level)
  \/ \E a \in Accounts : SwitchAccount(a)
  \/ Tick

----------------------------------------------------------------------------
Init ==
  /\ phase = "down" /\ connected = FALSE /\ settings \in SettingsChoices
  /\ stuck = {} /\ job = Idle
  /\ signals = [s \in {} |-> {}] /\ executions = <<>> /\ baselines = {}
  /\ book = <<>> /\ account \in Accounts /\ equity \in [Accounts -> EquityLevels]
  /\ utc = InitUtc /\ interruptions = 0

Next ==
  \/ \E s \in Signals, p \in Payloads : Submit(s, p)
  \/ Work \/ Lifecycle \/ Stop \/ Crash \/ World

Spec == Init /\ [][Next]_vars

\* The worker's loop and its thread keep running, and a bridge that went down is
\* started again; nothing obliges the sources, the broker or the operator.
FairSpec == Spec /\ WF_vars(Work) /\ WF_vars(Lifecycle)
=============================================================================
