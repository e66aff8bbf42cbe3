-------------------------- MODULE BridgeProperties --------------------------
(***************************************************************************)
(* What is claimed of ExecutionBridge: its type invariant, the invariants  *)
(* and action properties of its hazards, its liveness, the abstract        *)
(* lifecycle it implements, and the claims of its documentation that its   *)
(* code does not keep.                                                     *)
(***************************************************************************)
EXTENDS ExecutionBridge

Known == DOMAIN signals

OrdersOf(s) == {i \in DOMAIN book : book[i].signal = s}

ExecutionsOf(s) == {i \in DOMAIN executions : executions[i].signal = s}

Row == [id : Nat, payload : Payloads, status : ExecutionStatus,
        symbol_normalized : {SymbolMap[r] : r \in DOMAIN SymbolMap} \cup {NoValue},
        attempt_count : Nat]

Execution == [signal : Signals, attempt : Nat, started_at : Nat,
              account_key : Accounts \cup {NoValue}, status : ExecutionStatus,
              order_send_retcode : Replies, order_ticket : Nat]

Order == [signal : Signals, account : Accounts, at : Int,
          fill : {"working", "on_send", "later", "void"}, open : BOOLEAN]

Job == [stage : Stages, signal : Signals, exec : Nat,
        verdict : ExecutionStatus \cup {"ok"}, reply : Replies, ticket : Nat,
        key : Accounts \cup {NoValue}, equity : EquityLevels \cup {0}, entry : Int,
        day : Int, volume : Int]

\* Every variable keeps its type: the tables their columns, the job its locals.
TypeOK ==
  /\ phase \in PhaseNames /\ connected \in BOOLEAN /\ settings \in SettingsChoices
  /\ Known \subseteq Signals /\ signals \in [Known -> Row] /\ stuck \subseteq Known
  /\ job \in {Idle} \cup Job
  /\ executions \in Seq(Execution)
  /\ baselines \subseteq [account_key : Accounts \cup {NoValue}, day : Int,
                          equity : EquityLevels \cup {0}]
  /\ book \in Seq(Order)
  /\ account \in Accounts /\ equity \in [Accounts -> EquityLevels]
  /\ utc \in Nat /\ interruptions \in Nat

----------------------------------------------------------------------------
(* One signal, one order                                                   *)

\* No sequence of duplicates, lost answers, crashes and recoveries makes the
\* bridge send a second order for a signal (README.md: "durable, restart-safe
\* duplicate protection").
AtMostOneOrder == \A s \in Signals : Cardinality(OrdersOf(s)) <= 1

\* A signal whose order was filled is never settled as rejected, failed or dry:
\* an exposure is on record, or in the hands of the operator.
NoSilentExposure ==
  \A i \in DOMAIN book : Filled(i) => signals[book[i].signal].status \notin NoTrade

\* A signal settled as executed, by the pipeline or by the recovery, has an order
\* of its own that was filled.
ExecutedMeansFilled ==
  \A s \in Known : signals[s].status \in Executions => \E i \in OrdersOf(s) : Filled(i)

\* What the pipeline settles, both tables agree on, ticket included; only the
\* recovery settles a signal without touching its executions row.
AuditAgrees ==
  \A s \in Known : signals[s].status \in Settled \ {"RECOVERED_EXECUTED", "REVIEW_REQUIRED"} =>
    \E i \in ExecutionsOf(s) :
      /\ executions[i].status = signals[s].status
      /\ signals[s].status \in Executions =>
           book[executions[i].order_ticket].signal = s

\* Signals are started in the order they were accepted.
QueueOrder ==
  \A s, t \in Known : /\ signals[s].id < signals[t].id
                      /\ signals[t].status # "PENDING"
                      => signals[s].status # "PENDING"

\* A settled signal keeps its status, and a stored signal what its source asked
\* for, across retries of the submission, restarts and recoveries.
SettledForever ==
  [][\A s \in Known : /\ signals'[s].payload = signals[s].payload
                      /\ signals[s].status \in Settled
                           => signals'[s].status = signals[s].status]_vars

\* A process that was told to run dry never sends, whatever an earlier one with
\* other settings has left in the tables.
DryRunNeverSends ==
  [][Len(book') > Len(book) => settings.live_execution_enabled /\ ~settings.dry_run]_vars

\* Only a process whose settings name a server and a numeric login, and open no
\* door beyond the host unasked, ever sends (docs/TEST_PLAN.md: "live execution
\* requires").
LiveIsConfigured ==
  [][Len(book') > Len(book) =>
       /\ settings.mt5_server # "" /\ settings.mt5_login = "number"
       /\ settings.host = "loopback" \/ settings.allow_remote_binding]_vars

\* A signal whose order was filled within the lookback is recovered as executed
\* by the restart that finds the terminal connected and its history answered: a
\* crash between order_send and its bookkeeping loses nothing that recent
\* (PORTFOLIO_CASE_STUDY.md: "A match becomes RECOVERED_EXECUTED").
RecentDealRecovered ==
  [][\A s \in stuck \ stuck' :
       (phase' = "recovering" /\ connected' /\ "history" \notin Faults) =>
         \A i \in OrdersOf(s) :
           (/\ Filled(i) /\ book[i].account = account
            /\ BrokerNow - book[i].at <= RECONCILIATION_LOOKBACK)
           => signals'[s].status = "RECOVERED_EXECUTED"]_vars

----------------------------------------------------------------------------
(* The invariant the proofs are by induction over (BridgeProofs)           *)

FilledOrderOf(s) == \E i \in OrdersOf(s) : Filled(i)

Unsent == {"start", "symbol", "account", "market", "positions", "size", "check", "send"}

\* A job belongs to a live process and a PROCESSING signal; up to the send its
\* signal has no order, afterwards the reply and the verdict tell what there is.
JobOK ==
  job # Idle =>
    /\ phase \notin {"down", "recovering"}
    /\ job.signal \in Known /\ signals[job.signal].status = "PROCESSING"
    /\ job.stage # "start" => job.exec \in DOMAIN executions
    /\ job.stage \in Unsent => OrdersOf(job.signal) = {}
    /\ job.stage \in Unsent \ {"start"} => Payload.symbol \in DOMAIN SymbolMap
    /\ job.stage = "record" =>
         /\ job.reply = "OTHER" => OrdersOf(job.signal) = {}
         /\ job.reply \in {"DONE", "DONE_PARTIAL"} => FilledOrderOf(job.signal)
    /\ job.stage \in {"finish", "settle"} =>
         /\ job.verdict \in Settled
         /\ job.verdict \in NoTrade => OrdersOf(job.signal) = {}
         /\ job.verdict \in Executions => FilledOrderOf(job.signal)

\* The broker holds at most one order for a signal, and never one for a signal
\* that is still queued or was settled as untraded.
BookOK ==
  /\ \A i \in DOMAIN book : /\ book[i].signal \in Known
                            /\ signals[book[i].signal].status \notin NoTrade \cup {"PENDING"}
  /\ \A i, j \in DOMAIN book : book[i].signal = book[j].signal => i = j

\* The recovery has PROCESSING signals only to reconcile, and runs alone.
RecoveryOK ==
  \A s \in stuck : /\ s \in Known /\ signals[s].status = "PROCESSING"
                   /\ phase = "recovering"

\* Safety of a signal's single order, strong enough to be inductive.
SafetyInv == TypeOK /\ JobOK /\ BookOK /\ RecoveryOK /\ ExecutedMeansFilled

----------------------------------------------------------------------------
(* Limits                                                                  *)

\* However jobs, fills, recoveries and restarts interleave, the positions an
\* account holds, but for orders that filled after their job was over, stay
\* within MAX_OPEN_POSITIONS.
PositionLimit ==
  \A a \in Accounts : \E c \in SettingsChoices :
    Cardinality({i \in OpenPositions(a) : book[i].fill = "on_send"}) <= c.max_open_positions

\* Executions rows that stand for a trade of an account on a broker day.
TradesOn(a, day) ==
  {i \in DOMAIN executions :
     /\ executions[i].status \in Executions /\ executions[i].account_key = a
     /\ TradingDayKey(book[executions[i].order_ticket].at) = day}

Straddles(i, day) == executions[i].started_at < day * DayLength

\* Of the trades the executions table has for an account on a broker day, those whose
\* started_at, UTC, lies within the day never exceed MAX_TRADES_PER_DAY; and where the
\* broker's clock is not ahead of UTC at most one is left out, whose job ran over midnight.
\* What the table does not have, the count cannot see (UncountedByInterruption).
TradeLimit ==
  \A i \in DOMAIN executions : executions[i].status \in Executions =>
    LET a == executions[i].account_key
        day == TradingDayKey(book[executions[i].order_ticket].at)
        straddling == {j \in TradesOn(a, day) : Straddles(j, day)}
    IN  /\ BrokerOffset <= 0 => Cardinality(straddling) <= 1
        /\ \E c \in SettingsChoices :
             Cardinality(TradesOn(a, day) \ straddling) <= c.max_trades_per_day

\* Orders filled by order_send that no executed row stands for, and whose job is over.
Uncounted ==
  {k \in DOMAIN book :
     /\ book[k].fill = "on_send"
     /\ ~(job # Idle /\ job.signal = book[k].signal)
     /\ \A i \in DOMAIN executions :
          executions[i].status \in Executions => executions[i].order_ticket # k}

\* Each trade that escapes the daily count costs a crash or a stop of its own: as long as
\* the broker answers its orders and no call raises, whatever else fails, resubmits or is
\* recovered, order_send fills no order that no row counts.
UncountedByInterruption ==
  {"unanswered", "exception"} \cap Faults = {} => Cardinality(Uncounted) <= interruptions

\* The first equity seen on an account's broker day stays that day's baseline: a
\* loss cannot lower the bar it is measured against, nor can a restart.
BaselineFrozen ==
  [][/\ baselines \subseteq baselines'
     /\ \A b, c \in baselines' :
          b.account_key = c.account_key /\ b.day = c.day => b = c]_vars

WithinDailyLoss ==
  \E b \in BaselinesOf(job.key, job.day) :
    (b.equity - job.equity) * 100 < settings.max_daily_loss_percent * b.equity

\* Nothing is sent on an account whose equity, as the job saw it, had fallen by
\* MAX_DAILY_LOSS_PERCENT below the baseline of the day.
LossGuard == job.stage = "send" => WithinDailyLoss

\* An order goes to the account its limits were checked against, as long as the
\* terminal's login does not change under a running job.
RoutedOrders ==
  \A i \in DOMAIN book : \E j \in ExecutionsOf(book[i].signal) :
    executions[j].account_key = book[i].account

WithinRisk ==
  LET symbol == SymbolInfo[SymbolMap[Payload.symbol]]
      distance == IF Payload.action = "BUY" THEN job.entry - Payload.stop_loss
                  ELSE Payload.stop_loss - job.entry
      risked == job.volume * ContractSize * distance * 100
  IN  /\ distance > 0 /\ Payload.stop_loss # NoStopLoss
      /\ risked <= job.equity * Payload.risk_percent * LotUnits
      /\ risked <= job.equity * settings.max_risk_percent * LotUnits
      /\ job.volume \in symbol.volume_min .. symbol.volume_max

\* What is sent at its stop loses at most RISK_PERCENT of the equity the job saw,
\* never more than MAX_RISK_PERCENT of it, and is an order the symbol allows.
RiskBounded == job.stage = "send" => WithinRisk

\* Statuses a signal can have without its symbol having been mapped.
MayBeUnmapped ==
  {"PENDING", "PROCESSING", "REJECTED_STALE", "REJECTED_FUTURE_TIMESTAMP", "REJECTED_RISK",
   "REJECTED_SYMBOL", "REVIEW_REQUIRED"}

\* A status, an order or an identified account that only a run past the mapping leaves.
PastMapping(s) ==
  \/ signals[s].status \notin MayBeUnmapped
  \/ OrdersOf(s) # {}
  \/ \E i \in ExecutionsOf(s) : executions[i].account_key # NoValue

SymbolStored(s) ==
  LET row == signals[s]
  IN  /\ row.payload.symbol \in DOMAIN SymbolMap
      /\ row.symbol_normalized = SymbolMap[row.payload.symbol]

\* The symbol a signal was mapped to is on record from the first step that follows the
\* mapping, and stays there whatever fails, refuses, crashes or recovers the signal later:
\* a signal refused for its risk or lost to a terminal keeps it as one that was traded does
\* (execution_service.py: "before any later step can fail").
SymbolOnRecord ==
  \A s \in Known :
    PastMapping(s) \/ signals[s].symbol_normalized # NoValue => SymbolStored(s)

----------------------------------------------------------------------------
(* Progress                                                                *)

\* Every accepted signal is settled in the end, although the process may crash
\* or be stopped, provided it is started again and no call raises.
AcceptedIsSettled ==
  \A s \in Signals : s \in Known ~> (s \in Known /\ signals[s].status \in Settled)

\* A stop always ends: the thread that outlives the worker's task runs into the
\* closed database, or finishes before.
ShutdownEnds == phase = "stopping" ~> phase = "down"

----------------------------------------------------------------------------
(* The promise to the sources                                              *)

OutcomeOf(status) ==
  CASE status = "PENDING"         -> "queued"
    [] status = "PROCESSING"      -> "started"
    [] status = "REVIEW_REQUIRED" -> "review"
    [] status \in Executions      -> "executed"
    [] OTHER                      -> "refused"

outcome ==
  [s \in Signals |-> IF s \in Known THEN OutcomeOf(signals[s].status) ELSE "absent"]

ExposureOf(s) ==
  IF \E i \in OrdersOf(s) : Filled(i) THEN "filled"
  ELSE IF \E i \in OrdersOf(s) : book[i].fill = "working" THEN "pending"
  ELSE IF OrdersOf(s) # {} THEN "void" ELSE "none"

exposure == [s \in Signals |-> ExposureOf(s)]

Promise == INSTANCE SignalLifecycle
             WITH outcome <- outcome, exposure <- exposure, Signals <- Signals

\* The bridge implements the lifecycle it promises, step by step.
KeepsPromise == Promise!Spec

\* And it keeps its fairness: what is queued is started, what is started settled.
KeepsPromiseInTheEnd == Promise!FairSpec

----------------------------------------------------------------------------
(* Claims of the documentation and the tests that the code does not keep:  *)
(* each is refuted by a run of its own                                     *)

\* Signals settled as trades whose order was filled for an account on a day.
TradedOn(a, day) ==
  {s \in Known : /\ signals[s].status \in Executions
                 /\ \E i \in OrdersOf(s) : /\ Filled(i) /\ book[i].account = a
                                           /\ TradingDayKey(book[i].at) = day}

\* Every EXECUTED, EXECUTED_PARTIAL and RECOVERED_EXECUTED trade occupies a slot
\* of its account's broker day (docstring of count_executed_trades_since).
EveryTradeCounts ==
  \A i \in DOMAIN book : \E c \in SettingsChoices :
    Cardinality(TradedOn(book[i].account, TradingDayKey(book[i].at))) <= c.max_trades_per_day
=============================================================================
