--------------------------- MODULE PromiseProofs ---------------------------
(***************************************************************************)
(* ExecutionBridge implements SignalLifecycle under the mapping of         *)
(* BridgeProperties: every step of the bridge is a step of the promise for *)
(* one signal, or changes nothing a source or its broker account can see.  *)
(***************************************************************************)
EXTENDS BridgeProofs

\* What two states agree on that have the same orders.
LEMMA SameBookSameExposure == UNCHANGED book => exposure' = exposure
  BY DEF exposure, ExposureOf, OrdersOf, Filled

\* One signal's status changes: one outcome moves.
LEMMA StatusMoves ==
  ASSUME SafetyInv, NEW s \in Known, UNCHANGED Known,
         \A t \in Known \ {s} : signals'[t].status = signals[t].status
  PROVE  outcome' = [outcome EXCEPT ![s] = OutcomeOf(signals'[s].status)]
<1>1. s \in Signals
  BY DEF SafetyInv, TypeOK
<1> QED
  BY <1>1 DEF outcome

\* Statuses and stored signals untouched, no outcome moves.
LEMMA SameStatusSameOutcome ==
  ASSUME UNCHANGED Known, \A t \in Known : signals'[t].status = signals[t].status
  PROVE  outcome' = outcome
  BY DEF outcome

\* A job's signal is started, and up to the send it has left nothing at the broker.
LEMMA JobPromise ==
  ASSUME SafetyInv, job # Idle
  PROVE  /\ job.signal \in Signals /\ outcome[job.signal] = "started"
         /\ job.stage \in Unsent => exposure[job.signal] = "none"
<1>1. job.signal \in Known /\ job.signal \in Signals /\ signals[job.signal].status = "PROCESSING"
  BY JobHasType DEF SafetyInv, JobOK
<1>2. outcome[job.signal] = "started"
  BY <1>1 DEF outcome, OutcomeOf, Executions
<1>3. job.stage \in Unsent => exposure[job.signal] = "none"
  BY <1>1 DEF SafetyInv, JobOK, exposure, ExposureOf
<1> QED
  BY <1>1, <1>2, <1>3

\* A settled status that tells the truth about the order is a settlement.
LEMMA SettlementPromised ==
  ASSUME SafetyInv, NEW s \in Known, NEW status \in Settled,
         signals[s].status = "PROCESSING",
         signals' = [signals EXCEPT ![s].status = status],
         UNCHANGED book,
         status \in NoTrade => OrdersOf(s) = {},
         status \in Executions => FilledOrderOf(s)
  PROVE  Promise!Settle(s)
<1>1. s \in Signals /\ signals \in [Known -> Row] /\ signals[s] \in Row
  BY DEF SafetyInv, TypeOK
<1>2. /\ UNCHANGED Known /\ \A t \in Known \ {s} : signals'[t].status = signals[t].status
      /\ signals'[s].status = status
  BY StatusSettled, <1>1 DEF Known, Row
<1>3. outcome' = [outcome EXCEPT ![s] = OutcomeOf(status)] /\ outcome[s] = "started"
  <2>1. outcome' = [outcome EXCEPT ![s] = OutcomeOf(signals'[s].status)]
    BY <1>2, StatusMoves
  <2> QED
    BY <1>1, <1>2, <2>1 DEF outcome, OutcomeOf, Executions
<1>4. exposure' = exposure
  BY SameBookSameExposure
<1>5. CASE status = "REVIEW_REQUIRED"
  BY <1>3, <1>4, <1>5 DEF Promise!Settle, Promise!Move, OutcomeOf, Executions
<1>6. CASE status \in Executions
  <2>1. exposure[s] = "filled"
    BY <1>1, <1>6 DEF exposure, ExposureOf, FilledOrderOf
  <2>2. OutcomeOf(status) = "executed"
    BY <1>6 DEF OutcomeOf, Executions
  <2> QED
    BY <1>3, <1>4, <2>1, <2>2 DEF Promise!Settle, Promise!Move
<1>7. CASE status \in NoTrade
  <2>1. exposure[s] = "none"
    BY <1>1, <1>7 DEF exposure, ExposureOf
  <2>2. OutcomeOf(status) = "refused"
    BY <1>7 DEF OutcomeOf, Executions, NoTrade, Rejections, ServiceFailures, DryRunOutcomes
  <2> QED
    BY <1>3, <1>4, <2>1, <2>2 DEF Promise!Settle, Promise!Move
<1> QED
  BY <1>5, <1>6, <1>7 DEF Settled, ExecutionStatus, NoTrade

----------------------------------------------------------------------------
(* The steps that are one of the promise                                    *)

\* A submission accepts a signal, or is a duplicate and changes nothing.
LEMMA SubmitPromised ==
  ASSUME SafetyInv, NEW s \in Signals, NEW p \in Payloads, Submit(s, p)
  PROVE  Promise!Accept(s) \/ UNCHANGED <<outcome, exposure>>
<1>1. signals' = insert_signal_if_new(s, p) /\ book' = book
  BY DEF Submit, broker
<1>2. exposure' = exposure
  BY <1>1, SameBookSameExposure
<1>3. CASE s \in Known
  BY <1>1, <1>2, <1>3, SameStatusSameOutcome DEF insert_signal_if_new, Known
<1>4. CASE s \notin Known
  <2>1. /\ Known' = Known \cup {s} /\ \A t \in Known : signals'[t] = signals[t]
        /\ signals'[s].status = "PENDING"
    BY <1>1, <1>4 DEF insert_signal_if_new, Known, NewRow
  <2>2. outcome[s] = "absent" /\ outcome'[s] = "queued"
    BY <1>4, <2>1 DEF outcome, OutcomeOf, Executions
  <2>3. \A t \in Signals \ {s} : outcome'[t] = outcome[t]
    BY <2>1 DEF outcome
  <2>4. outcome' = [outcome EXCEPT ![s] = "queued"]
    BY <2>2, <2>3 DEF outcome
  <2> QED
    BY <1>2, <2>2, <2>4 DEF Promise!Accept, Promise!Move
<1> QED
  BY <1>3, <1>4

\* A claim starts a queued signal.
LEMMA ClaimPromised == SafetyInv /\ ClaimNextPending => \E s \in Signals : Promise!Start(s)
<1> SUFFICES ASSUME SafetyInv, ClaimNextPending PROVE \E s \in Signals : Promise!Start(s)
  OBVIOUS
<1>1. PICK s \in NextPending :
        signals' = [signals EXCEPT ![s].status = "PROCESSING", ![s].attempt_count = @ + 1]
  BY DEF ClaimNextPending
<1>2. s \in Known /\ signals[s].status = "PENDING" /\ s \in Signals /\ signals[s] \in Row
  BY DEF NextPending, WithStatus, Known, SafetyInv, TypeOK
<1>3. /\ UNCHANGED Known /\ \A t \in Known \ {s} : signals'[t].status = signals[t].status
      /\ signals'[s].status = "PROCESSING"
  BY <1>1, <1>2 DEF Known, Row
<1>4. outcome' = [outcome EXCEPT ![s] = OutcomeOf(signals'[s].status)]
  BY <1>2, <1>3, StatusMoves
<1>5. outcome[s] = "queued" /\ OutcomeOf("PROCESSING") = "started"
  BY <1>2 DEF outcome, OutcomeOf, Executions
<1>6. exposure' = exposure
  BY SameBookSameExposure DEF ClaimNextPending
<1> QED
  BY <1>2, <1>3, <1>4, <1>5, <1>6 DEF Promise!Start, Promise!Move

\* A send places the one order of its signal, or leaves nothing at the broker.
LEMMA SendPromised ==
  SafetyInv /\ SendOrder => (\E s \in Signals : Promise!Place(s)) \/ UNCHANGED <<outcome, exposure>>
<1> SUFFICES ASSUME SafetyInv, SendOrder
             PROVE  (\E s \in Signals : Promise!Place(s)) \/ UNCHANGED <<outcome, exposure>>
  OBVIOUS
<1>1. job.stage = "send" /\ job # Idle /\ job.stage \in Unsent
  BY DEF SendOrder, InStage, Idle, Unsent
<1> PICK s \in Signals : s = job.signal
  BY <1>1, JobHasType
<1> DEFINE Order_(result) == [signal |-> s, account |-> account, at |-> BrokerNow,
                              fill |-> result, open |-> result = "on_send"]
<1>2. PICK result \in {"none", "working", "on_send"} :
        book' = IF result = "none" THEN book ELSE Append(book, Order_(result))
  BY DEF SendOrder, OrderOutcomes
<1>3. outcome[s] = "started" /\ exposure[s] = "none" /\ OrdersOf(s) = {}
  BY <1>1, JobPromise DEF SafetyInv, JobOK
<1>4. outcome' = outcome
  BY SameStatusSameOutcome DEF SendOrder, store, Known
<1>5. CASE result = "none"
  BY <1>2, <1>4, <1>5, SameBookSameExposure
<1>6. CASE result # "none"
  <2>1. book \in Seq(Order) /\ Len(book) \in Nat
    BY DEF SafetyInv, TypeOK
  <2>2. /\ DOMAIN book' = DOMAIN book \cup {Len(book) + 1} /\ Len(book) + 1 \notin DOMAIN book
        /\ \A i \in DOMAIN book : book'[i] = book[i]
        /\ book'[Len(book) + 1] = Order_(result)
    BY <1>2, <1>6, <2>1
  <2> HIDE DEF Order_
  <2>3. \A t \in Signals \ {s} : OrdersOf(t)' = OrdersOf(t)
    BY <2>2 DEF OrdersOf, Order_
  <2>4. OrdersOf(s)' = {Len(book) + 1}
    BY <1>3, <2>2 DEF OrdersOf, Order_
  <2>5. \A t \in Signals \ {s} : exposure'[t] = exposure[t]
    BY <2>2, <2>3 DEF exposure, ExposureOf, Filled, OrdersOf
  <2>6. exposure'[s] = IF result = "on_send" THEN "filled" ELSE "pending"
    BY <1>3, <1>6, <2>2, <2>4 DEF exposure, ExposureOf, Filled, Order_
  <2>7. exposure' = [exposure EXCEPT ![s] = IF result = "on_send" THEN "filled" ELSE "pending"]
    BY <1>3, <2>5, <2>6 DEF exposure
  <2> QED
    BY <1>3, <1>4, <2>7 DEF Promise!Place
<1> QED
  BY <1>5, <1>6

\* The pipeline settles with what it knows of the order.
LEMMA SettlePromised == SafetyInv /\ SettleSignal => \E s \in Signals : Promise!Settle(s)
<1> SUFFICES ASSUME SafetyInv, SettleSignal PROVE Promise!Settle(job.signal)
  BY JobHasType DEF SettleSignal, InStage, Idle
<1>1. /\ job # Idle /\ job.verdict \in Settled
      /\ job.verdict \in NoTrade => OrdersOf(job.signal) = {}
      /\ job.verdict \in Executions => FilledOrderOf(job.signal)
      /\ job.signal \in Known /\ signals[job.signal].status = "PROCESSING"
  BY DEF SettleSignal, InStage, Idle, SafetyInv, JobOK
<1>2. signals' = [signals EXCEPT ![job.signal].status = job.verdict] /\ book' = book
  BY DEF SettleSignal, update_signal_status
<1> QED
  BY <1>1, <1>2, SettlementPromised

\* The recovery settles with what it found of it, or calls for review.
LEMMA ReconcilePromised ==
  ASSUME SafetyInv, NEW s \in Signals, Reconcile(s)
  PROVE  Promise!Settle(s)
<1>1. s \in Known /\ signals[s].status = "PROCESSING" /\ book' = book
  BY ReconcileTellsTruth DEF Reconcile, rest, broker
<1>2. PICK v \in Settled :
        /\ signals' = [signals EXCEPT ![s].status = v]
        /\ v \notin NoTrade
        /\ v \in Executions => FilledOrderOf(s)
  BY ReconcileTellsTruth
<1> QED
  BY <1>1, <1>2, SettlementPromised

\* An order that changes at the broker resolves its signal's exposure, or closes a
\* position that stays what it was to the signal.
LEMMA OrderPromised ==
  ASSUME SafetyInv, NEW i \in DOMAIN book, NEW e \in Order, e.signal = book[i].signal,
         \/ book[i].fill = "working" /\ e.fill \in {"later", "void"}
         \/ e.fill = book[i].fill,
         book' = [book EXCEPT ![i] = e], UNCHANGED signals
  PROVE  (\E s \in Signals : Promise!Resolve(s)) \/ UNCHANGED <<outcome, exposure>>
<1> DEFINE s == book[i].signal
<1>1. outcome' = outcome
  BY SameStatusSameOutcome DEF Known
<1>2. /\ DOMAIN book' = DOMAIN book /\ book'[i] = e
      /\ \A k \in DOMAIN book \ {i} : book'[k] = book[k]
  BY RowRewritten DEF SafetyInv, TypeOK
<1>3. \A t : OrdersOf(t)' = OrdersOf(t)
  BY <1>2 DEF OrdersOf
<1>4. s \in Signals /\ OrdersOf(s) = {i} /\ \A t : i \in OrdersOf(t) => t = s
  BY DEF SafetyInv, TypeOK, BookOK, OrdersOf
<1>5. \A t \in Signals \ {s} : exposure'[t] = exposure[t]
  <2>1. \A t \in Signals \ {s} : \A k \in OrdersOf(t) : k # i /\ k \in DOMAIN book
    BY <1>4 DEF OrdersOf
  <2> QED
    BY <1>2, <1>3, <2>1 DEF exposure, ExposureOf, Filled
<1>6. CASE e.fill = book[i].fill
  <2>1. exposure'[s] = exposure[s]
    BY <1>2, <1>3, <1>4, <1>6 DEF exposure, ExposureOf, Filled
  <2>2. exposure' = exposure
    BY <1>5, <2>1 DEF exposure
  <2> QED
    BY <1>1, <2>2
<1>7. CASE book[i].fill = "working" /\ e.fill \in {"later", "void"}
  <2> DEFINE x == IF e.fill = "later" THEN "filled" ELSE "void"
  <2>1. exposure[s] = "pending" /\ exposure'[s] = x
    BY <1>2, <1>3, <1>4, <1>7 DEF exposure, ExposureOf, Filled
  <2>2. exposure' = [exposure EXCEPT ![s] = x] /\ x \in {"filled", "void"}
    BY <1>4, <1>5, <2>1 DEF exposure
  <2> QED
    BY <1>1, <1>4, <2>1, <2>2 DEF Promise!Resolve
<1> QED
  BY <1>6, <1>7

\* What happens outside the process resolves an exposure, or is not promised about.
LEMMA WorldPromised ==
  SafetyInv /\ World => (\E s \in Signals : Promise!Resolve(s)) \/ UNCHANGED <<outcome, exposure>>
<1> SUFFICES ASSUME SafetyInv, World
             PROVE  (\E s \in Signals : Promise!Resolve(s)) \/ UNCHANGED <<outcome, exposure>>
  OBVIOUS
<1>1. \A i \in DOMAIN book : book[i] \in Order
  BY DEF SafetyInv, TypeOK
<1>2. ASSUME NEW i \in DOMAIN book, FillOrder(i) \/ VoidOrder(i) \/ ClosePosition(i)
      PROVE  (\E s \in Signals : Promise!Resolve(s)) \/ UNCHANGED <<outcome, exposure>>
  <2>1. BrokerNow \in Int
    BY ClockAssumption DEF BrokerNow, SafetyInv, TypeOK
  <2>2. CASE FillOrder(i)
    <3> DEFINE e == [book[i] EXCEPT !.fill = "later", !.open = TRUE, !.at = BrokerNow]
    <3>1. e \in Order /\ e.signal = book[i].signal /\ e.fill = "later"
      BY <1>1, <2>1 DEF Order
    <3>2. book' = [book EXCEPT ![i] = e] /\ book[i].fill = "working" /\ UNCHANGED signals
      BY <2>2 DEF FillOrder, WorkingOrder, process, store
    <3> HIDE DEF e
    <3> QED
      BY <3>1, <3>2, OrderPromised
  <2>3. CASE VoidOrder(i)
    <3> DEFINE e == [book[i] EXCEPT !.fill = "void"]
    <3>1. e \in Order /\ e.signal = book[i].signal /\ e.fill = "void"
      BY <1>1 DEF Order
    <3>2. book' = [book EXCEPT ![i] = e] /\ book[i].fill = "working" /\ UNCHANGED signals
      BY <2>3 DEF VoidOrder, WorkingOrder, process, store
    <3> HIDE DEF e
    <3> QED
      BY <3>1, <3>2, OrderPromised
  <2>4. CASE ClosePosition(i)
    <3> DEFINE e == [book[i] EXCEPT !.open = FALSE]
    <3>1. e \in Order /\ e.signal = book[i].signal /\ e.fill = book[i].fill
      BY <1>1 DEF Order
    <3>2. book' = [book EXCEPT ![i] = e] /\ UNCHANGED signals
      BY <2>4 DEF ClosePosition, process, store
    <3> HIDE DEF e
    <3> QED
      BY <3>1, <3>2, OrderPromised
  <2> QED
    BY <1>2, <2>2, <2>3, <2>4
<1>3. ASSUME UNCHANGED <<signals, book>> PROVE UNCHANGED <<outcome, exposure>>
  BY <1>3, SameStatusSameOutcome, SameBookSameExposure DEF Known
<1>4. \/ UNCHANGED <<signals, book>>
      \/ \E i \in DOMAIN book : FillOrder(i) \/ VoidOrder(i) \/ ClosePosition(i)
  BY DEF World, MoveEquity, SwitchAccount, Tick, process, store, broker
<1> QED
  BY <1>2, <1>3, <1>4

----------------------------------------------------------------------------
\* Every step of the bridge is a step of the promise or changes nothing in it.
LEMMA StepPromised == SafetyInv /\ [Next]_vars => [Promise!Next]_<<outcome, exposure>>
<1> SUFFICES ASSUME SafetyInv, [Next]_vars PROVE [Promise!Next]_<<outcome, exposure>>
  OBVIOUS
<1> USE DEF Promise!Next
<1>1. ASSUME UNCHANGED <<signals, book>> PROVE UNCHANGED <<outcome, exposure>>
  BY <1>1, SameStatusSameOutcome, SameBookSameExposure DEF Known
<1>2. CASE \E s \in Signals, p \in Payloads : Submit(s, p)
  BY <1>2, SubmitPromised
<1>3. CASE Work
  <2>1. CASE SetSymbolNormalized
    <3>1. job.signal \in Known /\ signals[job.signal] \in Row
      BY <2>1, JobHasType DEF SetSymbolNormalized, InStage, Idle
    <3>2. UNCHANGED Known /\ \A t \in Known : signals'[t].status = signals[t].status
      BY <2>1, <3>1 DEF SetSymbolNormalized, Known, Row
    <3>3. book' = book
      BY <2>1 DEF SetSymbolNormalized
    <3> QED
      BY <3>2, <3>3, SameStatusSameOutcome, SameBookSameExposure
  <2>2. \/ ClaimNextPending \/ SetSymbolNormalized \/ SendOrder \/ SettleSignal
        \/ UNCHANGED <<signals, book>>
    BY <1>3 DEF Work, StartProcessing, IdentifyAccount, CheckMarket, QueryPositions, SizeOrder,
       CheckOrder, RecordReply, FinishExecution, AbandonJob, store, broker
  <2> QED
    BY <1>1, <2>1, <2>2, ClaimPromised, SendPromised, SettlePromised
<1>4. CASE Lifecycle \/ Stop \/ Crash
  <2>1. (\E s \in Signals : Reconcile(s)) \/ UNCHANGED <<signals, book>>
    BY <1>4 DEF Lifecycle, Boot, StartWorker, FailStart, ShutdownGateway, CloseStore, Exit, Stop,
       Crash, rest, broker
  <2> QED
    BY <1>1, <2>1, ReconcilePromised
<1>5. CASE World
  BY <1>5, WorldPromised
<1>6. CASE UNCHANGED vars
  BY <1>1, <1>6 DEF vars, store, broker
<1> QED
  BY <1>2, <1>3, <1>4, <1>5, <1>6 DEF Next

\* A bridge that was never started has promised nothing yet.
LEMMA InitPromised == Init => Promise!Init
<1> SUFFICES ASSUME Init PROVE Promise!Init
  OBVIOUS
<1>1. Known = {} /\ \A s : OrdersOf(s) = {}
  BY DEF Init, Known, OrdersOf
<1> QED
  BY <1>1 DEF Promise!Init, outcome, exposure, ExposureOf

\* The bridge implements the lifecycle it promises its sources (KeepsPromise): for any
\* number of signals, crashes, restarts and failures of the terminal, each signal is
\* accepted, started, sent and settled at most once, and settled truthfully.
THEOREM PromiseKept == Spec => KeepsPromise
<1>1. Init => Promise!Init
  BY InitPromised
<1>2. SafetyInv /\ [Next]_vars => [Promise!Next]_<<outcome, exposure>>
  BY StepPromised
<1> QED
  BY <1>1, <1>2, SafetyCorrect, PTL DEF Spec, KeepsPromise, Promise!Spec, Promise!vars
=============================================================================
