---------------------------- MODULE RecordProofs ----------------------------
(***************************************************************************)
(* What the tables record: the order of the queue, the symbol, the verdict *)
(* and the ticket of what was traded, the account a job was checked for.   *)
(***************************************************************************)
EXTENDS BridgeProofs

\* Replies that report a fill.
Fills == {"DONE", "DONE_PARTIAL"}

\* The ticket names an order of the signal that was filled while it was sent.
TicketOf(ticket, s) ==
  ticket \in DOMAIN book /\ book[ticket].signal = s /\ book[ticket].fill = "on_send"

----------------------------------------------------------------------------
(* What every step leaves of the tables and of the broker's book            *)

\* The send: an order of the signal at the end of the book, or none; a reply that
\* reports a fill comes with the ticket of that order.
LEMMA SendResult ==
  ASSUME SafetyInv, SendOrder
  PROVE  /\ job \in Job /\ job.stage = "send"
         /\ job'.stage = "record" /\ job'.signal = job.signal /\ job'.exec = job.exec
         /\ job'.key = job.key /\ job'.day = job.day
         /\ UNCHANGED <<phase, settings, stuck, account, utc, signals, executions, baselines>>
         /\ \A k \in DOMAIN book : k \in DOMAIN book' /\ book'[k] = book[k]
         /\ \/ book' = book /\ job'.reply \notin Fills
            \/ /\ DOMAIN book' = DOMAIN book \cup {Len(book) + 1}
               /\ Len(book) + 1 \notin DOMAIN book
               /\ book'[Len(book) + 1].signal = job.signal
               /\ book'[Len(book) + 1].account = account
               /\ book'[Len(book) + 1].at = BrokerNow
               /\ book'[Len(book) + 1].fill \in {"working", "on_send"}
               /\ job'.reply \in Fills =>
                    /\ book'[Len(book) + 1].fill = "on_send"
                    /\ job'.ticket = Len(book) + 1
<1> DEFINE order(result) == [signal |-> job.signal, account |-> account, at |-> BrokerNow,
                             fill |-> result, open |-> result = "on_send"]
<1>1. job \in Job /\ job.stage = "send" /\ job.signal \in Signals
  BY JobInStage, JobHasType DEF SendOrder, Stages, TerminalStages
<1>2. PICK reply \in OrderReplies : \E result \in OrderOutcomes(reply) :
        /\ book' = IF result = "none" THEN book ELSE Append(book, order(result))
        /\ job' = [job EXCEPT !.stage = "record", !.reply = reply,
                              !.ticket = IF reply = NoValue THEN 0 ELSE Len(book')]
  BY DEF SendOrder
<1>3. PICK result \in OrderOutcomes(reply) :
        /\ book' = IF result = "none" THEN book ELSE Append(book, order(result))
        /\ job' = [job EXCEPT !.stage = "record", !.reply = reply,
                              !.ticket = IF reply = NoValue THEN 0 ELSE Len(book')]
  BY <1>2
<1>4. /\ result \in {"none", "working", "on_send"}
      /\ reply \in Fills => result = "on_send" /\ reply # NoValue
  BY DEF OrderReplies, OrderOutcomes, Replies, Fills, NoValue
<1>5. /\ job'.stage = "record" /\ job'.signal = job.signal /\ job'.exec = job.exec
      /\ job'.key = job.key /\ job'.day = job.day /\ job'.reply = reply
      /\ reply # NoValue => job'.ticket = Len(book')
  BY <1>1, <1>3 DEF Job
<1>6. UNCHANGED <<phase, settings, stuck, account, utc, signals, executions, baselines>>
  BY DEF SendOrder, environment, store
<1>7. CASE result = "none"
  BY <1>1, <1>3, <1>4, <1>5, <1>6, <1>7
<1>8. CASE result # "none"
  <2>1. BrokerNow \in Int /\ account \in Accounts /\ book \in Seq(Order)
    BY ClockAssumption DEF BrokerNow, SafetyInv, TypeOK
  <2>2. order(result) \in Order
    BY <1>1, <1>4, <1>8, <2>1 DEF Order
  <2>3. /\ book' = Append(book, order(result)) /\ Len(book') = Len(book) + 1
        /\ DOMAIN book = 1 .. Len(book) /\ DOMAIN book' = 1 .. Len(book) + 1
        /\ Len(book) \in Nat /\ book'[Len(book) + 1] = order(result)
        /\ \A k \in DOMAIN book : book'[k] = book[k]
    BY <1>3, <1>8, <2>1, <2>2, AppendProperties
  <2>4. DOMAIN book' = DOMAIN book \cup {Len(book) + 1} /\ Len(book) + 1 \notin DOMAIN book
    BY <2>3
  <2>5. /\ order(result).signal = job.signal /\ order(result).account = account
        /\ order(result).at = BrokerNow /\ order(result).fill = result
    OBVIOUS
  <2> HIDE DEF order
  <2>6. /\ book'[Len(book) + 1].signal = job.signal
        /\ book'[Len(book) + 1].account = account
        /\ book'[Len(book) + 1].at = BrokerNow
        /\ book'[Len(book) + 1].fill = result
    BY <2>3, <2>5
  <2>7. job'.reply \in Fills => result = "on_send" /\ job'.ticket = Len(book) + 1
    BY <1>4, <1>5, <2>3
  <2>8. \A k \in DOMAIN book : k \in DOMAIN book' /\ book'[k] = book[k]
    BY <2>3, <2>4
  <2> QED
    BY <1>1, <1>4, <1>5, <1>6, <1>8, <2>4, <2>6, <2>7, <2>8
<1> QED
  BY <1>7, <1>8

\* An order stays in the book, whatever step is made.
LEMMA OrdersStay ==
  ASSUME SafetyInv, [Next]_vars, NEW k \in DOMAIN book
  PROVE  OrderKept(k)
<1>1. ~Filled(k) => book[k].fill # "on_send"
  BY DEF Filled
<1>2. ASSUME k \in DOMAIN book', book'[k] = book[k] PROVE OrderKept(k)
  BY <1>1, <1>2 DEF OrderKept
<1>3. CASE Work
  <2>1. CASE SendOrder
    BY <1>2, <2>1, SendResult
  <2>2. CASE UNCHANGED book
    BY <1>2, <2>2
  <2> QED
    BY <1>3, <2>1, <2>2, WorkKeepsWorld
<1>4. CASE ~Work
  BY <1>4, OthersKeepJob
<1> QED
  BY <1>3, <1>4

\* So a ticket stays the ticket it was.
LEMMA TicketsStay ==
  ASSUME SafetyInv, [Next]_vars, NEW ticket, NEW s, TicketOf(ticket, s)
  PROVE  TicketOf(ticket, s)' /\ book'[ticket].at = book[ticket].at
<1>1. ticket \in DOMAIN book /\ Filled(ticket)
  BY DEF TicketOf, Filled
<1>2. OrderKept(ticket)
  BY <1>1, OrdersStay
<1> QED
  BY <1>1, <1>2 DEF TicketOf, OrderKept

\* An executions row keeps its signal and its start, and only the job it belongs to
\* writes anything else of it, at three of its stages.
ExecutionKept(i) ==
  /\ i \in DOMAIN executions'
  /\ executions'[i].signal = executions[i].signal
  /\ executions'[i].started_at = executions[i].started_at
  /\ \/ executions'[i] = executions[i]
     \/ job # Idle /\ i = job.exec /\ job.stage \in {"account", "record", "finish"}

\* One row rewritten by its job.
LEMMA OneExecutionRewritten ==
  ASSUME SafetyInv, job # Idle, job.exec \in DOMAIN executions,
         job.stage \in {"account", "record", "finish"}, NEW e,
         executions' = [executions EXCEPT ![job.exec] = e],
         e.signal = executions[job.exec].signal,
         e.started_at = executions[job.exec].started_at
  PROVE  DOMAIN executions' = DOMAIN executions /\ \A i \in DOMAIN executions : ExecutionKept(i)
<1>1. /\ DOMAIN executions' = DOMAIN executions /\ executions'[job.exec] = e
      /\ \A i \in DOMAIN executions \ {job.exec} : executions'[i] = executions[i]
  BY DEF SafetyInv, TypeOK
<1> QED
  BY <1>1 DEF ExecutionKept

\* The stages that write the executions row of their job, and what they write.
LEMMA AccountWrites ==
  ASSUME SafetyInv, IdentifyAccount
  PROVE  /\ DOMAIN executions' = DOMAIN executions
         /\ \A i \in DOMAIN executions : ExecutionKept(i)
         /\ job.exec \in DOMAIN executions
         /\ executions'[job.exec].status = executions[job.exec].status
         /\ executions'[job.exec].order_ticket = executions[job.exec].order_ticket
         /\ job' # Idle /\ job'.signal = job.signal /\ job'.exec = job.exec
         /\ job'.verdict = job.verdict \/ job'.verdict \in NoTrade
         /\ job'.reply = job.reply
         /\ job'.stage \in {"market", "finish"}
         /\ job'.stage = "market" => /\ job'.key = account
                                     /\ executions'[job.exec].account_key = account
         /\ executions'[job.exec].account_key = job'.key
<1>1. PICK up \in BOOLEAN, known \in BOOLEAN :
        LET key == account_key_for(account, up /\ known)
        IN  /\ Continue([job EXCEPT !.key = key, !.equity = equity[account]],
                        Require(key # NoValue, "FAILED_MT5_UNAVAILABLE"), "market")
            /\ executions' = [executions EXCEPT ![job.exec].account_key = key]
  BY DEF IdentifyAccount, ConnectAnswers
<1> DEFINE key == account_key_for(account, up /\ known)
           verdict == Require(key # NoValue, "FAILED_MT5_UNAVAILABLE")
           row == [executions[job.exec] EXCEPT !.account_key = key]
<1>2. job \in Job /\ job # Idle /\ job.stage = "account" /\ job.exec \in DOMAIN executions
  BY JobInStage DEF IdentifyAccount, Stages, DatabaseStages, SafetyInv, JobOK
<1>3. executions[job.exec] \in Execution
  BY <1>2 DEF SafetyInv, TypeOK
<1>4. /\ row.signal = executions[job.exec].signal /\ row.account_key = key
      /\ row.started_at = executions[job.exec].started_at
      /\ row.status = executions[job.exec].status
      /\ row.order_ticket = executions[job.exec].order_ticket
  BY <1>3 DEF Execution
<1>5. executions' = [executions EXCEPT ![job.exec] = row]
  BY <1>1
<1>6. key \in {account, NoValue} /\ (verdict = "ok" => key = account)
  BY DEF account_key_for, Require
<1>7. Continue([job EXCEPT !.key = key, !.equity = equity[account]], verdict, "market")
  BY <1>1
<1>8. verdict \in NoTrade \cup {"ok"}
  BY DEF Require, NoTrade, ServiceFailures
<1> HIDE DEF row, key, verdict
<1>9. /\ DOMAIN executions' = DOMAIN executions /\ executions'[job.exec] = row
      /\ \A i \in DOMAIN executions : ExecutionKept(i)
  <2>1. executions'[job.exec] = row
    BY <1>2, <1>5
  <2> QED
    BY <1>2, <1>4, <1>5, <2>1, OneExecutionRewritten
<1>10. /\ job'.signal = job.signal /\ job'.exec = job.exec /\ job'.reply = job.reply
       /\ job'.stage \in {"market", "finish"} /\ job'.key = key
       /\ job'.stage = "market" => verdict = "ok" /\ job'.verdict = job.verdict
       /\ job'.stage = "finish" => job'.verdict = verdict /\ verdict # "ok"
  BY <1>2, <1>7 DEF Continue, Job
<1>11. job' # Idle
  BY <1>10 DEF Idle
<1> QED
  BY <1>2, <1>4, <1>6, <1>8, <1>9, <1>10, <1>11

LEMMA RecordWrites ==
  ASSUME SafetyInv, RecordReply
  PROVE  /\ DOMAIN executions' = DOMAIN executions
         /\ \A i \in DOMAIN executions : ExecutionKept(i)
         /\ job.exec \in DOMAIN executions
         /\ executions'[job.exec].status = executions[job.exec].status
         /\ executions'[job.exec].order_ticket = executions[job.exec].order_ticket
         /\ executions'[job.exec].account_key = executions[job.exec].account_key
         /\ job.stage = "record"
         /\ job' # Idle /\ job'.signal = job.signal /\ job'.exec = job.exec
         /\ job'.stage = "finish" /\ job'.reply = job.reply /\ job'.ticket = job.ticket
         /\ job'.verdict = SendVerdict(job.reply)
         /\ job'.key = job.key /\ job'.day = job.day
<1> DEFINE row == [executions[job.exec] EXCEPT !.order_send_retcode = job.reply]
<1>1. job \in Job /\ job # Idle /\ job.stage = "record" /\ job.exec \in DOMAIN executions
  BY JobInStage DEF RecordReply, Stages, DatabaseStages, SafetyInv, JobOK
<1>2. executions[job.exec] \in Execution
  BY <1>1 DEF SafetyInv, TypeOK
<1>3. /\ row.signal = executions[job.exec].signal
      /\ row.started_at = executions[job.exec].started_at
      /\ row.status = executions[job.exec].status
      /\ row.order_ticket = executions[job.exec].order_ticket
      /\ row.account_key = executions[job.exec].account_key
  BY <1>2 DEF Execution
<1>4. executions' = [executions EXCEPT ![job.exec] = row]
  BY DEF RecordReply
<1>5. SendVerdict(job.reply) # "ok"
  BY DEF SendVerdict
<1>6. job' = [job EXCEPT !.stage = "finish", !.verdict = SendVerdict(job.reply)]
  BY <1>5 DEF RecordReply, Continue
<1> HIDE DEF row
<1>7. executions'[job.exec] = row
  BY <1>1, <1>4
<1>8. DOMAIN executions' = DOMAIN executions /\ \A i \in DOMAIN executions : ExecutionKept(i)
  BY <1>1, <1>3, <1>4, OneExecutionRewritten
<1>9. /\ job'.signal = job.signal /\ job'.exec = job.exec
      /\ job'.stage = "finish" /\ job'.reply = job.reply /\ job'.ticket = job.ticket
      /\ job'.verdict = SendVerdict(job.reply) /\ job'.key = job.key /\ job'.day = job.day
  BY <1>1, <1>6 DEF Job
<1>10. job' # Idle
  BY <1>9 DEF Idle
<1> QED
  BY <1>1, <1>3, <1>7, <1>8, <1>9, <1>10

LEMMA FinishWrites ==
  ASSUME SafetyInv, FinishExecution
  PROVE  /\ DOMAIN executions' = DOMAIN executions
         /\ \A i \in DOMAIN executions : ExecutionKept(i)
         /\ job.exec \in DOMAIN executions
         /\ executions'[job.exec].status = job.verdict
         /\ executions'[job.exec].account_key = executions[job.exec].account_key
         /\ job.reply \in Fills => executions'[job.exec].order_ticket = job.ticket
         /\ job.stage = "finish" /\ job.verdict \in Settled
         /\ job' # Idle /\ job'.stage = "settle" /\ job'.verdict = job.verdict
         /\ job'.signal = job.signal /\ job'.exec = job.exec /\ job'.key = job.key
<1> DEFINE ticket == IF job.reply \in {"DONE", "DONE_PARTIAL", "PLACED"} THEN job.ticket
                     ELSE executions[job.exec].order_ticket
           row == [executions[job.exec] EXCEPT !.status = job.verdict, !.order_ticket = ticket]
<1>1. /\ job \in Job /\ job # Idle /\ job.stage = "finish" /\ job.exec \in DOMAIN executions
      /\ job.verdict \in Settled
  BY JobInStage DEF FinishExecution, Stages, DatabaseStages, SafetyInv, JobOK
<1>2. executions[job.exec] \in Execution
  BY <1>1 DEF SafetyInv, TypeOK
<1>3. job.reply \in Fills => ticket = job.ticket
  BY DEF Fills
<1>4. executions' = [executions EXCEPT ![job.exec] = row]
  BY DEF FinishExecution
<1> HIDE DEF ticket
<1>5. /\ row.signal = executions[job.exec].signal
      /\ row.started_at = executions[job.exec].started_at
      /\ row.status = job.verdict /\ row.order_ticket = ticket
      /\ row.account_key = executions[job.exec].account_key
  BY <1>2 DEF Execution
<1> HIDE DEF row
<1>6. executions'[job.exec] = row
  BY <1>1, <1>4
<1>7. DOMAIN executions' = DOMAIN executions /\ \A i \in DOMAIN executions : ExecutionKept(i)
  BY <1>1, <1>4, <1>5, OneExecutionRewritten
<1>8. /\ job'.stage = "settle" /\ job'.verdict = job.verdict
      /\ job'.signal = job.signal /\ job'.exec = job.exec /\ job'.key = job.key
  BY <1>1 DEF FinishExecution, Job
<1>9. job' # Idle
  BY <1>8 DEF Idle
<1> QED
  BY <1>1, <1>3, <1>5, <1>6, <1>7, <1>8, <1>9

\* The start of an attempt adds its row, and nothing else does.
LEMMA StartWrites ==
  ASSUME SafetyInv, StartProcessing
  PROVE  /\ DOMAIN executions' = DOMAIN executions \cup {Len(executions) + 1}
         /\ Len(executions) + 1 \notin DOMAIN executions
         /\ \A i \in DOMAIN executions : executions'[i] = executions[i]
         /\ executions'[Len(executions) + 1].signal = job.signal
         /\ executions'[Len(executions) + 1].started_at = utc
         /\ executions'[Len(executions) + 1].status = "PROCESSING"
         /\ executions'[Len(executions) + 1].account_key = NoValue
         /\ job.stage = "start" /\ job # Idle /\ job'.key = job.key
         /\ job'.exec = Len(executions) + 1 /\ job'.signal = job.signal
         /\ job'.stage \in {"symbol", "finish"} /\ UNCHANGED book
<1> DEFINE row == [signal |-> job.signal, attempt |-> signals[job.signal].attempt_count,
                   started_at |-> utc, account_key |-> NoValue, status |-> "PROCESSING",
                   order_send_retcode |-> NoValue, order_ticket |-> 0]
<1>1. job \in Job /\ job # Idle /\ job.stage = "start"
  BY JobInStage DEF StartProcessing, Stages, DatabaseStages
<1>2. row \in Execution /\ executions \in Seq(Execution)
  BY <1>1, JobHasType DEF Execution, Row, ExecutionStatus, Replies, NoValue, SafetyInv, TypeOK
<1>3. executions' = Append(executions, row) /\ UNCHANGED book
  BY DEF StartProcessing, insert_execution
<1>4. PICK verdict : Continue([job EXCEPT !.exec = Len(executions')], verdict, "symbol")
  BY DEF StartProcessing
<1>5. /\ row.signal = job.signal /\ row.started_at = utc /\ row.status = "PROCESSING"
      /\ row.account_key = NoValue
  OBVIOUS
<1> HIDE DEF row
<1>6. /\ Len(executions') = Len(executions) + 1 /\ Len(executions) \in Nat
      /\ DOMAIN executions = 1 .. Len(executions) /\ DOMAIN executions' = 1 .. Len(executions) + 1
      /\ executions'[Len(executions) + 1] = row
      /\ \A i \in DOMAIN executions : executions'[i] = executions[i]
  BY <1>2, <1>3, AppendProperties
<1>7. /\ DOMAIN executions' = DOMAIN executions \cup {Len(executions) + 1}
      /\ Len(executions) + 1 \notin DOMAIN executions
  BY <1>6
<1>8. /\ job'.exec = Len(executions) + 1 /\ job'.signal = job.signal
      /\ job'.stage \in {"symbol", "finish"} /\ job'.key = job.key
  BY <1>1, <1>4, <1>6 DEF Continue, Job
<1> QED
  BY <1>1, <1>3, <1>5, <1>6, <1>7, <1>8

\* The stages between: they write no executions row and send no order.
LEMMA CheckingStages ==
  ASSUME SafetyInv,
         SetSymbolNormalized \/ CheckMarket \/ QueryPositions \/ SizeOrder \/ CheckOrder
  PROVE  /\ UNCHANGED <<executions, book>>
         /\ job # Idle /\ job.stage \in Unsent \ {"start", "send", "account"}
         /\ \/ job' = Idle
            \/ /\ job'.signal = job.signal /\ job'.exec = job.exec /\ job'.key = job.key
               /\ job'.stage \in {"account", "positions", "size", "check", "send", "finish"}
               /\ job'.stage = "account" <=> job.stage = "symbol"
               /\ CheckMarket \/ job'.day = job.day
<1> USE DEF Stages, DatabaseStages, TerminalStages, Unsent
<1>1. CASE SetSymbolNormalized
  BY <1>1, JobInStage DEF SetSymbolNormalized, Continue, Job
<1>2. CASE CheckMarket
  <2>1. job \in Job /\ job # Idle /\ job.stage = "market" /\ UNCHANGED <<executions, book>>
    BY <1>2, JobInStage DEF CheckMarket, store
  <2>2. PICK e, d, verdict : Continue([job EXCEPT !.entry = e, !.day = d], verdict, "positions")
    BY <1>2 DEF CheckMarket
  <2> QED
    BY <1>2, <2>1, <2>2 DEF Continue, Job
<1>3. CASE QueryPositions
  <2>1. job \in Job /\ job # Idle /\ job.stage = "positions" /\ UNCHANGED <<executions, book>>
    BY <1>3, JobInStage DEF QueryPositions, store
  <2>2. PICK verdict : Continue(job, verdict, "size")
    BY <1>3 DEF QueryPositions
  <2> QED
    BY <2>1, <2>2 DEF Continue, Job
<1>4. CASE SizeOrder
  <2>1. job \in Job /\ job # Idle /\ job.stage = "size" /\ UNCHANGED <<executions, book>>
    BY <1>4, JobInStage DEF SizeOrder
  <2>2. \/ job' = Idle
        \/ \E w, verdict : Continue([job EXCEPT !.volume = w], verdict, "check")
    BY <1>4 DEF SizeOrder
  <2> QED
    BY <2>1, <2>2 DEF Continue, Job
<1>5. CASE CheckOrder
  <2>1. job \in Job /\ job # Idle /\ job.stage = "check" /\ UNCHANGED <<executions, book>>
    BY <1>5, JobInStage DEF CheckOrder, store
  <2>2. PICK verdict : Continue(job, verdict, "send")
    BY <1>5 DEF CheckOrder
  <2> QED
    BY <2>1, <2>2 DEF Continue, Job
<1> QED
  BY <1>1, <1>2, <1>3, <1>4, <1>5

\* Executions rows are added and stay.
LEMMA ExecutionsKept ==
  ASSUME SafetyInv, [Next]_vars
  PROVE  \A i \in DOMAIN executions : ExecutionKept(i)
<1>1. ASSUME UNCHANGED executions PROVE \A i \in DOMAIN executions : ExecutionKept(i)
  BY <1>1 DEF ExecutionKept
<1>2. CASE Work
  <2>1. CASE StartProcessing
    BY <2>1, StartWrites DEF ExecutionKept
  <2>2. \/ StartProcessing \/ IdentifyAccount \/ RecordReply \/ FinishExecution
        \/ UNCHANGED executions
    BY <1>2, CheckingStages DEF Work, ClaimNextPending, SendOrder, SettleSignal, AbandonJob, store
  <2> QED
    BY <1>1, <2>1, <2>2, AccountWrites, RecordWrites, FinishWrites
<1>3. CASE ~Work
  BY <1>1, <1>3, OthersKeepJob
<1> QED
  BY <1>2, <1>3

\* What a step may do to the row of a stored signal: its id and payload stay, its
\* status is written by the claim, by the job's last transaction and by the recovery,
\* its symbol by one stage of its job.
RowMoved(t) ==
  /\ t \in Known' /\ signals'[t].id = signals[t].id
  /\ \/ signals'[t].status = signals[t].status
     \/ ClaimNextPending /\ t \in NextPending /\ signals'[t].status = "PROCESSING"
     \/ /\ SettleSignal /\ t = job.signal /\ signals[t].status = "PROCESSING"
        /\ signals'[t].status = job.verdict
     \/ /\ signals[t].status = "PROCESSING"
        /\ signals'[t].status \in {"RECOVERED_EXECUTED", "REVIEW_REQUIRED"}
  /\ \/ signals'[t].symbol_normalized = signals[t].symbol_normalized
     \/ SetSymbolNormalized /\ t = job.signal
          /\ signals'[t].symbol_normalized = SymbolMap[Payload.symbol]

\* A step that rewrites one row, in ways RowMoved allows.
LEMMA OneRowMoved ==
  ASSUME SafetyInv, NEW s \in Known, NEW row, signals' = [signals EXCEPT ![s] = row],
         NEW t \in Known, s = t => RowMoved(t)
  PROVE  RowMoved(t)
<1>1. CASE t # s
  <2>1. signals'[t] = signals[t] /\ t \in Known'
    BY <1>1 DEF SafetyInv, TypeOK, Known
  <2> QED
    BY <2>1 DEF RowMoved
<1> QED
  BY <1>1

\* Every step moves a stored row only so.
LEMMA RowsMove ==
  ASSUME SafetyInv, [Next]_vars, NEW t \in Known
  PROVE  RowMoved(t)
<1>1. ASSUME UNCHANGED signals PROVE RowMoved(t)
  BY <1>1 DEF RowMoved, Known
<1>2. ASSUME NEW s \in Signals, NEW p \in Payloads, Submit(s, p) PROVE RowMoved(t)
  BY <1>2 DEF Submit, insert_signal_if_new, RowMoved, Known
<1>3. CASE ClaimNextPending
  <2>1. PICK s \in NextPending :
          signals' = [signals EXCEPT ![s].status = "PROCESSING", ![s].attempt_count = @ + 1]
    BY <1>3 DEF ClaimNextPending
  <2> DEFINE row == [signals[s] EXCEPT !.status = "PROCESSING", !.attempt_count = @ + 1]
  <2>2. s \in Known /\ signals[s] \in Row
    BY DEF NextPending, WithStatus, Known, SafetyInv, TypeOK
  <2>3. /\ signals' = [signals EXCEPT ![s] = row] /\ row.status = "PROCESSING"
        /\ row.id = signals[s].id /\ row.symbol_normalized = signals[s].symbol_normalized
    BY <2>1, <2>2 DEF Row
  <2> HIDE DEF row
  <2>4. s = t => RowMoved(t)
    BY <1>3, <2>2, <2>3 DEF RowMoved, Known
  <2> QED
    BY <2>2, <2>3, <2>4, OneRowMoved
<1>4. CASE SetSymbolNormalized
  <2> DEFINE row == [signals[job.signal] EXCEPT !.symbol_normalized = SymbolMap[Payload.symbol]]
  <2>1. job.signal \in Known /\ signals[job.signal] \in Row
    BY <1>4, JobInStage DEF SetSymbolNormalized, Stages, DatabaseStages
  <2>2. /\ signals' = [signals EXCEPT ![job.signal] = row]
        /\ row.status = signals[job.signal].status /\ row.id = signals[job.signal].id
        /\ row.symbol_normalized = SymbolMap[Payload.symbol]
    BY <1>4, <2>1 DEF SetSymbolNormalized, Row
  <2> HIDE DEF row
  <2>3. job.signal = t => RowMoved(t)
    BY <1>4, <2>1, <2>2 DEF RowMoved, Known
  <2> QED
    BY <2>1, <2>2, <2>3, OneRowMoved
<1>5. CASE SettleSignal
  <2> DEFINE row == [signals[job.signal] EXCEPT !.status = job.verdict]
  <2>1. /\ job.signal \in Known /\ signals[job.signal] \in Row
        /\ signals[job.signal].status = "PROCESSING"
    BY <1>5, JobInStage DEF SettleSignal, Stages, DatabaseStages, SafetyInv, JobOK
  <2>2. /\ signals' = [signals EXCEPT ![job.signal] = row]
        /\ row.status = job.verdict /\ row.id = signals[job.signal].id
        /\ row.symbol_normalized = signals[job.signal].symbol_normalized
    BY <1>5, <2>1 DEF SettleSignal, update_signal_status, Row
  <2> HIDE DEF row
  <2>3. job.signal = t => RowMoved(t)
    BY <1>5, <2>1, <2>2 DEF RowMoved, Known
  <2> QED
    BY <2>1, <2>2, <2>3, OneRowMoved
<1>6. ASSUME NEW s \in Signals, Reconcile(s) PROVE RowMoved(t)
  <2>1. PICK up, answered :
          signals' = [signals EXCEPT ![s].status = ReconcileVerdict(s, up, answered)]
    BY <1>6 DEF Reconcile, update_signal_status
  <2> DEFINE row == [signals[s] EXCEPT !.status = ReconcileVerdict(s, up, answered)]
  <2>2. s \in Known /\ signals[s] \in Row /\ signals[s].status = "PROCESSING"
    BY <1>6 DEF Reconcile, SafetyInv, RecoveryOK, TypeOK
  <2>3. /\ signals' = [signals EXCEPT ![s] = row]
        /\ row.status \in {"RECOVERED_EXECUTED", "REVIEW_REQUIRED"} /\ row.id = signals[s].id
        /\ row.symbol_normalized = signals[s].symbol_normalized
    BY <2>1, <2>2 DEF Row, ReconcileVerdict
  <2> HIDE DEF row
  <2>4. s = t => RowMoved(t)
    BY <2>2, <2>3 DEF RowMoved, Known
  <2> QED
    BY <2>2, <2>3, <2>4, OneRowMoved
<1>7. CASE Work
  <2>1. \/ ClaimNextPending \/ SetSymbolNormalized \/ SettleSignal \/ UNCHANGED signals
    BY <1>7 DEF Work, StartProcessing, IdentifyAccount, CheckMarket, QueryPositions,
       SizeOrder, CheckOrder, SendOrder, RecordReply, FinishExecution, AbandonJob, store
  <2> QED
    BY <1>1, <1>3, <1>4, <1>5, <2>1
<1>8. CASE Lifecycle \/ Stop \/ Crash
  <2>1. (\E s \in Signals : Reconcile(s)) \/ UNCHANGED signals
    BY <1>8 DEF Lifecycle, Boot, StartWorker, FailStart, ShutdownGateway, CloseStore, Exit, Stop, Crash
  <2> QED
    BY <1>1, <1>6, <2>1
<1>9. CASE World
  BY <1>1, <1>9, WorldKeepsOrders DEF process, store
<1>10. CASE UNCHANGED vars
  BY <1>1, <1>10 DEF vars, store
<1> QED
  BY <1>2, <1>7, <1>8, <1>9, <1>10 DEF Next

\* A row is added by a submission only, at the end of the queue.
LEMMA RowsAdded ==
  ASSUME SafetyInv, [Next]_vars, NEW t \in Known' \ Known
  PROVE  /\ Known' = Known \cup {t} /\ signals'[t].status = "PENDING"
         /\ signals'[t].id = Cardinality(Known) + 1
         /\ signals'[t].symbol_normalized = NoValue
<1>1. ASSUME UNCHANGED signals PROVE FALSE
  BY <1>1 DEF Known
<1>2. ASSUME NEW s \in Known, NEW row, signals' = [signals EXCEPT ![s] = row] PROVE FALSE
  BY <1>2 DEF Known, SafetyInv, TypeOK
<1>3. ASSUME NEW s \in Signals, NEW p \in Payloads, Submit(s, p)
      PROVE  /\ Known' = Known \cup {t} /\ signals'[t].status = "PENDING"
             /\ signals'[t].id = Cardinality(Known) + 1
             /\ signals'[t].symbol_normalized = NoValue
  <2>1. signals' = insert_signal_if_new(s, p)
    BY <1>3 DEF Submit
  <2>2. Known' = Known \cup {s}
    BY <2>1 DEF insert_signal_if_new, Known
  <2>3. t = s /\ signals'[t] = NewRow(p)
    BY <2>1, <2>2 DEF insert_signal_if_new, Known
  <2> QED
    BY <2>2, <2>3 DEF NewRow, Known
<1>4. CASE ~\E s \in Signals, p \in Payloads : Submit(s, p)
  <2>1. Known' = Known
    BY <1>4 DEF Next, vars, Work, ClaimNextPending, StartProcessing, SetSymbolNormalized,
       IdentifyAccount, CheckMarket, QueryPositions, SizeOrder, CheckOrder, SendOrder, RecordReply,
       FinishExecution, SettleSignal, AbandonJob, Lifecycle, Boot, StartWorker, FailStart,
       ShutdownGateway, CloseStore, Exit, Reconcile, Stop, Crash, World, FillOrder, VoidOrder,
       ClosePosition, MoveEquity, SwitchAccount, Tick, process, store, update_signal_status, Known
  <2> QED
    BY <2>1
<1> QED
  BY <1>3, <1>4

----------------------------------------------------------------------------
(* The verdict and the ticket                                               *)

\* The row of a running job is its own; a fill it was told of has a ticket; the row
\* has the verdict before the signal gets it.
JobRecordOK ==
  job # Idle /\ job.stage # "start" =>
    /\ executions[job.exec].signal = job.signal
    /\ job.stage = "record" /\ job.reply \in Fills => TicketOf(job.ticket, job.signal)
    /\ job.stage = "finish" /\ job.verdict \in Executions =>
         job.reply \in Fills /\ TicketOf(job.ticket, job.signal)
    /\ job.stage = "settle" => executions[job.exec].status = job.verdict

\* A row that says executed has the ticket of an order of its signal.
RowsOK ==
  \A i \in DOMAIN executions : executions[i].status \in Executions =>
    TicketOf(executions[i].order_ticket, executions[i].signal)

\* A signal the pipeline settled has a row with its status.
AuditOK ==
  \A s \in Known : signals[s].status \in Settled \ {"RECOVERED_EXECUTED", "REVIEW_REQUIRED"} =>
    \E i \in ExecutionsOf(s) : executions[i].status = signals[s].status

RecordInv == JobRecordOK /\ RowsOK /\ AuditOK

\* Before the send no check can end the job with a trade.
LEMMA NoTradeBeforeSend ==
  ASSUME SafetyInv, SafetyInv', UNCHANGED book, job # Idle, job.stage \in Unsent,
         job' # Idle, job'.signal = job.signal, job'.stage = "finish"
  PROVE  job'.verdict \notin Executions
<1>1. OrdersOf(job.signal) = {}
  BY DEF SafetyInv, JobOK
<1>2. \A i \in DOMAIN book : book[i].signal # job.signal
  BY <1>1 DEF OrdersOf
<1>3. job'.verdict \in Executions => FilledOrderOf(job.signal)'
  BY DEF SafetyInv, JobOK
<1> QED
  BY <1>2, <1>3 DEF FilledOrderOf, OrdersOf

\* What the job knows of its row and its ticket stays true.
LEMMA JobRecordStep ==
  ASSUME SafetyInv, JobRecordOK, [Next]_vars
  PROVE  JobRecordOK'
<1>1. SafetyInv'
  BY NextSafety
<1>2. ASSUME job' = Idle PROVE JobRecordOK'
  BY <1>2 DEF JobRecordOK
<1>3. CASE ~Work
  <2>1. UNCHANGED executions /\ job' \in {job, Idle}
    BY <1>3, OthersKeepJob
  <2>2. CASE job' = job
    BY <2>1, <2>2, TicketsStay DEF JobRecordOK, TicketOf
  <2> QED
    BY <1>2, <2>1, <2>2
<1>4. CASE ClaimNextPending
  BY <1>4 DEF ClaimNextPending, JobRecordOK
<1>5. CASE StartProcessing
  <2>1. /\ executions'[job'.exec].signal = job'.signal /\ UNCHANGED book
        /\ job.stage = "start" /\ job # Idle /\ job'.signal = job.signal
        /\ job'.stage \in {"symbol", "finish"}
    BY <1>5, StartWrites
  <2> QED
    BY <1>1, <2>1, NoTradeBeforeSend DEF JobRecordOK, Unsent
<1>6. CASE SetSymbolNormalized \/ CheckMarket \/ QueryPositions \/ SizeOrder \/ CheckOrder
  <2>1. CASE job' = Idle
    BY <1>2, <2>1
  <2>2. CASE job' # Idle
    <3>1. /\ UNCHANGED <<executions, book>> /\ job # Idle /\ job.stage \in Unsent \ {"start"}
          /\ job'.signal = job.signal /\ job'.exec = job.exec
          /\ job'.stage \in {"account", "positions", "size", "check", "send", "finish"}
      BY <1>6, <2>2, CheckingStages
    <3> QED
      BY <1>1, <2>2, <3>1, NoTradeBeforeSend DEF JobRecordOK
  <2> QED
    BY <2>1, <2>2
<1>7. CASE IdentifyAccount
  <2>1. job # Idle /\ job.stage = "account" /\ UNCHANGED book
    BY <1>7, JobInStage DEF IdentifyAccount, Stages, DatabaseStages, broker
  <2>2. /\ executions'[job.exec].signal = executions[job.exec].signal
        /\ job' # Idle /\ job'.signal = job.signal /\ job'.exec = job.exec
        /\ job'.stage \in {"market", "finish"}
    BY <1>7, AccountWrites DEF ExecutionKept
  <2> QED
    BY <1>1, <2>1, <2>2, NoTradeBeforeSend DEF JobRecordOK, Unsent
<1>8. CASE SendOrder
  <2>1. /\ job.stage = "send" /\ job'.stage = "record" /\ job'.signal = job.signal
        /\ job'.exec = job.exec /\ UNCHANGED executions
    BY <1>8, SendResult
  <2>2. executions'[job'.exec].signal = job'.signal
    BY <2>1 DEF JobRecordOK, Idle
  <2>3. job'.reply \in Fills => TicketOf(job.ticket, job.signal)'
    <3> SUFFICES ASSUME job'.reply \in Fills PROVE TicketOf(job.ticket, job.signal)'
      OBVIOUS
    <3>1. /\ Len(book) + 1 \in DOMAIN book' /\ book'[Len(book) + 1].signal = job.signal
          /\ book'[Len(book) + 1].fill = "on_send" /\ job'.ticket = Len(book) + 1
      BY <1>8, SendResult
    <3> QED
      BY <2>1, <3>1 DEF TicketOf
  <2> QED
    BY <2>1, <2>2, <2>3 DEF JobRecordOK
<1>9. CASE RecordReply
  <2>1. job # Idle /\ UNCHANGED book
    BY <1>9, JobInStage DEF RecordReply, Stages, DatabaseStages
  <2>2. /\ executions'[job.exec].signal = executions[job.exec].signal
        /\ job.stage = "record" /\ job'.signal = job.signal /\ job'.exec = job.exec
        /\ job'.stage = "finish" /\ job'.reply = job.reply /\ job'.ticket = job.ticket
        /\ job'.verdict = SendVerdict(job.reply)
    BY <1>9, RecordWrites DEF ExecutionKept
  <2>3. SendVerdict(job.reply) \in Executions => job.reply \in Fills
    BY DEF SendVerdict, Executions, Fills
  <2> QED
    BY <2>1, <2>2, <2>3 DEF JobRecordOK, TicketOf
<1>10. CASE FinishExecution
  <2>1. job # Idle /\ job.stage = "finish"
    BY <1>10, JobInStage DEF FinishExecution, Stages, DatabaseStages
  <2>2. /\ executions'[job.exec].signal = executions[job.exec].signal
        /\ executions'[job.exec].status = job.verdict /\ job'.stage = "settle"
        /\ job'.verdict = job.verdict /\ job'.signal = job.signal /\ job'.exec = job.exec
    BY <1>10, FinishWrites DEF ExecutionKept
  <2> QED
    BY <2>1, <2>2 DEF JobRecordOK
<1>11. CASE SettleSignal \/ AbandonJob
  BY <1>2, <1>11 DEF SettleSignal, AbandonJob
<1> QED
  BY <1>3, <1>4, <1>5, <1>6, <1>7, <1>8, <1>9, <1>10, <1>11 DEF Work

\* Rows are added as PROCESSING; a row gets the verdict from the job that knows its
\* ticket.
LEMMA RowsStep ==
  ASSUME SafetyInv, JobRecordOK, RowsOK, [Next]_vars
  PROVE  RowsOK'
<1>1. ASSUME NEW i \in DOMAIN executions, executions'[i].status \in Executions,
             executions'[i].status = executions[i].status,
             executions'[i].order_ticket = executions[i].order_ticket
      PROVE  TicketOf(executions[i].order_ticket, executions[i].signal)'
  <2>1. TicketOf(executions[i].order_ticket, executions[i].signal)
    BY <1>1 DEF RowsOK
  <2>2. executions'[i].signal = executions[i].signal
    BY ExecutionsKept DEF ExecutionKept
  <2> QED
    BY <1>1, <2>1, <2>2, TicketsStay DEF TicketOf
<1>2. CASE UNCHANGED executions
  BY <1>1, <1>2 DEF RowsOK
<1>3. CASE StartProcessing
  <2>1. "PROCESSING" \notin Executions
    BY DEF Executions
  <2> QED
    BY <1>1, <1>3, <2>1, StartWrites DEF RowsOK
<1>4. ASSUME DOMAIN executions' = DOMAIN executions,
             \A i \in DOMAIN executions : ExecutionKept(i),
             executions'[job.exec].status = executions[job.exec].status,
             executions'[job.exec].order_ticket = executions[job.exec].order_ticket
      PROVE  RowsOK'
  BY <1>1, <1>4 DEF RowsOK, ExecutionKept
<1>5. CASE FinishExecution
  <2>1. /\ DOMAIN executions' = DOMAIN executions
        /\ \A i \in DOMAIN executions : ExecutionKept(i)
        /\ executions'[job.exec].status = job.verdict /\ job.exec \in DOMAIN executions
        /\ job.reply \in Fills => executions'[job.exec].order_ticket = job.ticket
        /\ job.stage = "finish"
    BY <1>5, FinishWrites
  <2>2. job # Idle /\ UNCHANGED book
    BY <1>5, <2>1 DEF Idle, FinishExecution
  <2>3. /\ executions[job.exec].signal = job.signal
        /\ job.verdict \in Executions => job.reply \in Fills /\ TicketOf(job.ticket, job.signal)
    BY <2>1, <2>2 DEF JobRecordOK
  <2>4. executions'[job.exec].status \in Executions =>
          TicketOf(executions[job.exec].order_ticket, executions[job.exec].signal)'
    <3>1. executions'[job.exec].signal = job.signal
      BY <2>1, <2>3 DEF ExecutionKept
    <3>2. job' # Idle /\ job'.exec = job.exec
      BY <1>5, FinishWrites
    <3> QED
      BY <2>1, <2>2, <2>3, <3>1, <3>2 DEF TicketOf
  <2>5. ASSUME NEW i \in DOMAIN executions, i # job.exec, executions'[i].status \in Executions
        PROVE  TicketOf(executions[i].order_ticket, executions[i].signal)'
    <3>1. executions'[i] = executions[i]
      BY <2>1, <2>5 DEF ExecutionKept
    <3> QED
      BY <1>1, <2>5, <3>1
  <2>6. job' # Idle /\ job'.exec = job.exec
    BY <1>5, FinishWrites
  <2> QED
    BY <2>1, <2>4, <2>5, <2>6 DEF RowsOK
<1>6. \/ StartProcessing \/ IdentifyAccount \/ RecordReply \/ FinishExecution
      \/ UNCHANGED executions
  <2>1. CASE Work
    BY <2>1, CheckingStages DEF Work, ClaimNextPending, SendOrder, SettleSignal, AbandonJob, store
  <2>2. CASE ~Work
    BY <2>2, OthersKeepJob
  <2> QED
    BY <2>1, <2>2
<1> QED
  BY <1>2, <1>3, <1>4, <1>5, <1>6, AccountWrites, RecordWrites

\* Only the job of a signal settles it, with the verdict its row already has.
LEMMA AuditStep ==
  ASSUME SafetyInv, JobRecordOK, AuditOK, [Next]_vars
  PROVE  AuditOK'
<1> DEFINE Audited == Settled \ {"RECOVERED_EXECUTED", "REVIEW_REQUIRED"}
<1> SUFFICES ASSUME NEW s \in Known', signals'[s].status \in Audited
             PROVE  \E i \in ExecutionsOf(s)' : executions'[i].status = signals'[s].status
  BY DEF AuditOK
<1>1. "PENDING" \notin Audited /\ "PROCESSING" \notin Audited
  BY DEF Settled
<1>2. s \in Known
  BY <1>1, RowsAdded
<1>3. RowMoved(s)
  BY <1>2, RowsMove
<1>4. CASE signals'[s].status = signals[s].status
  <2>1. PICK i \in ExecutionsOf(s) : executions[i].status = signals[s].status
    BY <1>2, <1>4 DEF AuditOK
  <2>2. i \in DOMAIN executions /\ executions[i].signal = s
    BY <2>1 DEF ExecutionsOf
  <2>3. ExecutionKept(i)
    BY <2>2, ExecutionsKept
  <2>4. executions'[i] = executions[i]
    <3> SUFFICES ASSUME job # Idle, i = job.exec, job.stage \in {"account", "record", "finish"}
                 PROVE  FALSE
      BY <2>3 DEF ExecutionKept
    <3>1. job.signal = s /\ signals[s].status = "PROCESSING"
      BY <2>2 DEF JobRecordOK, SafetyInv, JobOK
    <3> QED
      BY <1>1, <1>4, <3>1
  <2>5. i \in ExecutionsOf(s)'
    BY <2>2, <2>3, <2>4 DEF ExecutionsOf, ExecutionKept
  <2> QED
    BY <1>4, <2>1, <2>4, <2>5
<1>5. CASE SettleSignal /\ s = job.signal /\ signals'[s].status = job.verdict
  <2>1. job # Idle /\ job.stage = "settle" /\ UNCHANGED executions
    BY <1>5, JobInStage DEF SettleSignal, Stages, DatabaseStages
  <2>2. /\ executions[job.exec].signal = s /\ executions[job.exec].status = job.verdict
        /\ job.exec \in DOMAIN executions
    BY <1>5, <2>1 DEF JobRecordOK, SafetyInv, JobOK
  <2>3. PICK i \in DOMAIN executions : i = job.exec
    BY <2>2
  <2>4. i \in ExecutionsOf(s)'
    BY <2>1, <2>2, <2>3 DEF ExecutionsOf
  <2> QED
    BY <1>5, <2>1, <2>2, <2>3, <2>4
<1> QED
  BY <1>1, <1>3, <1>4, <1>5 DEF RowMoved

\* RecordInv is inductive.
LEMMA RecordsCorrect == Spec => []RecordInv
<1>1. Init => RecordInv
  BY DEF Init, RecordInv, JobRecordOK, RowsOK, AuditOK, Known
<1>2. SafetyInv /\ RecordInv /\ [Next]_vars => RecordInv'
  BY JobRecordStep, RowsStep, AuditStep DEF RecordInv
<1> QED
  BY <1>1, <1>2, SafetyCorrect, PTL DEF Spec

\* Both tables agree on what the pipeline settled, and an executed row names an order
\* of its signal.
THEOREM TablesAgree == Spec => []AuditAgrees
<1>1. RecordInv => AuditAgrees
  <2> SUFFICES ASSUME RecordInv, NEW s \in Known,
                      signals[s].status \in Settled \ {"RECOVERED_EXECUTED", "REVIEW_REQUIRED"}
               PROVE  \E i \in ExecutionsOf(s) :
                        /\ executions[i].status = signals[s].status
                        /\ signals[s].status \in Executions =>
                             book[executions[i].order_ticket].signal = s
    BY DEF AuditAgrees
  <2>1. PICK i \in ExecutionsOf(s) : executions[i].status = signals[s].status
    BY DEF RecordInv, AuditOK
  <2>2. executions[i].status \in Executions => book[executions[i].order_ticket].signal = s
    BY <2>1 DEF RecordInv, RowsOK, TicketOf, ExecutionsOf
  <2> QED
    BY <2>1, <2>2
<1> QED
  BY <1>1, RecordsCorrect, PTL

----------------------------------------------------------------------------
(* The queue                                                                *)

\* Ids count the rows, so a new row is the youngest.
QueueInv == QueueOrder /\ \A s \in Known : signals[s].id \in 1 .. Cardinality(Known)

\* A row that has left the queue does not come back to it.
LEMMA QueueLeft ==
  ASSUME SafetyInv, [Next]_vars, NEW t \in Known, signals'[t].status = "PENDING"
  PROVE  signals[t].status = "PENDING"
<1>1. SettleSignal => job.verdict # "PENDING"
  <2> SUFFICES ASSUME SettleSignal PROVE job.verdict \in Settled
    BY DEF Settled
  <2>1. job # Idle /\ job.stage = "settle"
    BY JobInStage DEF SettleSignal, Stages, DatabaseStages
  <2> QED
    BY <2>1 DEF SafetyInv, JobOK
<1> QED
  BY <1>1, RowsMove DEF RowMoved

LEMMA QueueStep ==
  ASSUME SafetyInv, QueueInv, [Next]_vars
  PROVE  QueueInv'
<1>1. IsFiniteSet(Known) /\ Cardinality(Known) \in Nat
  BY SignalsAssumption, FS_Subset, FS_CardinalityType DEF SafetyInv, TypeOK
<1>2. \A t \in Known : t \in Known' /\ signals'[t].id = signals[t].id
  BY RowsMove DEF RowMoved
<1>3. \A t \in Known' : signals'[t].id \in 1 .. Cardinality(Known')
  <2>1. CASE Known' = Known
    BY <1>2, <2>1 DEF QueueInv
  <2>2. CASE Known' # Known
    <3>1. PICK t \in Known' : t \notin Known
      BY <1>2, <2>2
    <3>2. Known' = Known \cup {t} /\ signals'[t].id = Cardinality(Known) + 1
      BY <3>1, RowsAdded
    <3>3. Cardinality(Known') = Cardinality(Known) + 1
      BY <1>1, <3>1, <3>2, FS_AddElement
    <3>4. \A u \in Known : signals'[u].id \in 1 .. Cardinality(Known)
      BY <1>2 DEF QueueInv
    <3> QED
      BY <1>1, <3>2, <3>3, <3>4
  <2> QED
    BY <2>1, <2>2
<1>4. ASSUME NEW s \in Known', NEW t \in Known', signals'[s].id < signals'[t].id,
             signals'[t].status # "PENDING"
      PROVE  signals'[s].status # "PENDING"
  <2>1. t \in Known
    BY <1>4, RowsAdded
  <2>2. signals[t].id \in 1 .. Cardinality(Known) /\ signals'[t].id = signals[t].id
    BY <1>2, <2>1 DEF QueueInv
  <2>3. s \in Known
    <3> SUFFICES ASSUME s \notin Known PROVE FALSE
      OBVIOUS
    <3>1. signals'[s].id = Cardinality(Known) + 1
      BY RowsAdded
    <3> QED
      BY <1>1, <1>4, <2>2, <3>1
  <2>4. signals[s].id \in 1 .. Cardinality(Known) /\ signals'[s].id = signals[s].id
    BY <1>2, <2>3 DEF QueueInv
  <2>5. CASE signals[t].status # "PENDING"
    BY <1>4, <2>1, <2>2, <2>3, <2>4, <2>5, QueueLeft DEF QueueInv, QueueOrder
  <2>6. CASE signals[t].status = "PENDING"
    <3>1. t \in NextPending
      BY <1>4, <2>1, <2>6, RowsMove DEF RowMoved
    <3>2. signals[s].status = "PENDING" => signals[t].id <= signals[s].id
      BY <2>3, <3>1 DEF NextPending, WithStatus, Known
    <3> QED
      BY <1>1, <1>4, <2>2, <2>3, <2>4, <3>2, QueueLeft
  <2> QED
    BY <2>5, <2>6
<1> QED
  BY <1>3, <1>4 DEF QueueInv, QueueOrder

\* Signals are started in the order they were accepted, across restarts.
THEOREM OldestFirst == Spec => []QueueOrder
<1>1. Init => QueueInv
  BY DEF Init, QueueInv, QueueOrder, Known
<1>2. SafetyInv /\ QueueInv /\ [Next]_vars => QueueInv'
  BY QueueStep
<1>3. QueueInv => QueueOrder
  BY DEF QueueInv
<1> QED
  BY <1>1, <1>2, <1>3, SafetyCorrect, PTL DEF Spec

----------------------------------------------------------------------------
(* The symbol                                                               *)

\* A run past its mapping: at a later stage, or ended by a check of a later stage.
MappedJob ==
  /\ job # Idle /\ job.stage \notin {"start", "symbol"}
  /\ job.stage \in {"finish", "settle"} => job.verdict \notin MayBeUnmapped

\* Past the mapping, the symbol of a job is stored; executions rows are of stored signals.
SymbolInv ==
  /\ SymbolOnRecord
  /\ MappedJob => SymbolStored(job.signal)
  /\ \A i \in DOMAIN executions : executions[i].signal \in Known

\* A stored symbol is not written over with another one.
LEMMA SymbolStays ==
  ASSUME SafetyInv, [Next]_vars, NEW t \in Known, SymbolStored(t)
  PROVE  SymbolStored(t)'
<1>1. signals'[t].payload = signals[t].payload
  BY RowsKept
<1>2. \/ signals'[t].symbol_normalized = signals[t].symbol_normalized
      \/ t = job.signal /\ signals'[t].symbol_normalized = SymbolMap[Payload.symbol]
  BY RowsMove DEF RowMoved
<1> QED
  BY <1>1, <1>2 DEF SymbolStored, Payload

\* The start ends a job without a mapping only with a status that says so.
LEMMA StartUnmapped ==
  ASSUME SafetyInv, StartProcessing
  PROVE  ~MappedJob'
<1>1. job \in Job /\ job.stage = "start"
  BY JobInStage DEF StartProcessing, Stages, DatabaseStages
<1> DEFINE Fresh == CheckFreshness(Payload.timestamp, settings.max_signal_age_seconds, utc)
           Enabled == Require(IF Payload.action = "BUY" THEN settings.allow_market_buy
                              ELSE settings.allow_market_sell, "REJECTED_RISK")
           Mapped == Require(Payload.symbol \in DOMAIN SymbolMap, "REJECTED_SYMBOL")
           verdict == Fresh \odot Enabled \odot Mapped
<1>2. verdict \in MayBeUnmapped \cup {"ok"}
  <2>1. Fresh \in {"ok", "REJECTED_STALE", "REJECTED_FUTURE_TIMESTAMP"}
    BY DEF CheckFreshness, Require, \odot
  <2>2. Enabled \in {"ok", "REJECTED_RISK"} /\ Mapped \in {"ok", "REJECTED_SYMBOL"}
    BY DEF Require
  <2> HIDE DEF Fresh, Enabled, Mapped
  <2> QED
    BY <2>1, <2>2 DEF \odot, MayBeUnmapped
<1>3. Continue([job EXCEPT !.exec = Len(executions')], verdict, "symbol")
  BY DEF StartProcessing
<1> HIDE DEF verdict
<1>4. job'.stage = "symbol" \/ (job'.stage = "finish" /\ job'.verdict = verdict /\ verdict # "ok")
  BY <1>1, <1>3 DEF Continue, Job
<1> QED
  BY <1>2, <1>4 DEF MappedJob

\* Every other step that leaves a mapped job has found one, or has just stored its symbol.
LEMMA MappedBefore ==
  ASSUME SafetyInv, [Next]_vars, MappedJob'
  PROVE  /\ job # Idle /\ job'.signal = job.signal /\ job.signal \in Known
         /\ MappedJob \/ SetSymbolNormalized
<1>1. job' # Idle
  BY DEF MappedJob
<1>2. CASE ~Work
  <2>1. job' = job
    BY <1>1, <1>2, OthersKeepJob
  <2> QED
    BY <1>1, <2>1, JobHasType DEF MappedJob
<1>3. CASE SetSymbolNormalized \/ CheckMarket \/ QueryPositions \/ SizeOrder \/ CheckOrder
  <2>1. /\ job # Idle /\ job.stage \in Unsent \ {"start", "send", "account"}
        /\ job'.signal = job.signal
    BY <1>1, <1>3, CheckingStages
  <2>2. SetSymbolNormalized \/ job.stage # "symbol"
    BY <1>3, <2>1 DEF CheckMarket, QueryPositions, SizeOrder, CheckOrder, InStage
  <2> QED
    BY <2>1, <2>2, JobHasType DEF MappedJob, Unsent
<1>4. CASE IdentifyAccount
  <2>1. job # Idle /\ job.stage = "account" /\ job'.signal = job.signal
    BY <1>4, JobInStage, AccountWrites DEF IdentifyAccount, Stages, DatabaseStages
  <2> QED
    BY <2>1, JobHasType DEF MappedJob
<1>5. CASE SendOrder
  <2>1. job # Idle /\ job.stage = "send" /\ job'.signal = job.signal
    BY <1>5, SendResult DEF Idle
  <2> QED
    BY <2>1, JobHasType DEF MappedJob
<1>6. CASE RecordReply
  <2>1. job # Idle /\ job.stage = "record" /\ job'.signal = job.signal
    BY <1>6, RecordWrites DEF Idle
  <2> QED
    BY <2>1, JobHasType DEF MappedJob
<1>7. CASE FinishExecution
  <2>1. /\ job # Idle /\ job.stage = "finish" /\ job'.signal = job.signal
        /\ job'.stage = "settle" /\ job'.verdict = job.verdict
    BY <1>7, FinishWrites DEF Idle
  <2> QED
    BY <2>1, JobHasType DEF MappedJob
<1>8. CASE ClaimNextPending \/ SettleSignal \/ AbandonJob
  <2>1. ClaimNextPending => job'.stage = "start"
    BY DEF ClaimNextPending
  <2> QED
    BY <1>1, <1>8, <2>1 DEF SettleSignal, AbandonJob, MappedJob
<1>9. ~StartProcessing
  BY StartUnmapped
<1> QED
  BY <1>2, <1>3, <1>4, <1>5, <1>6, <1>7, <1>8, <1>9 DEF Work

LEMMA MappedJobStep ==
  ASSUME SafetyInv, SymbolInv, [Next]_vars, MappedJob'
  PROVE  SymbolStored(job.signal)'
<1>1. PICK t \in Known : t = job.signal /\ t = job'.signal
  BY MappedBefore
<1>2. CASE MappedJob
  <2>1. SymbolStored(t)
    BY <1>1, <1>2 DEF SymbolInv
  <2>2. SymbolStored(t)'
    BY <2>1, SymbolStays
  <2> QED
    BY <1>1, <2>2 DEF SymbolStored
<1>3. CASE SetSymbolNormalized
  <2>1. job.stage = "symbol" /\ job # Idle /\ signals[t] \in Row
    BY <1>1, <1>3, JobInStage DEF SetSymbolNormalized, Stages, DatabaseStages
  <2>2. Payload.symbol \in DOMAIN SymbolMap
    BY <2>1 DEF SafetyInv, JobOK, Unsent
  <2>3. signals'[t].symbol_normalized = SymbolMap[Payload.symbol]
    BY <1>1, <1>3, <2>1 DEF SetSymbolNormalized, SafetyInv, TypeOK, Known, Row
  <2>4. signals'[t].payload = Payload
    BY <1>1, RowsKept DEF Payload
  <2> QED
    BY <1>1, <2>2, <2>3, <2>4 DEF SymbolStored
<1> QED
  BY <1>2, <1>3, MappedBefore

\* What can take a signal past its mapping is a step of its own job, past it already.
LEMMA PastByJob ==
  ASSUME SafetyInv, SafetyInv', JobRecordOK, SymbolInv, [Next]_vars, NEW t \in Known,
         ~PastMapping(t), PastMapping(t)'
  PROVE  MappedJob /\ t = job.signal
<1>1. CASE signals'[t].status \notin MayBeUnmapped
  <2>1. /\ signals[t].status \in MayBeUnmapped /\ OrdersOf(t) = {}
        /\ "PROCESSING" \in MayBeUnmapped /\ "REVIEW_REQUIRED" \in MayBeUnmapped
    BY DEF PastMapping, MayBeUnmapped
  <2>2. RowMoved(t)
    BY RowsMove
  <2>3. CASE SettleSignal /\ t = job.signal /\ signals'[t].status = job.verdict
    <3>1. job # Idle /\ job.stage = "settle"
      BY <2>3, JobInStage DEF SettleSignal, Stages, DatabaseStages
    <3> QED
      BY <1>1, <2>3, <3>1 DEF MappedJob
  <2>4. CASE signals'[t].status = "RECOVERED_EXECUTED" /\ signals[t].status = "PROCESSING"
    <3>1. PICK i \in OrdersOf(t)' : TRUE
      <4>1. signals'[t].status \in Executions /\ t \in Known'
        BY <2>2, <2>4 DEF Executions, RowMoved
      <4> QED
        BY <4>1 DEF SafetyInv, ExecutedMeansFilled
    <3>2. SendOrder
      <4>1. i \in DOMAIN book' /\ book'[i].signal = t
        BY <3>1 DEF OrdersOf
      <4>2. i \notin DOMAIN book
        <5> SUFFICES ASSUME i \in DOMAIN book PROVE FALSE
          OBVIOUS
        <5>1. book[i].signal = t
          BY <4>1, OrdersStay DEF OrderKept
        <5> QED
          BY <2>1, <5>1 DEF OrdersOf
      <4> QED
        BY <4>1, <4>2, OthersKeepJob, WorkKeepsWorld
    <3>3. UNCHANGED signals
      BY <3>2 DEF SendOrder, store
    <3> QED
      BY <1>1, <2>1, <3>3
  <2> QED
    BY <1>1, <2>1, <2>2, <2>3, <2>4 DEF RowMoved
<1>2. CASE OrdersOf(t)' # {}
  <2>1. PICK i \in DOMAIN book' : book'[i].signal = t
    BY <1>2 DEF OrdersOf
  <2>2. i \notin DOMAIN book
    <3> SUFFICES ASSUME i \in DOMAIN book PROVE FALSE
      OBVIOUS
    <3>1. book[i].signal = t
      BY <2>1, OrdersStay DEF OrderKept
    <3> QED
      BY <3>1 DEF OrdersOf, PastMapping
  <2>3. SendOrder
    BY <2>1, <2>2, OthersKeepJob, WorkKeepsWorld
  <2>4. i = Len(book) + 1 /\ book'[i].signal = job.signal /\ job.stage = "send" /\ job # Idle
    BY <2>1, <2>2, <2>3, SendResult DEF Idle
  <2> QED
    BY <2>1, <2>4 DEF MappedJob
<1>3. CASE \E i \in ExecutionsOf(t)' : executions'[i].account_key # NoValue
  <2>1. PICK i \in DOMAIN executions' : executions'[i].signal = t /\ executions'[i].account_key # NoValue
    BY <1>3 DEF ExecutionsOf
  <2>2. i \in DOMAIN executions
    <3> SUFFICES ASSUME i \notin DOMAIN executions PROVE FALSE
      OBVIOUS
    <3>1. StartProcessing
      <4>1. CASE ~Work
        BY <2>1, <4>1, OthersKeepJob
      <4> QED
        BY <2>1, <4>1, CheckingStages, AccountWrites, RecordWrites, FinishWrites
        DEF Work, ClaimNextPending, SendOrder, SettleSignal, AbandonJob, store
    <3> QED
      BY <2>1, <3>1, StartWrites
  <2>3. executions[i].signal = t /\ executions[i].account_key = NoValue
    <3>1. executions[i].signal = t
      BY <2>1, <2>2, ExecutionsKept DEF ExecutionKept
    <3> QED
      BY <2>2, <3>1 DEF PastMapping, ExecutionsOf
  <2>4. job # Idle /\ i = job.exec /\ job.stage \in {"account", "record", "finish"}
    BY <2>1, <2>2, <2>3, ExecutionsKept DEF ExecutionKept
  <2>5. job.signal = t
    BY <2>3, <2>4 DEF JobRecordOK
  <2>6. job.stage # "finish"
    <3> SUFFICES ASSUME job.stage = "finish" PROVE FALSE
      OBVIOUS
    <3>1. CASE ~Work
      BY <2>1, <2>3, <3>1, OthersKeepJob
    <3>2. CASE FinishExecution
      BY <2>1, <2>3, <2>4, <3>2, FinishWrites
    <3>3. CASE Work /\ ~FinishExecution
      <4>1. UNCHANGED executions
        BY <2>4, <3>3 DEF Work, ClaimNextPending, StartProcessing, SetSymbolNormalized,
           IdentifyAccount, CheckMarket, QueryPositions, SizeOrder, CheckOrder, SendOrder,
           RecordReply, SettleSignal, AbandonJob, store, InStage, Idle
      <4> QED
        BY <2>1, <2>3, <4>1
    <3> QED
      BY <3>1, <3>2, <3>3
  <2> QED
    BY <2>4, <2>5, <2>6 DEF MappedJob
<1> QED
  BY <1>1, <1>2, <1>3 DEF PastMapping

\* A signal just stored has no symbol, no order and no attempt.
LEMMA NewIsUnmapped ==
  ASSUME SafetyInv, SafetyInv', SymbolInv, [Next]_vars, NEW t \in Known' \ Known
  PROVE  ~PastMapping(t)' /\ signals'[t].symbol_normalized = NoValue
<1>1. signals'[t].status = "PENDING" /\ signals'[t].symbol_normalized = NoValue
  BY RowsAdded
<1>2. OrdersOf(t)' = {}
  BY <1>1 DEF SafetyInv, BookOK, OrdersOf
<1>3. UNCHANGED executions
  <2>1. ~Work
    BY DEF Work, ClaimNextPending, StartProcessing, SetSymbolNormalized, IdentifyAccount,
       CheckMarket, QueryPositions, SizeOrder, CheckOrder, SendOrder, RecordReply,
       FinishExecution, SettleSignal, AbandonJob, store, update_signal_status, Known
  <2> QED
    BY <2>1, OthersKeepJob
<1>4. ExecutionsOf(t)' = {}
  BY <1>3 DEF ExecutionsOf, SymbolInv
<1> QED
  BY <1>1, <1>2, <1>4 DEF PastMapping, MayBeUnmapped

LEMMA SymbolInvStep ==
  ASSUME SafetyInv, SafetyInv', JobRecordOK, SymbolInv, [Next]_vars
  PROVE  SymbolInv'
<1>1. ASSUME NEW t \in Known', (PastMapping(t) \/ signals[t].symbol_normalized # NoValue)'
      PROVE  SymbolStored(t)'
  <2>1. t \in Known
    BY <1>1, NewIsUnmapped
  <2>2. CASE SymbolStored(t)
    BY <2>1, <2>2, SymbolStays
  <2>3. CASE ~SymbolStored(t)
    <3>1. ~PastMapping(t) /\ signals[t].symbol_normalized = NoValue
      BY <2>1, <2>3 DEF SymbolInv, SymbolOnRecord
    <3>2. ~PastMapping(t)'
      BY <2>1, <2>3, <3>1, PastByJob DEF SymbolInv
    <3>3. SetSymbolNormalized /\ t = job.signal
      BY <1>1, <2>1, <3>1, <3>2, RowsMove DEF RowMoved
    <3>4. job # Idle /\ MappedJob' /\ job'.signal = t
      <4>1. job' # Idle /\ job'.stage = "account" /\ job'.signal = job.signal
        BY <3>3, JobInStage DEF SetSymbolNormalized, Continue, Job, Idle, Stages, DatabaseStages
      <4> QED
        BY <3>3, <4>1, JobInStage DEF SetSymbolNormalized, MappedJob, Stages, DatabaseStages
    <3>5. SymbolStored(job.signal)'
      BY <3>4, MappedJobStep
    <3> QED
      BY <3>4, <3>5 DEF SymbolStored
  <2> QED
    BY <2>2, <2>3
<1>2. ASSUME NEW i \in DOMAIN executions' PROVE executions'[i].signal \in Known'
  <2>1. CASE i \in DOMAIN executions
    BY <2>1, ExecutionsKept, RowsMove DEF ExecutionKept, SymbolInv, RowMoved
  <2>2. CASE i \notin DOMAIN executions
    <3>1. StartProcessing
      <4>1. CASE ~Work
        BY <1>2, <2>2, <4>1, OthersKeepJob
      <4> QED
        BY <1>2, <2>2, <4>1, CheckingStages, AccountWrites, RecordWrites, FinishWrites
        DEF Work, ClaimNextPending, SendOrder, SettleSignal, AbandonJob, store
    <3>2. executions'[i].signal = job.signal /\ job.signal \in Known
      BY <1>2, <2>2, <3>1, StartWrites, JobHasType
    <3> QED
      BY <3>2, RowsMove DEF RowMoved
  <2> QED
    BY <2>1, <2>2
<1> QED
  BY <1>1, <1>2, MappedJobStep DEF SymbolInv, SymbolOnRecord

\* Whatever becomes of a signal after its mapping, the mapped symbol is on its row, and no
\* row ever has another one.
THEOREM SymbolIsOnRecord == Spec => []SymbolOnRecord
<1>1. Init => SymbolInv
  BY DEF Init, SymbolInv, SymbolOnRecord, MappedJob, Known
<1>2. SafetyInv /\ SafetyInv' /\ RecordInv /\ SymbolInv /\ [Next]_vars => SymbolInv'
  BY SymbolInvStep DEF RecordInv
<1>3. SymbolInv => SymbolOnRecord
  BY DEF SymbolInv
<1> QED
  BY <1>1, <1>2, <1>3, SafetyCorrect, RecordsCorrect, PTL DEF Spec

----------------------------------------------------------------------------
(* The account                                                              *)

\* The row of a job has the key of the job.
KeyOK ==
  job # Idle => IF job.stage = "start" THEN job.key = NoValue
                ELSE executions[job.exec].account_key = job.key

LEMMA KeyStep ==
  ASSUME SafetyInv, KeyOK, [Next]_vars
  PROVE  KeyOK'
<1>1. ASSUME job' = Idle PROVE KeyOK'
  BY <1>1 DEF KeyOK
<1>2. ASSUME job # Idle, job.stage # "start", job'.stage # "start", UNCHANGED executions,
             job'.key = job.key, job'.exec = job.exec
      PROVE  KeyOK'
  BY <1>2 DEF KeyOK
<1>3. CASE ~Work
  <2>1. UNCHANGED executions /\ job' \in {job, Idle}
    BY <1>3, OthersKeepJob
  <2> QED
    BY <2>1 DEF KeyOK
<1>4. CASE ClaimNextPending
  <2>1. job'.stage = "start" /\ job'.key = NoValue
    BY <1>4 DEF ClaimNextPending
  <2> QED
    BY <2>1 DEF KeyOK
<1>5. CASE StartProcessing
  <2>1. /\ job.stage = "start" /\ job # Idle /\ job'.key = job.key /\ job'.stage # "start"
        /\ executions'[job'.exec].account_key = NoValue
    BY <1>5, StartWrites
  <2> QED
    BY <2>1 DEF KeyOK
<1>6. CASE SetSymbolNormalized \/ CheckMarket \/ QueryPositions \/ SizeOrder \/ CheckOrder
  <2>1. job # Idle /\ job.stage # "start" /\ UNCHANGED executions
    BY <1>6, CheckingStages
  <2>2. CASE job' # Idle
    <3>1. job'.key = job.key /\ job'.exec = job.exec /\ job'.stage # "start"
      BY <1>6, <2>2, CheckingStages
    <3> QED
      BY <1>2, <2>1, <3>1
  <2> QED
    BY <1>1, <2>2
<1>7. CASE IdentifyAccount
  <2>1. executions'[job'.exec].account_key = job'.key /\ job'.stage # "start"
    BY <1>7, AccountWrites
  <2> QED
    BY <2>1 DEF KeyOK
<1>8. CASE SendOrder
  <2>1. /\ job.stage = "send" /\ UNCHANGED executions /\ job'.key = job.key
        /\ job'.exec = job.exec /\ job'.stage = "record"
    BY <1>8, SendResult
  <2> QED
    BY <1>2, <2>1 DEF Idle
<1>9. CASE RecordReply
  <2>1. /\ executions'[job.exec].account_key = executions[job.exec].account_key
        /\ job'.key = job.key /\ job'.exec = job.exec /\ job.stage = "record"
        /\ job'.stage = "finish"
    BY <1>9, RecordWrites
  <2> QED
    BY <2>1 DEF KeyOK, Idle
<1>10. CASE FinishExecution
  <2>1. /\ executions'[job.exec].account_key = executions[job.exec].account_key
        /\ job'.key = job.key /\ job'.exec = job.exec /\ job.stage = "finish"
        /\ job'.stage = "settle"
    BY <1>10, FinishWrites
  <2> QED
    BY <2>1 DEF KeyOK, Idle
<1>11. CASE SettleSignal \/ AbandonJob
  BY <1>1, <1>11 DEF SettleSignal, AbandonJob
<1> QED
  BY <1>3, <1>4, <1>5, <1>6, <1>7, <1>8, <1>9, <1>10, <1>11 DEF Work

LEMMA KeysCorrect == Spec => []KeyOK
<1>1. Init => KeyOK
  BY DEF Init, KeyOK
<1> QED
  BY <1>1, KeyStep, SafetyCorrect, PTL DEF Spec

----------------------------------------------------------------------------
(* The history                                                              *)

\* No deal is stamped later than the broker's clock.
DealsInPast == \A i \in DOMAIN book : book[i].at <= BrokerNow

LEMMA DealsInPastStep ==
  ASSUME SafetyInv, DealsInPast, [Next]_vars
  PROVE  DealsInPast'
<1>1. utc \in Int /\ BrokerOffset \in Int /\ (utc' = utc \/ utc' = utc + 1)
  BY ClockAssumption, OthersKeepJob, WorkKeepsWorld DEF SafetyInv, TypeOK
<1>2. BrokerNow \in Int /\ (BrokerNow' = BrokerNow \/ BrokerNow' = BrokerNow + 1)
  BY <1>1 DEF BrokerNow
<1>3. ASSUME NEW i \in DOMAIN book' PROVE book'[i].at <= BrokerNow'
  <2>1. CASE i \in DOMAIN book
    <3>1. book[i] \in Order
      BY <2>1 DEF SafetyInv, TypeOK
    <3>2. book[i].at \in Int /\ book[i].at <= BrokerNow
      BY <2>1, <3>1 DEF Order, DealsInPast
    <3>3. book'[i].at \in {book[i].at, BrokerNow}
      BY <2>1, OrdersStay DEF OrderKept
    <3> QED
      BY <1>2, <3>2, <3>3
  <2>2. CASE i \notin DOMAIN book
    <3>1. SendOrder
      BY <2>2, OthersKeepJob, WorkKeepsWorld
    <3>2. book'[i].at = BrokerNow
      BY <2>2, <3>1, SendResult
    <3> QED
      BY <1>2, <3>2
  <2> QED
    BY <2>1, <2>2
<1> QED
  BY <1>3 DEF DealsInPast

LEMMA DealsArePast == Spec => []DealsInPast
<1>1. Init => DealsInPast
  BY DEF Init, DealsInPast
<1> QED
  BY <1>1, DealsInPastStep, SafetyCorrect, PTL DEF Spec
=============================================================================
