---------------------------- MODULE SharedStore ----------------------------
(***************************************************************************)
(* Several bridge processes on one database file: a bridge started by hand *)
(* beside the one the task scheduler runs.  uvicorn runs the lifespan's    *)
(* start-up, and with it the recovery and the worker, before it finds the  *)
(* port taken.  The tables are reduced to what the processes compete for;  *)
(* ExecutionBridge has the rest.                                           *)
(*                                                                         *)
(* claim_next_pending is two steps here: sqlite3 opens a transaction at    *)
(* the UPDATE, so its SELECT may be out of date by then, and the lock it   *)
(* holds is a lock of its own process.                                     *)
(***************************************************************************)
EXTENDS Integers, FiniteSets, Sequences

CONSTANTS
  Processes,
  Signals,
  Nobody,       \* no signal, no process
  MaxStarts     \* bound on the number of starts

ASSUME NobodyAssumption == Nobody \notin Signals \cup Processes
ASSUME StartsAssumption == MaxStarts \in Nat

VARIABLES
  status,    \* signals.status, "ABSENT" before the row is inserted
  id,        \* signals.id
  phase,     \* phase[p]: "down", "recovering" or "running"
  stuck,     \* stuck[p]: what find_stuck_processing returned and is still to do
  picked,    \* picked[p]: the row the SELECT of claim_next_pending returned
  job,       \* job[p]: the signal process_signal works on
  sent,      \* sent[p]: has that job sent its order?
  orders,    \* orders[s]: orders sent for a signal
  taker,     \* who claimed a signal (history, no column of the table)
  starts     \* starts so far

vars == <<status, id, phase, stuck, picked, job, sent, orders, taker, starts>>

WithStatus(value) == {s \in Signals : status[s] = value}

find_stuck_processing == WithStatus("PROCESSING")

\* The oldest row, whatever its status: the guarded UPDATE finds nothing to claim.
OldestRow ==
  {s \in Signals : status[s] # "ABSENT" /\ \A t \in Signals : status[t] # "ABSENT" => id[s] <= id[t]}

NextPending ==
  {s \in WithStatus("PENDING") : \A t \in WithStatus("PENDING") : id[s] <= id[t]}

update_signal_status(s, value) == status' = [status EXCEPT ![s] = value]

----------------------------------------------------------------------------
Submit(s) ==
  /\ \E p \in Processes : phase[p] = "running"
  /\ status[s] = "ABSENT"
  /\ update_signal_status(s, "PENDING")
  /\ id' = [id EXCEPT ![s] = Cardinality({t \in Signals : status[t] # "ABSENT"}) + 1]
  /\ UNCHANGED <<phase, stuck, picked, job, sent, orders, taker, starts>>

Start(p) ==
  /\ phase[p] = "down" /\ starts < MaxStarts
  /\ phase' = [phase EXCEPT ![p] = "recovering"]
  /\ stuck' = [stuck EXCEPT ![p] = find_stuck_processing]
  /\ starts' = starts + 1
  /\ UNCHANGED <<status, id, picked, job, sent, orders, taker>>

\* Back into the queue, as requeue_signal would put it.
RecoveredRequeued(s) == "PENDING"

Recovered(s) == IF orders[s] > 0 THEN "RECOVERED_EXECUTED" ELSE "REVIEW_REQUIRED"

\* reconcile_stuck_signal: the row is not read again before it is written.
Reconcile(p, s) ==
  /\ phase[p] = "recovering" /\ s \in stuck[p]
  /\ update_signal_status(s, Recovered(s))
  /\ stuck' = [stuck EXCEPT ![p] = @ \ {s}]
  /\ UNCHANGED <<id, phase, picked, job, sent, orders, taker, starts>>

StartWorker(p) ==
  /\ phase[p] = "recovering" /\ stuck[p] = {}
  /\ phase' = [phase EXCEPT ![p] = "running"]
  /\ UNCHANGED <<status, id, stuck, picked, job, sent, orders, taker, starts>>

\* The SELECT of claim_next_pending.
SelectPending(p) ==
  /\ phase[p] = "running" /\ job[p] = Nobody /\ picked[p] = Nobody
  /\ \E s \in NextPending : picked' = [picked EXCEPT ![p] = s]
  /\ UNCHANGED <<status, id, phase, stuck, job, sent, orders, taker, starts>>

\* The UPDATE asks for the id only: it claims what another process has claimed.
ClaimUnguarded(p) ==
  /\ picked[p] # Nobody
  /\ update_signal_status(picked[p], "PROCESSING")
  /\ job' = [job EXCEPT ![p] = picked[p]]
  /\ taker' = [taker EXCEPT ![picked[p]] = p]
  /\ picked' = [picked EXCEPT ![p] = Nobody]
  /\ UNCHANGED <<id, phase, stuck, sent, orders, starts>>

\* The UPDATE ... AND status = 'PENDING'; without a row it returns None.
ClaimPicked(p) ==
  /\ picked[p] # Nobody
  /\ IF status[picked[p]] = "PENDING"
     THEN /\ update_signal_status(picked[p], "PROCESSING")
          /\ job' = [job EXCEPT ![p] = picked[p]]
          /\ taker' = [taker EXCEPT ![picked[p]] = p]
     ELSE UNCHANGED <<status, job, taker>>
  /\ picked' = [picked EXCEPT ![p] = Nobody]
  /\ UNCHANGED <<id, phase, stuck, sent, orders, starts>>

\* order_send, once in the pipeline's course.
SendOrder(p) ==
  /\ job[p] # Nobody /\ ~sent[p]
  /\ orders' = [orders EXCEPT ![job[p]] = @ + 1]
  /\ sent' = [sent EXCEPT ![p] = TRUE]
  /\ UNCHANGED <<status, id, phase, stuck, picked, job, taker, starts>>

\* finish(), after the send or a failed check; update_signal_status asks for the id only.
SettleSignal(p) ==
  /\ job[p] # Nobody
  /\ update_signal_status(job[p], IF sent[p] THEN "EXECUTED" ELSE "REJECTED")
  /\ job' = [job EXCEPT ![p] = Nobody]
  /\ sent' = [sent EXCEPT ![p] = FALSE]
  /\ UNCHANGED <<id, phase, stuck, picked, orders, taker, starts>>

\* A crash, a stop, or a start that finds the port taken.
Leave(p) ==
  /\ phase[p] # "down" /\ starts < MaxStarts
  /\ phase' = [phase EXCEPT ![p] = "down"]
  /\ stuck' = [stuck EXCEPT ![p] = {}]
  /\ picked' = [picked EXCEPT ![p] = Nobody]
  /\ job' = [job EXCEPT ![p] = Nobody] /\ sent' = [sent EXCEPT ![p] = FALSE]
  /\ UNCHANGED <<status, id, orders, taker, starts>>

Work(p) ==
  \/ StartWorker(p) \/ SelectPending(p) \/ ClaimPicked(p) \/ SendOrder(p) \/ SettleSignal(p)
  \/ \E s \in Signals : Reconcile(p, s)

Init ==
  /\ status = [s \in Signals |-> "ABSENT"] /\ id = [s \in Signals |-> 0]
  /\ phase = [p \in Processes |-> "down"] /\ stuck = [p \in Processes |-> {}]
  /\ picked = [p \in Processes |-> Nobody] /\ job = [p \in Processes |-> Nobody]
  /\ sent = [p \in Processes |-> FALSE]
  /\ orders = [s \in Signals |-> 0] /\ taker = [s \in Signals |-> Nobody] /\ starts = 0

Next ==
  \/ \E s \in Signals : Submit(s)
  \/ \E p \in Processes : Start(p) \/ Leave(p) \/ Work(p)

Spec == Init /\ [][Next]_vars

\* A process that is up keeps working, and a bridge that is down is started again
\* while the bound allows it.
FairSpec == Spec /\ \A p \in Processes : WF_vars(Work(p)) /\ WF_vars(Start(p))

----------------------------------------------------------------------------
\* The rows up to s, itself included, and all rows in the order of their ids: the i-th
\* is the one with i rows up to it.
UpTo(rows, ids, s) == {t \in rows : ids[t] <= ids[s]}

InOrder(rows, ids) ==
  [i \in 1 .. Cardinality(rows) |-> CHOOSE s \in rows : Cardinality(UpTo(rows, ids, s)) = i]

waiting == InOrder(WithStatus("PENDING"), id)

Queue == INSTANCE AtomicQueue WITH
  Workers <- Processes, queue <- waiting, taker <- taker

\* Although SELECT and UPDATE are two steps, and whoever starts, stops or recovers in
\* between, a claim is one step of an atomic queue: oldest first, once only.
ClaimsAreAtomic == Queue!Spec

\* And the queue is drained as long as some process is up.
QueueIsDrained == Queue!FairSpec

\* Two processes, or a process and its successor, never send two orders for a signal.
SentOnce == \A s \in Signals : orders[s] <= 1
=============================================================================
