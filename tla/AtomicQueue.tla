---------------------------- MODULE AtomicQueue ----------------------------
(***************************************************************************)
(* What Database.claim_next_pending promises its callers, however many     *)
(* there are: signals leave the queue oldest first, one claim is one step, *)
(* and a signal is claimed by one worker only                              *)
(* (app/worker/execution_worker.py: "can never process the same signal     *)
(* twice").                                                                *)
(***************************************************************************)
EXTENDS Sequences

CONSTANTS Signals, Workers, Nobody

VARIABLES
  queue,    \* the signals waiting, oldest first
  taker     \* the worker that claimed a signal, or Nobody

vars == <<queue, taker>>

Put(s) ==
  /\ taker[s] = Nobody /\ \A i \in DOMAIN queue : queue[i] # s
  /\ queue' = Append(queue, s)
  /\ UNCHANGED taker

Take(w) ==
  /\ queue # <<>>
  /\ taker' = [taker EXCEPT ![Head(queue)] = w]
  /\ queue' = Tail(queue)

Init == queue = <<>> /\ taker = [s \in Signals |-> Nobody]

Next == (\E s \in Signals : Put(s)) \/ (\E w \in Workers : Take(w))

Spec == Init /\ [][Next]_vars

\* The queue does not stand still while it holds something.
FairSpec == Spec /\ WF_vars(\E w \in Workers : Take(w))
=============================================================================
