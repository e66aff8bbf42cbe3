-------------------------- MODULE SignalLifecycle --------------------------
(***************************************************************************)
(* What the bridge promises a source about each signal, without tables,    *)
(* threads, crashes or reasons: a signal is accepted once, started once,   *)
(* sent to the broker at most once, and settled once, with an outcome that *)
(* tells the truth about the exposure it left, or with a call for review.  *)
(* README.md calls the middle part "durable, restart-safe duplicate        *)
(* protection"; an outcome that is not known is review, never a guess.     *)
(***************************************************************************)
CONSTANT Signals

VARIABLES
  outcome,    \* "absent", "queued", "started", "executed", "refused", "review"
  exposure    \* "none", "pending", "filled", "void": what the signal left at the broker

vars == <<outcome, exposure>>

Move(s, from, to) == outcome[s] = from /\ outcome' = [outcome EXCEPT ![s] = to]

Accept(s) == Move(s, "absent", "queued") /\ UNCHANGED exposure

Start(s) == Move(s, "queued", "started") /\ UNCHANGED exposure

\* The one order of a signal, which may rest or fill on the spot.
Place(s) ==
  /\ outcome[s] = "started" /\ exposure[s] = "none"
  /\ \E e \in {"pending", "filled"} : exposure' = [exposure EXCEPT ![s] = e]
  /\ UNCHANGED outcome

\* A resting order fills or lapses, whatever became of the signal meanwhile.
Resolve(s) ==
  /\ exposure[s] = "pending"
  /\ \E e \in {"filled", "void"} : exposure' = [exposure EXCEPT ![s] = e]
  /\ UNCHANGED outcome

Settle(s) ==
  /\ \/ Move(s, "started", "executed") /\ exposure[s] = "filled"
     \/ Move(s, "started", "refused") /\ exposure[s] = "none"
     \/ Move(s, "started", "review")
  /\ UNCHANGED exposure

Init == outcome = [s \in Signals |-> "absent"] /\ exposure = [s \in Signals |-> "none"]

Next == \E s \in Signals : Accept(s) \/ Start(s) \/ Place(s) \/ Resolve(s) \/ Settle(s)

Spec == Init /\ [][Next]_vars

\* Every accepted signal is started and settled in the end.
FairSpec == Spec /\ \A s \in Signals : WF_vars(Start(s)) /\ WF_vars(Settle(s))
=============================================================================
