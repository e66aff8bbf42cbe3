------------------------------ MODULE Gateway ------------------------------
(***************************************************************************)
(* The connection of app/services/mt5_gateway.py under its two threads:    *)
(* the executor's thread that runs process_signal, and the event loop,     *)
(* where the account and status routes and the shutdown run.  Nothing      *)
(* locks _connected: every read, every write and every call of the SDK is  *)
(* a step of its own.  The terminal may go away at any time, and with it   *)
(* the session of the SDK; it may come back logged in to another account.  *)
(***************************************************************************)
EXTENDS Naturals

CONSTANTS
  Accounts,
  mt5_login,    \* the account of the settings
  MaxOutages    \* bound on the number of outages of the terminal

ASSUME LoginAssumption == mt5_login \in Accounts
ASSUME OutagesAssumption == MaxOutages \in Nat

Threads == {"worker", "loop"}

VARIABLES
  connected,   \* MT5Gateway._connected
  session,     \* does the SDK hold a session with the terminal?
  terminal,    \* is the terminal up?
  login,       \* the account it is logged in to
  pc,          \* pc[c]: where the thread is in its call
  purpose,     \* purpose[c]: "ensure" (_ensure_connected) or "status" (connected)
  attempt,     \* attempt[c]: calls of initialize() so far
  ok,          \* ok[c]: what the last of them returned
  outages,     \* outages so far
  steady       \* steady[c]: has the terminal been up all along the call? (history)

world == <<terminal, outages>>
vars == <<connected, session, login, pc, purpose, attempt, ok, steady, world>>

TwoAttempts == 2

MAX_MT5_CONNECT_ATTEMPTS == 3

GoTo(c, from, to) == pc[c] = from /\ pc' = [pc EXCEPT ![c] = to]

\* Where a call that found the terminal missing goes on: a status answers FALSE.
Otherwise(c) == IF purpose[c] = "status" THEN "false" ELSE "initialize"

----------------------------------------------------------------------------
Call(c, why) ==
  /\ why = "status" => c = "loop"
  /\ GoTo(c, "idle", "connected")
  /\ purpose' = [purpose EXCEPT ![c] = why]
  /\ attempt' = [attempt EXCEPT ![c] = 0] /\ ok' = [ok EXCEPT ![c] = FALSE]
  /\ steady' = [steady EXCEPT ![c] = terminal]
  /\ UNCHANGED <<connected, session, login, world>>

locals == <<purpose, attempt, ok, steady>>

\* if not self._connected
ReadFlag(c) ==
  /\ GoTo(c, "connected", IF connected THEN "probe" ELSE Otherwise(c))
  /\ UNCHANGED <<connected, session, login, locals, world>>

\* initialize() once said so: no probe.
ProbeOnFaith(c) ==
  /\ GoTo(c, "probe", "reread")
  /\ UNCHANGED <<connected, session, login, locals, world>>

\* if self._mt5.account_info() is None
Probe(c) ==
  /\ GoTo(c, "probe", IF session THEN "reread" ELSE "clear")
  /\ UNCHANGED <<connected, session, login, locals, world>>

ClearFlag(c) ==
  /\ GoTo(c, "clear", "reread")
  /\ connected' = FALSE
  /\ UNCHANGED <<session, login, locals, world>>

\* return self._connected
RereadFlag(c) ==
  /\ GoTo(c, "reread", IF connected THEN "true" ELSE Otherwise(c))
  /\ UNCHANGED <<connected, session, login, locals, world>>

\* mt5.initialize(login=...): it logs the terminal in.
Initialize(c) ==
  /\ GoTo(c, "initialize", "assign")
  /\ ok' = [ok EXCEPT ![c] = terminal]
  /\ session' = terminal
  /\ login' = IF terminal THEN mt5_login ELSE login
  /\ attempt' = [attempt EXCEPT ![c] = @ + 1]
  /\ UNCHANGED <<connected, purpose, steady, world>>

\* self._connected = bool(ok)
AssignFlag(c) ==
  /\ GoTo(c, "assign", "confirm")
  /\ connected' = ok[c]
  /\ UNCHANGED <<session, login, locals, world>>

\* return self._connected, and the loop over the attempts around it.
ConfirmFlag(c) ==
  /\ GoTo(c, "confirm",
          IF connected THEN "true"
          ELSE IF attempt[c] < MAX_MT5_CONNECT_ATTEMPTS THEN "initialize" ELSE "false")
  /\ UNCHANGED <<connected, session, login, locals, world>>

Return(c, value) ==
  /\ GoTo(c, IF value THEN "true" ELSE "false", "idle")
  /\ UNCHANGED <<connected, session, login, locals, world>>

Step(c) ==
  \/ ReadFlag(c) \/ Probe(c) \/ ClearFlag(c) \/ RereadFlag(c)
  \/ Initialize(c) \/ AssignFlag(c) \/ ConfirmFlag(c)
  \/ Return(c, TRUE) \/ Return(c, FALSE)

----------------------------------------------------------------------------
(* shutdown(), in the lifespan's last block; the worker's thread goes on.  *)

BeginShutdown ==
  /\ GoTo("loop", "idle", IF connected THEN "close" ELSE "forget")
  /\ UNCHANGED <<connected, session, login, locals, world>>

CloseSession ==
  /\ GoTo("loop", "close", "forget")
  /\ session' = FALSE
  /\ UNCHANGED <<connected, login, locals, world>>

ForgetConnection ==
  /\ GoTo("loop", "forget", "stopped")
  /\ connected' = FALSE
  /\ UNCHANGED <<session, login, locals, world>>

Shutdown == CloseSession \/ ForgetConnection

----------------------------------------------------------------------------
Outage ==
  /\ terminal /\ outages < MaxOutages
  /\ terminal' = FALSE /\ outages' = outages + 1
  /\ session' = FALSE
  /\ steady' = [c \in Threads |-> FALSE]
  /\ UNCHANGED <<connected, login, pc, purpose, attempt, ok>>

EndOutage ==
  /\ ~terminal /\ terminal' = TRUE
  /\ login' \in Accounts
  /\ UNCHANGED <<connected, session, pc, purpose, attempt, ok, steady, outages>>

----------------------------------------------------------------------------
Init ==
  /\ connected = FALSE /\ session = FALSE /\ terminal \in BOOLEAN /\ login \in Accounts
  /\ pc = [c \in Threads |-> "idle"] /\ purpose = [c \in Threads |-> "ensure"]
  /\ attempt = [c \in Threads |-> 0] /\ ok = [c \in Threads |-> FALSE]
  /\ outages = 0 /\ steady = [c \in Threads |-> FALSE]

Next ==
  \/ \E c \in Threads : Step(c) \/ \E why \in {"ensure", "status"} : Call(c, why)
  \/ BeginShutdown \/ Shutdown \/ Outage \/ EndOutage

Spec == Init /\ [][Next]_vars

\* Both threads keep running, and an outage ends; nobody is obliged to call.
FairSpec == Spec /\ WF_vars(EndOutage) /\ WF_vars(Shutdown) /\ \A c \in Threads : WF_vars(Step(c))

----------------------------------------------------------------------------
\* Three attempts are enough: a call of _ensure_connected during which the terminal
\* was up all along never answers FALSE, although the other thread may write what it
\* learned before the call, and the shutdown may clear the flag on top.
ReachableIsReached ==
  \A c \in Threads : pc[c] = "false" /\ purpose[c] = "ensure" => ~steady[c]

\* The gateway heals itself: from some time on, whatever the outages, the stale writes
\* and the shutdown left behind, _ensure_connected answers TRUE and there is a session.
HealsItself ==
  <>[][\A c \in Threads :
         purpose[c] = "ensure" /\ (Return(c, TRUE) \/ Return(c, FALSE))
           => pc[c] = "true" /\ session]_vars
=============================================================================
