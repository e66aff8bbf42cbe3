------------------------------ MODULE Settings ------------------------------
(***************************************************************************)
(* app/config.py: which settings a process starts with.  `host' is         *)
(* "loopback" or "remote"; `mt5_login' is "" when it is not given,         *)
(* "number" or "text"; magic number and paths are left out.                *)
(***************************************************************************)
EXTENDS Integers

\* One of the two flags is enough.
EitherFlagAllows(c) == ~c.dry_run \/ c.live_execution_enabled

live_execution_allowed(c) == ~c.dry_run /\ c.live_execution_enabled

HighestPort == 65535

WithinBounds(c) ==
  /\ c.port \in 1 .. HighestPort
  /\ c.max_risk_percent \in 1 .. 100 /\ c.max_daily_loss_percent \in 1 .. 100
  /\ c.max_open_positions >= 1 /\ c.max_trades_per_day >= 1
  /\ c.max_spread_points >= 1 /\ c.max_signal_age_seconds >= 1

enforce_local_binding(c) == c.host = "loopback" \/ c.allow_remote_binding

\* The server is not asked for.
LiveConfigNoServer(c) ==
  c.dry_run \/ ~c.live_execution_enabled \/ c.mt5_login = "number"

validate_live_execution_config(c) ==
  c.dry_run \/ ~c.live_execution_enabled \/ (c.mt5_server # "" /\ c.mt5_login = "number")

\* Settings() raises, and the process does not start, unless all three hold.
Accepted(c) ==
  WithinBounds(c) /\ enforce_local_binding(c) /\ validate_live_execution_config(c)
=============================================================================
