------------------------- MODULE ExecutionStatuses -------------------------
(***************************************************************************)
(* The status vocabulary of app/models/enums.py, shared by the signals and *)
(* executions tables.  The pipeline's two working statuses are PENDING and *)
(* PROCESSING; every other one is written once, by the step that ends the  *)
(* work on a signal.                                                       *)
(***************************************************************************)

Rejections ==
  {"REJECTED_STALE", "REJECTED_FUTURE_TIMESTAMP", "REJECTED_SYMBOL",
   "REJECTED_SYMBOL_UNAVAILABLE", "REJECTED_RISK", "REJECTED_STOP_LOSS",
   "REJECTED_SPREAD", "REJECTED_DAILY_LOSS", "REJECTED_DAILY_TRADE_LIMIT",
   "REJECTED_POSITION_LIMIT", "REJECTED_VOLUME",
   "REJECTED_VOLUME_BELOW_MINIMUM", "REJECTED_ORDER_CHECK"}

ServiceFailures ==
  {"FAILED_MT5_UNAVAILABLE", "FAILED_MT5_STATE_UNKNOWN",
   "FAILED_BROKER_TIME_UNKNOWN", "FAILED_ORDER_SEND"}

\* Statuses that claim an order was filled.
Executions == {"EXECUTED", "EXECUTED_PARTIAL", "RECOVERED_EXECUTED"}

DryRunOutcomes == {"DRY_RUN_APPROVED", "DRY_RUN_REJECTED"}

ExecutionStatus ==
  {"PENDING", "PROCESSING", "REVIEW_REQUIRED"}
    \cup DryRunOutcomes \cup Executions \cup Rejections \cup ServiceFailures

Settled == ExecutionStatus \ {"PENDING", "PROCESSING"}

\* Statuses that claim nothing was bought or sold for the signal.
NoTrade == Rejections \cup ServiceFailures \cup DryRunOutcomes

\* The code's own list of final statuses: it omits FAILED_MT5_UNAVAILABLE.
TERMINAL_STATUSES == Settled \ {"FAILED_MT5_UNAVAILABLE"}
=============================================================================
