---------------------------- MODULE OrderRequest ----------------------------
(***************************************************************************)
(* From the body a source posts to the request order_send gets: the        *)
(* validators of SignalCreate (app/models/signal.py) and                   *)
(* _build_order_request (app/services/execution_service.py), with the      *)
(* volume of VolumeReference.  A signal_id is a sequence of kinds of       *)
(* characters, an action a word with its case and its blanks; a number is  *)
(* one of the kinds the validators tell apart.  The module only evaluates  *)
(* them, over bounded inputs: every body under one account and symbol, and *)
(* one body under every account and symbol.                                *)
(***************************************************************************)
EXTENDS VolumeReference, Sequences, SequencesExt

CONSTANT MaxIdLength    \* max_length of signal_id, 160 in the code

ASSUME MaxIdLengthAssumption == MaxIdLength \in Nat \ {0}

VARIABLES
  body,       \* what the source posted
  filling     \* symbol_info.filling_mode, the set of SYMBOL_FILLING_* flags in it

None == -1    \* a field left out

Actions == [word : {"BUY", "SELL", "HOLD"}, upper : BOOLEAN, blanks : BOOLEAN]

Bodies ==
  [signal_id : UNION {[1 .. n -> {"safe", "newline", "other"}] : n \in 0 .. MaxIdLength + 1},
   action : Actions, risk_percent : {0, 1, 100, 101}, stop_loss : {None, 0, 9},
   take_profit : {None, 11}]

\* SYMBOL_FILLING_FOK and SYMBOL_FILLING_IOC: flags, numbered otherwise than the modes.
Flags == [fok |-> 1, ioc |-> 2]

\* A symbol_info without a filling_mode.
Unknown == {None}

ORDER_FILLING == [FOK |-> 0, IOC |-> 1, RETURN |-> 2]

ORDER_TYPE == [BUY |-> 0, SELL |-> 1]

----------------------------------------------------------------------------
\* re.match of ^[A-Za-z0-9._:\-]+$, whose $ also matches before a newline at the end.
_SAFE_SIGNAL_ID(id) ==
  LET matched == IF id # <<>> /\ Last(id) = "newline" THEN Front(id) ELSE id
  IN  matched # <<>> /\ \A i \in DOMAIN matched : matched[i] = "safe"

\* The value is checked in upper case and stored as it came.
_validate_action_only(action) == action

\* strip().upper()
_validate_action(action) == [word |-> action.word, upper |-> TRUE, blanks |-> FALSE]

SignalCreate(b) ==
  /\ Len(b.signal_id) \in 1 .. MaxIdLength /\ _SAFE_SIGNAL_ID(b.signal_id)
  /\ b.action.word \in {"BUY", "SELL"}
  /\ b.risk_percent > 0 /\ b.risk_percent <= 100
  /\ b.stop_loss # None => b.stop_loss > 0
  /\ b.take_profit # None => b.take_profit > 0

\* action == SignalAction.BUY.value
IsBuy(action) == action = [word |-> "BUY", upper |-> TRUE, blanks |-> FALSE]

\* The flag's number is taken for the mode's.
_resolve_filling_mode_by_number(flags) ==
  IF flags = Unknown THEN ORDER_FILLING.IOC
  ELSE IF Flags.ioc \in flags THEN ORDER_FILLING.RETURN
  ELSE IF Flags.fok \in flags THEN ORDER_FILLING.IOC ELSE ORDER_FILLING.RETURN

_resolve_filling_mode(flags) ==
  IF flags = Unknown THEN ORDER_FILLING.IOC
  ELSE IF Flags.fok \in flags THEN ORDER_FILLING.FOK
  ELSE IF Flags.ioc \in flags THEN ORDER_FILLING.IOC ELSE ORDER_FILLING.RETURN

\* price is the entry process_signal read: ask for a BUY, bid for anything else.
_build_order_request(b, flags) ==
  LET action == _validate_action(b.action)
  IN  [type |-> IF IsBuy(action) THEN ORDER_TYPE.BUY ELSE ORDER_TYPE.SELL,
       price |-> IF IsBuy(action) THEN "ask" ELSE "bid",
       sl |-> b.stop_loss, tp |-> b.take_profit,
       volume |-> Result.volume, type_filling |-> _resolve_filling_mode(flags)]

----------------------------------------------------------------------------
OneBody ==
  [signal_id |-> <<"safe">>, action |-> [word |-> "BUY", upper |-> TRUE, blanks |-> FALSE],
   risk_percent |-> 1, stop_loss |-> 9, take_profit |-> None]

OneInput ==
  [equity |-> MaxEquity, risk_percent |-> 1, loss |-> -1, volume_step |-> 1, volume_min |-> 1,
   volume_max |-> MaxSteps, short |-> FALSE]

Init ==
  \/ /\ input \in {OneInput} \cap Inputs
     /\ body \in Bodies /\ filling \in (SUBSET {Flags.fok, Flags.ioc}) \cup {Unknown}
  \/ input \in Inputs /\ body = OneBody /\ filling = {}

Next == UNCHANGED <<body, filling, input>>

Spec == Init /\ [][Next]_<<body, filling, input>>

----------------------------------------------------------------------------
\* A signal is traded in the direction its source wrote, however it wrote it, at the
\* side of the quote that direction pays, with the stops it gave: everything that is
\* not exactly "BUY" by then would be sold.
TradedAsWritten ==
  SignalCreate(body) =>
    LET request == _build_order_request(body, filling)
    IN  /\ request.type = ORDER_TYPE[body.action.word]
        /\ request.price = [BUY |-> "ask", SELL |-> "bid"][body.action.word]
        /\ request.sl = body.stop_loss /\ request.tp = body.take_profit

\* A fill-or-kill or immediate-or-cancel order is sent only for a symbol that takes it,
\* and a symbol that takes either gets one of them; it may not say what it takes.
FillingIsSupported ==
  filling # Unknown =>
  LET mode == _build_order_request(body, filling).type_filling
  IN  /\ mode = ORDER_FILLING.FOK => Flags.fok \in filling
      /\ mode = ORDER_FILLING.IOC => Flags.ioc \in filling
      /\ mode = ORDER_FILLING.RETURN => filling = {}
=============================================================================
