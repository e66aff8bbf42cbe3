---------------------------- MODULE VolumeProofs ----------------------------
(***************************************************************************)
(* The volume is the largest the account can afford, but for one a float   *)
(* may lose, for every equity, risk, loss and broker.  The formula floors  *)
(* a quotient once, by 100 * risk_per_lot * step; a volume of k steps is   *)
(* affordable exactly when k is at most the exact floor, and the float's   *)
(* differs from it only where that many steps lose the allowed amount.     *)
(* The direction, the stops and the filling mode of the request follow     *)
(* from the kinds of words and flags there are.                            *)
(***************************************************************************)
EXTENDS OrderRequest, TLAPS

\* What \div says of a product.
LEMMA DivisionBounds ==
  ASSUME NEW a \in Int, NEW b \in Nat \ {0}
  PROVE  /\ a \div b \in Int
         /\ b * (a \div b) <= a
         /\ a < b * (a \div b + 1)
  OBVIOUS

\* Products with a positive number are ordered as their factors are.
LEMMA Monotonic ==
  ASSUME NEW b \in Nat \ {0}, NEW k \in Int, NEW q \in Int, k <= q
  PROVE  b * k <= b * q
  OBVIOUS

LEMMA StrictlyMonotonic ==
  ASSUME NEW b \in Nat \ {0}, NEW k \in Int, NEW q \in Int, b * k < b * q
  PROVE  k < q
  OBVIOUS

\* Whole steps.
LEMMA StepsOf ==
  ASSUME NEW v \in Int, NEW s \in Nat \ {0}, v % s = 0
  PROVE  \E k \in Int : v = s * k
  OBVIOUS

LEMMA WholeSteps ==
  ASSUME NEW k \in Int, NEW s \in Nat \ {0}
  PROVE  (s * k) % s = 0
  OBVIOUS

----------------------------------------------------------------------------
\* The float's floor is the exact one, or one less where the division is exact.
LEMMA FloorBounds ==
  ASSUME NEW a \in Int, NEW b \in Nat \ {0}, NEW short \in BOOLEAN
  PROVE  /\ FlooredQuotient(a, b, short) \in Int
         /\ \/ FlooredQuotient(a, b, short) = a \div b
            \/ FlooredQuotient(a, b, short) = (a \div b) - 1 /\ a = b * (a \div b)
<1>1. a \div b \in Int /\ a % b \in Int /\ a = b * (a \div b) + (a % b)
  OBVIOUS
<1>2. CASE short /\ a # 0 /\ a % b = 0
  BY <1>1, <1>2 DEF FlooredQuotient
<1>3. CASE ~(short /\ a # 0 /\ a % b = 0)
  BY <1>1, <1>3 DEF FlooredQuotient
<1> QED
  BY <1>2, <1>3

\* With a loss, a step and limits of whole steps, the result is the largest candidate.
LEMMA LargestWhenUsable ==
  ASSUME input \in Inputs, input.loss # 0, input.volume_step # 0
  PROVE  LargestUpToRounding
<1> DEFINE s == input.volume_step
           rpl == AbsoluteValue(input.loss)
           a == input.equity * input.risk_percent * LotUnits
           b == 100 * rpl * s
           q == a \div b
           f == FlooredQuotient(a, b, input.short)
           candidates == {v \in Tradable : Affordable(v)}
<1>1. /\ s \in Nat \ {0} /\ input.loss \in Int /\ input.equity \in Int
      /\ input.risk_percent \in Int /\ input.volume_min \in Nat \ {0}
      /\ input.volume_max \in Nat /\ input.volume_min <= input.volume_max
      /\ input.volume_min % s = 0 /\ input.volume_max % s = 0 /\ input.short \in BOOLEAN
  BY DEF Inputs
<1>2. rpl \in Nat \ {0}
  BY <1>1 DEF AbsoluteValue
<1>3. a \in Int /\ b \in Nat \ {0}
  BY <1>1, <1>2, LotUnitsAssumption
<1>4. q \in Int /\ b * q <= a /\ a < b * (q + 1)
  <2> HIDE DEF a, b
  <2> QED
    BY <1>3, DivisionBounds
<1>5. /\ f \in Int /\ f <= q
      /\ f = q \/ (f = q - 1 /\ a = b * q)
  <2> HIDE DEF a, b
  <2> QED
    BY <1>1, <1>3, <1>4, FloorBounds
<1>6. ASSUME NEW k \in Int PROVE Loss(s * k) = b * k
  BY <1>1, <1>2, <1>6 DEF Loss
<1>7. ASSUME NEW k \in Int PROVE Affordable(s * k) <=> k <= q
  <2>1. Affordable(s * k) <=> b * k <= a
    BY <1>6 DEF Affordable, Allowed
  <2> HIDE DEF a, b, q
  <2>2. ASSUME k <= q PROVE b * k <= a
    <3>1. b * k <= b * q
      BY <2>2, <1>3, <1>4, <1>7, Monotonic
    <3>2. b * k \in Int /\ b * q \in Int
      BY <1>3, <1>4, <1>7
    <3> QED
      BY <3>1, <3>2, <1>3, <1>4
  <2>3. ASSUME b * k <= a PROVE k <= q
    <3>1. b * k \in Int /\ b * (q + 1) \in Int /\ q + 1 \in Int
      BY <1>3, <1>4, <1>7
    <3>2. b * k < b * (q + 1)
      BY <2>3, <3>1, <1>3, <1>4
    <3>3. k < q + 1
      BY <3>1, <3>2, <1>3, <1>7, StrictlyMonotonic
    <3> QED
      BY <3>3, <1>4, <1>7
  <2> QED
    BY <2>1, <2>2, <2>3
<1>8. s * f \in Int
  <2> HIDE DEF f
  <2> QED
    BY <1>1, <1>5
<1>9. ASSUME NEW v \in candidates, v > s * f PROVE Loss(v) = Allowed
  <2>1. v \in Int /\ v % s = 0 /\ Affordable(v)
    BY <1>1 DEF Tradable
  <2>2. PICK k \in Int : v = s * k
    BY <2>1, <1>1, StepsOf
  <2>3. k <= q
    BY <2>1, <2>2, <1>7
  <2>4. f < k
    <3> HIDE DEF f
    <3> QED
      BY <1>1, <1>5, <1>9, <2>2, StrictlyMonotonic
  <2>5. k = q /\ a = b * q
    <3> HIDE DEF f, q, a, b
    <3> QED
      BY <1>4, <1>5, <2>3, <2>4
  <2>6. Loss(v) = b * k
    BY <2>2, <1>6
  <2> QED
    BY <2>5, <2>6 DEF Allowed
<1>10. Result = IF s * f < input.volume_min
                THEN [status |-> "REJECTED_VOLUME_BELOW_MINIMUM", volume |-> s * f]
                ELSE [status |-> "ok", volume |-> IF s * f > input.volume_max
                                                  THEN input.volume_max ELSE s * f]
  <2>1. RiskVolume(input.equity, input.risk_percent, rpl, s, input.short) = s * f
    BY DEF RiskVolume
  <2> HIDE DEF f
  <2> QED
    BY <1>1, <1>2, <2>1 DEF Result, CalculateRiskBasedVolume
<1>11. CASE s * f < input.volume_min
  <2>1. Result.status = "REJECTED_VOLUME_BELOW_MINIMUM"
    BY <1>10, <1>11
  <2>2. ASSUME NEW v \in candidates PROVE Loss(v) = Allowed
    <3>1. v \in Int /\ v >= input.volume_min
      BY <1>1 DEF Tradable
    <3>2. v > s * f
      <4> HIDE DEF f
      <4> QED
        BY <3>1, <1>1, <1>8, <1>11
    <3> QED
      BY <3>2, <1>9
  <2> HIDE DEF f
  <2> QED
    BY <1>1, <2>1, <2>2 DEF LargestUpToRounding
<1>12. CASE ~(s * f < input.volume_min)
  <2> DEFINE volume == IF s * f > input.volume_max THEN input.volume_max ELSE s * f
  <2>1. Result = [status |-> "ok", volume |-> volume]
    BY <1>10, <1>12
  <2>2. PICK m \in Int : input.volume_max = s * m
    <3>1. /\ input.volume_max \in Int /\ s \in Nat \ {0}
          /\ input.volume_max % s = 0
      BY <1>1
    <3> HIDE DEF s
    <3> QED
      BY <3>1, StepsOf
  <2>3. volume \in candidates
    <3>1. CASE s * f > input.volume_max
      <4>1. m < f
        <5> HIDE DEF f
        <5> QED
          BY <3>1, <2>2, <1>1, <1>5, StrictlyMonotonic
      <4>2. m <= q
        <5> HIDE DEF f, q
        <5> QED
          BY <4>1, <1>4, <1>5
      <4>3. Affordable(input.volume_max)
        BY <4>2, <2>2, <1>7
      <4> QED
        BY <3>1, <4>3, <1>1 DEF Tradable
    <3>2. CASE ~(s * f > input.volume_max)
      <4>1. Affordable(s * f)
        BY <1>5, <1>7
      <4> HIDE DEF f
      <4>2. (s * f) % s = 0
        BY <1>1, <1>5, WholeSteps
      <4> QED
        BY <3>2, <4>1, <4>2, <1>8, <1>1, <1>12 DEF Tradable
    <3> QED
      BY <3>1, <3>2
  <2>4. ASSUME NEW v \in candidates, v > volume PROVE Loss(v) = Allowed
    <3>1. v \in Int /\ v <= input.volume_max
      BY <1>1 DEF Tradable
    <3>2. v > s * f
      <4> HIDE DEF f
      <4> QED
        BY <2>4, <3>1, <1>1, <1>8
    <3> QED
      BY <3>2, <1>9
  <2> HIDE DEF volume, f
  <2> QED
    BY <2>1, <2>3, <2>4 DEF LargestUpToRounding
<1> QED
  BY <1>11, <1>12

\* calculate_risk_based_volume returns a volume the broker takes and the account can
\* afford, and gives no larger one away but one that would lose the allowed amount to the
\* last unit, whichever way the float quotient rounds (LargestUpToRounding).
THEOREM VolumeIsLargestUpToRounding == Spec => []LargestUpToRounding
<1>1. ASSUME input \in Inputs PROVE LargestUpToRounding
  <2>1. CASE input.loss # 0 /\ input.volume_step # 0
    BY <1>1, <2>1, LargestWhenUsable
  <2>2. CASE input.loss = 0 \/ input.volume_step = 0
    <3>1. Result.status = "REJECTED_VOLUME"
      BY <2>2 DEF Result, CalculateRiskBasedVolume, AbsoluteValue
    <3> QED
      BY <2>2, <3>1 DEF LargestUpToRounding
  <2> QED
    BY <2>1, <2>2
<1>2. Init => input \in Inputs
  BY DEF Init
<1>3. input \in Inputs /\ [Next]_<<body, filling, input>> => (input \in Inputs)'
  BY DEF Next, Inputs
<1> QED
  BY <1>1, <1>2, <1>3, PTL DEF Spec

----------------------------------------------------------------------------
(* The rest of the request                                                 *)

RequestInputs ==
  /\ body.action \in Actions
  /\ filling \in (SUBSET {Flags.fok, Flags.ioc}) \cup {Unknown}

LEMMA InputsOfRequest == Spec => []RequestInputs
<1>1. Init => RequestInputs
  <2>1. OneBody.action \in Actions /\ {} \in SUBSET {Flags.fok, Flags.ioc}
    BY DEF OneBody, Actions
  <2>2. \A b \in Bodies : b.action \in Actions
    BY DEF Bodies
  <2> QED
    BY <2>1, <2>2 DEF Init, RequestInputs
<1>2. RequestInputs /\ [Next]_<<body, filling, input>> => RequestInputs'
  BY DEF Next, RequestInputs
<1> QED
  BY <1>1, <1>2, PTL DEF Spec

\* The one step from a word to a direction: what is not "BUY" in upper case without
\* blanks is sold, and _validate_action leaves nothing else of "BUY".
LEMMA DirectionKept ==
  ASSUME NEW action \in Actions
  PROVE  IsBuy(_validate_action(action)) <=> action.word = "BUY"
  BY DEF Actions, IsBuy, _validate_action

\* An accepted signal is traded in the direction, at the side of the quote and with the
\* stops its source wrote, whatever its letters' case, its id, its numbers and the symbol.
THEOREM TradesWhatIsWritten == Spec => []TradedAsWritten
<1>1. RequestInputs => TradedAsWritten
  <2> SUFFICES ASSUME RequestInputs, SignalCreate(body) PROVE TradedAsWritten
    BY DEF TradedAsWritten
  <2>1. body.action.word \in {"BUY", "SELL"} /\ body.action \in Actions
    BY DEF SignalCreate, RequestInputs
  <2>2. IsBuy(_validate_action(body.action)) <=> body.action.word = "BUY"
    BY <2>1, DirectionKept
  <2> QED
    BY <2>1, <2>2 DEF TradedAsWritten, _build_order_request, ORDER_TYPE
<1> QED
  BY <1>1, InputsOfRequest, PTL

\* The filling mode sent is one the symbol takes, although modes and flags are numbered
\* differently; a symbol that says nothing gets the mode of its own.
THEOREM FillsAsSupported == Spec => []FillingIsSupported
<1>1. RequestInputs => FillingIsSupported
  <2> SUFFICES ASSUME RequestInputs, filling # Unknown PROVE FillingIsSupported
    BY DEF FillingIsSupported
  <2>1. filling \in SUBSET {Flags.fok, Flags.ioc}
    BY DEF RequestInputs
  <2>2. _build_order_request(body, filling).type_filling = _resolve_filling_mode(filling)
    BY DEF _build_order_request
  <2> QED
    BY <2>1, <2>2 DEF FillingIsSupported, _resolve_filling_mode, ORDER_FILLING
<1> QED
  BY <1>1, InputsOfRequest, PTL
=============================================================================
