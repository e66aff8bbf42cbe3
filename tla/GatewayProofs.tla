--------------------------- MODULE GatewayProofs ---------------------------
(***************************************************************************)
(* Three attempts are enough, for any number of outages and accounts.      *)
(* A call can only be spoilt by somebody else's write of FALSE, and each   *)
(* such write is used up: one the other thread learned before the terminal *)
(* answered this call, and one of the shutdown.                            *)
(***************************************************************************)
EXTENDS Gateway, TLAPS

Places ==
  {"idle", "connected", "probe", "clear", "reread", "initialize", "assign", "confirm",
   "true", "false", "close", "forget", "stopped"}

TypeOK ==
  /\ connected \in BOOLEAN /\ session \in BOOLEAN /\ terminal \in BOOLEAN
  /\ pc \in [Threads -> Places] /\ purpose \in [Threads -> {"ensure", "status"}]
  /\ attempt \in [Threads -> Nat] /\ ok \in [Threads -> BOOLEAN]
  /\ steady \in [Threads -> BOOLEAN]
  /\ pc["worker"] \notin {"close", "forget", "stopped"}

Calling(c) == pc[c] \notin {"idle", "close", "forget", "stopped"}

Other(c) == IF c = "worker" THEN "loop" ELSE "worker"

\* The thread is about to write FALSE.
Stale(c) == pc[c] = "clear" \/ (pc[c] = "assign" /\ ~ok[c])

\* How often others may still write FALSE during the call of c.
Left(c) ==
  (IF Stale(Other(c)) THEN 1 ELSE 0)
    + (IF c = "worker" /\ pc["loop"] # "stopped" THEN 1 ELSE 0)

\* What holds of a call during which the terminal has been up.
SteadyCall(c) ==
  /\ terminal
  /\ attempt[c] > 0 => session \/ pc["loop"] \in {"forget", "stopped"}
  /\ pc[c] \in {"connected", "probe", "clear", "reread"} => attempt[c] = 0
  /\ pc[c] = "initialize" => attempt[c] + Left(c) <= 2
  /\ pc[c] = "assign" => ok[c] /\ attempt[c] + Left(c) <= 3 /\ attempt[c] > 0
  /\ pc[c] = "confirm" => /\ attempt[c] + Left(c) <= IF connected THEN 3 ELSE 2
                          /\ attempt[c] > 0
  /\ pc[c] = "false" => purpose[c] = "status"

IInv == TypeOK /\ \A c \in Threads : steady[c] /\ Calling(c) => SteadyCall(c)

----------------------------------------------------------------------------
\* Init establishes the invariant.
LEMMA InitIInv == Init => IInv
<1> SUFFICES ASSUME Init PROVE IInv
  OBVIOUS
<1> USE DEF Init
<1>1. connected \in BOOLEAN /\ session \in BOOLEAN /\ terminal \in BOOLEAN
  OBVIOUS
<1>2. ok \in [Threads -> BOOLEAN] /\ steady \in [Threads -> BOOLEAN]
  BY Zenon
<1>3. pc \in [Threads -> Places] /\ purpose \in [Threads -> {"ensure", "status"}]
  BY DEF Places
<1>4. attempt \in [Threads -> Nat]
  OBVIOUS
<1>5. pc["worker"] \notin {"close", "forget", "stopped"}
  BY DEF Threads
<1>6. \A c \in Threads : ~Calling(c)
  BY DEF Calling
<1> QED
  BY <1>1, <1>2, <1>3, <1>4, <1>5, <1>6, Zenon DEF IInv, TypeOK

\* Every step keeps the types.
LEMMA NextTypeOK == TypeOK /\ [Next]_vars => TypeOK'
<1> SUFFICES ASSUME TypeOK, [Next]_vars PROVE TypeOK'
  OBVIOUS
<1> USE DEF TypeOK, GoTo, world, locals
<1>1. ASSUME NEW c \in Threads, Step(c) PROVE TypeOK'
  <2> USE DEF Otherwise, Places, Threads
  <2>1. CASE ReadFlag(c)
    BY <2>1 DEF ReadFlag
  <2>2. CASE Probe(c)
    BY <2>2 DEF Probe
  <2>3. CASE ClearFlag(c)
    BY <2>3 DEF ClearFlag
  <2>4. CASE RereadFlag(c)
    BY <2>4 DEF RereadFlag
  <2>5. CASE Initialize(c)
    BY <2>5 DEF Initialize
  <2>6. CASE AssignFlag(c)
    BY <2>6 DEF AssignFlag
  <2>7. CASE ConfirmFlag(c)
    BY <2>7 DEF ConfirmFlag
  <2>8. CASE Return(c, TRUE) \/ Return(c, FALSE)
    BY <2>8 DEF Return
  <2> QED
    BY <1>1, <2>1, <2>2, <2>3, <2>4, <2>5, <2>6, <2>7, <2>8 DEF Step
<1>2. ASSUME NEW c \in Threads, NEW why \in {"ensure", "status"}, Call(c, why) PROVE TypeOK'
  BY <1>2 DEF Call, Places, Threads
<1>3. CASE BeginShutdown \/ Shutdown
  BY <1>3 DEF BeginShutdown, Shutdown, CloseSession, ForgetConnection, Places, Threads
<1>4. CASE Outage \/ EndOutage
  BY <1>4 DEF Outage, EndOutage
<1>5. CASE UNCHANGED vars
  BY <1>5 DEF vars
<1> QED
  BY <1>1, <1>2, <1>3, <1>4, <1>5 DEF Next

\* Every step keeps what holds of the calls the terminal has been up for.
LEMMA NextSteady == IInv /\ [Next]_vars => IInv'
<1> SUFFICES ASSUME IInv, [Next]_vars, NEW t \in Threads, steady'[t], Calling(t)'
             PROVE  SteadyCall(t)'
  BY NextTypeOK DEF IInv
<1> USE DEF GoTo, world, locals, Threads
<1>1. TypeOK /\ TypeOK'
  BY NextTypeOK DEF IInv
<1>2. steady[t] /\ Calling(t) => SteadyCall(t)
  BY DEF IInv
<1>3. ASSUME NEW c \in Threads, Step(c) PROVE SteadyCall(t)'
  <2>1. steady' = steady /\ terminal' = terminal /\ purpose' = purpose
    BY <1>3 DEF Step, ReadFlag, Probe, ClearFlag, RereadFlag, Initialize, AssignFlag,
                ConfirmFlag, Return
  <2>2. Calling(t)
    BY <1>3, <1>1 DEF Step, ReadFlag, Probe, ClearFlag, RereadFlag, Initialize, AssignFlag,
                ConfirmFlag, Return, Calling, TypeOK
  <2>3. SteadyCall(t)
    BY <1>2, <2>1, <2>2
  <2> USE <1>1, <2>1, <2>2, <2>3 DEF SteadyCall, Left, Stale, Other, TypeOK, Otherwise, Places, Calling
  <2>4. CASE ReadFlag(c)
    BY <2>4 DEF ReadFlag
  <2>5. CASE Probe(c)
    BY <2>5 DEF Probe
  <2>6. CASE ClearFlag(c)
    BY <2>6 DEF ClearFlag
  <2>7. CASE RereadFlag(c)
    BY <2>7 DEF RereadFlag
  <2>8. CASE Initialize(c)
    BY <2>8 DEF Initialize
  <2>9. CASE AssignFlag(c)
    BY <2>9 DEF AssignFlag
  <2>10. CASE ConfirmFlag(c)
    BY <2>10 DEF ConfirmFlag, MAX_MT5_CONNECT_ATTEMPTS
  <2>11. CASE Return(c, TRUE) \/ Return(c, FALSE)
    BY <2>11 DEF Return
  <2> QED
    BY <1>3, <2>4, <2>5, <2>6, <2>7, <2>8, <2>9, <2>10, <2>11 DEF Step
<1>4. ASSUME NEW c \in Threads, NEW why \in {"ensure", "status"}, Call(c, why)
      PROVE  SteadyCall(t)'
  BY <1>1, <1>2, <1>4 DEF Call, SteadyCall, Left, Stale, Other, TypeOK, Calling
<1>5. CASE BeginShutdown \/ Shutdown
  BY <1>1, <1>2, <1>5 DEF BeginShutdown, Shutdown, CloseSession, ForgetConnection, SteadyCall,
                          Left, Stale, Other, TypeOK, Calling
<1>6. CASE Outage
  BY <1>6 DEF Outage
<1>7. CASE EndOutage
  BY <1>2, <1>7 DEF EndOutage, SteadyCall, Calling
<1>8. CASE UNCHANGED vars
  BY <1>2, <1>8 DEF vars, SteadyCall, Left, Stale, Other, Calling
<1> QED
  BY <1>3, <1>4, <1>5, <1>6, <1>7, <1>8 DEF Next

\* Three attempts are enough (ReachableIsReached), however often the terminal goes away.
THEOREM ThreeAttemptsAreEnough == Spec => []ReachableIsReached
<1>1. Init => IInv
  BY InitIInv
<1>2. IInv /\ [Next]_vars => IInv'
  BY NextSteady
<1>3. IInv => ReachableIsReached
  BY DEF IInv, TypeOK, Calling, SteadyCall, ReachableIsReached
<1> QED
  BY <1>1, <1>2, <1>3, PTL DEF Spec
=============================================================================
