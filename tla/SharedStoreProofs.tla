------------------------- MODULE SharedStoreProofs -------------------------
(***************************************************************************)
(* However many processes share the file, and however many signals are in  *)
(* it, a signal is sent once: a row that leaves PENDING never comes back,  *)
(* so only one claim of it succeeds, and a job sends once.                 *)
(***************************************************************************)
EXTENDS SharedStore, FiniteSetTheorems, SequenceTheorems, TLAPS

Statuses ==
  {"ABSENT", "PENDING", "PROCESSING", "EXECUTED", "REJECTED", "RECOVERED_EXECUTED",
   "REVIEW_REQUIRED"}

TypeOK ==
  /\ status \in [Signals -> Statuses] /\ orders \in [Signals -> Nat]
  /\ stuck \in [Processes -> SUBSET Signals]
  /\ picked \in [Processes -> Signals \cup {Nobody}]
  /\ job \in [Processes -> Signals \cup {Nobody}] /\ sent \in [Processes -> BOOLEAN]

\* A row that may still be claimed has left no trace anywhere.
FreshRows ==
  \A s \in Signals :
    status[s] \in {"ABSENT", "PENDING"} =>
      orders[s] = 0 /\ \A p \in Processes : job[p] # s /\ s \notin stuck[p]

OneJob == \A p, q \in Processes : job[p] # Nobody /\ job[p] = job[q] => p = q

\* A job that has not sent finds no order of its signal.
UnsentJobs == \A p \in Processes : job[p] # Nobody /\ ~sent[p] => orders[job[p]] = 0

IdleUnsent == \A p \in Processes : job[p] = Nobody => ~sent[p]

IInv == TypeOK /\ FreshRows /\ OneJob /\ UnsentJobs /\ IdleUnsent /\ SentOnce

----------------------------------------------------------------------------
\* Init establishes the invariant.
LEMMA InitIInv == Init => IInv
<1> SUFFICES ASSUME Init PROVE IInv
  OBVIOUS
<1>1. sent \in [Processes -> BOOLEAN]
  BY Zenon DEF Init
<1>2. \A p \in Processes : ~sent[p]
  BY DEF Init
<1>3. TypeOK
  BY <1>1 DEF Init, TypeOK, Statuses
<1> QED
  BY <1>2, <1>3, NobodyAssumption DEF Init, IInv, FreshRows, OneJob, UnsentJobs, IdleUnsent, SentOnce

\* Every step keeps it.
LEMMA NextIInv == IInv /\ [Next]_vars => IInv'
<1> SUFFICES ASSUME IInv, [Next]_vars PROVE IInv'
  OBVIOUS
<1> USE NobodyAssumption
    DEF IInv, TypeOK, FreshRows, OneJob, UnsentJobs, IdleUnsent, SentOnce, update_signal_status
<1>1. ASSUME NEW s \in Signals, Submit(s) PROVE IInv'
  BY <1>1 DEF Submit, Statuses
<1>2. ASSUME NEW p \in Processes, Start(p) PROVE IInv'
  BY <1>2 DEF Start, find_stuck_processing, WithStatus
<1>3. ASSUME NEW p \in Processes, Leave(p) PROVE IInv'
  BY <1>3 DEF Leave
<1>4. ASSUME NEW p \in Processes, Work(p) PROVE IInv'
  <2>1. CASE StartWorker(p)
    BY <2>1 DEF StartWorker
  <2>2. CASE SelectPending(p)
    BY <2>2 DEF SelectPending, NextPending, WithStatus
  <2>3. CASE ClaimPicked(p)
    BY <2>3 DEF ClaimPicked, Statuses
  <2>4. CASE SendOrder(p)
    BY <2>4 DEF SendOrder
  <2>5. CASE SettleSignal(p)
    BY <2>5 DEF SettleSignal, Statuses
  <2>6. ASSUME NEW s \in Signals, Reconcile(p, s) PROVE IInv'
    BY <2>6 DEF Reconcile, Recovered, Statuses
  <2> QED
    BY <1>4, <2>1, <2>2, <2>3, <2>4, <2>5, <2>6 DEF Work
<1>5. CASE UNCHANGED vars
  BY <1>5 DEF vars
<1> QED
  BY <1>1, <1>2, <1>3, <1>4, <1>5 DEF Next

\* No signal is sent twice (SentOnce), with any number of processes on one file.
THEOREM SharedStoreSendsOnce == Spec => []SentOnce
<1>1. IInv => SentOnce
  BY DEF IInv
<1> QED
  BY <1>1, InitIInv, NextIInv, PTL DEF Spec

----------------------------------------------------------------------------
(* A claim is one step of an atomic queue                                  *)

Rows == {s \in Signals : status[s] # "ABSENT"}

Pending == WithStatus("PENDING")

\* AUTOINCREMENT: a row's id is new, and above every other.
IdsOK ==
  /\ id \in [Signals -> Nat] /\ IsFiniteSet(Rows)
  /\ \A s \in Rows : id[s] <= Cardinality(Rows)
  /\ \A s, t \in Rows : id[s] = id[t] => s = t

\* What waits has not been taken.
TakenOK ==
  /\ taker \in [Signals -> Processes \cup {Nobody}]
  /\ \A s \in Signals : status[s] \in {"ABSENT", "PENDING"} => taker[s] = Nobody

\* What a SELECT returned is still the oldest, or no longer pending.
PickedOK ==
  \A p \in Processes :
    picked[p] # Nobody => picked[p] \in Rows /\ (picked[p] \in Pending => picked[p] \in NextPending)

\* No place in the queue is empty.
AllPlaces(rows, ids) ==
  \A i \in 1 .. Cardinality(rows) : \E s \in rows : Cardinality(UpTo(rows, ids, s)) = i

PlacesTaken == AllPlaces(Pending, id)

Distinct(rows, ids) ==
  \A s \in rows : ids[s] \in Nat /\ \A t \in rows : ids[s] = ids[t] => s = t

QueueInv == IInv /\ IdsOK /\ TakenOK /\ PickedOK /\ PlacesTaken

----------------------------------------------------------------------------
(* Rows in the order of their ids                                          *)

LEMMA PlaceIsNatural ==
  ASSUME NEW rows, IsFiniteSet(rows), NEW ids, NEW s
  PROVE  /\ IsFiniteSet(UpTo(rows, ids, s)) /\ UpTo(rows, ids, s) \subseteq rows
         /\ Cardinality(UpTo(rows, ids, s)) \in Nat
         /\ Cardinality(UpTo(rows, ids, s)) <= Cardinality(rows)
<1>1. UpTo(rows, ids, s) \in SUBSET rows
  BY DEF UpTo
<1> QED
  BY <1>1, FS_Subset, FS_CardinalityType

\* Two rows have two places.
LEMMA PlaceIsItsOwn ==
  ASSUME NEW rows, IsFiniteSet(rows), NEW ids, Distinct(rows, ids), NEW s \in rows, NEW t \in rows,
         Cardinality(UpTo(rows, ids, s)) = Cardinality(UpTo(rows, ids, t))
  PROVE  s = t
<1>1. ASSUME NEW a \in rows, NEW b \in rows, ids[a] <= ids[b],
             Cardinality(UpTo(rows, ids, a)) = Cardinality(UpTo(rows, ids, b))
      PROVE  a = b
  <2>1. UpTo(rows, ids, a) \in SUBSET UpTo(rows, ids, b)
    BY <1>1 DEF UpTo, Distinct
  <2>2. UpTo(rows, ids, a) = UpTo(rows, ids, b)
    BY <1>1, <2>1, PlaceIsNatural, FS_Subset
  <2>3. b \in UpTo(rows, ids, b)
    BY <1>1 DEF UpTo, Distinct
  <2>4. ids[b] <= ids[a]
    BY <2>2, <2>3 DEF UpTo
  <2> QED
    BY <1>1, <2>4 DEF Distinct
<1>2. ids[s] <= ids[t] \/ ids[t] <= ids[s]
  BY DEF Distinct
<1> QED
  BY <1>1, <1>2

\* The sequence has every row at its place.
LEMMA OrderIsSequence ==
  ASSUME NEW rows, IsFiniteSet(rows), NEW ids, AllPlaces(rows, ids)
  PROVE  /\ InOrder(rows, ids) \in Seq(rows) /\ Len(InOrder(rows, ids)) = Cardinality(rows)
         /\ \A i \in 1 .. Cardinality(rows) :
              /\ InOrder(rows, ids)[i] \in rows
              /\ Cardinality(UpTo(rows, ids, InOrder(rows, ids)[i])) = i
<1> DEFINE q == InOrder(rows, ids)
<1>1. Cardinality(rows) \in Nat
  BY FS_CardinalityType
<1>2. \A i \in 1 .. Cardinality(rows) : q[i] \in rows /\ Cardinality(UpTo(rows, ids, q[i])) = i
  <2> TAKE i \in 1 .. Cardinality(rows)
  <2>1. q[i] = CHOOSE s \in rows : Cardinality(UpTo(rows, ids, s)) = i
    BY DEF InOrder
  <2>2. \E s \in rows : Cardinality(UpTo(rows, ids, s)) = i
    BY DEF AllPlaces
  <2> QED
    BY <2>1, <2>2
<1>3. q \in [1 .. Cardinality(rows) -> rows]
  <2>1. q = [i \in 1 .. Cardinality(rows) |-> q[i]]
    BY DEF InOrder
  <2> QED
    BY <1>2, <2>1
<1>4. q \in Seq(rows)
  BY <1>1, <1>3, SeqDef
<1> HIDE DEF q
<1>5. Len(q) = Cardinality(rows)
  BY <1>1, <1>3, <1>4, LenProperties
<1> QED
  BY <1>2, <1>4, <1>5 DEF q

\* What stands where, from its place.
LEMMA StandsAt ==
  ASSUME NEW rows, IsFiniteSet(rows), NEW ids, AllPlaces(rows, ids), Distinct(rows, ids),
         NEW i \in 1 .. Cardinality(rows), NEW s \in rows, Cardinality(UpTo(rows, ids, s)) = i
  PROVE  InOrder(rows, ids)[i] = s
  BY OrderIsSequence, PlaceIsItsOwn

Lengthens(longer, q, last) == longer = Append(q, last)

\* A row with a larger id goes to the end.
LEMMA NewestIsLast ==
  ASSUME NEW rows, IsFiniteSet(rows), NEW ids, AllPlaces(rows, ids), Distinct(rows, ids),
         NEW new, new \notin rows, NEW later, later[new] \in Nat,
         \A s \in rows : later[s] = ids[s], \A s \in rows : ids[s] < later[new]
  PROVE  /\ AllPlaces(rows \cup {new}, later) /\ Distinct(rows \cup {new}, later)
         /\ Lengthens(InOrder(rows \cup {new}, later), InOrder(rows, ids), new)
<1> DEFINE more == rows \cup {new}
           n == Cardinality(rows)
<1>1. IsFiniteSet(more) /\ Cardinality(more) = n + 1 /\ n \in Nat
  BY FS_AddElement, FS_CardinalityType
<1>2. Distinct(more, later)
  BY DEF Distinct
<1>3. \A s \in rows : UpTo(more, later, s) = UpTo(rows, ids, s)
  BY DEF UpTo, Distinct
<1>4. UpTo(more, later, new) = more
  BY DEF UpTo, Distinct
<1>5. ASSUME NEW i \in 1 .. n + 1
      PROVE  \E s \in more : Cardinality(UpTo(more, later, s)) = i
  <2>1. CASE i = n + 1
    BY <1>1, <1>4, <2>1
  <2>2. CASE i \in 1 .. n
    BY <1>3, <2>2 DEF AllPlaces
  <2> QED
    BY <1>1, <2>1, <2>2
<1>6. AllPlaces(more, later)
  BY <1>1, <1>5 DEF AllPlaces
<1> DEFINE q == InOrder(rows, ids)
           r == InOrder(more, later)
<1>7. /\ q \in Seq(rows) /\ Len(q) = n
      /\ \A i \in 1 .. n : q[i] \in rows /\ Cardinality(UpTo(rows, ids, q[i])) = i
  BY OrderIsSequence
<1>8. r \in Seq(more) /\ Len(r) = n + 1
  BY <1>1, <1>6, OrderIsSequence
<1>9. q \in Seq(more)
  BY <1>7, SeqMonotonic
<1>10. /\ Append(q, new) \in Seq(more) /\ Len(Append(q, new)) = n + 1
       /\ \A i \in 1 .. n : Append(q, new)[i] = q[i]
       /\ Append(q, new)[n + 1] = new
  BY <1>7, <1>9, AppendProperties
<1>11. ASSUME NEW i \in 1 .. n + 1 PROVE r[i] = Append(q, new)[i]
  <2>1. CASE i = n + 1
    <3>1. Cardinality(UpTo(more, later, new)) = i /\ i \in 1 .. Cardinality(more)
      BY <1>1, <1>4, <2>1
    <3> QED
      BY <1>1, <1>2, <1>6, <1>10, <2>1, <3>1, StandsAt
  <2>2. CASE i \in 1 .. n
    <3>1. q[i] \in more /\ Cardinality(UpTo(more, later, q[i])) = i /\ i \in 1 .. Cardinality(more)
      BY <1>1, <1>3, <1>7, <2>2
    <3> QED
      BY <1>1, <1>2, <1>6, <1>10, <2>2, <3>1, StandsAt
  <2>3. i = n + 1 \/ i \in 1 .. n
    BY <1>1
  <2> QED
    BY <2>1, <2>2, <2>3
<1> HIDE DEF q, r, n
<1>12. r = Append(q, new)
  BY <1>8, <1>10, <1>11, SeqEqual
<1> QED
  BY <1>2, <1>6, <1>12 DEF q, r, Lengthens

\* The row with the smallest id comes first, and the others move up.
LEMMA OldestIsFirst ==
  ASSUME NEW rows, IsFiniteSet(rows), NEW ids, AllPlaces(rows, ids), Distinct(rows, ids),
         NEW first \in rows, \A s \in rows : ids[first] <= ids[s]
  PROVE  /\ AllPlaces(rows \ {first}, ids) /\ Distinct(rows \ {first}, ids)
         /\ InOrder(rows, ids) # <<>> /\ Head(InOrder(rows, ids)) = first
         /\ Tail(InOrder(rows, ids)) = InOrder(rows \ {first}, ids)
<1> DEFINE less == rows \ {first}
           n == Cardinality(rows)
<1>1. IsFiniteSet(less) /\ Cardinality(less) = n - 1 /\ n \in Nat \ {0}
  <2>1. n \in Nat /\ n # 0
    BY FS_EmptySet, FS_CardinalityType
  <2> QED
    BY <2>1, FS_RemoveElement
<1>2. Distinct(less, ids)
  BY DEF Distinct
<1>3. ASSUME NEW s \in less
      PROVE  Cardinality(UpTo(rows, ids, s)) = Cardinality(UpTo(less, ids, s)) + 1
  <2>1. UpTo(rows, ids, s) = UpTo(less, ids, s) \cup {first} /\ first \notin UpTo(less, ids, s)
    BY DEF UpTo
  <2> QED
    BY <1>1, <2>1, PlaceIsNatural, FS_AddElement
<1>4. Cardinality(UpTo(rows, ids, first)) = 1
  <2>1. UpTo(rows, ids, first) = {first}
    BY DEF UpTo, Distinct
  <2> QED
    BY <2>1, FS_Singleton
<1>5. AllPlaces(less, ids)
  <2>1. ASSUME NEW i \in 1 .. n - 1 PROVE \E s \in less : Cardinality(UpTo(less, ids, s)) = i
    <3>1. i + 1 \in 1 .. n
      BY <1>1
    <3>2. PICK s \in rows : Cardinality(UpTo(rows, ids, s)) = i + 1
      BY <3>1 DEF AllPlaces
    <3>3. s \in less
      BY <1>1, <1>4, <3>2
    <3>4. Cardinality(UpTo(less, ids, s)) \in Nat
      BY <1>1, PlaceIsNatural
    <3> QED
      BY <1>1, <1>3, <3>2, <3>3, <3>4
  <2> QED
    BY <1>1, <2>1 DEF AllPlaces
<1> DEFINE q == InOrder(rows, ids)
           r == InOrder(less, ids)
<1>6. /\ q \in Seq(rows) /\ Len(q) = n
  BY OrderIsSequence
<1>7. /\ r \in Seq(less) /\ Len(r) = n - 1
      /\ \A i \in 1 .. n - 1 : r[i] \in less /\ Cardinality(UpTo(less, ids, r[i])) = i
  BY <1>1, <1>5, OrderIsSequence
<1>8. q[1] = first
  BY <1>1, <1>4, StandsAt
<1>9. q # <<>> /\ Head(q) = first
  <2> HIDE DEF q
  <2> QED
    BY <1>1, <1>6, <1>8
<1>10. /\ Tail(q) \in Seq(rows) /\ Len(Tail(q)) = n - 1
       /\ \A i \in 1 .. n - 1 : Tail(q)[i] = q[i + 1]
  BY <1>6, <1>9, HeadTailProperties
<1>11. ASSUME NEW i \in 1 .. n - 1 PROVE Tail(q)[i] = r[i]
  <2>1. i + 1 \in 1 .. n
    BY <1>1
  <2>2. r[i] \in rows /\ Cardinality(UpTo(rows, ids, r[i])) = i + 1
    BY <1>3, <1>7
  <2>3. q[i + 1] = r[i]
    BY <2>1, <2>2, StandsAt
  <2> QED
    BY <1>10, <2>3
<1>12. r \in Seq(rows)
  BY <1>7, SeqMonotonic
<1> HIDE DEF q, r, n
<1>13. Tail(q) = r
  BY <1>7, <1>10, <1>11, <1>12, SeqEqual
<1> QED
  BY <1>2, <1>5, <1>9, <1>13 DEF q, r

----------------------------------------------------------------------------
(* The steps                                                               *)

LEMMA InitQueue == Init => QueueInv /\ Queue!Init
<1> SUFFICES ASSUME Init PROVE QueueInv /\ Queue!Init
  OBVIOUS
<1>1. IInv
  BY InitIInv
<1>2. Rows = {} /\ Pending = {}
  BY DEF Init, Rows, Pending, WithStatus
<1>3. IdsOK
  BY <1>2, FS_EmptySet DEF IdsOK, Init
<1>4. TakenOK
  BY DEF TakenOK, Init
<1>5. PickedOK
  BY DEF PickedOK, Init
<1>6. PlacesTaken
  BY <1>2, FS_EmptySet DEF PlacesTaken, AllPlaces
<1>7. waiting = <<>>
  <2>1. InOrder({}, id) \in Seq({}) /\ Len(InOrder({}, id)) = 0
    BY <1>2, <1>6, FS_EmptySet, OrderIsSequence DEF PlacesTaken
  <2>2. InOrder({}, id) = <<>>
    BY <2>1, EmptySeq
  <2> QED
    BY <1>2, <2>2 DEF waiting, Pending
<1>8. Queue!Init
  BY <1>7 DEF Queue!Init, Init
<1> QED
  BY <1>1, <1>3, <1>4, <1>5, <1>6, <1>8 DEF QueueInv

\* The pending rows are finitely many, with ids of their own.
LEMMA PendingRows ==
  ASSUME QueueInv
  PROVE  Pending \subseteq Rows /\ IsFiniteSet(Pending) /\ Distinct(Pending, id)
<1>1. Pending \in SUBSET Rows
  BY DEF Pending, WithStatus, Rows
<1>2. IsFiniteSet(Pending)
  BY <1>1, FS_Subset DEF QueueInv, IdsOK
<1>3. Distinct(Pending, id)
  BY <1>1 DEF QueueInv, IdsOK, Distinct, Rows
<1> QED
  BY <1>1, <1>2, <1>3

\* A step that neither adds a row nor takes one out of PENDING stutters for the queue.
LEMMA QueueUntouched ==
  ASSUME QueueInv, IInv', PickedOK', UNCHANGED <<id, taker>>,
         \A s \in Signals :
           \/ status'[s] = status[s]
           \/ status[s] \notin {"ABSENT", "PENDING"} /\ status'[s] \notin {"ABSENT", "PENDING"}
  PROVE  QueueInv' /\ UNCHANGED Queue!vars
<1>1. Rows' = Rows /\ Pending' = Pending
  BY DEF Rows, Pending, WithStatus
<1>2. IdsOK'
  BY <1>1 DEF QueueInv, IdsOK
<1>3. TakenOK'
  BY DEF QueueInv, TakenOK
<1>4. PlacesTaken'
  BY <1>1 DEF QueueInv, PlacesTaken
<1>5. UNCHANGED waiting
  BY <1>1 DEF waiting, Pending
<1> QED
  BY <1>2, <1>3, <1>4, <1>5 DEF QueueInv, Queue!vars

\* A submission puts its signal at the end.
LEMMA SubmitPuts ==
  ASSUME QueueInv, IInv', NEW s \in Signals, Submit(s)
  PROVE  QueueInv' /\ Queue!Put(s)
<1> DEFINE n == Cardinality(Rows)
<1>1. /\ status[s] = "ABSENT" /\ status' = [status EXCEPT ![s] = "PENDING"]
      /\ id' = [id EXCEPT ![s] = n + 1] /\ UNCHANGED <<picked, taker>>
  BY DEF Submit, update_signal_status, Rows
<1>2. /\ Rows' = Rows \cup {s} /\ Pending' = Pending \cup {s}
      /\ s \notin Rows /\ s \notin Pending
  BY <1>1 DEF Rows, Pending, WithStatus, QueueInv, IInv, TypeOK
<1>3. IsFiniteSet(Rows') /\ Cardinality(Rows') = n + 1 /\ n \in Nat
  BY <1>2, FS_AddElement, FS_CardinalityType DEF QueueInv, IdsOK
<1>4. /\ id' \in [Signals -> Nat] /\ id'[s] = n + 1
      /\ \A t \in Rows : id'[t] = id[t] /\ id[t] <= n /\ id[t] \in Nat
  BY <1>1, <1>2, <1>3 DEF QueueInv, IdsOK, Rows
<1>5. IdsOK'
  BY <1>2, <1>3, <1>4 DEF QueueInv, IdsOK
<1>6. TakenOK'
  BY <1>1 DEF QueueInv, TakenOK, IInv, TypeOK
<1>7. PickedOK'
  <2> SUFFICES ASSUME NEW p \in Processes, picked[p] # Nobody
               PROVE  picked[p] \in Rows' /\ (picked[p] \in Pending' => picked[p] \in NextPending')
    BY <1>1 DEF PickedOK
  <2>1. picked[p] \in Rows /\ (picked[p] \in Pending => picked[p] \in NextPending)
    BY DEF QueueInv, PickedOK
  <2>2. picked[p] # s
    BY <1>2, <2>1
  <2>3. ASSUME picked[p] \in Pending PROVE picked[p] \in NextPending'
    <3>1. \A t \in Pending : id[picked[p]] <= id[t]
      BY <2>1, <2>3 DEF NextPending, Pending
    <3>2. \A t \in Pending' : id'[picked[p]] <= id'[t]
      BY <1>2, <1>3, <1>4, <2>1, <3>1, PendingRows
    <3> QED
      BY <1>2, <2>3, <3>2 DEF NextPending, Pending
  <2> QED
    BY <1>2, <2>1, <2>2, <2>3
<1>8. AllPlaces(Pending \cup {s}, id') /\ Lengthens(InOrder(Pending \cup {s}, id'), InOrder(Pending, id), s)
  <2>1. \A t \in Pending : id'[t] = id[t] /\ id[t] < id'[s]
    BY <1>3, <1>4, PendingRows
  <2>2. id'[s] \in Nat
    BY <1>3, <1>4
  <2>3. PICK later : later = id'
    OBVIOUS
  <2>4. /\ IsFiniteSet(Pending) /\ AllPlaces(Pending, id) /\ Distinct(Pending, id) /\ s \notin Pending
        /\ later[s] \in Nat
        /\ \A t \in Pending : later[t] = id[t]
        /\ \A t \in Pending : id[t] < later[s]
    BY <1>2, <2>1, <2>2, <2>3, PendingRows DEF QueueInv, PlacesTaken
  <2>5. /\ AllPlaces(Pending \cup {s}, later)
        /\ Lengthens(InOrder(Pending \cup {s}, later), InOrder(Pending, id), s)
    BY <2>4, NewestIsLast
  <2> QED
    BY <2>3, <2>5
<1>9. PlacesTaken'
  BY <1>2, <1>8 DEF PlacesTaken
<1>10. waiting' = Append(waiting, s)
  BY <1>2, <1>8 DEF waiting, Pending, Lengthens
<1>11. \A i \in DOMAIN waiting : waiting[i] # s
  <2>1. /\ waiting \in Seq(Pending) /\ Len(waiting) = Cardinality(Pending)
        /\ \A i \in 1 .. Cardinality(Pending) : waiting[i] \in Pending
    BY PendingRows, OrderIsSequence DEF QueueInv, PlacesTaken, waiting, Pending
  <2> QED
    BY <1>2, <2>1
<1>12. taker[s] = Nobody
  BY <1>1 DEF QueueInv, TakenOK
<1> QED
  BY <1>1, <1>5, <1>6, <1>7, <1>9, <1>10, <1>11, <1>12 DEF QueueInv, Queue!Put

\* The UPDATE takes the head, or nothing.
LEMMA ClaimTakes ==
  ASSUME QueueInv, IInv', NEW p \in Processes, ClaimPicked(p)
  PROVE  QueueInv' /\ [Queue!Next]_(Queue!vars)
<1> DEFINE m == picked[p]
<1>1. m \in Signals /\ m \in Rows /\ picked' = [picked EXCEPT ![p] = Nobody] /\ UNCHANGED id
  BY DEF ClaimPicked, QueueInv, PickedOK, Rows
<1>2. CASE status[m] # "PENDING"
  <2>1. UNCHANGED <<status, taker>>
    BY <1>2 DEF ClaimPicked
  <2>2. PickedOK'
    BY <1>1, <2>1 DEF QueueInv, PickedOK, Rows, Pending, WithStatus, NextPending, IInv, TypeOK
  <2>3. /\ UNCHANGED <<id, taker>>
        /\ \A s \in Signals :
             \/ status'[s] = status[s]
             \/ status[s] \notin {"ABSENT", "PENDING"} /\ status'[s] \notin {"ABSENT", "PENDING"}
    BY <1>1, <2>1
  <2>4. QueueInv' /\ UNCHANGED Queue!vars
    BY <2>2, <2>3, QueueUntouched
  <2> QED
    BY <2>4
<1>3. CASE status[m] = "PENDING"
  <2>1. /\ status' = [status EXCEPT ![m] = "PROCESSING"] /\ taker' = [taker EXCEPT ![m] = p]
    BY <1>3 DEF ClaimPicked, update_signal_status
  <2>2. Rows' = Rows /\ Pending' = Pending \ {m} /\ m \in Pending
    BY <1>1, <1>3, <2>1 DEF Rows, Pending, WithStatus, QueueInv, IInv, TypeOK
  <2>3. IdsOK'
    BY <1>1, <2>2 DEF QueueInv, IdsOK
  <2>4. TakenOK'
    BY <2>1 DEF QueueInv, TakenOK, IInv, TypeOK
  <2>5. \A s \in Pending : id[m] <= id[s]
    BY <1>1, <2>2, NobodyAssumption DEF QueueInv, PickedOK, NextPending, Pending
  <2>6. PickedOK'
    <3> SUFFICES ASSUME NEW o \in Processes, picked'[o] # Nobody
                 PROVE  picked'[o] \in Rows' /\ (picked'[o] \in Pending' => picked'[o] \in NextPending')
      BY DEF PickedOK
    <3>1. picked'[o] = picked[o] /\ picked[o] # Nobody
      BY <1>1 DEF QueueInv, IInv, TypeOK
    <3>2. picked[o] \in Rows /\ (picked[o] \in Pending => picked[o] \in NextPending)
      BY <3>1 DEF QueueInv, PickedOK
    <3> QED
      BY <1>1, <2>2, <3>1, <3>2 DEF NextPending, Pending
  <2>7. /\ AllPlaces(Pending \ {m}, id)
        /\ InOrder(Pending, id) # <<>> /\ Head(InOrder(Pending, id)) = m
        /\ Tail(InOrder(Pending, id)) = InOrder(Pending \ {m}, id)
    BY <2>2, <2>5, PendingRows, OldestIsFirst DEF QueueInv, PlacesTaken
  <2>8. PlacesTaken'
    BY <1>1, <2>2, <2>7 DEF PlacesTaken
  <2>9. waiting # <<>> /\ Head(waiting) = m /\ waiting' = Tail(waiting)
    BY <1>1, <2>2, <2>7 DEF waiting, Pending
  <2>10. Queue!Take(p)
    BY <2>1, <2>9 DEF Queue!Take
  <2> QED
    BY <2>3, <2>4, <2>6, <2>8, <2>10 DEF QueueInv, Queue!Next
<1> QED
  BY <1>2, <1>3

\* Starting, leaving, recovering, sending and settling leave the queue alone: what they
\* write has left it, and a SELECT takes the oldest.
LEMMA OthersStutter ==
  ASSUME QueueInv, IInv', NEW p \in Processes,
         \/ Start(p) \/ Leave(p) \/ StartWorker(p) \/ SelectPending(p) \/ SendOrder(p)
         \/ SettleSignal(p) \/ \E s \in Signals : Reconcile(p, s)
  PROVE  QueueInv' /\ UNCHANGED Queue!vars
<1> USE DEF QueueInv, IInv, TypeOK
<1>1. UNCHANGED <<id, taker>>
  BY DEF Start, Leave, StartWorker, SelectPending, SendOrder, SettleSignal, Reconcile
<1>2. \A s \in Signals :
        \/ status'[s] = status[s]
        \/ status[s] \notin {"ABSENT", "PENDING"} /\ status'[s] \notin {"ABSENT", "PENDING"}
  <2>1. CASE SettleSignal(p)
    BY <2>1 DEF SettleSignal, update_signal_status, FreshRows
  <2>2. ASSUME NEW s \in Signals, Reconcile(p, s)
        PROVE  /\ status[s] \notin {"ABSENT", "PENDING"}
               /\ status' = [status EXCEPT ![s] = Recovered(s)]
               /\ Recovered(s) \notin {"ABSENT", "PENDING"}
    BY <2>2 DEF Reconcile, update_signal_status, Recovered, FreshRows
  <2>3. CASE UNCHANGED status
    BY <2>3
  <2> QED
    BY <2>1, <2>2, <2>3 DEF Start, Leave, StartWorker, SelectPending, SendOrder
<1>3. Rows' = Rows /\ Pending' = Pending /\ NextPending' = NextPending
  BY <1>1, <1>2 DEF Rows, Pending, NextPending, WithStatus
<1>4. PickedOK'
  <2>1. ASSUME NEW o \in Processes, picked'[o] # Nobody
        PROVE  picked'[o] = picked[o] \/ picked'[o] \in NextPending
    BY <2>1 DEF Start, Leave, StartWorker, SelectPending, SendOrder, SettleSignal, Reconcile
  <2>2. NextPending \subseteq Rows
    BY DEF NextPending, WithStatus, Rows
  <2> QED
    BY <1>3, <2>1, <2>2 DEF PickedOK
<1> QED
  BY <1>1, <1>2, <1>4, QueueUntouched

LEMMA NextQueue == QueueInv /\ [Next]_vars => QueueInv' /\ [Queue!Next]_(Queue!vars)
<1> SUFFICES ASSUME QueueInv, [Next]_vars PROVE QueueInv' /\ [Queue!Next]_(Queue!vars)
  OBVIOUS
<1>1. IInv'
  BY NextIInv DEF QueueInv
<1>2. ASSUME NEW s \in Signals, Submit(s) PROVE QueueInv' /\ [Queue!Next]_(Queue!vars)
  BY <1>1, <1>2, SubmitPuts DEF Queue!Next
<1>3. ASSUME NEW p \in Processes, Start(p) \/ Leave(p) \/ Work(p)
      PROVE  QueueInv' /\ [Queue!Next]_(Queue!vars)
  <2>1. CASE ClaimPicked(p)
    BY <1>1, <2>1, ClaimTakes
  <2>2. CASE ~ClaimPicked(p)
    <3>1. QueueInv' /\ UNCHANGED Queue!vars
      BY <1>1, <1>3, <2>2, OthersStutter DEF Work
    <3> QED
      BY <3>1
  <2> QED
    BY <2>1, <2>2
<1>4. CASE UNCHANGED vars
  <2>1. UNCHANGED <<id, taker, status, picked>>
    BY <1>4 DEF vars
  <2>2. PickedOK'
    BY <2>1 DEF QueueInv, PickedOK, Rows, Pending, NextPending, WithStatus
  <2>3. QueueInv' /\ UNCHANGED Queue!vars
    BY <1>1, <2>1, <2>2, QueueUntouched
  <2> QED
    BY <2>3
<1> QED
  BY <1>2, <1>3, <1>4 DEF Next

\* With SELECT and UPDATE as two steps, and any number of processes that start, stop and
\* recover in between, claims are those of an atomic queue (ClaimsAreAtomic).
THEOREM ClaimsRefineQueue == Spec => ClaimsAreAtomic
  BY InitQueue, NextQueue, PTL DEF Spec, ClaimsAreAtomic, Queue!Spec
=============================================================================
