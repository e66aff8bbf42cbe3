---------------------------- MODULE SourcesProofs ----------------------------
(***************************************************************************)
(* For any sources, signals, bodies and failures: a signal is reported new *)
(* once, to the source whose body is stored, and no source sees a status   *)
(* go backwards.  Both rest on what an answer still on its way says of the *)
(* bridge, which went on since it was given.                               *)
(***************************************************************************)
EXTENDS Sources, TLAPS

Statuses == {"absent", "queued", "started"} \cup Settled

Requests ==
  [kind : {"POST"}, client : Clients, id : Signals, body : Contents, live : BOOLEAN]
    \cup [kind : {"GET"}, client : Clients, id : Signals, live : BOOLEAN]

Answers ==
  [kind : {"error"}] \cup [kind : {"found"}, status : Statuses]
    \cup [kind : {"accepted"}, duplicate : BOOLEAN, status : Statuses]

SourcesTypes ==
  /\ outcome \in [Signals -> Statuses]
  /\ exposure \in [Signals -> {"none", "pending", "filled", "void"}]
  /\ content \in [Signals -> Contents \cup {"none"}]
  /\ requests \subseteq Requests
  /\ call \in [Clients -> Requests \cup {None}]
  /\ reply \in [Clients -> Answers \cup {None}]
  /\ accepted \in [Clients -> SUBSET Signals]
  /\ seen \in [Clients -> [Signals -> Statuses]]
  /\ created \in [Signals -> Seq(Contents)]

\* An answer on its way is awaited.
AnswerAwaited == \A c \in Clients : reply[c] # None => call[c] # None

\* The answer on its way to the source says that its submission created the row.
NewFor(c, s) ==
  /\ reply[c].kind = "accepted" /\ ~reply[c].duplicate
  /\ call[c].id = s

\* The one answer that says so belongs to the body stored, and there is none once it
\* has been received, or while there is no row.
NewOnce(s) ==
  /\ outcome[s] = "absent" => created[s] = <<>> /\ \A c \in Clients : ~NewFor(c, s)
  /\ created[s] # <<>> =>
       /\ Len(created[s]) = 1 /\ created[s][1] = content[s]
       /\ \A c \in Clients : ~NewFor(c, s)
  /\ \A c \in Clients : NewFor(c, s) => call[c].kind = "POST" /\ call[c].body = content[s]
  /\ \A c, d \in Clients : NewFor(c, s) /\ NewFor(d, s) => c = d

\* The order in which a signal passes through its statuses.
Before(a, b) == a = b \/ Rank(a) < Rank(b)

\* An answer on its way is not older than what its source has seen.
Told(c) ==
  /\ \A s \in Signals : Before(seen[c][s], outcome[s])
  /\ reply[c].kind \in {"found", "accepted"} =>
       /\ Before(seen[c][call[c].id], reply[c].status)
       /\ Before(reply[c].status, outcome[call[c].id])

SourcesInv ==
  /\ SourcesTypes /\ AnswerAwaited
  /\ \A s \in Signals : NewOnce(s)
  /\ \A c \in Clients : Told(c)

----------------------------------------------------------------------------
(* Facts about the parts                                                   *)

\* An answer is told from no answer.
LEMMA NoneIsNoAnswer ==
  /\ None.kind = "none" /\ None \notin Answers /\ None \notin Requests
  /\ \A a \in Answers : a # None /\ a.kind \in {"error", "found", "accepted"}
  BY DEF None, Answers, Requests

LEMMA OneAppended ==
  ASSUME NEW body
  PROVE  Append(<<>>, body) = <<body>>
  OBVIOUS

LEMMA BeforeItself == \A a : Before(a, a)
  BY DEF Before

LEMMA BeforeIsTransitive ==
  ASSUME NEW a \in Statuses, NEW b \in Statuses, NEW c \in Statuses, Before(a, b), Before(b, c)
  PROVE  Before(a, c)
<1>1. \A d \in Statuses : Rank(d) \in Nat
  BY DEF Rank, Statuses, Settled
<1> QED
  BY <1>1 DEF Before

\* What the bridge does to a signal takes it forward.
LEMMA MovesForward ==
  ASSUME SourcesTypes, NEW s \in Signals,
         \/ Bridge!Accept(s) \/ Bridge!Start(s) \/ Bridge!Place(s)
         \/ Bridge!Settle(s) \/ Bridge!Resolve(s)
  PROVE  /\ outcome' \in [Signals -> Statuses]
         /\ exposure' \in [Signals -> {"none", "pending", "filled", "void"}]
         /\ \A t \in Signals : Before(outcome[t], outcome'[t])
         /\ \A t \in Signals : outcome'[t] = "absent" => outcome[t] = "absent"
<1> USE DEF SourcesTypes
<1>1. CASE Bridge!Accept(s)
  BY <1>1 DEF Bridge!Accept, Bridge!Move, Before, Rank, Statuses
<1>2. CASE Bridge!Start(s)
  BY <1>2 DEF Bridge!Start, Bridge!Move, Before, Rank, Statuses
<1>3. CASE Bridge!Place(s)
  BY <1>3 DEF Bridge!Place, Before
<1>4. CASE Bridge!Settle(s)
  BY <1>4 DEF Bridge!Settle, Bridge!Move, Before, Rank, Statuses, Settled
<1>5. CASE Bridge!Resolve(s)
  BY <1>5 DEF Bridge!Resolve, Before
<1> QED
  BY <1>1, <1>2, <1>3, <1>4, <1>5

----------------------------------------------------------------------------
LEMMA InitSources == Init => SourcesInv
<1> SUFFICES ASSUME Init PROVE SourcesInv
  OBVIOUS
<1> USE DEF Init, Bridge!Init
<1>1. SourcesTypes
  BY DEF SourcesTypes, Statuses
<1>2. AnswerAwaited
  BY DEF AnswerAwaited
<1>3. \A c \in Clients : reply[c].kind = "none"
  BY NoneIsNoAnswer
<1>4. ASSUME NEW s \in Signals PROVE NewOnce(s)
  BY <1>3 DEF NewOnce, NewFor
<1>5. ASSUME NEW c \in Clients PROVE Told(c)
  BY <1>3 DEF Told, Before
<1> QED
  BY <1>1, <1>2, <1>4, <1>5 DEF SourcesInv

\* A step of the bridge alone.
LEMMA BridgeMoves ==
  ASSUME SourcesInv, NEW s \in Signals,
         \/ Bridge!Start(s) \/ Bridge!Place(s) \/ Bridge!Settle(s) \/ Bridge!Resolve(s),
         UNCHANGED <<content, requests, call, reply, source>>
  PROVE  SourcesInv'
<1> USE DEF SourcesInv, source
<1>1. /\ outcome' \in [Signals -> Statuses]
      /\ exposure' \in [Signals -> {"none", "pending", "filled", "void"}]
      /\ \A t \in Signals : Before(outcome[t], outcome'[t])
      /\ \A t \in Signals : outcome'[t] = "absent" => outcome[t] = "absent"
  BY MovesForward
<1>2. SourcesTypes'
  BY <1>1 DEF SourcesTypes
<1>3. AnswerAwaited'
  BY DEF AnswerAwaited
<1>4. ASSUME NEW t \in Signals PROVE NewOnce(t)'
  BY <1>1 DEF NewOnce, NewFor
<1>5. ASSUME NEW c \in Clients PROVE Told(c)'
  <2>1. \A t \in Signals : Before(seen'[c][t], outcome'[t])
    BY <1>1, BeforeIsTransitive DEF SourcesTypes, Told
  <2>2. ASSUME reply[c].kind \in {"found", "accepted"}
        PROVE  /\ Before(seen'[c][call'[c].id], reply'[c].status)
               /\ Before(reply'[c].status, outcome'[call'[c].id])
    <3>1. reply[c] \in Answers /\ call[c] \in Requests
      BY <2>2, NoneIsNoAnswer DEF SourcesTypes, AnswerAwaited
    <3>2. reply[c].status \in Statuses /\ call[c].id \in Signals
      BY <2>2, <3>1 DEF Answers, Requests
    <3> QED
      BY <1>1, <2>2, <3>2, BeforeIsTransitive DEF SourcesTypes, Told
  <2> QED
    BY <2>1, <2>2 DEF Told
<1> QED
  BY <1>2, <1>3, <1>4, <1>5

\* A call that ends without its answer takes nothing but the answer with it.
LEMMA AnswersForgotten ==
  ASSUME SourcesInv, SourcesTypes', UNCHANGED <<bridge, seen, created>>,
         \A c \in Clients : reply'[c] = None \/ (reply'[c] = reply[c] /\ call'[c] = call[c])
  PROVE  SourcesInv'
<1> USE DEF SourcesInv, bridge
<1>1. AnswerAwaited'
  BY DEF AnswerAwaited
<1>2. \A c \in Clients : reply'[c].kind = "none" \/ (reply'[c] = reply[c] /\ call'[c] = call[c])
  BY NoneIsNoAnswer
<1>3. \A c \in Clients, s \in Signals : NewFor(c, s)' => NewFor(c, s) /\ call'[c] = call[c]
  BY <1>2 DEF NewFor
<1>4. ASSUME NEW s \in Signals PROVE NewOnce(s)'
  BY <1>3 DEF NewOnce
<1>5. ASSUME NEW c \in Clients PROVE Told(c)'
  BY <1>2 DEF Told
<1> QED
  BY <1>1, <1>4, <1>5

\* An answer tells what is stored, and that it is new only where it is.
LEMMA AnswerGiven ==
  ASSUME SourcesInv, NEW r \in requests, NEW a \in Answers, Answer(r, a),
         requests' \subseteq requests, UNCHANGED <<exposure, call, source>>,
         a.kind # "error" => a.status = outcome'[r.id],
         \/ UNCHANGED <<outcome, content>> /\ ~(a.kind = "accepted" /\ ~a.duplicate)
         \/ /\ r.kind = "POST" /\ outcome[r.id] = "absent"
            /\ outcome' = [outcome EXCEPT ![r.id] = "queued"]
            /\ content' = [content EXCEPT ![r.id] = r.body]
  PROVE  SourcesInv'
<1> USE DEF SourcesInv, source
<1>1. r \in Requests /\ r.client \in Clients /\ r.id \in Signals /\ r # None
  BY NoneIsNoAnswer DEF SourcesTypes, Requests
<1>2. reply' \in [Clients -> Answers \cup {None}]
  BY <1>1 DEF SourcesTypes, Answer
<1>3. \A c \in Clients :
        \/ reply'[c] = reply[c]
        \/ c = r.client /\ call[c] = r /\ reply'[c] = a
  BY <1>1 DEF SourcesTypes, Answer
<1>4. /\ outcome' \in [Signals -> Statuses] /\ content' \in [Signals -> Contents \cup {"none"}]
      /\ \A t \in Signals : Before(outcome[t], outcome'[t])
      /\ \A t \in Signals : outcome'[t] = "absent" => outcome[t] = "absent"
      /\ \A t \in Signals : t # r.id => outcome'[t] = outcome[t] /\ content'[t] = content[t]
  <2>1. CASE UNCHANGED <<outcome, content>>
    BY <2>1, BeforeItself DEF SourcesTypes
  <2>2. CASE /\ r.kind = "POST" /\ outcome[r.id] = "absent"
             /\ outcome' = [outcome EXCEPT ![r.id] = "queued"]
             /\ content' = [content EXCEPT ![r.id] = r.body]
    <3>1. r.body \in Contents
      BY <1>1, <2>2 DEF Requests
    <3> QED
      BY <1>1, <2>2, <3>1 DEF SourcesTypes, Statuses, Before, Rank
  <2> QED
    BY <2>1, <2>2
<1>5. SourcesTypes'
  BY <1>2, <1>4 DEF SourcesTypes
<1>6. AnswerAwaited'
  BY <1>1, <1>3 DEF AnswerAwaited
<1>7. ASSUME NEW s \in Signals PROVE NewOnce(s)'
  <2>1. CASE UNCHANGED <<outcome, content>> /\ ~(a.kind = "accepted" /\ ~a.duplicate)
    <3>1. \A c \in Clients : NewFor(c, s)' => NewFor(c, s)
      BY <1>3, <2>1 DEF NewFor
    <3> QED
      BY <2>1, <3>1 DEF NewOnce
  <2>2. CASE /\ r.kind = "POST" /\ outcome[r.id] = "absent"
             /\ outcome' = [outcome EXCEPT ![r.id] = "queued"]
             /\ content' = [content EXCEPT ![r.id] = r.body]
    <3>1. CASE s = r.id
      <4>1. \A c \in Clients : NewFor(c, s)' => c = r.client /\ call[c] = r
        BY <1>3, <2>2, <3>1 DEF NewOnce, NewFor
      <4>2. outcome'[s] = "queued" /\ content'[s] = r.body /\ created'[s] = <<>>
        BY <1>1, <2>2, <3>1 DEF SourcesTypes, NewOnce
      <4> QED
        BY <2>2, <4>1, <4>2 DEF NewOnce
    <3>2. CASE s # r.id
      <4>1. \A c \in Clients : NewFor(c, s)' => NewFor(c, s)
        BY <1>3, <3>2 DEF NewFor
      <4> QED
        BY <1>4, <3>2, <4>1 DEF NewOnce
    <3> QED
      BY <3>1, <3>2
  <2> QED
    BY <2>1, <2>2
<1>8. ASSUME NEW c \in Clients PROVE Told(c)'
  <2>1. \A t \in Signals : Before(seen'[c][t], outcome'[t])
    BY <1>4, BeforeIsTransitive DEF SourcesTypes, Told
  <2>2. ASSUME reply'[c].kind \in {"found", "accepted"}
        PROVE  /\ Before(seen'[c][call'[c].id], reply'[c].status)
               /\ Before(reply'[c].status, outcome'[call'[c].id])
    <3>1. CASE c = r.client /\ call[c] = r /\ reply'[c] = a
      BY <1>1, <2>1, <2>2, <3>1, BeforeItself
    <3>2. CASE reply'[c] = reply[c]
      <4>1. reply[c] \in Answers /\ call[c] \in Requests
        BY <2>2, <3>2, NoneIsNoAnswer DEF SourcesTypes, AnswerAwaited
      <4>2. reply[c].status \in Statuses /\ call[c].id \in Signals
        BY <2>2, <3>2, <4>1 DEF Answers, Requests
      <4> QED
        BY <1>4, <2>2, <3>2, <4>2, BeforeIsTransitive DEF SourcesTypes, Told
    <3> QED
      BY <1>3, <3>1, <3>2
  <2> QED
    BY <2>1, <2>2 DEF Told
<1> QED
  BY <1>5, <1>6, <1>7, <1>8

----------------------------------------------------------------------------
(* The actions                                                             *)

\* What an answer other than an error says, and of which signal.
LEMMA AnswerReceived ==
  ASSUME SourcesInv, NEW c \in Clients, reply[c] # None, reply[c].kind # "error"
  PROVE  /\ call[c].id \in Signals /\ reply[c].status \in Statuses
         /\ reply[c].kind \in {"found", "accepted"}
<1>1. reply[c] \in Answers /\ call[c] \in Requests
  BY DEF SourcesInv, SourcesTypes, AnswerAwaited
<1> QED
  BY <1>1 DEF Answers, Requests

\* Receiving an answer is what created and seen are written by.
LEMMA ReceiveSafety ==
  ASSUME SourcesInv, NEW c \in Clients, Receive(c)
  PROVE  SourcesInv'
<1> USE DEF SourcesInv
<1>1. /\ reply[c] # None /\ UNCHANGED <<outcome, exposure, content, requests>>
      /\ call' = [call EXCEPT ![c] = None] /\ reply' = [reply EXCEPT ![c] = None]
  BY DEF Receive, bridge
<1>2. reply'[c].kind = "none" /\ \A d \in Clients : d # c => reply'[d] = reply[d] /\ call'[d] = call[d]
  BY <1>1, NoneIsNoAnswer DEF SourcesTypes
<1>3. CASE reply[c].kind = "error"
  <2>1. UNCHANGED <<accepted, seen, created>>
    BY <1>3 DEF Receive, source
  <2>2. SourcesTypes'
    BY <1>1, <2>1 DEF SourcesTypes
  <2>3. \A d \in Clients : reply'[d] = None \/ (reply'[d] = reply[d] /\ call'[d] = call[d])
    BY <1>1 DEF SourcesTypes
  <2> QED
    BY <1>1, <2>1, <2>2, <2>3, AnswersForgotten DEF bridge
<1>4. CASE reply[c].kind # "error"
  <2> DEFINE s == call[c].id
             new == reply[c].kind = "accepted" /\ ~reply[c].duplicate
  <2>1. /\ s \in Signals /\ reply[c].status \in Statuses
        /\ reply[c].kind \in {"found", "accepted"}
    BY <1>1, <1>4, AnswerReceived
  <2>2. /\ accepted' = [accepted EXCEPT ![c] = @ \cup {s}]
        /\ seen' = [seen EXCEPT ![c][s] = reply[c].status]
        /\ created' = IF new THEN [created EXCEPT ![s] = Append(@, call[c].body)] ELSE created
    BY <1>4 DEF Receive
  <2>3. new => /\ NewFor(c, s) /\ created[s] = <<>>
               /\ call[c].body \in Contents /\ call[c].body = content[s]
    <3> SUFFICES ASSUME new
                 PROVE  /\ NewFor(c, s) /\ created[s] = <<>>
                        /\ call[c].body \in Contents /\ call[c].body = content[s]
      OBVIOUS
    <3>1. NewFor(c, s)
      BY DEF NewFor
    <3>2. created[s] = <<>> /\ call[c].kind = "POST" /\ call[c].body = content[s]
      BY <2>1, <3>1 DEF NewOnce
    <3>3. call[c] \in Requests
      BY <1>1 DEF SourcesTypes, AnswerAwaited
    <3> QED
      BY <3>1, <3>2, <3>3 DEF Requests
  <2>4. /\ ~new => created' = created
        /\ new => /\ created'[s] = <<content[s]>> /\ created' \in [Signals -> Seq(Contents)]
                  /\ \A t \in Signals : t # s => created'[t] = created[t]
    <3>1. CASE new
      <4>1. created' = [created EXCEPT ![s] = Append(created[s], call[c].body)]
        BY <2>2, <3>1
      <4>2. Append(created[s], call[c].body) = <<content[s]>>
        BY <2>3, <3>1, OneAppended
      <4>3. <<content[s]>> \in Seq(Contents)
        BY <2>3, <3>1
      <4> QED
        BY <2>1, <3>1, <4>1, <4>2, <4>3 DEF SourcesTypes
    <3>2. CASE ~new
      BY <2>2, <3>2
    <3> QED
      BY <3>1, <3>2
  <2>5. SourcesTypes'
    BY <1>1, <2>1, <2>2, <2>4 DEF SourcesTypes
  <2>6. AnswerAwaited'
    BY <1>1, <1>2 DEF AnswerAwaited, SourcesTypes
  <2>7. ASSUME NEW t \in Signals PROVE NewOnce(t)'
    <3>1. \A d \in Clients : NewFor(d, t)' => d # c /\ NewFor(d, t) /\ call'[d] = call[d]
      BY <1>2 DEF NewFor
    <3>2. CASE new /\ t = s
      <4>1. created'[t] = <<content[t]>> /\ outcome[t] # "absent"
        BY <2>1, <2>3, <2>4, <3>2 DEF NewOnce
      <4>2. \A d \in Clients : ~NewFor(d, t)'
        BY <2>1, <2>3, <3>1, <3>2 DEF NewOnce
      <4> QED
        BY <1>1, <4>1, <4>2 DEF NewOnce
    <3>3. CASE ~(new /\ t = s)
      <4>1. created'[t] = created[t]
        BY <2>4, <3>3
      <4> QED
        BY <1>1, <3>1, <4>1 DEF NewOnce
    <3> QED
      BY <3>2, <3>3
  <2>8. ASSUME NEW d \in Clients PROVE Told(d)'
    <3>1. CASE d = c
      <4>1. \A t \in Signals : seen'[c][t] = IF t = s THEN reply[c].status ELSE seen[c][t]
        BY <2>1, <2>2 DEF SourcesTypes
      <4> QED
        BY <1>1, <1>2, <2>1, <3>1, <4>1 DEF Told
    <3>2. CASE d # c
      <4>1. seen'[d] = seen[d]
        BY <2>2, <3>2 DEF SourcesTypes
      <4> QED
        BY <1>1, <1>2, <3>2, <4>1 DEF Told
    <3> QED
      BY <3>1, <3>2
  <2> QED
    BY <2>5, <2>6, <2>7, <2>8
<1> QED
  BY <1>3, <1>4

\* The source asks, gives up, waits no longer or restarts.
LEMMA SourceSafety ==
  ASSUME SourcesInv, NEW c \in Clients, Source(c) \/ TimeOut(c) \/ Restart(c)
  PROVE  SourcesInv'
<1> USE DEF SourcesInv
<1>1. ASSUME NEW request \in Requests, Ask(c, request) PROVE SourcesInv'
  <2>1. SourcesTypes'
    BY <1>1 DEF Ask, SourcesTypes, bridge, source
  <2>2. \A d \in Clients : reply'[d] = None \/ (reply'[d] = reply[d] /\ call'[d] = call[d])
    BY <1>1 DEF Ask, SourcesTypes, AnswerAwaited
  <2> QED
    BY <1>1, <2>1, <2>2, AnswersForgotten DEF Ask, source
<1>2. ASSUME NEW s \in Signals, GetSignal(c, s) PROVE SourcesInv'
  <2>1. [kind |-> "GET", client |-> c, id |-> s, live |-> TRUE] \in Requests
    BY DEF Requests
  <2> QED
    BY <1>1, <1>2, <2>1 DEF GetSignal
<1>3. ASSUME NEW s \in Signals, NEW body \in Contents, SendSignal(c, s, body) PROVE SourcesInv'
  <2>1. [kind |-> "POST", client |-> c, id |-> s, body |-> body, live |-> TRUE] \in Requests
    BY DEF Requests
  <2> QED
    BY <1>1, <1>3, <2>1 DEF SendSignal
<1>4. CASE GiveUp(c)
  <2>1. SourcesTypes'
    BY <1>4 DEF GiveUp, SourcesTypes, bridge, source
  <2>2. \A d \in Clients : reply'[d] = None \/ (reply'[d] = reply[d] /\ call'[d] = call[d])
    BY <1>4 DEF GiveUp, SourcesTypes
  <2> QED
    BY <1>4, <2>1, <2>2, AnswersForgotten DEF GiveUp, source
<1>5. CASE TimeOut(c) \/ Restart(c)
  <2>1. Abandon(c) /\ UNCHANGED <<bridge, seen, created>>
    BY <1>5 DEF TimeOut, Restart, source
  <2>2. accepted' \in [Clients -> SUBSET Signals]
    BY <1>5 DEF TimeOut, Restart, source, SourcesTypes
  <2>3. requests' \subseteq Requests
    <3>1. \A r \in Requests : [r EXCEPT !.live = FALSE] \in Requests
      BY DEF Requests
    <3> QED
      BY <2>1, <3>1 DEF Abandon, SourcesTypes
  <2>4. SourcesTypes'
    BY <2>1, <2>2, <2>3 DEF Abandon, SourcesTypes, bridge
  <2>5. \A d \in Clients : reply'[d] = None \/ (reply'[d] = reply[d] /\ call'[d] = call[d])
    BY <2>1 DEF Abandon, SourcesTypes
  <2> QED
    BY <2>1, <2>4, <2>5, AnswersForgotten
<1>6. CASE Receive(c)
  BY <1>6, ReceiveSafety
<1> QED
  BY <1>2, <1>3, <1>4, <1>5, <1>6 DEF Source

LEMMA ServeSafety ==
  ASSUME SourcesInv, NEW r \in requests, Serve(r)
  PROVE  SourcesInv'
<1> USE DEF SourcesInv
<1>1. r \in Requests /\ r.id \in Signals
  BY DEF SourcesTypes, Requests
<1>2. requests' \subseteq requests
  BY DEF Serve, DispatchTooLarge, submit_signal, get_signal, Handled
<1>3. CASE DispatchTooLarge(r)
  <2>1. [kind |-> "error"] \in Answers
    BY DEF Answers
  <2>2. /\ Answer(r, [kind |-> "error"])
        /\ UNCHANGED <<outcome, exposure, content, call, source>>
    BY <1>3 DEF DispatchTooLarge, bridge
  <2> QED
    BY <1>2, <2>1, <2>2, AnswerGiven
<1>4. CASE get_signal(r)
  <2> DEFINE a == IF outcome[r.id] = "absent" THEN [kind |-> "error"]
                  ELSE [kind |-> "found", status |-> outcome[r.id]]
  <2>1. a \in Answers /\ a.kind # "accepted"
    BY <1>1 DEF Answers, SourcesTypes
  <2>2. Answer(r, a) /\ UNCHANGED <<outcome, exposure, content, call, source>>
    BY <1>4 DEF get_signal, bridge
  <2>3. a.kind # "error" => a.status = outcome'[r.id]
    BY <2>2
  <2> HIDE DEF a
  <2> QED
    BY <1>2, <2>1, <2>2, <2>3, AnswerGiven
<1>5. CASE submit_signal(r)
  <2> DEFINE a == [kind |-> "accepted", duplicate |-> outcome[r.id] # "absent",
                   status |-> outcome'[r.id]]
  <2>1. /\ r.kind = "POST" /\ Answer(r, a) /\ UNCHANGED <<call, source>>
        /\ IF outcome[r.id] = "absent"
           THEN Bridge!Accept(r.id) /\ content' = [content EXCEPT ![r.id] = r.body]
           ELSE UNCHANGED bridge
    BY <1>5 DEF submit_signal, submit
  <2>2. UNCHANGED exposure
    BY <2>1 DEF bridge, Bridge!Accept
  <2>3. a.status = outcome'[r.id] /\ (~a.duplicate <=> outcome[r.id] = "absent")
    OBVIOUS
  <2>4. outcome'[r.id] \in Statuses
    BY <1>1, <2>1, MovesForward DEF SourcesTypes, bridge
  <2>5. a \in Answers
    BY <2>4 DEF Answers
  <2> HIDE DEF a
  <2>6. CASE outcome[r.id] = "absent"
    <3>1. outcome' = [outcome EXCEPT ![r.id] = "queued"]
      BY <2>1, <2>6 DEF Bridge!Accept, Bridge!Move
    <3> QED
      BY <1>2, <2>1, <2>2, <2>3, <2>5, <2>6, <3>1, AnswerGiven
  <2>7. CASE outcome[r.id] # "absent"
    <3>1. UNCHANGED <<outcome, content>>
      BY <2>1, <2>7 DEF bridge
    <3> QED
      BY <1>2, <2>1, <2>2, <2>3, <2>5, <2>7, <3>1, AnswerGiven
  <2> QED
    BY <2>6, <2>7
<1> QED
  BY <1>3, <1>4, <1>5 DEF Serve

\* Lost requests, crashes, restarts, and the steps of the bridge.
LEMMA SurroundingsSafety ==
  ASSUME SourcesInv,
         \/ \E r \in requests : LoseRequest(r)
         \/ GoDown \/ ComeUp \/ \E s \in Signals : Process(s)
  PROVE  SourcesInv'
<1> USE DEF SourcesInv
<1>1. CASE (\E r \in requests : LoseRequest(r)) \/ ComeUp
  <2>1. /\ requests' \subseteq requests
        /\ UNCHANGED <<outcome, exposure, content, call, reply, accepted, seen, created>>
    BY <1>1 DEF LoseRequest, ComeUp, bridge, source
  <2>2. SourcesTypes'
    BY <2>1 DEF SourcesTypes
  <2> QED
    BY <2>1, <2>2, AnswersForgotten DEF bridge
<1>2. CASE GoDown
  <2>1. SourcesTypes'
    BY <1>2 DEF GoDown, SourcesTypes, bridge, source
  <2>2. \A c \in Clients : reply'[c] = None
    BY <1>2 DEF GoDown
  <2> QED
    BY <1>2, <2>1, <2>2, AnswersForgotten DEF GoDown, source
<1>3. ASSUME NEW s \in Signals, Process(s) PROVE SourcesInv'
  BY <1>3, BridgeMoves DEF Process
<1> QED
  BY <1>1, <1>2, <1>3

LEMMA NextSources == SourcesInv /\ [Next]_vars => SourcesInv'
<1> SUFFICES ASSUME SourcesInv, [Next]_vars PROVE SourcesInv'
  OBVIOUS
<1>1. CASE UNCHANGED vars
  <2>1. SourcesTypes'
    BY <1>1 DEF vars, SourcesInv, SourcesTypes
  <2> QED
    BY <1>1, <2>1, AnswersForgotten DEF vars, bridge
<1>2. ASSUME NEW c \in Clients, Source(c) \/ TimeOut(c) \/ Restart(c) PROVE SourcesInv'
  BY <1>2, SourceSafety
<1>3. ASSUME NEW r \in requests, Serve(r) PROVE SourcesInv'
  BY <1>3, ServeSafety
<1>4. CASE \/ \E r \in requests : LoseRequest(r)
           \/ GoDown \/ ComeUp \/ \E s \in Signals : Process(s)
  BY <1>4, SurroundingsSafety
<1> QED
  BY <1>1, <1>2, <1>3, <1>4 DEF Next

----------------------------------------------------------------------------
\* However many sources submit a signal, whenever, and whatever answers and requests are
\* lost or late, at most one is told that it is new, the one whose body is stored.
THEOREM ReportedNewOnce == Spec => []CreatedOnce
<1>1. SourcesInv => CreatedOnce
  BY DEF SourcesInv, NewOnce, CreatedOnce
<1> QED
  BY <1>1, InitSources, NextSources, PTL DEF Spec

\* No source is told an earlier status after a later one, or another verdict after one.
THEOREM SeenGoesForward == Spec => StatusNeverGoesBack
<1> DEFINE Forward == \A c \in Clients, s \in Signals :
                        seen'[c][s] = seen[c][s] \/ Rank(seen[c][s]) < Rank(seen'[c][s])
<1>1. SourcesInv /\ [Next]_vars => [Forward]_vars
  <2> SUFFICES ASSUME SourcesInv, Next PROVE Forward
    BY DEF vars
  <2>1. ASSUME NEW c \in Clients, Receive(c) PROVE Forward
    <3>1. CASE reply[c].kind = "error"
      BY <2>1, <3>1 DEF Receive, source
    <3>2. CASE reply[c].kind # "error"
      <4>1. /\ call[c].id \in Signals /\ reply[c].status \in Statuses
            /\ reply[c].kind \in {"found", "accepted"}
        BY <2>1, <3>2, AnswerReceived DEF Receive
      <4>2. seen' = [seen EXCEPT ![c][call[c].id] = reply[c].status]
        BY <2>1, <3>2 DEF Receive
      <4>3. Before(seen[c][call[c].id], reply[c].status)
        BY <4>1 DEF SourcesInv, Told
      <4> QED
        BY <4>1, <4>2, <4>3 DEF SourcesInv, SourcesTypes, Before
    <3> QED
      BY <3>1, <3>2
  <2>2. CASE UNCHANGED seen
    BY <2>2
  <2>3. ASSUME NEW c \in Clients, Source(c), ~Receive(c) PROVE UNCHANGED seen
    BY <2>3 DEF Source, GetSignal, SendSignal, Ask, GiveUp, source
  <2>4. ASSUME NEW c \in Clients, TimeOut(c) \/ Restart(c) PROVE UNCHANGED seen
    BY <2>4 DEF TimeOut, Restart, source
  <2>5. ASSUME NEW r \in requests, Serve(r) \/ LoseRequest(r) PROVE UNCHANGED seen
    BY <2>5 DEF Serve, DispatchTooLarge, submit_signal, get_signal, LoseRequest, source
  <2>6. CASE GoDown \/ ComeUp \/ \E s \in Signals : Process(s)
    BY <2>6 DEF GoDown, ComeUp, Process, source
  <2> HIDE DEF Forward
  <2> QED
    BY <2>1, <2>2, <2>3, <2>4, <2>5, <2>6 DEF Next
<1> QED
  BY <1>1, InitSources, NextSources, PTL DEF Spec, StatusNeverGoesBack
=============================================================================
