------------------------------ MODULE Sources ------------------------------
(***************************************************************************)
(* The signal sources, their HTTP client (client/bridge_client.py) and the *)
(* two signal routes (app/api/signals.py), on top of what SignalLifecycle  *)
(* promises of the bridge behind them.  The client does not retry: a call  *)
(* that times out raises, although its request may still be handled, and   *)
(* the source calls again, with the timestamp of that moment.  The program *)
(* of a source is that of examples/python_client_example.py, made          *)
(* persistent: submit until accepted, then ask until settled.              *)
(***************************************************************************)
EXTENDS Naturals, Sequences, FiniteSets

CONSTANTS
  Clients,
  Signals,      \* signal ids; the sources share them
  Contents,     \* bodies of a submission, timestamps included
  TooLarge,     \* those over MAX_REQUEST_BODY_BYTES
  MaxFailures   \* bound on lost requests, premature time-outs, crashes and restarts

ASSUME ContentsAssumption == TooLarge \subseteq Contents
ASSUME FailuresAssumption == MaxFailures \in Nat

VARIABLES
  outcome, exposure,   \* the bridge, see SignalLifecycle
  content,    \* the body stored with each signal
  up,         \* does the bridge serve requests?
  requests,   \* requests on their way, the abandoned ones included
  call,       \* call[c]: the request the source waits for, or None
  reply,      \* reply[c]: the answer on its way to it, or None
  accepted,   \* accepted[c]: the ids the source knows to be accepted
  seen,       \* seen[c][s]: the last status the source was told of
  created,    \* created[s]: the bodies answered with duplicate=False (history)
  failures    \* failures so far

vars == <<outcome, exposure, content, up, requests, call, reply, accepted, seen, created,
          failures>>
bridge == <<outcome, exposure, content>>
source == <<accepted, seen, created>>

Bridge == INSTANCE SignalLifecycle

None == [kind |-> "none"]

Settled == {"executed", "refused", "review"}

----------------------------------------------------------------------------
(* The source                                                              *)

Ask(c, request) ==
  /\ call[c] = None
  /\ call' = [call EXCEPT ![c] = request]
  /\ requests' = requests \cup {request}
  /\ UNCHANGED <<bridge, up, reply, source, failures>>

\* send_signal
SendSignal(c, s, body) ==
  /\ s \notin accepted[c]
  /\ Ask(c, [kind |-> "POST", client |-> c, id |-> s, body |-> body, live |-> TRUE])

\* get_signal
GetSignal(c, s) ==
  /\ s \in accepted[c] /\ seen[c][s] \notin Settled
  /\ Ask(c, [kind |-> "GET", client |-> c, id |-> s, live |-> TRUE])

\* response.json(), or raise_for_status() on an error.
Receive(c) ==
  /\ reply[c] # None
  /\ IF reply[c].kind = "error" THEN UNCHANGED source
     ELSE LET s == call[c].id
              new == reply[c].kind = "accepted" /\ ~reply[c].duplicate
          IN  /\ accepted' = [accepted EXCEPT ![c] = @ \cup {s}]
              /\ seen' = [seen EXCEPT ![c][s] = reply[c].status]
              /\ created' = IF new THEN [created EXCEPT ![s] = Append(@, call[c].body)] ELSE created
  /\ call' = [call EXCEPT ![c] = None] /\ reply' = [reply EXCEPT ![c] = None]
  /\ UNCHANGED <<bridge, up, requests, failures>>

\* Nobody waits for the answer any more; the request stays on its way.
Abandon(c) ==
  /\ requests' = {IF r = call[c] THEN [r EXCEPT !.live = FALSE] ELSE r : r \in requests}
  /\ call' = [call EXCEPT ![c] = None] /\ reply' = [reply EXCEPT ![c] = None]

Fail == failures < MaxFailures /\ failures' = failures + 1

\* httpx raises: there is no answer to come.
GiveUp(c) ==
  /\ call[c] # None /\ call[c] \notin requests /\ reply[c] = None
  /\ call' = [call EXCEPT ![c] = None]
  /\ UNCHANGED <<bridge, up, requests, reply, source, failures>>

\* The time-out races the answer.
TimeOut(c) ==
  /\ call[c] # None /\ Fail /\ Abandon(c)
  /\ UNCHANGED <<bridge, up, source>>

\* The source restarts and submits again what it had submitted.
Restart(c) ==
  /\ Fail /\ Abandon(c)
  /\ accepted' = [accepted EXCEPT ![c] = {}]
  /\ UNCHANGED <<bridge, up, seen, created>>

----------------------------------------------------------------------------
(* The routes                                                              *)

Answer(r, answer) ==
  reply' = IF call[r.client] = r THEN [reply EXCEPT ![r.client] = answer] ELSE reply

\* INSERT OR REPLACE: every submission creates its row.
submit_replaces(r) ==
  /\ outcome' = [outcome EXCEPT ![r.id] = "queued"] /\ UNCHANGED exposure
  /\ content' = [content EXCEPT ![r.id] = r.body]
  /\ Answer(r, [kind |-> "accepted", duplicate |-> FALSE, status |-> "queued"])

\* A known id is a conflict.
submit_refuses_duplicates(r) ==
  IF outcome[r.id] = "absent"
  THEN /\ Bridge!Accept(r.id)
       /\ content' = [content EXCEPT ![r.id] = r.body]
       /\ Answer(r, [kind |-> "accepted", duplicate |-> FALSE, status |-> "queued"])
  ELSE UNCHANGED bridge /\ Answer(r, [kind |-> "error"])

\* The answer to a duplicate tells the status of a signal just submitted.
submit_answers_queued(r) ==
  /\ IF outcome[r.id] = "absent"
     THEN Bridge!Accept(r.id) /\ content' = [content EXCEPT ![r.id] = r.body]
     ELSE UNCHANGED bridge
  /\ Answer(r, [kind |-> "accepted", duplicate |-> outcome[r.id] # "absent", status |-> "queued"])

\* insert_signal_if_new; the answer shows the row as it is then, whoever made it.
submit(r) ==
  /\ IF outcome[r.id] = "absent"
     THEN Bridge!Accept(r.id) /\ content' = [content EXCEPT ![r.id] = r.body]
     ELSE UNCHANGED bridge
  /\ Answer(r, [kind |-> "accepted", duplicate |-> outcome[r.id] # "absent",
                status |-> outcome'[r.id]])

Handled(r) == up /\ r \in requests /\ requests' = requests \ {r}

\* BodySizeLimitMiddleware
DispatchTooLarge(r) ==
  /\ Handled(r) /\ r.kind = "POST" /\ r.body \in TooLarge
  /\ Answer(r, [kind |-> "error"])
  /\ UNCHANGED <<bridge, up, call, source, failures>>

submit_signal(r) ==
  /\ Handled(r) /\ r.kind = "POST" /\ r.body \notin TooLarge
  /\ submit(r)
  /\ UNCHANGED <<up, call, source, failures>>

get_signal(r) ==
  /\ Handled(r) /\ r.kind = "GET"
  /\ Answer(r, IF outcome[r.id] = "absent" THEN [kind |-> "error"]
               ELSE [kind |-> "found", status |-> outcome[r.id]])
  /\ UNCHANGED <<bridge, up, call, source, failures>>

Serve(r) == DispatchTooLarge(r) \/ submit_signal(r) \/ get_signal(r)

----------------------------------------------------------------------------
LoseRequest(r) ==
  /\ r \in requests /\ Fail /\ requests' = requests \ {r}
  /\ UNCHANGED <<bridge, up, call, reply, source>>

\* A crash breaks every connection; what was stored stays stored.
GoDown ==
  /\ up /\ up' = FALSE /\ Fail
  /\ requests' = {} /\ reply' = [c \in Clients |-> None]
  /\ UNCHANGED <<bridge, call, source>>

ComeUp ==
  /\ ~up /\ up' = TRUE
  /\ UNCHANGED <<bridge, requests, call, reply, source, failures>>

Process(s) ==
  /\ \/ up /\ (Bridge!Start(s) \/ Bridge!Place(s) \/ Bridge!Settle(s))
     \/ Bridge!Resolve(s)
  /\ UNCHANGED <<content, up, requests, call, reply, source, failures>>

----------------------------------------------------------------------------
Init ==
  /\ Bridge!Init /\ content = [s \in Signals |-> "none"] /\ up = TRUE /\ requests = {}
  /\ call = [c \in Clients |-> None] /\ reply = [c \in Clients |-> None]
  /\ accepted = [c \in Clients |-> {}]
  /\ seen = [c \in Clients |-> [s \in Signals |-> "absent"]]
  /\ created = [s \in Signals |-> <<>>] /\ failures = 0

Source(c) ==
  \/ \E s \in Signals : GetSignal(c, s) \/ \E body \in Contents : SendSignal(c, s, body)
  \/ Receive(c) \/ GiveUp(c)

Next ==
  \/ \E c \in Clients : Source(c) \/ TimeOut(c) \/ Restart(c)
  \/ \E r \in requests : Serve(r) \/ LoseRequest(r)
  \/ GoDown \/ ComeUp \/ \E s \in Signals : Process(s)

Spec == Init /\ [][Next]_vars

\* A source goes on, and now and then with a body that is small enough; requests are
\* served, a bridge that is down comes up, and it keeps the promise of SignalLifecycle.
FairSpec ==
  /\ Spec /\ WF_vars(ComeUp) /\ \A s \in Signals : WF_vars(Process(s))
  /\ \A c \in Clients :
       /\ WF_vars(Receive(c)) /\ WF_vars(GiveUp(c))
       /\ WF_vars(\E r \in requests : r.client = c /\ Serve(r))
       /\ \A s \in Signals :
            /\ SF_vars(\E body \in Contents \ TooLarge : SendSignal(c, s, body))
            /\ SF_vars(GetSignal(c, s))

----------------------------------------------------------------------------
\* However often a signal is submitted, by whom, and in whatever order late requests
\* arrive: duplicate=False is received at most once, by the source whose body is stored.
CreatedOnce ==
  \A s \in Signals :
    created[s] # <<>> => Len(created[s]) = 1 /\ created[s][1] = content[s]

Rank(status) ==
  CASE status = "absent" -> 0 [] status = "queued" -> 1 [] status = "started" -> 2 [] OTHER -> 3

\* No source ever sees a signal go backwards, whichever route tells it, and a settled
\* one change its verdict.
StatusNeverGoesBack ==
  [][\A c \in Clients, s \in Signals :
       seen'[c][s] = seen[c][s] \/ Rank(seen[c][s]) < Rank(seen'[c][s])]_vars

\* A source that keeps calling learns the verdict of each of its signals, lost answers,
\* time-outs, restarts and other sources' duplicates notwithstanding.
VerdictReachesSource ==
  \A c \in Clients, s \in Signals : <>(seen[c][s] \in Settled)
=============================================================================
