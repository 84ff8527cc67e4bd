----------------------------- MODULE DevServer ------------------------------
(***************************************************************************)
(* Live reload: the watcher, the timer and the streams of the development  *)
(* server (src/server/dev.ts), and the script at the end of                *)
(* web/index.html.  Builds, users and the network do what they like; file  *)
(* events, timers and messages come late and in any order.  Which file a   *)
(* write touches is told by what the watcher makes of it.                  *)
(***************************************************************************)
EXTENDS Naturals, Sequences

CONSTANTS
  Page,         \* browser tabs
  MaxStreams,   \* bound of the model: streams of a page not forgotten yet
  MaxEvents     \* bound of the model: file events not delivered yet

ASSUME DevServerAssumption == MaxStreams \in Nat /\ MaxEvents \in Nat

Stream == Page \X (1..MaxStreams)   \* a response that is kept open, and its page
NoStream == <<>>

\* "shown" is a file in dist or web that pages load, "churn" one of those that
\* change on every build and show nothing, "unwatched" one in build or programs, or
\* in a directory that was not there or could not be watched when the server started.
Kinds == {"shown", "churn", "unwatched"}

VARIABLES
  building,   \* something is writing files
  events,     \* file events the watcher has not been told of, oldest first
  timer,      \* reloadTimer: off, armed, or ripe once its 120 ms are over
  clients,    \* the streams the server writes to
  sent,       \* streams with a reload message under way
  closing,    \* streams whose page is gone, which the server has yet to hear of
  page,       \* per tab: away, loading, asking (for its stream), open, or deaf
  stream,     \* per tab: its open stream
  owed        \* history: a file the page shows has changed since it was open, it
              \* has not been reloaded since, and its stream has not failed

serverVars == <<events, timer, clients>>
vars == <<building, serverVars, sent, closing, page, stream, owed>>

Init ==
  /\ building = FALSE /\ events = <<>> /\ timer = "off"
  /\ clients = {} /\ sent = {} /\ closing = {}
  /\ page = [p \in Page |-> "away"] /\ stream = [p \in Page |-> NoStream]
  /\ owed = [p \in Page |-> FALSE]

-----------------------------------------------------------------------------
(* Builds and the watcher.                                                 *)

StartBuild == ~building /\ building' = TRUE
              /\ UNCHANGED <<serverVars, sent, closing, page, stream, owed>>
EndBuild   == building /\ building' = FALSE
              /\ UNCHANGED <<serverVars, sent, closing, page, stream, owed>>

Write(kind) ==
  /\ building
  /\ Len(events) < MaxEvents
  /\ events' = IF kind = "unwatched" THEN events ELSE Append(events, kind)
  /\ owed' = [p \in Page |-> owed[p] \/ (kind = "shown" /\ page[p] = "open")]
  /\ UNCHANGED <<building, timer, clients, sent, closing, page, stream>>

\* notifyReload: each change starts the 120 ms again, over or not, as long as the
\* timer's callback has not run.
Watched ==
  /\ events # <<>>
  /\ events' = Tail(events)
  /\ timer' = IF Head(events) = "churn" THEN timer ELSE "armed"
  /\ UNCHANGED <<building, clients, sent, closing, page, stream, owed>>

Ripen == timer = "armed" /\ timer' = "ripe"
         /\ UNCHANGED <<building, events, clients, sent, closing, page, stream, owed>>

\* What is written to a stream nobody reads any more is lost.
Notify ==
  /\ timer = "ripe"
  /\ timer' = "off"
  /\ sent' = sent \cup (clients \ closing)
  /\ UNCHANGED <<building, events, clients, closing, page, stream, owed>>

-----------------------------------------------------------------------------
(* Pages and their streams.                                                *)

Ends(p) == IF page[p] = "open" THEN {stream[p]} ELSE {}

\* The page p becomes `state` and has no stream; the server learns of it later.
Leave(p, state) ==
  /\ page' = [page EXCEPT ![p] = state]
  /\ stream' = [stream EXCEPT ![p] = NoStream]
  /\ closing' = closing \cup Ends(p)
  /\ sent' = sent \ Ends(p)
  /\ owed' = [owed EXCEPT ![p] = FALSE]
  /\ UNCHANGED <<building, serverVars>>

\* A tab is opened, reloaded by its user, or closed.
Visit(p) == Leave(p, "loading")
Close(p) == page[p] # "away" /\ Leave(p, "away")

\* The files have arrived, and the last script asks for a stream.
Loaded(p) ==
  /\ page[p] = "loading"
  /\ page' = [page EXCEPT ![p] = "asking"]
  /\ UNCHANGED <<building, serverVars, sent, closing, stream, owed>>

Unused(p) == {s \in Stream : s[1] = p} \ (clients \cup closing)

\* serve, /__dev/reload.
Connect(p) ==
  /\ page[p] = "asking"
  /\ \E s \in Unused(p) :
       /\ clients' = clients \cup {s}
       /\ stream' = [stream EXCEPT ![p] = s]
  /\ page' = [page EXCEPT ![p] = "open"]
  /\ UNCHANGED <<building, events, timer, sent, closing, owed>>

\* onerror: the page closes its stream for good, whatever retry the server named.
Fail(p) == page[p] \in {"asking", "open"} /\ Leave(p, "deaf")

\* onmessage
Message(p) ==
  /\ page[p] = "open" /\ stream[p] \in sent
  /\ Leave(p, "loading")

\* Mutant: clients kept by page, so that a page which has reloaded in the
\* meantime loses its new stream.
DropPage(s) ==
  /\ s \in closing
  /\ closing' = closing \ {s}
  /\ clients' = {t \in clients : t[1] # s[1]}
  /\ UNCHANGED <<building, events, timer, sent, page, stream, owed>>

\* The request's close handler.
Drop(s) ==
  /\ s \in closing
  /\ closing' = closing \ {s}
  /\ clients' = clients \ {s}
  /\ UNCHANGED <<building, events, timer, sent, page, stream, owed>>

Next ==
  \/ StartBuild \/ EndBuild
  \/ \E kind \in Kinds : Write(kind)
  \/ Watched \/ Ripen \/ Notify
  \/ \E p \in Page : Visit(p) \/ Close(p) \/ Loaded(p) \/ Connect(p) \/ Fail(p) \/ Message(p)
  \/ \E s \in Stream : Drop(s)

\* The system delivers file events, timers expire and run, messages that are
\* under way arrive.  Nothing is assumed of builds, users and the network.
Fairness ==
  /\ WF_vars(Watched) /\ WF_vars(Ripen) /\ WF_vars(Notify)
  /\ \A p \in Page : WF_vars(Message(p))

Spec == Init /\ [][Next]_vars /\ Fairness

-----------------------------------------------------------------------------

\* Once builds are over, every page whose stream was open when a file it shows
\* changed is reloaded, unless its stream fails or it goes elsewhere first: no
\* coalescing of events, no restart of the timer and no stream that is slow to
\* close makes the server forget it (dev.ts:79-80).
ToldOfChanges ==
  <>[]~building => \A p \in Page : owed[p] ~> ~owed[p]
=============================================================================
