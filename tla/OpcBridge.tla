------------------------------ MODULE OpcBridge ------------------------------
(***************************************************************************)
(* The bridge to the PLC, plc/opc_worker.py on plc/wago_client.py: one     *)
(* thread that keeps a connection while the bridge is switched on, writes  *)
(* events to it and subscribes to the PLC's control nodes.  Request        *)
(* threads of the server switch it on and off and change the address under *)
(* it, without a lock.                                                     *)
(*                                                                         *)
(* `pc` is where the worker's loop is; every point is one at which it has  *)
(* just waited for the network, or could have been interrupted before it   *)
(* reads something a request thread writes.  A dead link shows at the next *)
(* call over it.  Of the control nodes StartMeasurement stands for all     *)
(* three; the library reports a node's value when it is subscribed to and  *)
(* whenever it changes.                                                    *)
(***************************************************************************)
EXTENDS Integers, Sequences

CONSTANTS
  Urls, NoConn,
  MaxQueue    \* bound: events waiting for the bridge

ASSUME BridgeAssumption ==
  /\ NoConn \notin Urls
  /\ MaxQueue \in Nat

Points == {"top", "noting", "choosing", "disabling", "enabling", "check", "events", "link",
           "connecting", "subscribing"}

\* What _was_enabled can be: None, or what the switch was.
Noted == {{}, {TRUE}, {FALSE}}

Reports == [connected : BOOLEAN, enabled : BOOLEAN]
NoReport == [connected |-> FALSE]

Event == [type : {"state"}] \union [type : {"target", "measurement"}, level : BOOLEAN]

VARIABLES
  url,           \* the client's url, as configured
  client,        \* the address `client` is connected to, or NoConn
  broken,        \* that connection is dead or being closed
  closing,       \* a request thread is in disconnect()
  enabled,
  wasEnabled,    \* _was_enabled, as the set of what it may be compared with
  subscription,  \* _subscription is not None
  mirror,        \* _target_reached
  polled,        \* _settings["_ctrl_start"]
  pc, dial,      \* where the loop is, and the address it is connecting to
  subs,          \* live subscriptions over the client's connection
  orphans,       \* whether any is live over a connection nobody holds any more: a
                 \* request thread, closing one, cleared the next, which worked
  ctrl,          \* the PLC's StartMeasurement
  answered,      \* start commands since it was last raised, or the control
                 \* nodes last subscribed to, up to 2
  events, flag,  \* the event queue, and the worker's target flag behind it
  plcTarget,     \* what the last measurement written says of the flag
  reported,      \* the last OpcStatusEvent
  hasty,         \* history: the switch was flipped back to what the worker had
                 \* last noted of it, and nothing was switched off since
  half           \* history: the nodes were subscribed to, or the last
                 \* subscription deleted, by a call that failed half way, and
                 \* that subscription has not been known to be gone since

clientVars == <<url, client, broken, closing, subs, orphans>>
switchVars == <<enabled, wasEnabled>>
plcVars == <<ctrl, answered, plcTarget>>
historyVars == <<hasty, half>>
vars == <<clientVars, switchVars, plcVars, subscription, mirror, polled, pc, dial,
          events, flag, reported, historyVars>>

TypeOK ==
  /\ url \in Urls /\ client \in Urls \union {NoConn} /\ dial \in Urls
  /\ broken \in BOOLEAN /\ closing \in BOOLEAN
  /\ enabled \in BOOLEAN /\ wasEnabled \in Noted
  /\ subscription \in BOOLEAN /\ mirror \in BOOLEAN /\ polled \in BOOLEAN
  /\ pc \in Points
  /\ subs \in 0..2 /\ orphans \in 0..1
  /\ ctrl \in BOOLEAN /\ answered \in 0..2 /\ plcTarget \in BOOLEAN
  /\ events \in Seq(Event) /\ flag \in BOOLEAN
  /\ reported \in Reports \union {NoReport}
  /\ hasty \in BOOLEAN /\ half \in BOOLEAN

Init ==
  /\ url \in Urls /\ dial = url
  /\ client = NoConn /\ broken = FALSE /\ closing = FALSE
  /\ enabled \in BOOLEAN /\ wasEnabled = {}
  /\ subscription = FALSE /\ mirror = FALSE /\ polled = FALSE
  /\ pc = "top"
  /\ subs = 0 /\ orphans = 0
  /\ ctrl = FALSE /\ answered = 0 /\ plcTarget = FALSE
  /\ events = << >> /\ flag = FALSE
  /\ reported = NoReport
  /\ hasty = FALSE /\ half = FALSE

-----------------------------------------------------------------------------
(* The client and its connection. *)

Connected == client # NoConn

AtMost2(n) == IF n > 2 THEN 2 ELSE n

\* _drop_connection, and disconnect() on the worker's own thread.
Drop == client' = NoConn /\ broken' = FALSE /\ subs' = 0

Kept == UNCHANGED <<client, broken, subs>>

\* A call over the connection: `effect` if it goes through.  With the
\* namespace not resolved nothing is sent, and nothing is dropped.
Call(effect, none) ==
  \/ Connected /\ ~broken /\ effect /\ Kept
  \/ Connected /\ broken /\ none /\ Drop
  \/ none /\ Kept

\* Variant: the client itself is reported, not whether there is one.
EmitClient(up) == reported' = [connected |-> client, enabled |-> enabled]

\* _emit_status
EmitStatus(up) == reported' = [connected |-> up, enabled |-> enabled]

\* Variant: the subscription there was is forgotten, not deleted.
TornDownUnlessKept == subs

\* _teardown_ctrl_subscription: what it leaves on the connection, if its call
\* goes through; it is taken to have, either way.
TornDown == IF subscription /\ subs > 0 THEN subs - 1 ELSE subs

\* _setup_ctrl_subscription.  A new subscription reports the value there is, and
\* a start command follows if it is TRUE.  It can fail before or after one is
\* made; one that is made all the same is live, and nobody's.
Setup ==
  \E deleted \in BOOLEAN, made \in {FALSE} \union {up \in {TRUE} : Connected /\ ~broken} :
    /\ subs' = AtMost2((IF deleted THEN TornDown ELSE subs) + (IF made THEN 1 ELSE 0))
    /\ subscription' \in {made, FALSE}
    /\ answered' = IF made /\ ctrl THEN 1 ELSE 0
    /\ half' = \/ made /\ ~subscription'
               \/ subs > 0 /\ (half \/ ~deleted)

-----------------------------------------------------------------------------
(* The worker's loop. *)

\* _apply_enabled: acts once per change.  The switch is read three times.
ApplyEnabled ==
  /\ pc = "top"
  /\ pc' = IF enabled \in wasEnabled THEN "check" ELSE "noting"
  /\ UNCHANGED <<clientVars, switchVars, plcVars, subscription, mirror, polled, dial,
                 events, flag, reported, historyVars>>

NoteEnabled ==
  /\ pc = "noting"
  /\ wasEnabled' = {enabled}
  /\ pc' = "choosing"
  /\ UNCHANGED <<clientVars, enabled, plcVars, subscription, mirror, polled, dial,
                 events, flag, reported, historyVars>>

ActOnEnabled ==
  /\ pc = "choosing"
  /\ pc' = IF enabled THEN "enabling" ELSE "disabling"
  /\ UNCHANGED <<clientVars, switchVars, plcVars, subscription, mirror, polled, dial,
                 events, flag, reported, historyVars>>

Enabling ==
  /\ pc = "enabling"
  /\ IF Connected THEN Setup ELSE UNCHANGED <<subscription, subs, answered, half>>
  /\ EmitStatus(Connected)
  /\ pc' = "check"
  /\ UNCHANGED <<url, client, broken, closing, orphans, switchVars, ctrl, plcTarget,
                 mirror, polled, dial, events, flag, hasty>>

\* Variant: the subscription is deleted and the connection kept for next time.
DisablingKeeps ==
  /\ subscription' = FALSE /\ subs' = TornDown
  /\ UNCHANGED <<client, broken>>

Disconnects == subscription' = FALSE /\ Drop

Disabling ==
  /\ pc = "disabling"
  /\ Disconnects
  /\ EmitStatus(client' # NoConn)
  /\ pc' = "check"
  /\ hasty' = FALSE
  /\ UNCHANGED <<url, closing, orphans, switchVars, plcVars, mirror, polled, dial, events, flag,
                 half>>

\* Variant: an event is an event; all of them are thrown away.
LevelAfterDropped(es, level) == level

\* What draining the queue leaves of the target flag.
LevelAfter(es, level) ==
  LET targets == {i \in DOMAIN es : es[i].type = "target"}
      last == CHOOSE i \in targets : \A k \in targets : k <= i
  IN  IF targets = {} THEN level ELSE es[last].level

\* `if not self.enabled`: _discard_events, and round again.
Check ==
  /\ pc = "check"
  /\ IF enabled
     THEN pc' = "events" /\ UNCHANGED <<mirror, events>>
     ELSE pc' = "top" /\ mirror' = LevelAfter(events, mirror) /\ events' = << >>
  /\ UNCHANGED <<clientVars, switchVars, plcVars, subscription, polled, dial, flag, reported,
                 historyVars>>

\* _process_events, one event.
ProcessEvent ==
  /\ pc = "events" /\ events # << >>
  /\ events' = Tail(events)
  /\ LET e == Head(events)
     IN  /\ mirror' = IF e.type = "target" THEN e.level ELSE mirror
         /\ Call(plcTarget' = (IF e.type = "state" THEN plcTarget ELSE mirror'),
                 UNCHANGED plcTarget)
  /\ UNCHANGED <<url, closing, orphans, switchVars, ctrl, answered, subscription, polled,
                 pc, dial, flag, reported, historyVars>>

EventsDone ==
  /\ pc = "events" /\ events = << >>
  /\ pc' = "link"
  /\ UNCHANGED <<clientVars, switchVars, plcVars, subscription, mirror, polled, dial,
                 events, flag, reported, historyVars>>

\* Not connected, and it is not yet time to try again.
Wait ==
  /\ pc = "link" /\ ~Connected
  /\ subscription' = FALSE
  /\ pc' = "top"
  /\ UNCHANGED <<clientVars, switchVars, plcVars, mirror, polled, dial, events, flag, reported,
                 historyVars>>

\* reconnect(): the address is read here, and connect() waits for the network.
Dial ==
  /\ pc = "link" /\ ~Connected
  /\ subscription' = FALSE
  /\ dial' = url
  /\ pc' = "connecting"
  /\ UNCHANGED <<clientVars, switchVars, plcVars, mirror, polled, events, flag, reported,
                 historyVars>>

ConnectSucceeds ==
  /\ pc = "connecting"
  /\ client' = dial /\ broken' = FALSE /\ subs' = 0
  /\ pc' = "subscribing"
  /\ UNCHANGED <<url, closing, orphans, switchVars, plcVars, subscription, mirror, polled, dial,
                 events, flag, reported, historyVars>>

\* Variant: a failed attempt is not worth reporting.
FailureReport(up) == UNCHANGED reported

\* A failure is reported once.
ReportFailure(up) == IF up THEN EmitStatus(FALSE) ELSE UNCHANGED reported

ConnectFails ==
  /\ pc = "connecting"
  /\ Drop
  /\ ReportFailure(reported.connected)
  /\ pc' = "top"
  /\ UNCHANGED <<url, closing, orphans, switchVars, plcVars, subscription, mirror, polled, dial,
                 events, flag, historyVars>>

Subscribe ==
  /\ pc = "subscribing"
  /\ Setup
  /\ EmitStatus(Connected)
  /\ pc' = "top"
  /\ UNCHANGED <<url, client, broken, closing, orphans, switchVars, ctrl, plcTarget, mirror,
                 polled, dial, events, flag, hasty>>

\* Variant: the level of the node, not its edge.
PollStartsOnLevel == ctrl

\* _poll_ctrl_fallback: an edge since the node was last read.
PollStarts == ctrl /\ ~polled

\* _poll: only without a subscription are the control nodes read.
Poll ==
  /\ pc = "link" /\ Connected
  /\ IF subscription
     THEN Kept /\ UNCHANGED <<polled, answered>>
     ELSE Call(/\ polled' = ctrl
               /\ answered' = IF PollStarts THEN AtMost2(answered + 1) ELSE answered,
               UNCHANGED <<polled, answered>>)
  /\ pc' = "top"
  /\ UNCHANGED <<url, closing, orphans, switchVars, ctrl, plcTarget, subscription, mirror, dial,
                 events, flag, reported, historyVars>>

-----------------------------------------------------------------------------
(* The request threads, the PLC and the rest of the program. *)

\* POST /opc/enabled
SetEnabled(on) ==
  /\ enabled' = on
  /\ hasty' = (hasty \/ (on # enabled /\ on \in wasEnabled))
  /\ UNCHANGED <<clientVars, wasEnabled, plcVars, subscription, mirror, polled, pc, dial,
                 events, flag, reported, half>>

HangsUp == Connected

\* POST /opc/connect: set_connection.  Closing takes its time; `client` is
\* cleared when it is over, whatever it holds by then.
SetConnection(u) ==
  /\ ~closing
  /\ url' = u
  /\ IF HangsUp THEN closing' = TRUE /\ broken' = TRUE /\ subs' = 0
     ELSE UNCHANGED <<closing, broken, subs>>
  /\ UNCHANGED <<client, orphans, switchVars, plcVars, subscription, mirror, polled, pc, dial,
                 events, flag, reported, historyVars>>

HungUp ==
  /\ closing
  /\ closing' = FALSE
  /\ orphans' = IF subs > 0 THEN 1 ELSE orphans
  /\ Drop
  /\ UNCHANGED <<url, switchVars, plcVars, subscription, mirror, polled, pc, dial,
                 events, flag, reported, hasty, half>>

\* The link dies; the PLC forgets its subscriptions.
LinkDies ==
  /\ Connected /\ ~broken
  /\ broken' = TRUE /\ subs' = 0
  /\ UNCHANGED <<url, client, closing, orphans, switchVars, plcVars, subscription, mirror, polled,
                 pc, dial, events, flag, reported, historyVars>>

\* The PLC raises or lowers its node; every live subscription reports it.
SetCtrl(on) ==
  /\ ctrl # on
  /\ ctrl' = on
  /\ answered' = IF on THEN AtMost2(subs + orphans) ELSE 0
  /\ UNCHANGED <<clientVars, switchVars, plcTarget, subscription, mirror, polled, pc, dial,
                 events, flag, reported, historyVars>>

\* The worker's events, through the router: in the order they were sent.
Send(es) == Len(events) < MaxQueue /\ events' = events \o es

WorkerMeasures ==
  /\ Send(<<[type |-> "measurement", level |-> flag]>>)
  /\ UNCHANGED <<clientVars, switchVars, plcVars, subscription, mirror, polled, pc, dial,
                 flag, reported, historyVars>>

WorkerChangesState ==
  /\ Send(<<[type |-> "state"]>>)
  /\ UNCHANGED <<clientVars, switchVars, plcVars, subscription, mirror, polled, pc, dial,
                 flag, reported, historyVars>>

TargetReached ==
  /\ Send(<<[type |-> "target", level |-> ~flag]>>)
  /\ flag' = ~flag
  /\ UNCHANGED <<clientVars, switchVars, plcVars, subscription, mirror, polled, pc, dial, reported,
                 historyVars>>

Loop ==
  \/ ApplyEnabled \/ NoteEnabled \/ ActOnEnabled \/ Enabling \/ Disabling \/ Check
  \/ ProcessEvent \/ EventsDone
  \/ Wait \/ Dial \/ ConnectSucceeds \/ ConnectFails \/ Subscribe \/ Poll

Next ==
  \/ Loop
  \/ \E on \in BOOLEAN : SetEnabled(on) \/ SetCtrl(on)
  \/ \E u \in Urls : SetConnection(u)
  \/ HungUp \/ LinkDies
  \/ WorkerMeasures \/ WorkerChangesState \/ TargetReached

Spec == Init /\ [][Next]_vars

\* The loop turns; closing a connection ends; the queue, fed at 10 Hz and read
\* in one go, is empty again and again; and the time to try again comes.
Fairness == WF_vars(Loop) /\ WF_vars(HungUp) /\ SF_vars(EventsDone) /\ SF_vars(Dial)

FairSpec == Spec /\ Fairness

-----------------------------------------------------------------------------
(* What the bridge must guarantee. *)

\* Switched off, and the worker having looked at the switch, the bridge holds
\* no connection and no subscription is left anywhere: the PLC can neither
\* read the QCM nor start it (opc_worker.py, what `enabled` means).
OffMeansOff ==
  pc = "check" /\ ~enabled /\ FALSE \in wasEnabled =>
    ~Connected /\ subs = 0 /\ orphans = 0

\* So it is, however the link died or the address was changed meanwhile, unless
\* the switch was flipped back before the worker had seen it flipped; the next
\* time it is switched off puts that right.  What a request thread has made the
\* client forget stays where it is.
OffOnceSeen == hasty \/ OffMeansOff \/ (orphans > 0 /\ ~Connected /\ subs = 0)

\* At most one subscription is live over the client's connection: setting one
\* up again leaves none behind, unless the call that should have deleted it, or
\* set the last one up, failed half way.
OneSubscription == half \/ subs <= 1

\* Only a rising edge is acted on, as the handler's comment says: from one
\* subscribing to the next, whether that succeeded or the nodes are polled,
\* one raising of StartMeasurement sends one command at most.  It can be two
\* where a subscription nobody holds is live, left by a call that failed half
\* way or over a connection that was forgotten.
OneStartPerEdge == half \/ orphans > 0 \/ answered <= 1

\* A measurement written tells the PLC of the flag as it was when the
\* measurement was taken, also when it was raised or lowered while the bridge
\* was off or the link down.
MeasurementsCarryTheLevel ==
  [][events # << >> /\ events' = Tail(events) /\ plcTarget' # plcTarget
       /\ Head(events).type = "measurement" => plcTarget' = Head(events).level]_vars

\* What the server is told of the bridge comes to be true again, whatever has
\* happened to the connection or the switch, unless that was flipped back before
\* the worker had seen it flipped.
Actual == [connected |-> Connected, enabled |-> enabled]

StatusCatchesUp == reported # Actual ~> reported = Actual \/ hasty
=============================================================================
