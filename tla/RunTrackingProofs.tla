------------------------- MODULE RunTrackingProofs -------------------------
(***************************************************************************)
(* Theorems about what the server knows of the runs, for every number of   *)
(* runs, logs and events under way.                                        *)
(*                                                                         *)
(* The server is some events behind the worker, so no relation between the *)
(* two survives a step by itself.  What does is that the events under way  *)
(* lead the server, through views that are each safe to act on, to the     *)
(* view that goes with the worker as it is now: every step of the worker   *)
(* sends what leads there from where its last step did.                    *)
(***************************************************************************)
EXTENDS RunTracking, SequenceTheorems, WellFoundedInduction, TLAPS

\* What the server knows, as a value.
Views == [lastState : StateNames, inRun : BOOLEAN, recording : BOOLEAN,
          currentRun : Names \union {None}, session : SUBSET Runs,
          credited : [Runs -> Nat]]

View == [lastState |-> lastState, inRun |-> inRun, recording |-> recording,
         currentRun |-> currentRun, session |-> session, credited |-> credited]

\* What an event makes of a view.
Credit(u) == [r \in Runs |-> IF r \in u.session THEN u.credited[r] + 1 ELSE u.credited[r]]

TakesStateView(u, s) ==
  IF s = "RUNNING" /\ ~u.inRun
  THEN [u EXCEPT !.lastState = s, !.inRun = TRUE, !.session = {}]
  ELSE IF u.inRun /\ s \notin {"RUNNING", "LOCKING"}
  THEN [u EXCEPT !.lastState = s, !.inRun = FALSE, !.recording = FALSE, !.credited = Credit(u)]
  ELSE [u EXCEPT !.lastState = s]

Takes(u, e) ==
  CASE e.type = "StateEvent" -> TakesStateView(u, e.state)
    [] e.type = "MeasurementEvent" -> [u EXCEPT !.session = u.session \union {e.run}]
    [] e.type = "RunLogFailedEvent" -> [u EXCEPT !.currentRun = None, !.recording = FALSE]
    [] e.type = "RunLogStartedEvent" -> [u EXCEPT !.currentRun = e.name, !.recording = TRUE]

\* The events es lead from the view w to the view u through views of G.
Leads(G, w, es, u) ==
  \E v \in [0..Len(es) -> G] :
     /\ v[0] = w /\ v[Len(es)] = u
     /\ \A i \in 1..Len(es) : v[i] = Takes(v[i - 1], es[i])

-----------------------------------------------------------------------------
(* Events that lead somewhere, whatever the views. *)

LEMMA NoEventsLead ==
  ASSUME NEW G, NEW w \in G
  PROVE  Leads(G, w, << >>, w)
  <1> DEFINE v == [i \in 0..0 |-> w]
  <1>1. Len(<< >>) = 0 /\ v \in [0..0 -> G] /\ v[0] = w /\ 1..0 = {}
    OBVIOUS
  <1> QED
    BY <1>1 DEF Leads

\* One more event at the end.
LEMMA OneMoreLeads ==
  ASSUME NEW G, NEW w, NEW es \in Seq(Events), NEW u, Leads(G, w, es, u),
         NEW e \in Events, Takes(u, e) \in G
  PROVE  Leads(G, w, Append(es, e), Takes(u, e))
  <1>1. PICK v \in [0..Len(es) -> G] :
          /\ v[0] = w /\ v[Len(es)] = u
          /\ \A i \in 1..Len(es) : v[i] = Takes(v[i - 1], es[i])
    BY DEF Leads
  <1> DEFINE n == Len(es)
             es2 == Append(es, e)
             v2 == [i \in 0..(n + 1) |-> IF i = n + 1 THEN Takes(u, e) ELSE v[i]]
  <1>2. n \in Nat /\ Len(es2) = n + 1
    OBVIOUS
  <1>3. es2[n + 1] = e /\ \A i \in 1..n : es2[i] = es[i]
    OBVIOUS
  <1>4. v2 \in [0..(n + 1) -> G]
    <2>1. ASSUME NEW i \in 0..(n + 1)
          PROVE  (IF i = n + 1 THEN Takes(u, e) ELSE v[i]) \in G
      BY <1>1, <1>2, <2>1
    <2> QED
      BY <2>1
  <1>5. v2[0] = w /\ v2[n + 1] = Takes(u, e)
    BY <1>1, <1>2
  <1>6. ASSUME NEW i \in 1..(n + 1)
        PROVE  v2[i] = Takes(v2[i - 1], es2[i])
    <2>1. i - 1 \in 0..n /\ v2[i - 1] = v[i - 1]
      BY <1>2
    <2>2. CASE i = n + 1
      BY <1>1, <1>2, <1>3, <1>5, <2>1, <2>2
    <2>3. CASE i # n + 1
      <3>1. i \in 1..n /\ v2[i] = v[i] /\ es2[i] = es[i]
        BY <1>2, <1>3, <2>3
      <3> QED
        BY <1>1, <2>1, <3>1
    <2> QED
      BY <2>2, <2>3
  <1> HIDE DEF v2, es2
  <1> QED
    BY <1>2, <1>4, <1>5, <1>6 DEF Leads, es2

\* The first event taken.
LEMMA FirstIsTaken ==
  ASSUME NEW G, NEW w, NEW es \in Seq(Events), es # << >>, NEW u, Leads(G, w, es, u)
  PROVE  Leads(G, Takes(w, Head(es)), Tail(es), u)
  <1>1. PICK v \in [0..Len(es) -> G] :
          /\ v[0] = w /\ v[Len(es)] = u
          /\ \A i \in 1..Len(es) : v[i] = Takes(v[i - 1], es[i])
    BY DEF Leads
  <1> DEFINE n == Len(es)
             t == Tail(es)
             v2 == [i \in 0..(n - 1) |-> v[i + 1]]
  <1>2. n \in Nat /\ n >= 1 /\ Len(t) = n - 1 /\ Head(es) = es[1]
    OBVIOUS
  <1>3. \A i \in 1..(n - 1) : t[i] = es[i + 1]
    OBVIOUS
  <1>4. v2 \in [0..(n - 1) -> G]
    BY <1>1, <1>2
  <1>5. v2[0] = Takes(w, Head(es)) /\ v2[n - 1] = u
    <2>1. v2[0] = v[1] /\ v2[n - 1] = v[n]
      BY <1>2
    <2>2. v[1] = Takes(v[0], es[1])
      BY <1>1, <1>2
    <2> QED
      BY <1>1, <1>2, <2>1, <2>2
  <1>6. ASSUME NEW i \in 1..(n - 1)
        PROVE  v2[i] = Takes(v2[i - 1], t[i])
    <2>1. v2[i] = v[i + 1] /\ v2[i - 1] = v[i] /\ t[i] = es[i + 1] /\ i + 1 \in 1..n
      BY <1>2, <1>3
    <2>2. v[i + 1] = Takes(v[(i + 1) - 1], es[i + 1])
      BY <1>1, <2>1
    <2>3. (i + 1) - 1 = i
      OBVIOUS
    <2> QED
      BY <2>1, <2>2, <2>3
  <1> HIDE DEF v2, t
  <1> QED
    BY <1>2, <1>4, <1>5, <1>6 DEF Leads, t

\* The views on the way are views of G, and of any larger set.
LEMMA LeadsWithin ==
  ASSUME NEW G, NEW H, G \subseteq H, NEW w, NEW es \in Seq(Events), NEW u,
         Leads(G, w, es, u)
  PROVE  w \in G /\ u \in G /\ Leads(H, w, es, u)
  <1>1. PICK v \in [0..Len(es) -> G] :
          /\ v[0] = w /\ v[Len(es)] = u
          /\ \A i \in 1..Len(es) : v[i] = Takes(v[i - 1], es[i])
    BY DEF Leads
  <1>2. Len(es) \in Nat /\ v \in [0..Len(es) -> H]
    BY <1>1
  <1>3. v[0] \in G /\ v[Len(es)] \in G
    <2>1. 0 \in 0..Len(es) /\ Len(es) \in 0..Len(es)
      BY <1>2
    <2> QED
      BY <1>1, <2>1
  <1>4. Leads(H, w, es, u)
    BY <1>1, <1>2, Zenon DEF Leads
  <1> QED
    BY <1>1, <1>3, <1>4

\* Where no events lead.
LEMMA NoEventsStay ==
  ASSUME NEW G, NEW w, NEW u, Leads(G, w, << >>, u)
  PROVE  u = w
  BY DEF Leads

-----------------------------------------------------------------------------
(* The messages, and what each makes of a view. *)

LEMMA Messages ==
  /\ \A s \in StateNames : StateEvent(s) \in Events /\ StateEvent(s).type = "StateEvent"
                           /\ StateEvent(s).state = s
  /\ \A n \in Names : RunLogStarted(n) \in Events /\ RunLogStarted(n).type = "RunLogStartedEvent"
                      /\ RunLogStarted(n).name = n
  /\ RunLogFailed \in Events /\ RunLogFailed.type = "RunLogFailedEvent"
  /\ \A r \in Runs : Measurement(r) \in Events /\ Measurement(r).type = "MeasurementEvent"
                     /\ Measurement(r).run = r
  BY DEF Events, StateEvent, RunLogStarted, RunLogFailed, Measurement

LEMMA MessageKinds ==
  ASSUME NEW e \in Events
  PROVE  \/ \E s \in StateNames : e = StateEvent(s)
         \/ \E n \in Names : e = RunLogStarted(n)
         \/ e = RunLogFailed
         \/ \E r \in Runs : e = Measurement(r)
  BY DEF Events

\* Sending messages one after the other.
LEMMA Sending ==
  ASSUME NEW es \in Seq(Events), NEW a \in Events, NEW b \in Events
  PROVE  /\ es \o << >> = es
         /\ es \o <<a>> = Append(es, a)
         /\ es \o <<a, b>> = Append(Append(es, a), b)
         /\ Append(es, a) \in Seq(Events)
         /\ << >> \o <<a>> = <<a>> /\ <<a>> \o << >> = <<a>> /\ <<a>> \o <<b>> = <<a, b>>
  <1>1. <<a>> \in Seq(Events) /\ <<b>> \in Seq(Events) /\ Append(es, a) \in Seq(Events)
    OBVIOUS
  <1>2. /\ es \o << >> = es /\ << >> \o <<a>> = <<a>> /\ <<a>> \o << >> = <<a>>
        /\ es \o <<a>> = Append(es, a)
    BY <1>1, ConcatEmptySeq, AppendIsConcat
  <1>3. <<a>> \o <<b>> = <<a, b>>
    <2> DEFINE ab == <<a>> \o <<b>>
    <2>1. ab \in Seq(Events) /\ Len(ab) = 2 /\ ab[1] = a /\ ab[2] = b
      BY <1>1, ConcatProperties
    <2>2. <<a, b>> \in Seq(Events) /\ Len(<<a, b>>) = 2
      OBVIOUS
    <2>3. Len(ab) = Len(<<a, b>>) /\ \A i \in 1..Len(ab) : ab[i] = <<a, b>>[i]
      BY <2>1
    <2>4. ab \in Seq(Events) /\ <<a, b>> \in Seq(Events)
      BY <2>1, <2>2
    <2> HIDE DEF ab
    <2>5. ab = <<a, b>>
      BY <2>3, <2>4, SeqEqual, Zenon
    <2> QED
      BY <2>5 DEF ab
  <1>4. es \o <<a, b>> = Append(Append(es, a), b)
    <2>1. (es \o <<a>>) \o <<b>> = es \o (<<a>> \o <<b>>)
      BY <1>1, ConcatAssociative
    <2>2. Append(es, a) \o <<b>> = Append(Append(es, a), b)
      BY <1>1, AppendIsConcat
    <2> QED
      BY <1>2, <1>3, <2>1, <2>2
  <1> QED
    BY <1>1, <1>2, <1>3, <1>4

LEMMA SendingThree ==
  ASSUME NEW es \in Seq(Events), NEW a \in Events, NEW b \in Events, NEW c \in Events
  PROVE  /\ es \o (<<a>> \o <<b>> \o <<c>>) = Append(Append(Append(es, a), b), c)
         /\ es \o (<<a>> \o << >> \o <<c>>) = Append(Append(es, a), c)
  <1>1. <<a>> \o <<b>> \in Seq(Events) /\ <<c>> \in Seq(Events)
    BY Sending
  <1>2. es \o (<<a>> \o <<b>> \o <<c>>) = (es \o (<<a>> \o <<b>>)) \o <<c>>
    BY <1>1, ConcatAssociative
  <1>3. es \o (<<a>> \o <<b>>) = Append(Append(es, a), b)
    BY Sending
  <1>4. Append(Append(es, a), b) \in Seq(Events)
    OBVIOUS
  <1>5. Append(Append(es, a), b) \o <<c>> = Append(Append(Append(es, a), b), c)
    BY <1>4, AppendIsConcat
  <1>6. es \o (<<a>> \o << >> \o <<c>>) = Append(Append(es, a), c)
    BY Sending
  <1> QED
    BY <1>2, <1>3, <1>5, <1>6

LEMMA SendingRollOver ==
  ASSUME NEW es \in Seq(Events), NEW a \in Events, NEW b \in Events
  PROVE  /\ es \o (<< >> \o <<a>> \o << >>) = es \o <<a>>
         /\ es \o (<< >> \o <<a>> \o <<b>>) = es \o <<a, b>>
         /\ es \o (<<b>> \o <<a>> \o << >>) = Append(Append(es, b), a)
  <1>1. << >> \o <<a>> = <<a>> /\ <<a>> \o << >> = <<a>> /\ <<a>> \o <<b>> = <<a, b>>
    BY Sending
  <1>2. <<b>> \o <<a>> = <<b, a>> /\ <<b, a>> \in Seq(Events)
    <2>1. <<b>> \o <<a>> = <<b, a>>
      BY Sending
    <2>2. <<b, a>> \in Seq(Events)
      OBVIOUS
    <2> QED
      BY <2>1, <2>2
  <1>3. <<b, a>> \o << >> = <<b, a>>
    BY <1>2, ConcatEmptySeq
  <1>4. es \o <<b, a>> = Append(Append(es, b), a)
    BY Sending
  <1> QED
    BY <1>1, <1>2, <1>3, <1>4

\* A state that begins a run in the server's eyes.
LEMMA TakesBegin ==
  ASSUME NEW u \in Views, ~u.inRun, NEW w, w = Takes(u, StateEvent("RUNNING"))
  PROVE  /\ w \in Views /\ w.lastState = "RUNNING" /\ w.inRun = TRUE /\ w.session = {}
         /\ w.recording = u.recording /\ w.currentRun = u.currentRun
         /\ w.credited = u.credited
  <1>1. "RUNNING" \in StateNames
    BY DEF StateNames
  <1>2. w = [u EXCEPT !.lastState = "RUNNING", !.inRun = TRUE, !.session = {}]
    BY <1>1, Messages DEF Takes, TakesStateView
  <1> QED
    BY <1>1, <1>2 DEF Views

LEMMA CreditType ==
  ASSUME NEW u \in Views
  PROVE  Credit(u) \in [Runs -> Nat]
         /\ \A r \in Runs : Credit(u)[r] = IF r \in u.session THEN u.credited[r] + 1
                                           ELSE u.credited[r]
  <1>1. u.credited \in [Runs -> Nat]
    BY DEF Views
  <1> QED
    BY <1>1 DEF Credit

\* A state that ends one, and credits it.
LEMMA TakesEnd ==
  ASSUME NEW u \in Views, u.inRun, NEW s \in StateNames, s \notin {"RUNNING", "LOCKING"}
  PROVE  LET w == Takes(u, StateEvent(s))
         IN  /\ w \in Views /\ w.lastState = s /\ w.inRun = FALSE /\ w.recording = FALSE
             /\ w.session = u.session /\ w.currentRun = u.currentRun
             /\ w.credited = Credit(u)
  <1> DEFINE w == Takes(u, StateEvent(s))
  <1>1. w = [u EXCEPT !.lastState = s, !.inRun = FALSE, !.recording = FALSE,
                      !.credited = Credit(u)]
    BY Messages DEF Takes, TakesStateView
  <1> HIDE DEF w
  <1>2. /\ w \in Views /\ w.lastState = s /\ w.inRun = FALSE /\ w.recording = FALSE
        /\ w.session = u.session /\ w.currentRun = u.currentRun
        /\ w.credited = Credit(u)
    BY <1>1, CreditType DEF Views
  <1> QED
    BY <1>2 DEF w

\* Any other.
LEMMA TakesOther ==
  ASSUME NEW u \in Views, NEW s \in StateNames,
         ~(s = "RUNNING" /\ ~u.inRun), u.inRun => s \in {"RUNNING", "LOCKING"},
         NEW w, w = Takes(u, StateEvent(s))
  PROVE  /\ w \in Views /\ w.lastState = s /\ w.inRun = u.inRun
         /\ w.recording = u.recording /\ w.session = u.session
         /\ w.currentRun = u.currentRun /\ w.credited = u.credited
  <1>1. w = [u EXCEPT !.lastState = s]
    BY Messages DEF Takes, TakesStateView
  <1> QED
    BY <1>1 DEF Views

LEMMA TakesMeasured ==
  ASSUME NEW u \in Views, NEW r \in Runs, NEW w, w = Takes(u, Measurement(r))
  PROVE  /\ w \in Views /\ w.session = u.session \union {r}
         /\ w.lastState = u.lastState /\ w.inRun = u.inRun /\ w.recording = u.recording
         /\ w.currentRun = u.currentRun /\ w.credited = u.credited
  <1>1. w = [u EXCEPT !.session = u.session \union {r}]
    BY Messages DEF Takes
  <1> QED
    BY <1>1 DEF Views

LEMMA TakesFailure ==
  ASSUME NEW u \in Views, NEW w, w = Takes(u, RunLogFailed)
  PROVE  /\ w \in Views /\ w.currentRun = None /\ w.recording = FALSE
         /\ w.lastState = u.lastState /\ w.inRun = u.inRun /\ w.session = u.session
         /\ w.credited = u.credited
  <1>1. w = [u EXCEPT !.currentRun = None, !.recording = FALSE]
    BY Messages DEF Takes
  <1> QED
    BY <1>1 DEF Views

LEMMA TakesStart ==
  ASSUME NEW u \in Views, NEW n \in Names
  PROVE  LET w == Takes(u, RunLogStarted(n))
         IN  /\ w \in Views /\ w.currentRun = n /\ w.recording = TRUE
             /\ w.lastState = u.lastState /\ w.inRun = u.inRun /\ w.session = u.session
             /\ w.credited = u.credited
  <1> DEFINE w == Takes(u, RunLogStarted(n))
  <1>1. w = [u EXCEPT !.currentRun = n, !.recording = TRUE]
    BY Messages DEF Takes
  <1>2. n \in Names \union {None}
    OBVIOUS
  <1> HIDE DEF w
  <1>3. w \in Views
    BY <1>1, <1>2 DEF Views
  <1>4. /\ w \in Views /\ w.currentRun = n /\ w.recording = TRUE
        /\ w.lastState = u.lastState /\ w.inRun = u.inRun /\ w.session = u.session
        /\ w.credited = u.credited
    BY <1>1, <1>3 DEF Views
  <1> QED
    BY <1>4 DEF w

\* The broadcaster does to its variables what the message does to the view.
LEMMA BroadcastTakes ==
  ASSUME TrackingTypeOK, Broadcast
  PROVE  View' = Takes(View, Head(events))
  <1> DEFINE e == Head(events)
  <1>1. e \in Events
    BY DEF TrackingTypeOK, Broadcast
  <1>2. ASSUME NEW s \in StateNames, e = StateEvent(s)
        PROVE  View' = Takes(View, e)
    <2>1. e.type = "StateEvent" /\ e.state = s
      BY <1>2, Messages
    <2>2. TakesState(s)
      BY <2>1 DEF Broadcast
    <2>3. Takes(View, e) = TakesStateView(View, s)
      BY <2>1 DEF Takes
    <2>4. TakesStateView(View, s) = View'
      BY <2>2 DEF TakesState, BeginsRun, EndsRun, FlushesRun, TakesStateView, View, Credit
    <2> QED
      BY <2>3, <2>4
  <1>3. ASSUME NEW n \in Names, e = RunLogStarted(n)
        PROVE  View' = Takes(View, e)
    <2>1. e.type = "RunLogStartedEvent" /\ e.name = n
      BY <1>3, Messages
    <2>2. TakesStarted(n)
      BY <2>1 DEF Broadcast
    <2>3. Takes(View, e) = [View EXCEPT !.currentRun = n, !.recording = TRUE]
      BY <2>1 DEF Takes
    <2> QED
      BY <2>2, <2>3 DEF TakesStarted, View
  <1>4. CASE e = RunLogFailed
    <2>1. TakesFailed
      BY <1>4, Messages DEF Broadcast
    <2>2. Takes(View, e) = [View EXCEPT !.currentRun = None, !.recording = FALSE]
      BY <1>4, Messages DEF Takes
    <2> QED
      BY <2>1, <2>2 DEF TakesFailed, View
  <1>5. ASSUME NEW r \in Runs, e = Measurement(r)
        PROVE  View' = Takes(View, e)
    <2>1. e.type = "MeasurementEvent" /\ e.run = r
      BY <1>5, Messages
    <2>2. TakesMeasurement(r)
      BY <2>1 DEF Broadcast
    <2>3. Takes(View, e) = [View EXCEPT !.session = View.session \union {r}]
      BY <2>1 DEF Takes
    <2> QED
      BY <2>2, <2>3 DEF TakesMeasurement, View
  <1> QED
    BY <1>1, <1>2, <1>3, <1>4, <1>5, MessageKinds

-----------------------------------------------------------------------------
(* The inductive invariant. *)

\* What the lifecycle and its numbering say of the worker.
WorkerOK ==
  /\ run => phase \in {"MEASURING", "LOCKING"} /\ begun >= 1
  /\ phase = "MEASURING" => run
  /\ log => run /\ opened >= 1
  /\ measured \subseteq 1..begun

\* A view it is safe to act on: no run is credited twice or before its end.
Good(u) ==
  /\ \A r \in Runs : u.credited[r] \in {0, 1}
  /\ \A r \in Runs : u.credited[r] = 1 => r < begun \/ (r = begun /\ ~run)

\* The view that goes with the worker as it is now.  Only a run stopped in the
\* middle of a re-lock is still one to the server: no state says so until the
\* attempt ends.
Final(u) ==
  /\ u.lastState = StateName(phase)
  /\ run => u.inRun /\ (u.recording <=> log)
  /\ u.recording => u.inRun /\ (run => u.currentRun = opened)
  /\ u.inRun /\ ~run => phase = "LOCKING"
  /\ u.inRun => u.session = measured \intersect {begun}
  /\ \A r \in Runs : u.credited[r] = IF r \in measured /\ (r < begun \/ ~u.inRun) THEN 1 ELSE 0

GoodViews == {u \in Views : Good(u)}

\* The events under way lead the server to where the worker is.
Caught == \E u \in GoodViews : Leads(GoodViews, View, events, u) /\ Final(u)

TrackInv == TrackingTypeOK /\ WorkerOK /\ Caught

WorkerSends ==
  \/ WorkerBegins \/ WorkerEnds \/ WorkerMoves \/ WorkerSweeps
  \/ WorkerLogs \/ RetryFails \/ WorkerMeasures

-----------------------------------------------------------------------------
(* What every step of the worker leaves as it was. *)

LEMMA WorkerKeepsServer ==
  ASSUME WorkerSends
  PROVE  View' = View /\ deleting' = deleting /\ UNCHANGED serverVars
  <1>1. UNCHANGED serverVars /\ deleting' = deleting
    BY DEF WorkerSends, WorkerBegins, WorkerEnds, WorkerMoves, WorkerSweeps, WorkerLogs,
           RetryFails, WorkerMeasures, Emit
  <1> QED
    BY <1>1 DEF serverVars, View

LEMMA WorkerTypes ==
  ASSUME TrackInv, WorkerSends
  PROVE  /\ WorkerOK'
         /\ phase' \in Phases /\ run' \in BOOLEAN /\ log' \in BOOLEAN
         /\ begun' \in 0..MaxRuns /\ opened' \in 0..MaxLogs
         /\ measured' \subseteq Runs /\ files' \subseteq Names
  <1>1. opened' \in 0..MaxLogs /\ files' \subseteq Names /\ opened' \in {opened, opened + 1}
    <2>1. CASE NoNewLog
      BY <2>1 DEF NoNewLog, TrackInv, TrackingTypeOK
    <2>2. CASE NewLog
      <3>1. opened + 1 \in Names
        BY <2>2, TrackingBounds DEF NewLog, TrackInv, TrackingTypeOK, Names
      <3> QED
        BY <2>2, <3>1, TrackingBounds DEF NewLog, TrackInv, TrackingTypeOK, Names
    <2>3. CASE UNCHANGED <<opened, files>>
      BY <2>3 DEF TrackInv, TrackingTypeOK
    <2> QED
      BY <2>1, <2>2, <2>3
         DEF WorkerSends, WorkerBegins, WorkerEnds, WorkerMoves, WorkerSweeps, WorkerLogs,
             RetryFails, WorkerMeasures
  <1>2. CASE WorkerBegins
    <2>1. begun' = begun + 1 /\ begun' \in 0..MaxRuns /\ measured' = measured
          /\ phase' = "MEASURING" /\ run' = TRUE /\ log' \in BOOLEAN
      BY <1>2, TrackingBounds DEF WorkerBegins, Begin, TrackInv, TrackingTypeOK
    <2>2. log' => opened' = opened + 1
      BY <1>2 DEF WorkerBegins, NewLog
    <2>3. begun \in Nat /\ opened \in Nat /\ measured \subseteq 1..begun
      BY DEF TrackInv, TrackingTypeOK, WorkerOK
    <2>4. WorkerOK'
      BY <2>1, <2>2, <2>3 DEF WorkerOK
    <2> QED
      BY <1>1, <2>1, <2>4 DEF TrackInv, TrackingTypeOK, Phases
  <1>3. CASE WorkerEnds
    BY <1>1, <1>3 DEF WorkerEnds, End, TrackInv, TrackingTypeOK, WorkerOK, Phases
  <1>4. CASE WorkerMoves
    <2>1. /\ phase' \in Phases /\ run' = run /\ log' \in {log, FALSE}
          /\ run => phase' \in {"MEASURING", "LOCKING"}
          /\ phase' = "MEASURING" => run
      <3>1. run \in BOOLEAN /\ phase \in Phases /\ (phase = "MEASURING" => run)
        BY DEF TrackInv, TrackingTypeOK, WorkerOK
      <3>2. CASE Acquire
        BY <3>2 DEF Acquire, Phases
      <3>3. CASE Acquired
        BY <3>1, <3>3 DEF Acquired, Phases
      <3>4. CASE OpenLoop
        BY <3>4 DEF OpenLoop, Phases
      <3> QED
        BY <1>4, <3>2, <3>3, <3>4 DEF WorkerMoves
    <2>2. UNCHANGED <<begun, measured, opened>>
      BY <1>4 DEF WorkerMoves, NoNewLog
    <2>3. log' => log
      BY <2>1
    <2>4. WorkerOK
      BY DEF TrackInv
    <2>5. WorkerOK'
      BY <2>1, <2>2, <2>3, <2>4 DEF WorkerOK
    <2> QED
      BY <1>1, <2>1, <2>2, <2>5 DEF TrackInv, TrackingTypeOK
  <1>5. CASE WorkerLogs
    <2>1. /\ UNCHANGED <<phase, run, begun, measured>> /\ run /\ log' \in BOOLEAN
          /\ log' => (log /\ opened' = opened) \/ opened' = opened + 1
      BY <1>5 DEF WorkerLogs, LogChanges, NoNewLog, NewLog
    <2>2. opened \in Nat
      BY DEF TrackInv, TrackingTypeOK
    <2>3. WorkerOK'
      BY <2>1, <2>2 DEF TrackInv, WorkerOK
    <2> QED
      BY <1>1, <2>1, <2>3 DEF TrackInv, TrackingTypeOK
  <1>6. CASE WorkerSweeps \/ RetryFails
    <2>1. UNCHANGED <<phase, run, log, begun, measured>>
          /\ (log' => opened' = opened)
      BY <1>6 DEF WorkerSweeps, RetryFails, lifecycleVars, NoNewLog
    <2>2. WorkerOK'
      BY <2>1 DEF TrackInv, WorkerOK
    <2> QED
      BY <1>1, <2>1, <2>2 DEF TrackInv, TrackingTypeOK
  <1>7. CASE WorkerMeasures
    <2>1. UNCHANGED <<phase, run, log, begun, opened>> /\ run
          /\ measured' = measured \union {begun}
      BY <1>7 DEF WorkerMeasures, lifecycleVars, TrackInv, WorkerOK
    <2>2. begun \in 1..begun /\ begun \in Runs
      BY <2>1 DEF TrackInv, TrackingTypeOK, WorkerOK, Runs
    <2>3. WorkerOK'
      BY <2>1, <2>2 DEF TrackInv, WorkerOK
    <2> QED
      BY <1>1, <2>1, <2>2, <2>3 DEF TrackInv, TrackingTypeOK
  <1> QED
    BY <1>2, <1>3, <1>4, <1>5, <1>6, <1>7 DEF WorkerSends

\* No view under way is made unsafe by what the worker does meanwhile.
LEMMA GoodStays ==
  ASSUME TrackInv, WorkerSends
  PROVE  GoodViews \subseteq GoodViews'
  <1>1. begun \in Nat /\ begun' \in Nat
    BY WorkerTypes DEF TrackInv, TrackingTypeOK
  <1>2. (begun' = begun /\ (run' => run)) \/ begun' = begun + 1
    <2>1. CASE WorkerBegins \/ WorkerEnds
      BY <2>1 DEF WorkerBegins, WorkerEnds, End
    <2>2. CASE WorkerMoves
      BY <2>2 DEF WorkerMoves, Acquire, Acquired, OpenLoop
    <2>3. CASE WorkerSweeps \/ WorkerLogs \/ RetryFails \/ WorkerMeasures
      BY <2>3 DEF WorkerSweeps, WorkerLogs, LogChanges, RetryFails, WorkerMeasures,
                  lifecycleVars
    <2> QED
      BY <2>1, <2>2, <2>3 DEF WorkerSends
  <1>3. ASSUME NEW u \in Views, Good(u)
        PROVE  Good(u)'
    <2>1. \A r \in Runs : r \in Nat
      BY DEF Runs
    <2>2. \A r \in Runs : u.credited[r] = 1 => r < begun' \/ (r = begun' /\ ~run')
      BY <1>1, <1>2, <1>3, <2>1 DEF Good
    <2> QED
      BY <1>3, <2>2 DEF Good
  <1> QED
    BY <1>3 DEF GoodViews

-----------------------------------------------------------------------------
(* Messages keep a view safe to act on, each for its own reason. *)

LEMMA GoodAfterFailure ==
  ASSUME NEW u, u \in GoodViews', NEW w, w = Takes(u, RunLogFailed)
  PROVE  w \in GoodViews'
  <1>1. u \in Views /\ Good(u)'
    BY DEF GoodViews
  <1>2. w \in Views /\ w.credited = u.credited
    BY <1>1, TakesFailure
  <1> QED
    BY <1>1, <1>2 DEF GoodViews, Good

LEMMA GoodAfterStart ==
  ASSUME NEW u, u \in GoodViews', NEW n \in Names, NEW w, w = Takes(u, RunLogStarted(n))
  PROVE  w \in GoodViews'
  <1>1. u \in Views /\ Good(u)'
    BY DEF GoodViews
  <1>2. w \in Views /\ w.credited = u.credited
    BY <1>1, TakesStart
  <1> QED
    BY <1>1, <1>2 DEF GoodViews, Good

LEMMA GoodAfterState ==
  ASSUME NEW u, u \in GoodViews', NEW s \in StateNames,
         u.inRun => s \in {"RUNNING", "LOCKING"},
         NEW w, w = Takes(u, StateEvent(s))
  PROVE  w \in GoodViews'
  <1>1. u \in Views /\ Good(u)'
    BY DEF GoodViews
  <1>2. /\ w \in Views /\ w.credited = u.credited
        /\ w.recording = u.recording /\ w.currentRun = u.currentRun
    <2>1. CASE s = "RUNNING" /\ ~u.inRun
      BY <1>1, <2>1, TakesBegin
    <2>2. CASE ~(s = "RUNNING" /\ ~u.inRun)
      BY <1>1, <2>2, TakesOther
    <2> QED
      BY <2>1, <2>2
  <1> QED
    BY <1>1, <1>2 DEF GoodViews, Good

LEMMA GoodAfterMeasurement ==
  ASSUME NEW u, u \in GoodViews', NEW r \in Runs, NEW w, w = Takes(u, Measurement(r))
  PROVE  w \in GoodViews'
  <1>1. u \in Views /\ Good(u)'
    BY DEF GoodViews
  <1>2. /\ w \in Views /\ w.credited = u.credited
        /\ w.recording = u.recording /\ w.currentRun = u.currentRun
    BY <1>1, TakesMeasured
  <1> QED
    BY <1>1, <1>2 DEF GoodViews, Good

-----------------------------------------------------------------------------
(* Sending one, two or three of them, to where the worker now is. *)

LEMMA SentOne ==
  ASSUME TrackInv, WorkerSends, NEW u, Leads(GoodViews, View, events, u),
         NEW a \in Events, events' = Append(events, a),
         NEW w, w = Takes(u, a), w \in GoodViews', Final(w)'
  PROVE  events' \in Seq(Events) /\ Caught'
  <1>1. events \in Seq(Events) /\ View' = View
    BY WorkerKeepsServer DEF TrackInv, TrackingTypeOK
  <1>2. Leads(GoodViews', View', events, u)
    BY <1>1, GoodStays, LeadsWithin
  <1>3. Leads(GoodViews', View', Append(events, a), w)
    BY <1>1, <1>2, OneMoreLeads
  <1>4. Leads(GoodViews', View', events', w)
    BY <1>3
  <1> QED
    BY <1>1, <1>4 DEF Caught

LEMMA SentTwo ==
  ASSUME TrackInv, WorkerSends, NEW u, Leads(GoodViews, View, events, u),
         NEW a \in Events, NEW b \in Events, events' = Append(Append(events, a), b),
         NEW v, v = Takes(u, a), v \in GoodViews',
         NEW w, w = Takes(v, b), w \in GoodViews', Final(w)'
  PROVE  events' \in Seq(Events) /\ Caught'
  <1>1. events \in Seq(Events) /\ View' = View /\ Append(events, a) \in Seq(Events)
    BY WorkerKeepsServer DEF TrackInv, TrackingTypeOK
  <1>2. Leads(GoodViews', View', events, u)
    BY <1>1, GoodStays, LeadsWithin
  <1>3. Leads(GoodViews', View', Append(events, a), v)
    BY <1>1, <1>2, OneMoreLeads
  <1>4. Leads(GoodViews', View', Append(Append(events, a), b), w)
    BY <1>1, <1>3, OneMoreLeads
  <1>5. Leads(GoodViews', View', events', w)
    BY <1>4
  <1> QED
    BY <1>1, <1>5 DEF Caught

LEMMA SentThree ==
  ASSUME TrackInv, WorkerSends, NEW u, Leads(GoodViews, View, events, u),
         NEW a \in Events, NEW b \in Events, NEW c \in Events,
         events' = Append(Append(Append(events, a), b), c),
         NEW v, v = Takes(u, a), v \in GoodViews',
         NEW x, x = Takes(v, b), x \in GoodViews',
         NEW w, w = Takes(x, c), w \in GoodViews', Final(w)'
  PROVE  events' \in Seq(Events) /\ Caught'
  <1>1. /\ events \in Seq(Events) /\ View' = View /\ Append(events, a) \in Seq(Events)
        /\ Append(Append(events, a), b) \in Seq(Events)
    BY WorkerKeepsServer DEF TrackInv, TrackingTypeOK
  <1>2. Leads(GoodViews', View', events, u)
    BY <1>1, GoodStays, LeadsWithin
  <1>3. Leads(GoodViews', View', Append(events, a), v)
    BY <1>1, <1>2, OneMoreLeads
  <1>4. Leads(GoodViews', View', Append(Append(events, a), b), x)
    BY <1>1, <1>3, OneMoreLeads
  <1>5. Leads(GoodViews', View', Append(Append(Append(events, a), b), c), w)
    BY <1>1, <1>4, OneMoreLeads
  <1>6. Leads(GoodViews', View', events', w)
    BY <1>5
  <1> QED
    BY <1>1, <1>6 DEF Caught

LEMMA SentNone ==
  ASSUME TrackInv, WorkerSends, NEW u, Leads(GoodViews, View, events, u),
         events' = events, u \in GoodViews', Final(u)'
  PROVE  events' \in Seq(Events) /\ Caught'
  <1>1. events \in Seq(Events) /\ View' = View
    BY WorkerKeepsServer DEF TrackInv, TrackingTypeOK
  <1>2. Leads(GoodViews', View', events, u)
    BY <1>1, GoodStays, LeadsWithin
  <1> QED
    BY <1>1, <1>2 DEF Caught

-----------------------------------------------------------------------------
(* Where each step of the worker leads. *)

\* The state that begins a run, after what is said of its log.
LEMMA BeginArrives ==
  ASSUME TrackInv, WorkerBegins, NEW x, x \in GoodViews', ~x.inRun,
         x.recording <=> log', x.recording => x.currentRun = opened',
         \A r \in Runs : x.credited[r] = IF r \in measured THEN 1 ELSE 0,
         NEW w, w = Takes(x, StateEvent("RUNNING"))
  PROVE  w \in GoodViews' /\ Final(w)'
  <1>1. "RUNNING" \in StateNames /\ x \in Views
    BY DEF StateNames, GoodViews
  <1>2. w \in GoodViews'
    BY <1>1, GoodAfterState
  <1>3. /\ w.lastState = "RUNNING" /\ w.inRun = TRUE /\ w.session = {}
        /\ w.recording = x.recording /\ w.currentRun = x.currentRun
        /\ w.credited = x.credited
    BY <1>1, TakesBegin
  <1>4. /\ phase' = "MEASURING" /\ run' = TRUE /\ begun' = begun + 1 /\ measured' = measured
        /\ begun \in Nat /\ measured \subseteq 1..begun
    BY DEF WorkerBegins, Begin, TrackInv, TrackingTypeOK, WorkerOK
  <1>5. measured' \intersect {begun'} = {}
    BY <1>4
  <1>6. \A r \in Runs : w.credited[r] = IF r \in measured' /\ (r < begun' \/ ~w.inRun) THEN 1 ELSE 0
    <2>1. \A r \in measured : r < begun'
      BY <1>4
    <2>2. \A r \in Runs : r \in measured <=> r \in measured' /\ (r < begun' \/ ~w.inRun)
      BY <1>4, <2>1
    <2> QED
      BY <1>3, <2>2
  <1> QED
    BY <1>2, <1>3, <1>4, <1>5, <1>6 DEF Final, StateName

LEMMA BeginsCaught ==
  ASSUME TrackInv, WorkerBegins
  PROVE  events' \in Seq(Events) /\ Caught'
  <1>1. PICK u \in GoodViews : Leads(GoodViews, View, events, u) /\ Final(u)
    BY DEF TrackInv, Caught
  <1>2. WorkerSends /\ events \in Seq(Events) /\ u \in GoodViews' /\ u \in Views
    BY GoodStays DEF WorkerSends, TrackInv, TrackingTypeOK, GoodViews
  <1>3. /\ ~u.inRun /\ ~u.recording
        /\ \A r \in Runs : u.credited[r] = IF r \in measured THEN 1 ELSE 0
    BY <1>1 DEF WorkerBegins, Begin, Final
  <1> DEFINE st == StateEvent("RUNNING")
             f == Takes(u, RunLogFailed)
  <1>4. st \in Events /\ RunLogFailed \in Events
    BY Messages DEF StateNames
  <1>5. CASE NewLog /\ Emit(<<RunLogStarted(opened')>>
                  \o (IF log' THEN << >> ELSE <<RunLogFailed>>) \o <<st>>)
    <2>1. opened' \in Names
      BY <1>5, TrackingBounds DEF NewLog, TrackInv, TrackingTypeOK, Names
    <2>2. PICK n \in Names : n = opened'
      BY <2>1
    <2> DEFINE a == RunLogStarted(n)
               v == Takes(u, a)
    <2>3. a \in Events
      BY Messages
    <2>4. v \in GoodViews'
      BY <1>2, <2>2, GoodAfterStart
    <2>5. /\ v \in Views /\ v.currentRun = n /\ v.recording = TRUE /\ v.inRun = u.inRun
          /\ v.credited = u.credited
      BY <1>2, TakesStart
    <2>6. CASE log'
      <3>1. events' = events \o (<<a>> \o << >> \o <<st>>)
        BY <1>5, <2>2, <2>6 DEF Emit
      <3>2. events' = Append(Append(events, a), st)
        BY <1>2, <1>4, <2>3, <3>1, SendingThree
      <3>3. Takes(v, st) \in GoodViews' /\ Final(Takes(v, st))'
        BY <1>3, <2>2, <2>4, <2>5, <2>6, BeginArrives
      <3> HIDE DEF v, a, st
      <3> QED
        BY <1>1, <1>2, <1>4, <2>3, <2>4, <3>2, <3>3, SentTwo DEF v
    <2>7. CASE ~log'
      <3> DEFINE x == Takes(v, RunLogFailed)
      <3>1. events' = events \o (<<a>> \o <<RunLogFailed>> \o <<st>>)
        BY <1>5, <2>2, <2>7 DEF Emit
      <3>2. events' = Append(Append(Append(events, a), RunLogFailed), st)
        BY <1>2, <1>4, <2>3, <3>1, SendingThree
      <3>3. x \in GoodViews'
        BY <2>4, <2>7, GoodAfterFailure
      <3>4. x.recording = FALSE /\ x.inRun = u.inRun /\ x.credited = u.credited
        BY <2>5, TakesFailure
      <3>5. Takes(x, st) \in GoodViews' /\ Final(Takes(x, st))'
        BY <1>3, <2>7, <3>3, <3>4, BeginArrives
      <3> HIDE DEF x, v, a, st
      <3> QED
        BY <1>1, <1>2, <1>4, <2>3, <2>4, <3>2, <3>3, <3>5, SentThree DEF v, x
    <2> QED
      BY <2>6, <2>7
  <1>6. CASE ~log' /\ Emit(<<RunLogFailed, st>>)
    <2>1. events' = Append(Append(events, RunLogFailed), st)
      BY <1>2, <1>4, <1>6, Sending DEF Emit
    <2>2. f \in GoodViews'
      BY <1>2, <1>6, GoodAfterFailure
    <2>3. f.recording = FALSE /\ f.inRun = u.inRun /\ f.credited = u.credited
      BY <1>2, TakesFailure
    <2>4. Takes(f, st) \in GoodViews' /\ Final(Takes(f, st))'
      BY <1>3, <1>6, <2>2, <2>3, BeginArrives
    <2> HIDE DEF f, st
    <2> QED
      BY <1>1, <1>2, <1>4, <2>1, <2>2, <2>4, SentTwo DEF f
  <1> QED
    BY <1>5, <1>6 DEF WorkerBegins

\* The state that ends a run credits it, and only it, for the first time.
LEMMA EndArrives ==
  ASSUME TrackInv, NEW u \in GoodViews, Final(u), u.inRun,
         NEW x, x \in GoodViews', x.inRun, x.credited = u.credited, x.session = u.session,
         begun' = begun, measured' = measured, run' = FALSE, log' = FALSE, phase' = "IDLE",
         NEW w, w = Takes(x, StateEvent("IDLE"))
  PROVE  w \in GoodViews' /\ Final(w)'
  <1>1. /\ "IDLE" \in StateNames /\ "IDLE" \notin {"RUNNING", "LOCKING"}
        /\ x \in Views /\ Good(x)' /\ u \in Views
    BY DEF StateNames, GoodViews
  <1>2. /\ w \in Views /\ w.lastState = "IDLE" /\ w.inRun = FALSE /\ w.recording = FALSE
        /\ w.credited = Credit(x)
    BY <1>1, TakesEnd
  <1>3. begun \in Nat /\ measured \subseteq 1..begun
    BY DEF TrackInv, TrackingTypeOK, WorkerOK
  <1>4. ASSUME NEW r \in Runs
        PROVE  w.credited[r] = IF r \in measured THEN 1 ELSE 0
    <2>1. w.credited[r] = IF r \in x.session THEN x.credited[r] + 1 ELSE x.credited[r]
      BY <1>1, <1>2, CreditType
    <2>2. x.credited[r] = IF r \in measured /\ r < begun THEN 1 ELSE 0
      BY DEF Final
    <2>3. r \in x.session <=> r \in measured /\ r = begun
      BY DEF Final
    <2>4. r \in measured => r < begun \/ r = begun
      BY <1>3
    <2>5. ~(r < begun /\ r = begun)
      BY <1>3
    <2> QED
      BY <2>1, <2>2, <2>3, <2>4, <2>5
  <1>5. Good(w)'
    <2>1. \A r \in Runs : w.credited[r] \in {0, 1}
      BY <1>4
    <2>2. \A r \in Runs : w.credited[r] = 1 => r < begun' \/ (r = begun' /\ ~run')
      <3>1. \A r \in measured : r < begun \/ r = begun
        BY <1>3
      <3> QED
        BY <1>4, <3>1
    <2> QED
      BY <1>1, <1>2, <2>1, <2>2 DEF Good
  <1>6. Final(w)'
    BY <1>2, <1>4 DEF Final, StateName
  <1> QED
    BY <1>2, <1>5, <1>6 DEF GoodViews

LEMMA EndsCaught ==
  ASSUME TrackInv, WorkerEnds
  PROVE  events' \in Seq(Events) /\ Caught'
  <1>1. PICK u \in GoodViews : Leads(GoodViews, View, events, u) /\ Final(u)
    BY DEF TrackInv, Caught
  <1>2. WorkerSends /\ events \in Seq(Events) /\ u \in GoodViews' /\ u \in Views
    BY GoodStays DEF WorkerSends, TrackInv, TrackingTypeOK, GoodViews
  <1>3. /\ run /\ run' = FALSE /\ log' = FALSE /\ begun' = begun /\ measured' = measured
        /\ phase' = IF phase = "MEASURING" THEN "IDLE" ELSE phase
        /\ phase \in {"MEASURING", "LOCKING"} /\ u.inRun
    BY <1>1 DEF WorkerEnds, End, TrackInv, WorkerOK, Final
  <1> DEFINE st == StateEvent("IDLE")
             f == Takes(u, RunLogFailed)
  <1>4. st \in Events /\ RunLogFailed \in Events
    BY Messages DEF StateNames
  <1>5. f \in GoodViews'
    BY <1>2, <1>3, GoodAfterFailure
  <1>6. /\ f.inRun = u.inRun /\ f.credited = u.credited /\ f.session = u.session
        /\ f.lastState = u.lastState /\ f.recording = FALSE
    BY <1>2, TakesFailure
  <1>7. PICK failure \in {<< >>, <<RunLogFailed>>} :
          /\ failure = <<RunLogFailed>> => log
          /\ Emit(failure \o (IF phase = "MEASURING" THEN <<st>> ELSE << >>))
    BY DEF WorkerEnds
  <1>8. CASE phase = "MEASURING" /\ failure = << >>
    <2>1. events' = Append(events, st)
      BY <1>2, <1>4, <1>7, <1>8, Sending DEF Emit
    <2>2. Takes(u, st) \in GoodViews' /\ Final(Takes(u, st))'
      BY <1>1, <1>2, <1>3, <1>8, EndArrives
    <2> HIDE DEF st
    <2> QED
      BY <1>1, <1>2, <1>4, <2>1, <2>2, SentOne
  <1>9. CASE phase = "MEASURING" /\ failure = <<RunLogFailed>>
    <2>1. events' = Append(Append(events, RunLogFailed), st)
      BY <1>2, <1>4, <1>7, <1>9, Sending DEF Emit
    <2>2. Takes(f, st) \in GoodViews' /\ Final(Takes(f, st))'
      BY <1>1, <1>3, <1>5, <1>6, <1>9, EndArrives
    <2> HIDE DEF f, st
    <2> QED
      BY <1>1, <1>2, <1>4, <1>5, <2>1, <2>2, SentTwo DEF f
  <1>10. ASSUME phase = "LOCKING", NEW x, x.inRun = u.inRun, x.credited = u.credited,
                x.session = u.session, x.lastState = u.lastState, x.recording => u.recording
         PROVE  Final(x)'
    BY <1>1, <1>3, <1>10 DEF Final
  <1>11. CASE phase = "LOCKING" /\ failure = << >>
    <2>1. events' = events
      BY <1>2, <1>7, <1>11, ConcatEmptySeq DEF Emit
    <2>2. Final(u)'
      BY <1>10, <1>11
    <2> QED
      BY <1>1, <1>2, <2>1, <2>2, SentNone
  <1>12. CASE phase = "LOCKING" /\ failure = <<RunLogFailed>>
    <2>1. events' = Append(events, RunLogFailed)
      BY <1>2, <1>4, <1>7, <1>12, Sending DEF Emit
    <2>2. Final(f)'
      BY <1>6, <1>10, <1>12
    <2> HIDE DEF f
    <2> QED
      BY <1>1, <1>2, <1>4, <1>5, <2>1, <2>2, SentOne DEF f
  <1> QED
    BY <1>3, <1>7, <1>8, <1>9, <1>11, <1>12

\* A lock attempt or an opening of the loops, after what is said of the log.
LEMMA MoveArrives ==
  ASSUME TrackInv, WorkerMoves, NEW u \in GoodViews, Final(u),
         NEW x, x \in GoodViews', x.inRun = u.inRun, x.credited = u.credited,
         x.session = u.session, run => (x.recording <=> log'),
         x.recording => u.recording /\ x.currentRun = u.currentRun,
         NEW w, w = Takes(x, StateEvent(StateName(phase')))
  PROVE  w \in GoodViews' /\ Final(w)'
  <1> DEFINE s == StateName(phase')
  <1>1. x \in Views /\ u \in Views
    BY DEF GoodViews
  <1>2. UNCHANGED <<begun, measured, opened, run>> /\ WorkerOK'
    BY WorkerTypes DEF WorkerSends, WorkerMoves, NoNewLog, Acquire, Acquired, OpenLoop
  <1>3. s \in StateNames
    BY WorkerTypes DEF WorkerSends, StateName, StateNames, Phases
  <1>4. CASE ~run /\ phase' = "IDLE" /\ u.inRun
    <2>1. log' = FALSE /\ run' = FALSE
      BY <1>2, <1>4, WorkerTypes DEF WorkerSends, WorkerOK, TrackInv, TrackingTypeOK
    <2> QED
      BY <1>1, <1>2, <1>4, <2>1, EndArrives DEF StateName
  <1>5. CASE ~(~run /\ phase' = "IDLE" /\ u.inRun)
    <2>1. /\ s = "RUNNING" => u.inRun
          /\ u.inRun => s \in {"RUNNING", "LOCKING"}
          /\ u.inRun /\ ~run => phase' = "LOCKING"
      <3>1. run => u.inRun
        BY DEF Final
      <3>2. u.inRun /\ ~run => phase = "LOCKING"
        BY DEF Final
      <3>3. CASE Acquire
        BY <3>3 DEF Acquire, StateName
      <3>4. CASE Acquired
        BY <1>5, <3>1, <3>4 DEF Acquired, StateName
      <3>5. CASE OpenLoop
        BY <3>2, <3>5 DEF OpenLoop, StateName
      <3> QED
        BY <3>3, <3>4, <3>5 DEF WorkerMoves
    <2>2. w \in GoodViews'
      BY <1>1, <1>3, <2>1, GoodAfterState
    <2>3. /\ w.lastState = s /\ w.inRun = x.inRun /\ w.recording = x.recording
          /\ w.session = x.session /\ w.currentRun = x.currentRun /\ w.credited = x.credited
      BY <1>1, <1>3, <2>1, TakesOther
    <2>4. Final(w)'
      BY <1>1, <1>2, <2>1, <2>3 DEF Final
    <2> QED
      BY <2>2, <2>4
  <1> QED
    BY <1>4, <1>5

LEMMA MovesCaught ==
  ASSUME TrackInv, WorkerMoves
  PROVE  events' \in Seq(Events) /\ Caught'
  <1>1. PICK u \in GoodViews : Leads(GoodViews, View, events, u) /\ Final(u)
    BY DEF TrackInv, Caught
  <1>2. WorkerSends /\ events \in Seq(Events) /\ u \in GoodViews' /\ u \in Views
    BY GoodStays DEF WorkerSends, TrackInv, TrackingTypeOK, GoodViews
  <1> DEFINE st == StateEvent(StateName(phase'))
             f == Takes(u, RunLogFailed)
  <1>3. st \in Events /\ RunLogFailed \in Events
    BY <1>2, WorkerTypes, Messages DEF StateName, StateNames, Phases
  <1>4. PICK e \in Events : e = st
    BY <1>3
  <1>5. log \in BOOLEAN /\ log' \in BOOLEAN /\ log' \in {log, FALSE}
    BY DEF TrackInv, TrackingTypeOK, WorkerMoves, Acquire, Acquired, OpenLoop
  <1>6. CASE log /\ ~log'
    <2>1. events' = Append(Append(events, RunLogFailed), e)
      BY <1>2, <1>3, <1>4, <1>6, Sending DEF WorkerMoves, Failure, Emit
    <2>2. f \in GoodViews'
      BY <1>2, <1>6, GoodAfterFailure
    <2>3. /\ f.inRun = u.inRun /\ f.credited = u.credited /\ f.session = u.session
          /\ f.recording = FALSE
      BY <1>2, TakesFailure
    <2>4. Takes(f, e) \in GoodViews' /\ Final(Takes(f, e))'
      BY <1>1, <1>4, <1>6, <2>2, <2>3, MoveArrives
    <2> HIDE DEF f
    <2> QED
      BY <1>1, <1>2, <1>3, <2>1, <2>2, <2>4, SentTwo DEF f
  <1>7. CASE ~(log /\ ~log')
    <2>1. events' = Append(events, e)
      BY <1>2, <1>3, <1>4, <1>7, Sending DEF WorkerMoves, Failure, Emit
    <2>2. run => (u.recording <=> log')
      BY <1>1, <1>5, <1>7 DEF Final
    <2>3. Takes(u, e) \in GoodViews' /\ Final(Takes(u, e))'
      BY <1>1, <1>2, <1>4, <2>2, MoveArrives
    <2> QED
      BY <1>1, <1>2, <2>1, <2>3, SentOne
  <1> QED
    BY <1>6, <1>7

\* What is said of the log alone leaves the rest of the view final.
LEMMA LogArrives ==
  ASSUME TrackInv, WorkerLogs \/ RetryFails, NEW u \in GoodViews, Final(u),
         NEW w, w.lastState = u.lastState, w.inRun = u.inRun, w.session = u.session,
         w.credited = u.credited, w.recording <=> log', w.recording => w.currentRun = opened'
  PROVE  Final(w)'
  <1>1. UNCHANGED <<phase, run, begun, measured>> /\ run
    BY DEF WorkerLogs, LogChanges, RetryFails, lifecycleVars, TrackInv, WorkerOK
  <1> QED
    BY <1>1 DEF Final

LEMMA LogsCaught ==
  ASSUME TrackInv, WorkerLogs \/ RetryFails
  PROVE  events' \in Seq(Events) /\ Caught'
  <1>1. PICK u \in GoodViews : Leads(GoodViews, View, events, u) /\ Final(u)
    BY DEF TrackInv, Caught
  <1>2. WorkerSends /\ events \in Seq(Events) /\ u \in GoodViews' /\ u \in Views
    BY GoodStays DEF WorkerSends, TrackInv, TrackingTypeOK, GoodViews
  <1>3. RunLogFailed \in Events
    BY Messages
  <1>4. CASE ~log' /\ events' = events \o <<RunLogFailed>>
    <2> DEFINE f == Takes(u, RunLogFailed)
    <2>1. f \in GoodViews'
      BY <1>2, <1>4, GoodAfterFailure
    <2>2. /\ f.lastState = u.lastState /\ f.inRun = u.inRun /\ f.session = u.session
          /\ f.credited = u.credited /\ f.recording = FALSE
      BY <1>2, TakesFailure
    <2>3. Final(f)'
      BY <1>1, <1>4, <2>2, LogArrives
    <2>4. events' = Append(events, RunLogFailed)
      BY <1>2, <1>3, <1>4, Sending
    <2> HIDE DEF f
    <2> QED
      BY <1>1, <1>2, <1>3, <2>1, <2>3, <2>4, SentOne DEF f
  <1>5. ASSUME NEW n \in Names, n = opened'
        PROVE  LET v == Takes(u, RunLogStarted(n))
               IN  /\ RunLogStarted(n) \in Events /\ v \in GoodViews' /\ v \in Views
                   /\ log' => Final(v)'
    <2> DEFINE v == Takes(u, RunLogStarted(n))
    <2>1. v \in GoodViews'
      BY <1>2, <1>5, GoodAfterStart
    <2>2. /\ v.lastState = u.lastState /\ v.inRun = u.inRun /\ v.session = u.session
          /\ v.credited = u.credited /\ v.recording = TRUE /\ v.currentRun = n
      BY <1>2, TakesStart
    <2>3. log' => Final(v)'
      BY <1>1, <1>5, <2>2, LogArrives
    <2>4. RunLogStarted(n) \in Events
      BY Messages
    <2>5. v \in Views
      BY <1>2, TakesStart
    <2> QED
      BY <2>1, <2>3, <2>4, <2>5
  <1>6. CASE log' /\ opened' \in Names /\ events' = events \o <<RunLogStarted(opened')>>
    <2>1. PICK n \in Names : n = opened'
      BY <1>6
    <2>2. PICK a \in Events : a = RunLogStarted(n)
      BY <1>5, <2>1
    <2>3. events' = Append(events, a)
      BY <1>2, <1>6, <2>1, <2>2, Sending
    <2>4. Takes(u, a) \in GoodViews' /\ Final(Takes(u, a))'
      BY <1>5, <1>6, <2>1, <2>2
    <2> QED
      BY <1>1, <1>2, <2>3, <2>4, SentOne
  <1>7. CASE /\ ~log' /\ opened' \in Names
             /\ events' = events \o <<RunLogStarted(opened'), RunLogFailed>>
    <2>1. PICK n \in Names : n = opened'
      BY <1>7
    <2>2. PICK a \in Events : a = RunLogStarted(n)
      BY <1>5, <2>1
    <2>3. PICK v \in Views : v = Takes(u, a) /\ v \in GoodViews'
      BY <1>5, <2>1, <2>2
    <2>4. events' = Append(Append(events, a), RunLogFailed)
      BY <1>2, <1>3, <1>7, <2>1, <2>2, Sending
    <2> DEFINE f == Takes(v, RunLogFailed)
    <2>5. f \in GoodViews'
      BY <1>7, <2>3, GoodAfterFailure
    <2>6. /\ f.lastState = v.lastState /\ f.inRun = v.inRun /\ f.session = v.session
          /\ f.credited = v.credited /\ f.recording = FALSE
      BY TakesFailure
    <2>7. /\ v.lastState = u.lastState /\ v.inRun = u.inRun /\ v.session = u.session
          /\ v.credited = u.credited
      BY <1>2, <2>2, <2>3, TakesStart
    <2>8. Final(f)'
      BY <1>1, <1>7, <2>6, <2>7, LogArrives
    <2> HIDE DEF f
    <2> QED
      BY <1>1, <1>2, <1>3, <2>3, <2>4, <2>5, <2>8, SentTwo DEF f
  \* A failed last row first, and what a re-opened part then leads to.
  <1>8. ASSUME NEW n \in Names, n = opened'
        PROVE  LET f == Takes(u, RunLogFailed)
                   v == Takes(f, RunLogStarted(n))
               IN  /\ f \in GoodViews' /\ v \in GoodViews' /\ v \in Views
                   /\ v.lastState = u.lastState /\ v.inRun = u.inRun /\ v.session = u.session
                   /\ v.credited = u.credited /\ v.recording = TRUE /\ v.currentRun = n
    <2> DEFINE f == Takes(u, RunLogFailed)
               v == Takes(f, RunLogStarted(n))
    <2>1. f \in GoodViews'
      BY <1>2, GoodAfterFailure
    <2>2. v \in GoodViews'
      BY <2>1, GoodAfterStart
    <2>3. /\ f \in Views /\ f.lastState = u.lastState /\ f.inRun = u.inRun
          /\ f.session = u.session /\ f.credited = u.credited
      BY <1>2, TakesFailure
    <2>4. /\ v \in Views /\ v.lastState = f.lastState /\ v.inRun = f.inRun
          /\ v.session = f.session /\ v.credited = f.credited
          /\ v.recording = TRUE /\ v.currentRun = n
      BY <2>3, TakesStart
    <2> HIDE DEF f, v
    <2> QED
      BY <2>1, <2>2, <2>3, <2>4 DEF f, v
  <1>9. CASE /\ log' /\ opened' \in Names
             /\ events' = events \o (<<RunLogFailed>> \o <<RunLogStarted(opened')>> \o << >>)
    <2>1. PICK n \in Names : n = opened'
      BY <1>9
    <2>2. PICK a \in Events : a = RunLogStarted(n)
      BY <1>5, <2>1
    <2>3. events' = Append(Append(events, RunLogFailed), a)
      BY <1>2, <1>3, <1>9, <2>1, <2>2, SendingRollOver
    <2> DEFINE f == Takes(u, RunLogFailed)
               v == Takes(f, a)
    <2>4. /\ f \in GoodViews' /\ v \in GoodViews'
          /\ v.lastState = u.lastState /\ v.inRun = u.inRun /\ v.session = u.session
          /\ v.credited = u.credited /\ v.recording = TRUE /\ v.currentRun = n
      BY <1>8, <2>1, <2>2
    <2> HIDE DEF f, v
    <2>5. Final(v)'
      BY <1>1, <1>9, <2>1, <2>4, LogArrives
    <2> QED
      BY <1>1, <1>2, <1>3, <2>3, <2>4, <2>5, SentTwo DEF f, v
  <1>10. CASE /\ ~log' /\ opened' \in Names
              /\ events' = events \o (<<RunLogFailed>> \o <<RunLogStarted(opened')>>
                                        \o <<RunLogFailed>>)
    <2>1. PICK n \in Names : n = opened'
      BY <1>10
    <2>2. PICK a \in Events : a = RunLogStarted(n)
      BY <1>5, <2>1
    <2>3. events' = Append(Append(Append(events, RunLogFailed), a), RunLogFailed)
      BY <1>2, <1>3, <1>10, <2>1, <2>2, SendingThree
    <2> DEFINE f == Takes(u, RunLogFailed)
               v == Takes(f, a)
               w == Takes(v, RunLogFailed)
    <2>4. /\ f \in GoodViews' /\ v \in GoodViews' /\ v \in Views
          /\ v.lastState = u.lastState /\ v.inRun = u.inRun /\ v.session = u.session
          /\ v.credited = u.credited
      BY <1>8, <2>1, <2>2
    <2> HIDE DEF f, v
    <2>5. w \in GoodViews'
      BY <2>4, GoodAfterFailure
    <2>6. /\ w.lastState = v.lastState /\ w.inRun = v.inRun /\ w.session = v.session
          /\ w.credited = v.credited /\ w.recording = FALSE
      BY <2>4, TakesFailure
    <2> HIDE DEF w
    <2>7. Final(w)'
      BY <1>1, <1>10, <2>4, <2>6, LogArrives
    <2> QED
      BY <1>1, <1>2, <1>3, <2>3, <2>4, <2>5, <2>7, SentThree DEF f, v, w
  <1>11. opened' \in Names \/ opened' = 0
    BY <1>2, WorkerTypes, TrackingBounds DEF Names
  <1>12. NewLog => opened' \in Names
    BY <1>11 DEF NewLog, TrackInv, TrackingTypeOK
  <1>13. CASE WorkerLogs
    <2>1. log /\ NoNewLog => opened' \in Names /\ opened' = opened
      BY <1>11 DEF NoNewLog, TrackInv, WorkerOK
    <2>2. CASE log /\ ~log' /\ NoNewLog /\ Emit(Failure)
      BY <1>4, <2>2 DEF Emit, Failure
    <2>3. ASSUME log, NoNewLog, NEW failed \in {<< >>, <<RunLogFailed>>},
                 Emit(failed \o <<RunLogStarted(opened)>> \o Failure)
          PROVE  events' \in Seq(Events) /\ Caught'
      <3>1. PICK n \in Names : n = opened'
        BY <2>1, <2>3
      <3>2. PICK a \in Events : a = RunLogStarted(n)
        BY <1>5, <3>1
      <3>3. events' = events \o (failed \o <<a>> \o Failure)
        BY <2>1, <2>3, <3>1, <3>2 DEF Emit
      <3>4. Failure = IF log' THEN << >> ELSE <<RunLogFailed>>
        BY <2>3 DEF Failure
      <3>5. CASE failed = << >> /\ log'
        <4>1. events' = events \o <<a>>
          BY <1>2, <1>3, <3>3, <3>4, <3>5, SendingRollOver
        <4> QED
          BY <1>6, <3>1, <3>2, <3>5, <4>1
      <3>6. CASE failed = << >> /\ ~log'
        <4>1. events' = events \o <<a, RunLogFailed>>
          BY <1>2, <1>3, <3>3, <3>4, <3>6, SendingRollOver
        <4> QED
          BY <1>7, <3>1, <3>2, <3>6, <4>1
      <3>7. CASE failed = <<RunLogFailed>> /\ log'
        BY <1>9, <3>1, <3>2, <3>3, <3>4, <3>7
      <3>8. CASE failed = <<RunLogFailed>> /\ ~log'
        BY <1>10, <3>1, <3>2, <3>3, <3>4, <3>8
      <3> QED
        BY <2>3, <3>5, <3>6, <3>7, <3>8
    <2>4. CASE ~log /\ log' /\ NewLog /\ Emit(<<RunLogStarted(opened')>>)
      BY <1>6, <1>12, <2>4 DEF Emit
    <2> QED
      BY <1>13, <2>2, <2>3, <2>4 DEF WorkerLogs
  <1>14. CASE RetryFails
    <2>1. ~log'
      BY <1>14 DEF RetryFails, lifecycleVars
    <2> QED
      BY <1>4, <1>7, <1>12, <1>14, <2>1 DEF RetryFails, Emit
  <1> QED
    BY <1>13, <1>14

LEMMA MeasuresCaught ==
  ASSUME TrackInv, WorkerMeasures
  PROVE  events' \in Seq(Events) /\ Caught'
  <1>1. PICK u \in GoodViews : Leads(GoodViews, View, events, u) /\ Final(u)
    BY DEF TrackInv, Caught
  <1>2. WorkerSends /\ events \in Seq(Events) /\ u \in GoodViews' /\ u \in Views
    BY GoodStays DEF WorkerSends, TrackInv, TrackingTypeOK, GoodViews
  <1>3. /\ UNCHANGED <<phase, run, log, begun, opened>> /\ run
        /\ measured' = measured \union {begun} /\ begun \in Runs
    BY DEF WorkerMeasures, lifecycleVars, TrackInv, TrackingTypeOK, WorkerOK, Runs
  <1> DEFINE e == Measurement(begun)
  <1>4. PICK r \in Runs : r = begun
    BY <1>3
  <1>5. PICK a \in Events : a = Measurement(r)
    BY Messages
  <1>6. events' = Append(events, a)
    BY <1>2, <1>4, <1>5, Sending DEF WorkerMeasures, Emit
  <1> DEFINE w == Takes(u, a)
  <1>7. w \in GoodViews'
    BY <1>2, <1>5, GoodAfterMeasurement
  <1>8. /\ w.session = u.session \union {r} /\ w.lastState = u.lastState /\ w.inRun = u.inRun
        /\ w.recording = u.recording /\ w.currentRun = u.currentRun /\ w.credited = u.credited
    BY <1>2, <1>5, TakesMeasured
  <1>9. Final(w)'
    <2>1. u.inRun /\ u.session = measured \intersect {begun}
      BY <1>1, <1>3 DEF Final
    <2>2. w.session = measured' \intersect {begun'}
      BY <1>3, <1>4, <1>8, <2>1
    <2>3. begun \in Nat
      BY DEF TrackInv, TrackingTypeOK
    <2>4. ASSUME NEW k \in Runs
          PROVE  w.credited[k] = IF k \in measured' /\ (k < begun' \/ ~w.inRun) THEN 1 ELSE 0
      <3>1. w.credited[k] = IF k \in measured /\ k < begun THEN 1 ELSE 0
        BY <1>1, <1>8, <2>1 DEF Final
      <3>2. k \in measured /\ k < begun <=> k \in measured' /\ (k < begun' \/ ~w.inRun)
        BY <1>3, <1>8, <2>1, <2>3
      <3> QED
        BY <3>1, <3>2
    <2> HIDE DEF w
    <2> QED
      BY <1>1, <1>3, <1>8, <2>1, <2>2, <2>4 DEF Final
  <1> HIDE DEF w
  <1> QED
    BY <1>1, <1>2, <1>6, <1>7, <1>9, SentOne DEF w

LEMMA SweepsCaught ==
  ASSUME TrackInv, WorkerSweeps
  PROVE  events' \in Seq(Events) /\ Caught'
  <1>1. PICK u \in GoodViews : Leads(GoodViews, View, events, u) /\ Final(u)
    BY DEF TrackInv, Caught
  <1>2. WorkerSends /\ events \in Seq(Events) /\ u \in GoodViews' /\ u \in Views
    BY GoodStays DEF WorkerSends, TrackInv, TrackingTypeOK, GoodViews
  <1>3. UNCHANGED <<phase, run, log, begun, opened, measured>> /\ ~run /\ phase = "IDLE"
    BY DEF WorkerSweeps, lifecycleVars, NoNewLog
  <1>4. ~u.inRun
    BY <1>1, <1>3 DEF Final
  <1>5. "SWEEPING" \in StateNames /\ "IDLE" \in StateNames
    BY DEF StateNames
  <1> DEFINE a == StateEvent("SWEEPING")
             b == StateEvent("IDLE")
             v == Takes(u, a)
             w == Takes(v, b)
  <1>6. a \in Events /\ b \in Events
    BY <1>5, Messages
  <1>7. events' = Append(Append(events, a), b)
    BY <1>2, <1>6, Sending DEF WorkerSweeps, Emit
  <1>8. v \in GoodViews'
    BY <1>2, <1>4, <1>5, GoodAfterState
  <1>9. /\ v \in Views /\ v.inRun = u.inRun /\ v.session = u.session
        /\ v.recording = u.recording /\ v.currentRun = u.currentRun /\ v.credited = u.credited
    BY <1>2, <1>4, <1>5, TakesOther
  <1>10. w \in GoodViews'
    BY <1>4, <1>5, <1>8, <1>9, GoodAfterState
  <1>11. /\ w.inRun = v.inRun /\ w.session = v.session /\ w.lastState = "IDLE"
         /\ w.recording = v.recording /\ w.currentRun = v.currentRun /\ w.credited = v.credited
    BY <1>4, <1>5, <1>9, TakesOther
  <1>12. Final(w)'
    <2> HIDE DEF v, w
    <2> QED
      BY <1>1, <1>3, <1>4, <1>9, <1>11 DEF Final, StateName
  <1> HIDE DEF a, b, v, w
  <1> QED
    BY <1>1, <1>2, <1>6, <1>7, <1>8, <1>10, <1>12, SentTwo DEF v, w

-----------------------------------------------------------------------------
(* The steps together. *)

\* A view has the types of the server's variables.
LEMMA ViewType ==
  View \in Views <=> /\ lastState \in StateNames
                     /\ inRun \in BOOLEAN /\ recording \in BOOLEAN
                     /\ currentRun \in Names \union {None}
                     /\ session \subseteq Runs
                     /\ credited \in [Runs -> Nat]
  BY DEF View, Views

LEMMA WorkerStep ==
  ASSUME TrackInv, WorkerSends
  PROVE  TrackInv'
  <1>1. events' \in Seq(Events) /\ Caught'
    BY BeginsCaught, EndsCaught, MovesCaught, SweepsCaught, LogsCaught, MeasuresCaught
       DEF WorkerSends
  <1>2. TrackingTypeOK'
    BY <1>1, WorkerTypes, WorkerKeepsServer DEF TrackInv, TrackingTypeOK, serverVars
  <1> QED
    BY <1>1, <1>2, WorkerTypes DEF TrackInv

\* Taking an event moves the server one view on.
LEMMA BroadcastStep ==
  ASSUME TrackInv, Broadcast
  PROVE  TrackInv'
  <1>1. PICK u \in GoodViews : Leads(GoodViews, View, events, u) /\ Final(u)
    BY DEF TrackInv, Caught
  <1>2. events \in Seq(Events) /\ events # << >> /\ events' = Tail(events)
    BY DEF TrackInv, TrackingTypeOK, Broadcast
  <1>3. UNCHANGED <<phase, run, log, begun, opened, measured, files, deleting>>
    BY DEF Broadcast, workerVars, lifecycleVars
  <1>4. events' \in Seq(Events) /\ View' = Takes(View, Head(events))
    BY <1>2, BroadcastTakes DEF TrackInv
  <1>5. Leads(GoodViews, Takes(View, Head(events)), Tail(events), u)
    BY <1>1, <1>2, FirstIsTaken
  <1>6. View' \in GoodViews
    BY <1>2, <1>4, <1>5, LeadsWithin
  <1>7. GoodViews' = GoodViews
    BY <1>3 DEF GoodViews, Good
  <1>8. Final(u)'
    BY <1>1, <1>3 DEF Final
  <1>9. Leads(GoodViews', View', events', u)
    BY <1>2, <1>4, <1>5, <1>7
  <1>10. Caught'
    BY <1>1, <1>7, <1>8, <1>9 DEF Caught
  <1>11. WorkerOK'
    BY <1>3 DEF TrackInv, WorkerOK
  <1>12. TrackingTypeOK'
    <2>1. View' \in Views
      BY <1>6 DEF GoodViews
    <2>2. /\ lastState' \in StateNames
          /\ inRun' \in BOOLEAN /\ recording' \in BOOLEAN
          /\ currentRun' \in Names \union {None}
          /\ session' \subseteq Runs
          /\ credited' \in [Runs -> Nat]
      BY <2>1 DEF View, Views
    <2> QED
      BY <1>3, <1>4, <2>2 DEF TrackInv, TrackingTypeOK
  <1> QED
    BY <1>10, <1>11, <1>12 DEF TrackInv

\* Deleting a run, and doing nothing, concern neither the worker nor the view.
LEMMA OtherStep ==
  ASSUME TrackInv,
         (\E n \in Names : DeleteRun(n)) \/ RemoveRun \/ UNCHANGED vars
  PROVE  TrackInv'
  <1>1. UNCHANGED <<phase, run, log, begun, opened, measured, events>> /\ UNCHANGED serverVars
    BY DEF DeleteRun, RemoveRun, vars, workerVars, lifecycleVars
  <1>2. View' = View
    BY <1>1 DEF View, serverVars
  <1>3. GoodViews' = GoodViews
    BY <1>1 DEF GoodViews, Good
  <1>4. Caught'
    <2>1. PICK u \in GoodViews : Leads(GoodViews, View, events, u) /\ Final(u)
      BY DEF TrackInv, Caught
    <2>2. Final(u)'
      BY <1>1, <2>1 DEF Final
    <2>3. Leads(GoodViews', View', events', u)
      BY <1>1, <1>2, <1>3, <2>1
    <2> QED
      BY <1>3, <2>2, <2>3 DEF Caught
  <1>5. WorkerOK'
    BY <1>1 DEF TrackInv, WorkerOK
  <1>6. files' \subseteq Names /\ deleting' \in Names \union {None}
    BY DEF TrackInv, TrackingTypeOK, DeleteRun, RemoveRun, vars
  <1>7. TrackingTypeOK'
    BY <1>1, <1>6 DEF TrackInv, TrackingTypeOK, serverVars
  <1> QED
    BY <1>4, <1>5, <1>7 DEF TrackInv

LEMMA TrackInit == TrackingInit => TrackInv
  <1> SUFFICES ASSUME TrackingInit PROVE TrackInv
    OBVIOUS
  <1>1. /\ phase = "IDLE" /\ run = FALSE /\ log = FALSE /\ begun = 0 /\ opened = 0
        /\ measured = {} /\ events = << >> /\ files = {} /\ deleting = None
        /\ lastState = "IDLE" /\ inRun = FALSE /\ recording = FALSE /\ currentRun = None
        /\ session = {} /\ credited = [r \in Runs |-> 0]
    BY DEF TrackingInit, Init
  <1>2. credited \in [Runs -> Nat] /\ \A r \in Runs : credited[r] = 0
    BY <1>1
  <1>3. TrackingTypeOK
    <2>1. 0 \in 0..MaxRuns /\ 0 \in 0..MaxLogs
      BY TrackingBounds
    <2>2. << >> \in Seq(Events)
      OBVIOUS
    <2> QED
      BY <1>1, <1>2, <2>1, <2>2 DEF TrackingTypeOK, Phases, StateNames
  <1>4. WorkerOK
    BY <1>1 DEF WorkerOK
  <1>5. View \in Views
    BY <1>3, ViewType DEF TrackingTypeOK
  <1>6. /\ View.lastState = "IDLE" /\ View.inRun = FALSE /\ View.recording = FALSE
        /\ View.credited = credited
    BY <1>1 DEF View
  <1>7. Good(View)
    BY <1>1, <1>2, <1>6 DEF Good
  <1>8. Final(View)
    BY <1>1, <1>2, <1>6 DEF Final, StateName
  <1>9. View \in GoodViews
    BY <1>5, <1>7 DEF GoodViews
  <1>10. Leads(GoodViews, View, events, View)
    BY <1>1, <1>9, NoEventsLead
  <1> QED
    BY <1>3, <1>4, <1>8, <1>9, <1>10 DEF TrackInv, Caught

LEMMA TrackStep == TrackInv /\ [TrackingNext]_vars => TrackInv'
  BY WorkerStep, BroadcastStep, OtherStep DEF TrackingNext, WorkerSends

-----------------------------------------------------------------------------
(* What the invariant says of the server. *)

\* The server's own view is the first of those on the way.
LEMMA ServerIsGood == ASSUME TrackInv PROVE View \in GoodViews
  <1>1. PICK u \in GoodViews : Leads(GoodViews, View, events, u)
    BY DEF TrackInv, Caught
  <1>2. events \in Seq(Events)
    BY DEF TrackInv, TrackingTypeOK
  <1> QED
    BY <1>1, <1>2, LeadsWithin

\* With nothing under way it is the last one too.
LEMMA ServerIsFinal == ASSUME TrackInv, events = << >> PROVE Final(View)
  <1>1. PICK u \in GoodViews : Leads(GoodViews, View, << >>, u) /\ Final(u)
    BY DEF TrackInv, Caught
  <1>2. u = View
    BY <1>1, NoEventsStay
  <1> QED
    BY <1>1, <1>2

LEMMA ViewFields ==
  /\ View.lastState = lastState /\ View.inRun = inRun /\ View.recording = recording
  /\ View.currentRun = currentRun /\ View.session = session /\ View.credited = credited
  BY DEF View

LEMMA InvCredits == ASSUME TrackInv PROVE CreditedOnce
  <1>1. Good(View)
    BY ServerIsGood DEF GoodViews
  <1>2. \A r \in Runs : credited[r] <= 1
    BY <1>1, ViewFields DEF Good
  <1>3. \A r \in Runs : credited[r] = 1 => r < begun \/ ~run
    BY <1>1, ViewFields DEF Good
  <1>4. ASSUME Settled, NEW r \in measured, r < begun \/ ~run
        PROVE  credited[r] = 1
    <2>1. Final(View) /\ ~(phase = "LOCKING" /\ ~run)
      BY <1>4, ServerIsFinal DEF Settled
    <2>2. ~run => ~inRun
      BY <2>1, ViewFields DEF Final
    <2>3. r \in Runs
      BY DEF TrackInv, TrackingTypeOK
    <2> QED
      BY <1>4, <2>1, <2>2, <2>3, ViewFields DEF Final
  <1> QED
    BY <1>2, <1>3, <1>4 DEF CreditedOnce

LEMMA InvSettles == ASSUME TrackInv PROVE ViewSettles
  <1> SUFFICES ASSUME Settled
               PROVE  /\ lastState = StateName(phase)
                      /\ inRun <=> run
                      /\ recording <=> log
                      /\ recording => currentRun = opened
    BY DEF ViewSettles
  <1>1. Final(View) /\ ~(phase = "LOCKING" /\ ~run)
    BY ServerIsFinal DEF Settled
  <1>2. lastState = StateName(phase)
    BY <1>1, ViewFields DEF Final
  <1>3. inRun <=> run
    BY <1>1, ViewFields DEF Final
  <1>4. recording => inRun
    BY <1>1, ViewFields DEF Final
  <1>5. run => (recording <=> log)
    BY <1>1, ViewFields DEF Final
  <1>6. log => run
    BY DEF TrackInv, WorkerOK
  <1>7. recording => currentRun = opened
    BY <1>1, <1>3, <1>4, ViewFields DEF Final
  <1> QED
    BY <1>2, <1>3, <1>4, <1>5, <1>6, <1>7

\* Only the news of a log makes the server have it down as being recorded.
LEMMA TakesBack ==
  ASSUME NEW u \in Views, NEW e \in Events, NEW n \in Names, e # RunLogStarted(n),
         NEW w, w = Takes(u, e), w.recording, w.currentRun = n
  PROVE  u.recording /\ u.currentRun = n
  <1>1. CASE \E s \in StateNames : e = StateEvent(s)
    <2>1. PICK s \in StateNames : e = StateEvent(s)
      BY <1>1
    <2>2. CASE s = "RUNNING" /\ ~u.inRun
      BY <2>1, <2>2, TakesBegin
    <2>3. CASE u.inRun /\ s \notin {"RUNNING", "LOCKING"}
      BY <2>1, <2>3, TakesEnd
    <2>4. CASE ~(s = "RUNNING" /\ ~u.inRun) /\ (u.inRun => s \in {"RUNNING", "LOCKING"})
      BY <2>1, <2>4, TakesOther
    <2> QED
      BY <2>2, <2>3, <2>4
  <1>2. CASE \E k \in Names : e = RunLogStarted(k)
    <2>1. PICK k \in Names : e = RunLogStarted(k)
      BY <1>2
    <2>2. w.currentRun = k
      BY <2>1, TakesStart
    <2> QED
      BY <2>1, <2>2
  <1>3. CASE e = RunLogFailed
    BY <1>3, TakesFailure
  <1>4. CASE \E r \in Runs : e = Measurement(r)
    BY <1>4, TakesMeasured
  <1> QED
    BY <1>1, <1>2, <1>3, <1>4, MessageKinds

LEMMA LeastNumber ==
  ASSUME NEW K, K \subseteq Nat, K # {}
  PROVE  \E m \in K : \A k \in K : m <= k
  <1> DEFINE R == {ss \in Nat \X Nat : ss[1] < ss[2]}
  <1>1. IsWellFoundedOn(R, Nat)
    BY NatLessThanWellFounded DEF OpToRel
  <1>2. PICK m \in K : \A k \in K : <<k, m>> \notin R
    <2> HIDE DEF R
    <2> QED
      BY <1>1, WFMin
  <1>3. \A k \in K : ~(k < m)
    BY <1>2
  <1> QED
    BY <1>3

\* With no such news under way, a view the events lead to a view that has the
\* log down has it down already: the first view that does is the very first.
LEMMA DownAlready ==
  ASSUME NEW w, NEW es \in Seq(Events), NEW u, Leads(GoodViews, w, es, u),
         NEW n \in Names, u.recording, u.currentRun = n,
         \A i \in 1..Len(es) : es[i] # RunLogStarted(n)
  PROVE  w.recording /\ w.currentRun = n
  <1>1. PICK v \in [0..Len(es) -> GoodViews] :
          /\ v[0] = w /\ v[Len(es)] = u
          /\ \A i \in 1..Len(es) : v[i] = Takes(v[i - 1], es[i])
    BY DEF Leads
  <1> DEFINE K == {k \in 0..Len(es) : v[k].recording /\ v[k].currentRun = n}
  <1>2. Len(es) \in Nat /\ Len(es) \in K
    BY <1>1
  <1>3. PICK m \in K : \A k \in K : m <= k
    <2>1. K \subseteq Nat /\ K # {}
      BY <1>2
    <2> HIDE DEF K
    <2> QED
      BY <2>1, LeastNumber
  <1>4. m = 0
    <2> SUFFICES ASSUME m # 0 PROVE FALSE
      OBVIOUS
    <2>1. m \in 1..Len(es) /\ m - 1 \in 0..Len(es) /\ m \in Nat
      BY <1>2
    <2>2. PICK x \in GoodViews : x = v[m - 1]
      BY <2>1
    <2>3. PICK e \in Events : e = es[m]
      BY <2>1
    <2>4. v[m] = Takes(x, e) /\ v[m].recording /\ v[m].currentRun = n /\ e # RunLogStarted(n)
      BY <1>1, <2>1, <2>2, <2>3
    <2>5. x.recording /\ x.currentRun = n
      BY <2>4, TakesBack DEF GoodViews
    <2>6. m - 1 \in K
      BY <2>1, <2>2, <2>5
    <2> HIDE DEF K
    <2> QED
      BY <1>3, <2>1, <2>6
  <1> QED
    BY <1>1, <1>3, <1>4

LEMMA DeleteStep ==
  ASSUME TrackInv, [TrackingNext]_vars,
         deleting = None, deleting' # None, log, deleting' = opened
  PROVE  \E i \in 1..Len(events) : events[i] = RunLogStarted(opened)
  <1>1. CASE WorkerSends
    BY <1>1, WorkerKeepsServer
  <1>2. ASSUME NEW n \in Names, DeleteRun(n)
        PROVE  \E i \in 1..Len(events) : events[i] = RunLogStarted(opened)
    <2>1. n = opened /\ ~(recording /\ currentRun = n)
      BY <1>2 DEF DeleteRun, Refused
    <2>2. PICK u \in GoodViews : Leads(GoodViews, View, events, u) /\ Final(u)
      BY DEF TrackInv, Caught
    <2>3. u.recording /\ u.currentRun = n
      BY <2>1, <2>2 DEF Final, TrackInv, WorkerOK
    <2>4. events \in Seq(Events)
      BY DEF TrackInv, TrackingTypeOK
    <2>5. ~(View.recording /\ View.currentRun = n)
      BY <2>1, ViewFields
    <2> QED
      BY <2>1, <2>2, <2>3, <2>4, <2>5, DownAlready
  <1>3. CASE Broadcast \/ RemoveRun \/ UNCHANGED vars
    BY <1>3 DEF Broadcast, RemoveRun, vars
  <1> QED
    BY <1>1, <1>2, <1>3 DEF TrackingNext, WorkerSends

LEMMA Tracked == TrackingSpec => []TrackInv
  BY TrackInit, TrackStep, PTL DEF TrackingSpec

\* Every variable of the broadcaster keeps its type, however far behind it is.
THEOREM TrackingTypeCorrect == TrackingSpec => []TrackingTypeOK
  <1>1. TrackInv => TrackingTypeOK
    BY DEF TrackInv
  <1> QED
    BY <1>1, Tracked, PTL

\* No run's thickness is added to its crystal's total twice, through however
\* many re-locks, nor before its end; and none that is over is left out.
THEOREM RunsCreditedOnce == TrackingSpec => []CreditedOnce
  <1>1. TrackInv => CreditedOnce
    BY InvCredits
  <1> QED
    BY <1>1, Tracked, PTL

\* Once its events are in, the server is right about the worker, the run and
\* the log.
THEOREM ServerCatchesUp == TrackingSpec => []ViewSettles
  <1>1. TrackInv => ViewSettles
    BY InvSettles
  <1> QED
    BY <1>1, Tracked, PTL

\* The run that is being written is let go for deletion only while the news
\* that its log was opened is still on its way to the server.
THEOREM RecordedRunIsSafe == TrackingSpec => RecordedRunRefused
  <1>1. TrackInv /\ [TrackingNext]_vars =>
          [deleting = None /\ deleting' # None /\ log /\ deleting' = opened =>
             \E i \in 1..Len(events) : events[i] = RunLogStarted(opened)]_vars
    BY DeleteStep
  <1> QED
    BY <1>1, Tracked, PTL DEF TrackingSpec, RecordedRunRefused
=============================================================================
