-------------------------- MODULE OpcBridgeProofs --------------------------
(***************************************************************************)
(* Theorems about the bridge to the PLC, for any addresses and any number  *)
(* of events waiting, whatever request threads, the PLC and the network do *)
(* meanwhile.                                                              *)
(***************************************************************************)
EXTENDS OpcBridge, WellFoundedInduction, SequenceTheorems, TLAPS

-----------------------------------------------------------------------------
(* The event queue.  What holds of it is said with the levels the target   *)
(* flag goes through as it is read: levels[i] is that after i events.      *)

Through(q, levels) ==
  /\ levels \in [0..Len(q) -> BOOLEAN]
  /\ \A i \in 1..Len(q) :
       /\ q[i].type = "target" => levels[i] = q[i].level
       /\ q[i].type # "target" => levels[i] = levels[i - 1]
       /\ q[i].type = "measurement" => q[i].level = levels[i - 1]

\* From what the worker of the bridge knows to what the QCM worker knows.
QueueInv ==
  \E levels : Through(events, levels) /\ levels[0] = mirror /\ levels[Len(events)] = flag

Plain == [type : {"state"}]
Levelled == [type : {"target", "measurement"}, level : BOOLEAN]

LEMMA EventParts == Event = Plain \union Levelled
  BY DEF Event, Plain, Levelled

LEMMA EventLevel ==
  ASSUME NEW e \in Event, e.type # "state"
  PROVE  e.level \in BOOLEAN
  <1>1. CASE e \in Plain
    BY <1>1 DEF Plain
  <1>2. CASE e \in Levelled
    BY <1>2 DEF Levelled
  <1> QED
    BY <1>1, <1>2, EventParts

\* The greatest of some numbers up to n.
LEMMA GreatestNumber ==
  ASSUME NEW n \in Nat, NEW K, K \subseteq 1..n, K # {}
  PROVE  \E m \in K : \A k \in K : k <= m
  <1> DEFINE D == {n - k : k \in K}
             R == {ss \in Nat \X Nat : ss[1] < ss[2]}
  <1>0. \A k \in K : k \in 1..n /\ n - k \in Nat
    OBVIOUS
  <1>1. D \subseteq Nat /\ D # {}
    BY <1>0
  <1>2. IsWellFoundedOn(R, Nat)
    BY NatLessThanWellFounded DEF OpToRel
  <1>3. PICK d \in D : \A x \in D : <<x, d>> \notin R
    <2> HIDE DEF R, D
    <2> QED
      BY <1>1, <1>2, WFMin
  <1>4. \A x \in D : ~(x < d)
    BY <1>1, <1>3
  <1>5. PICK m \in K : d = n - m
    BY <1>3
  <1>6. \A k \in K : ~(n - k < n - m)
    BY <1>4, <1>5
  <1> QED
    BY <1>6

\* Without a target event from one place on, the level stays as it is.
LEMMA LevelStays ==
  ASSUME NEW q \in Seq(Event), NEW levels, Through(q, levels),
         NEW a \in 0..Len(q), \A i \in 1..Len(q) : i > a => q[i].type # "target"
  PROVE  \A b \in a..Len(q) : levels[b] = levels[a]
  <1> DEFINE n == Len(q)
             Off == {k \in 1..n + 1 : n + 1 - k \in a..n /\ levels[n + 1 - k] # levels[a]}
  <1>0. n \in Nat /\ a \in Nat
    OBVIOUS
  <1>1. CASE Off = {}
    <2>1. SUFFICES ASSUME NEW b \in a..n, levels[b] # levels[a] PROVE FALSE
      OBVIOUS
    <2>2. n + 1 - b \in 1..n + 1 /\ n + 1 - (n + 1 - b) = b
      BY <1>0
    <2> QED
      BY <1>1, <2>1, <2>2
  <1>2. CASE Off # {}
    <2>1. Off \subseteq 1..n + 1 /\ n + 1 \in Nat
      BY <1>0
    <2>2. PICK m \in Off : \A k \in Off : k <= m
      <3> HIDE DEF Off, n
      <3> QED
        BY <1>2, <2>1, GreatestNumber
    <2>3. PICK b \in a..n : b = n + 1 - m /\ levels[b] # levels[a]
      BY <2>2
    <2>4. b # a /\ b \in 1..n /\ b > a /\ b - 1 \in a..n /\ m + 1 \in 1..n + 1
          /\ n + 1 - (m + 1) = b - 1
      BY <1>0, <2>2, <2>3
    <2>5. levels[b] = levels[b - 1]
      BY <2>4 DEF Through
    <2>6. m + 1 \in Off
      BY <2>3, <2>4, <2>5
    <2>7. m + 1 <= m /\ m \in Int
      <3>1. m \in 1..n + 1
        BY <2>2
      <3> HIDE DEF Off
      <3> QED
        BY <1>0, <2>2, <2>6, <3>1
    <2> QED
      BY <2>7
  <1> QED
    BY <1>1, <1>2

\* _discard_events leaves the flag where reading every event would have.
LEMMA LevelAtEnd ==
  ASSUME NEW q \in Seq(Event), NEW levels, Through(q, levels)
  PROVE  LevelAfter(q, levels[0]) = levels[Len(q)]
  <1> DEFINE targets == {i \in DOMAIN q : q[i].type = "target"}
             last == CHOOSE i \in targets : \A k \in targets : k <= i
  <1>0. Len(q) \in Nat /\ DOMAIN q = 1..Len(q)
    OBVIOUS
  <1>1. LevelAfter(q, levels[0]) = IF targets = {} THEN levels[0] ELSE q[last].level
    BY DEF LevelAfter
  <1>2. CASE targets = {}
    <2>1. \A i \in 1..Len(q) : q[i].type # "target"
      BY <1>0, <1>2
    <2>2. \A b \in 0..Len(q) : levels[b] = levels[0]
      BY <1>0, <2>1, LevelStays
    <2> QED
      BY <1>0, <1>1, <1>2, <2>2
  <1>3. CASE targets # {}
    <2>1. targets \subseteq 1..Len(q)
      BY <1>0
    <2>2. \E m \in targets : \A k \in targets : k <= m
      <3> HIDE DEF targets
      <3> QED
        BY <1>0, <1>3, <2>1, GreatestNumber
    <2>3. last \in targets /\ \A k \in targets : k <= last
      <3> HIDE DEF targets
      <3> QED
        BY <2>2
    <2>4. PICK l \in 1..Len(q) : l = last /\ q[l].type = "target"
                                 /\ \A k \in targets : k <= l
      <3> HIDE DEF last
      <3> QED
        BY <1>0, <2>3
    <2>5. \A i \in 1..Len(q) : i > l => q[i].type # "target"
      <3>1. \A i \in 1..Len(q) : q[i].type = "target" => i \in targets
        BY <1>0
      <3> HIDE DEF targets, last
      <3> QED
        BY <1>0, <2>4, <3>1
    <2>6. \A b \in l..Len(q) : levels[b] = levels[l]
      BY <1>0, <2>5, LevelStays
    <2>7. levels[l] = q[l].level
      BY <2>4 DEF Through
    <2> HIDE DEF targets, last
    <2> QED
      BY <1>0, <1>1, <1>3, <2>4, <2>6, <2>7
  <1> QED
    BY <1>2, <1>3

\* One event read.
LEMMA LevelsOfTail ==
  ASSUME NEW q \in Seq(Event), q # << >>, NEW levels, Through(q, levels)
  PROVE  \E rest : /\ Through(Tail(q), rest)
                   /\ rest[0] = levels[1] /\ rest[Len(Tail(q))] = levels[Len(q)]
  <1> DEFINE n == Len(q)
             rest == [i \in 0..n - 1 |-> levels[i + 1]]
  <1>1. n \in Nat /\ n > 0 /\ Tail(q) \in Seq(Event) /\ Len(Tail(q)) = n - 1
        /\ \A i \in 1..n - 1 : Tail(q)[i] = q[i + 1]
    OBVIOUS
  <1>2. levels \in [0..n -> BOOLEAN]
    BY DEF Through
  <1>3. rest \in [0..n - 1 -> BOOLEAN]
    BY <1>1, <1>2
  <1>4. ASSUME NEW i \in 1..n - 1
        PROVE  /\ Tail(q)[i].type = "target" => rest[i] = Tail(q)[i].level
               /\ Tail(q)[i].type # "target" => rest[i] = rest[i - 1]
               /\ Tail(q)[i].type = "measurement" => Tail(q)[i].level = rest[i - 1]
    <2>1. i + 1 \in 1..n /\ Tail(q)[i] = q[i + 1] /\ rest[i] = levels[i + 1]
          /\ rest[i - 1] = levels[i] /\ (i + 1) - 1 = i
      BY <1>1
    <2> HIDE DEF rest, n
    <2>2. /\ q[i + 1].type = "target" => levels[i + 1] = q[i + 1].level
          /\ q[i + 1].type # "target" => levels[i + 1] = levels[(i + 1) - 1]
          /\ q[i + 1].type = "measurement" => q[i + 1].level = levels[(i + 1) - 1]
      BY <2>1 DEF Through, n
    <2> QED
      BY <2>1, <2>2
  <1>5. rest[0] = levels[1] /\ rest[n - 1] = levels[n]
    BY <1>1
  <1>6. Through(Tail(q), rest)
    <2> HIDE DEF rest
    <2> QED
      BY <1>1, <1>3, <1>4 DEF Through
  <1> HIDE DEF rest
  <1> QED
    BY <1>1, <1>5, <1>6

\* One event sent.
LEMMA LevelsOfMore ==
  ASSUME NEW q \in Seq(Event), NEW levels, Through(q, levels),
         NEW e \in Event, NEW v \in BOOLEAN,
         e.type = "target" => v = e.level,
         e.type # "target" => v = levels[Len(q)],
         e.type = "measurement" => e.level = levels[Len(q)]
  PROVE  \E more : /\ Through(q \o <<e>>, more)
                   /\ more[0] = levels[0] /\ more[Len(q \o <<e>>)] = v
  <1> DEFINE n == Len(q)
             more == [i \in 0..n + 1 |-> IF i <= n THEN levels[i] ELSE v]
             r == q \o <<e>>
  <1>1. n \in Nat /\ r \in Seq(Event) /\ Len(r) = n + 1 /\ r[n + 1] = e
        /\ \A i \in 1..n : r[i] = q[i]
    BY ConcatProperties
  <1>2. levels \in [0..n -> BOOLEAN]
    BY DEF Through
  <1>3. more \in [0..n + 1 -> BOOLEAN]
    BY <1>1, <1>2
  <1>4. \A i \in 0..n : more[i] = levels[i]
    BY <1>1
  <1>5. more[n + 1] = v
    BY <1>1
  <1> HIDE DEF more, r
  <1>6. ASSUME NEW i \in 1..n + 1
        PROVE  /\ r[i].type = "target" => more[i] = r[i].level
               /\ r[i].type # "target" => more[i] = more[i - 1]
               /\ r[i].type = "measurement" => r[i].level = more[i - 1]
    <2>1. CASE i = n + 1
      <3>1. (n + 1) - 1 = n /\ n \in 0..n
        BY <1>1
      <3> HIDE DEF n
      <3>2. more[i] = v /\ more[i - 1] = levels[n] /\ r[i] = e
        BY <1>1, <1>4, <1>5, <2>1, <3>1
      <3> QED
        BY <3>2 DEF n
    <2>2. CASE i # n + 1
      <3>1. i \in 1..n /\ i \in 0..n /\ i - 1 \in 0..n
        BY <1>1, <2>2
      <3>2. r[i] = q[i] /\ more[i] = levels[i] /\ more[i - 1] = levels[i - 1]
        BY <1>1, <1>4, <3>1
      <3> QED
        BY <3>1, <3>2 DEF Through
    <2> QED
      BY <2>1, <2>2
  <1>7. Through(r, more)
    BY <1>1, <1>3, <1>6 DEF Through
  <1> QED
    BY <1>1, <1>4, <1>5, <1>7 DEF r

-----------------------------------------------------------------------------
(* Types, and the queue. *)

\* The type invariant in two parts, each the size of a proof step.
LinkTypes ==
  /\ url \in Urls /\ client \in Urls \union {NoConn} /\ dial \in Urls
  /\ broken \in BOOLEAN /\ closing \in BOOLEAN
  /\ enabled \in BOOLEAN /\ wasEnabled \in Noted
  /\ pc \in Points
  /\ subs \in 0..2 /\ orphans \in 0..1
  /\ hasty \in BOOLEAN /\ half \in BOOLEAN

RestTypes ==
  /\ subscription \in BOOLEAN /\ mirror \in BOOLEAN /\ polled \in BOOLEAN
  /\ ctrl \in BOOLEAN /\ answered \in 0..2 /\ plcTarget \in BOOLEAN
  /\ events \in Seq(Event) /\ flag \in BOOLEAN
  /\ reported \in Reports \union {NoReport}

LEMMA TypeParts ==
  /\ TypeOK => LinkTypes /\ RestTypes
  /\ LinkTypes /\ RestTypes => TypeOK
  /\ LinkTypes' /\ RestTypes' => TypeOK'
  BY DEF TypeOK, LinkTypes, RestTypes

BridgeInv == TypeOK /\ QueueInv

LEMMA BridgeInit == Init => BridgeInv
  <1> SUFFICES ASSUME Init PROVE BridgeInv
    OBVIOUS
  <1>1. events \in Seq(Event) /\ Len(events) = 0 /\ {} \in Noted /\ 0 \in 0..2 /\ 0 \in 0..1
    BY DEF Init, Noted
  <1>2. TypeOK
    <2>1. LinkTypes
      BY <1>1 DEF Init, LinkTypes, Points
    <2>2. RestTypes
      BY <1>1 DEF Init, RestTypes
    <2> QED
      BY <2>1, <2>2, TypeParts
  <1>3. QueueInv
    <2> DEFINE levels == [i \in 0..0 |-> FALSE]
    <2>1. levels \in [0..0 -> BOOLEAN] /\ levels[0] = FALSE
      OBVIOUS
    <2>2. Through(events, levels)
      BY <1>1, <2>1 DEF Through
    <2> HIDE DEF levels
    <2> QED
      BY <1>1, <2>1, <2>2 DEF QueueInv, Init
  <1> QED
    BY <1>2, <1>3 DEF BridgeInv

\* What is left of a subscription, or comes of setting one up, is a number of them.
LEMMA SetupTypes ==
  ASSUME TypeOK, Setup
  PROVE  /\ subscription' \in BOOLEAN /\ subs' \in 0..2 /\ answered' \in 0..2
         /\ half' \in BOOLEAN
  <1>1. PICK deleted \in BOOLEAN, made \in BOOLEAN :
          /\ subs' = AtMost2((IF deleted THEN TornDown ELSE subs) + (IF made THEN 1 ELSE 0))
          /\ subscription' \in {made, FALSE}
          /\ answered' = IF made /\ ctrl THEN 1 ELSE 0
          /\ half' = \/ made /\ ~subscription'
                     \/ subs > 0 /\ (half \/ ~deleted)
    BY DEF Setup
  <1>2. TornDown \in 0..2 /\ subs \in 0..2
    BY DEF TypeOK, TornDown
  <1>3. subs' \in 0..2
    BY <1>1, <1>2 DEF AtMost2
  <1>4. half' \in BOOLEAN
    <2> DEFINE h == \/ made /\ ~subscription'
                    \/ subs > 0 /\ (half \/ ~deleted)
    <2>1. h \in BOOLEAN
      OBVIOUS
    <2>2. half' = h
      BY <1>1
    <2> HIDE DEF h
    <2> QED
      BY <2>1, <2>2
  <1>5. subscription' \in BOOLEAN
    BY <1>1
  <1>6. answered' \in 0..2
    BY <1>1
  <1> QED
    BY <1>3, <1>4, <1>5, <1>6

LEMMA DropTypes ==
  ASSUME Drop
  PROVE  client' \in Urls \union {NoConn} /\ broken' \in BOOLEAN /\ subs' \in 0..2
  <1>1. client' \in Urls \union {NoConn}
    BY DEF Drop
  <1>2. broken' \in BOOLEAN
    BY DEF Drop
  <1>3. subs' \in 0..2
    BY DEF Drop
  <1> QED
    BY <1>1, <1>2, <1>3

LEMMA StatusTypes ==
  ASSUME NEW up \in BOOLEAN, enabled \in BOOLEAN, EmitStatus(up)
  PROVE  reported' \in Reports
  BY DEF EmitStatus, Reports

\* The queue and both its ends are as they were.
QueueKept == UNCHANGED <<events, mirror, flag>>

LEMMA KeptQueue ==
  ASSUME QueueInv, QueueKept
  PROVE  QueueInv'
  BY DEF QueueInv, QueueKept, Through

\* The loop, except where it reads the queue.
LEMMA LoopTypes ==
  ASSUME TypeOK,
         ApplyEnabled \/ NoteEnabled \/ ActOnEnabled \/ Enabling \/ Disabling \/ EventsDone
           \/ Wait \/ Dial \/ ConnectSucceeds \/ ConnectFails \/ Subscribe \/ Poll
  PROVE  TypeOK' /\ QueueKept
  <1> USE DEF clientVars, switchVars, plcVars, historyVars, QueueKept
  <1>1. CASE ApplyEnabled
    BY <1>1 DEF ApplyEnabled, TypeOK, Points
  <1>2. CASE NoteEnabled
    <2>1. {enabled} \in Noted
      BY DEF TypeOK, Noted
    <2> QED
      BY <1>2, <2>1 DEF NoteEnabled, TypeOK, Points
  <1>3. CASE ActOnEnabled
    BY <1>3 DEF ActOnEnabled, TypeOK, Points
  <1>4. CASE Enabling
    <2>1. /\ subscription' \in BOOLEAN /\ subs' \in 0..2 /\ answered' \in 0..2
          /\ half' \in BOOLEAN
      BY <1>4, SetupTypes DEF Enabling, TypeOK
    <2>2. reported' \in Reports
      BY <1>4, StatusTypes DEF Enabling, TypeOK, Connected
    <2> QED
      BY <1>4, <2>1, <2>2 DEF Enabling, TypeOK, Points
  <1>5. CASE Disabling
    <2>1. reported' \in Reports
      <3>1. (client' # NoConn) \in BOOLEAN
        OBVIOUS
      <3> QED
        BY <1>5, <3>1, StatusTypes DEF Disabling, TypeOK
    <2> QED
      BY <1>5, <2>1, DropTypes DEF Disabling, Disconnects, TypeOK, Points
  <1>6. CASE EventsDone
    BY <1>6 DEF EventsDone, TypeOK, Points
  <1>7. CASE Wait
    <2>1. LinkTypes'
      BY <1>7, TypeParts DEF Wait, LinkTypes, Points
    <2>2. RestTypes'
      BY <1>7, TypeParts DEF Wait, RestTypes
    <2> QED
      BY <1>7, <2>1, <2>2, TypeParts DEF Wait
  <1>8. CASE Dial
    <2>1. LinkTypes'
      BY <1>8, TypeParts DEF Dial, LinkTypes, Points
    <2>2. RestTypes'
      BY <1>8, TypeParts DEF Dial, RestTypes
    <2> QED
      BY <1>8, <2>1, <2>2, TypeParts DEF Dial
  <1>9. CASE ConnectSucceeds
    <2>1. client' \in Urls \union {NoConn} /\ broken' \in BOOLEAN /\ subs' \in 0..2
      <3>1. client' \in Urls \union {NoConn}
        BY <1>9 DEF ConnectSucceeds, TypeOK
      <3>2. broken' \in BOOLEAN
        BY <1>9 DEF ConnectSucceeds, TypeOK
      <3>3. subs' \in 0..2
        BY <1>9 DEF ConnectSucceeds, TypeOK
      <3> QED
        BY <3>1, <3>2, <3>3
    <2> QED
      BY <1>9, <2>1 DEF ConnectSucceeds, TypeOK, Points
  <1>10. CASE ConnectFails
    <2>1. reported' \in Reports \union {NoReport}
      <3>1. CASE reported.connected
        BY <1>10, <3>1, StatusTypes DEF ConnectFails, ReportFailure, TypeOK
      <3>2. CASE ~reported.connected
        BY <1>10, <3>2 DEF ConnectFails, ReportFailure, TypeOK
      <3> QED
        BY <3>1, <3>2
    <2> QED
      BY <1>10, <2>1, DropTypes DEF ConnectFails, TypeOK, Points
  <1>11. CASE Subscribe
    <2>1. /\ subscription' \in BOOLEAN /\ subs' \in 0..2 /\ answered' \in 0..2
          /\ half' \in BOOLEAN
      BY <1>11, SetupTypes DEF Subscribe
    <2>2. reported' \in Reports
      BY <1>11, StatusTypes DEF Subscribe, TypeOK, Connected
    <2> QED
      BY <1>11, <2>1, <2>2 DEF Subscribe, TypeOK, Points
  <1>12. CASE Poll
    <2>1. /\ client' \in Urls \union {NoConn} /\ broken' \in BOOLEAN /\ subs' \in 0..2
          /\ polled' \in BOOLEAN /\ answered' \in 0..2
      <3>1. CASE subscription
        BY <1>12, <3>1 DEF Poll, Kept, TypeOK
      <3>2. CASE ~subscription
        <4>1. /\ \/ Kept \/ Drop
              /\ \/ polled' = ctrl /\ answered' \in {answered, AtMost2(answered + 1)}
                 \/ UNCHANGED <<polled, answered>>
          BY <1>12, <3>2 DEF Poll, Call
        <4>2. AtMost2(answered + 1) \in 0..2
          BY DEF AtMost2, TypeOK
        <4> QED
          BY <4>1, <4>2, DropTypes DEF Kept, TypeOK
      <3> QED
        BY <3>1, <3>2 DEF TypeOK
    <2> QED
      BY <1>12, <2>1 DEF Poll, TypeOK, Points
  <1> QED
    BY <1>1, <1>2, <1>3, <1>4, <1>5, <1>6, <1>7, <1>8, <1>9, <1>10, <1>11, <1>12

\* Request threads, the PLC and the link.
LEMMA OutsideTypes ==
  ASSUME TypeOK,
         \/ \E on \in BOOLEAN : SetEnabled(on) \/ SetCtrl(on)
         \/ \E u \in Urls : SetConnection(u)
         \/ HungUp \/ LinkDies
  PROVE  TypeOK' /\ QueueKept
  <1> USE DEF clientVars, switchVars, plcVars, historyVars, QueueKept
  <1>1. CASE \E on \in BOOLEAN : SetEnabled(on)
    BY <1>1 DEF SetEnabled, TypeOK
  <1>2. CASE \E on \in BOOLEAN : SetCtrl(on)
    BY <1>2 DEF SetCtrl, AtMost2, TypeOK
  <1>3. CASE \E u \in Urls : SetConnection(u)
    <2>1. url' \in Urls /\ closing' \in BOOLEAN /\ broken' \in BOOLEAN /\ subs' \in 0..2
      <3>1. PICK u \in Urls : SetConnection(u)
        BY <1>3
      <3>2. CASE HangsUp
        BY <3>1, <3>2 DEF SetConnection
      <3>3. CASE ~HangsUp
        BY <3>1, <3>3 DEF SetConnection, TypeOK
      <3> QED
        BY <3>2, <3>3
    <2> QED
      BY <1>3, <2>1 DEF SetConnection, TypeOK
  <1>4. CASE HungUp
    <2>1. orphans' \in 0..1
      BY <1>4 DEF HungUp, TypeOK
    <2> QED
      BY <1>4, <2>1, DropTypes DEF HungUp, TypeOK
  <1>5. CASE LinkDies
    BY <1>5 DEF LinkDies, TypeOK
  <1> QED
    BY <1>1, <1>2, <1>3, <1>4, <1>5

\* What the worker sends is an event, and leads from its flag to its flag.
LEMMA SentEvents ==
  ASSUME BridgeInv, WorkerMeasures \/ WorkerChangesState \/ TargetReached
  PROVE  BridgeInv'
  <1>1. PICK e \in Event :
          /\ events' = events \o <<e>>
          /\ flag' \in BOOLEAN
          /\ e.type = "target" => flag' = e.level
          /\ e.type # "target" => flag' = flag
          /\ e.type = "measurement" => e.level = flag
    <2>1. CASE WorkerMeasures
      <3> DEFINE e == [type |-> "measurement", level |-> flag]
      <3>1. e \in Levelled /\ e.type = "measurement" /\ e.level = flag
        BY DEF Levelled, BridgeInv, TypeOK
      <3>2. events' = events \o <<e>> /\ flag' = flag /\ flag \in BOOLEAN
        BY <2>1 DEF WorkerMeasures, Send, BridgeInv, TypeOK
      <3> HIDE DEF e
      <3> QED
        BY <3>1, <3>2, EventParts
    <2>2. CASE WorkerChangesState
      <3> DEFINE e == [type |-> "state"]
      <3>1. e \in Plain /\ e.type = "state"
        BY DEF Plain
      <3>2. events' = events \o <<e>> /\ flag' = flag /\ flag \in BOOLEAN
        BY <2>2 DEF WorkerChangesState, Send, BridgeInv, TypeOK
      <3> HIDE DEF e
      <3> QED
        BY <3>1, <3>2, EventParts
    <2>3. CASE TargetReached
      <3> DEFINE e == [type |-> "target", level |-> ~flag]
      <3>1. e \in Levelled /\ e.type = "target" /\ e.level = (~flag)
        BY DEF Levelled
      <3>2. events' = events \o <<e>> /\ flag' = (~flag) /\ flag' \in BOOLEAN
        BY <2>3 DEF TargetReached, Send
      <3> HIDE DEF e
      <3> QED
        BY <3>1, <3>2, EventParts
    <2> QED
      BY <2>1, <2>2, <2>3
  <1>2. /\ UNCHANGED <<clientVars, switchVars, plcVars, subscription, mirror, polled, pc, dial,
                       reported, historyVars>>
    BY DEF WorkerMeasures, WorkerChangesState, TargetReached
  <1>3. events \in Seq(Event) /\ events' \in Seq(Event) /\ TypeOK
    BY <1>1 DEF BridgeInv, TypeOK
  <1>4. TypeOK'
    <2>1. LinkTypes'
      BY <1>2, <1>3, TypeParts DEF LinkTypes, clientVars, switchVars, plcVars, historyVars
    <2>2. RestTypes'
      BY <1>1, <1>2, <1>3, TypeParts DEF RestTypes, plcVars
    <2> QED
      BY <2>1, <2>2, TypeParts
  <1>5. PICK levels : Through(events, levels) /\ levels[0] = mirror /\ levels[Len(events)] = flag
    BY DEF BridgeInv, QueueInv
  <1>6. PICK v : v = flag' /\ v \in BOOLEAN
    BY <1>1
  <1>7. PICK more : /\ Through(events \o <<e>>, more)
                    /\ more[0] = levels[0] /\ more[Len(events \o <<e>>)] = v
    BY <1>1, <1>3, <1>5, <1>6, LevelsOfMore
  <1>8. QueueInv'
    BY <1>1, <1>2, <1>5, <1>6, <1>7 DEF QueueInv, Through
  <1> QED
    BY <1>4, <1>8 DEF BridgeInv

\* An event read: the flag is what it was when the event was sent, or is to be.
LEMMA ReadEvent ==
  ASSUME BridgeInv, ProcessEvent
  PROVE  /\ BridgeInv'
         /\ plcTarget' # plcTarget /\ Head(events).type = "measurement" =>
              plcTarget' = Head(events).level
  <1> DEFINE e == Head(events)
  <1>1. /\ events \in Seq(Event) /\ events # << >> /\ TypeOK
        /\ Len(events) \in Nat /\ Len(events) >= 1 /\ e = events[1] /\ e \in Event
        /\ Tail(events) \in Seq(Event)
    BY DEF BridgeInv, TypeOK, ProcessEvent
  <1>2. /\ events' = Tail(events) /\ mirror' = IF e.type = "target" THEN e.level ELSE mirror
        /\ \/ Connected /\ ~broken /\ Kept
              /\ plcTarget' = (IF e.type = "state" THEN plcTarget ELSE mirror')
           \/ UNCHANGED plcTarget /\ (Drop \/ Kept)
    BY DEF ProcessEvent, Call
  <1>3. UNCHANGED <<url, closing, orphans, switchVars, ctrl, answered, subscription, polled,
                    pc, dial, flag, reported, historyVars>>
    BY DEF ProcessEvent
  <1>4. PICK levels : Through(events, levels) /\ levels[0] = mirror /\ levels[Len(events)] = flag
    BY DEF BridgeInv, QueueInv
  <1> HIDE DEF e
  <1>5. /\ levels[0] \in BOOLEAN /\ levels[1] \in BOOLEAN
        /\ e.type = "target" => levels[1] = e.level
        /\ e.type # "target" => levels[1] = levels[0]
        /\ e.type = "measurement" => e.level = levels[0]
    <2>1. levels \in [0..Len(events) -> BOOLEAN] /\ 1 \in 1..Len(events) /\ 0 \in 0..Len(events)
          /\ 1 \in 0..Len(events) /\ 1 - 1 = 0
      BY <1>1, <1>4 DEF Through
    <2> QED
      BY <1>1, <1>4, <2>1 DEF Through
  <1>6. mirror' = levels[1]
    BY <1>2, <1>4, <1>5
  <1>7. PICK rest : /\ Through(Tail(events), rest)
                    /\ rest[0] = levels[1] /\ rest[Len(Tail(events))] = levels[Len(events)]
    BY <1>1, <1>4, LevelsOfTail
  <1>8. QueueInv'
    BY <1>2, <1>3, <1>4, <1>6, <1>7 DEF QueueInv, Through
  <1>9. plcTarget' \in {plcTarget, mirror'} /\ mirror' \in BOOLEAN
    BY <1>2, <1>5, <1>6
  <1>10. client' \in Urls \union {NoConn} /\ broken' \in BOOLEAN /\ subs' \in 0..2
    <2>1. CASE Kept
      BY <1>1, <2>1 DEF Kept, TypeOK
    <2>2. CASE Drop
      BY <2>2, DropTypes
    <2> QED
      BY <1>2, <2>1, <2>2
  <1>11. TypeOK'
    <2>1. LinkTypes'
      BY <1>1, <1>3, <1>10, TypeParts DEF LinkTypes, switchVars, historyVars
    <2>2. RestTypes'
      BY <1>1, <1>2, <1>3, <1>5, <1>6, <1>9, TypeParts DEF RestTypes
    <2> QED
      BY <2>1, <2>2, TypeParts
  <1>12. ASSUME plcTarget' # plcTarget, e.type = "measurement" PROVE plcTarget' = e.level
    BY <1>2, <1>4, <1>5, <1>12
  <1> QED
    BY <1>8, <1>11, <1>12 DEF BridgeInv, e

\* The switch looked at: off, the queue is read without writing anything.
LEMMA DiscardedEvents ==
  ASSUME BridgeInv, Check
  PROVE  BridgeInv'
  <1>1. /\ TypeOK /\ events \in Seq(Event) /\ mirror \in BOOLEAN /\ flag \in BOOLEAN
        /\ UNCHANGED <<clientVars, switchVars, plcVars, subscription, polled, dial, flag, reported,
                       historyVars>>
    BY DEF BridgeInv, TypeOK, Check
  <1>2. CASE enabled
    <2>1. pc' = "events" /\ UNCHANGED <<mirror, events>>
      BY <1>2 DEF Check
    <2>2. TypeOK'
      <3>1. LinkTypes'
        BY <1>1, <2>1, TypeParts DEF LinkTypes, Points, clientVars, switchVars, historyVars
      <3>2. RestTypes'
        BY <1>1, <2>1, TypeParts DEF RestTypes, plcVars
      <3> QED
        BY <3>1, <3>2, TypeParts
    <2>3. QueueInv'
      BY <1>1, <2>1, KeptQueue DEF QueueKept, BridgeInv
    <2> QED
      BY <2>2, <2>3 DEF BridgeInv
  <1>3. CASE ~enabled
    <2>1. pc' = "top" /\ mirror' = LevelAfter(events, mirror) /\ events' = << >>
      BY <1>3 DEF Check
    <2>2. PICK levels : Through(events, levels) /\ levels[0] = mirror /\ levels[Len(events)] = flag
      BY DEF BridgeInv, QueueInv
    <2>3. mirror' = flag
      BY <1>1, <2>1, <2>2, LevelAtEnd
    <2>4. TypeOK'
      <3>1. LinkTypes'
        BY <1>1, <2>1, TypeParts DEF LinkTypes, Points, clientVars, switchVars, historyVars
      <3>2. RestTypes'
        BY <1>1, <2>1, <2>3, TypeParts DEF RestTypes, plcVars
      <3> QED
        BY <3>1, <3>2, TypeParts
    <2>5. QueueInv'
      <3> DEFINE none == [i \in 0..0 |-> flag]
      <3>1. none \in [0..0 -> BOOLEAN] /\ none[0] = flag
        BY <1>1
      <3>2. Len(events') = 0
        BY <2>1
      <3>3. Through(events', none)
        BY <3>1, <3>2 DEF Through
      <3> HIDE DEF none
      <3>4. \E ls : Through(events', ls) /\ ls[0] = mirror'
                    /\ ls[Len(events')] = flag'
        BY <1>1, <2>3, <3>1, <3>2, <3>3
      <3> QED
        BY <3>4 DEF QueueInv, Through
    <2> QED
      BY <2>4, <2>5 DEF BridgeInv
  <1> QED
    BY <1>2, <1>3

LEMMA BridgeStep == BridgeInv /\ [Next]_vars => BridgeInv'
  <1> SUFFICES ASSUME BridgeInv, [Next]_vars PROVE BridgeInv'
    OBVIOUS
  <1>1. CASE ProcessEvent
    BY <1>1, ReadEvent
  <1>2. CASE Check
    BY <1>2, DiscardedEvents
  <1>3. CASE WorkerMeasures \/ WorkerChangesState \/ TargetReached
    BY <1>3, SentEvents
  <1>4. CASE ApplyEnabled \/ NoteEnabled \/ ActOnEnabled \/ Enabling \/ Disabling \/ EventsDone
               \/ Wait \/ Dial \/ ConnectSucceeds \/ ConnectFails \/ Subscribe \/ Poll
    BY <1>4, LoopTypes, KeptQueue DEF BridgeInv
  <1>5. CASE \/ \E on \in BOOLEAN : SetEnabled(on) \/ SetCtrl(on)
             \/ \E u \in Urls : SetConnection(u)
             \/ HungUp \/ LinkDies
    BY <1>5, OutsideTypes, KeptQueue DEF BridgeInv
  <1>6. CASE UNCHANGED vars
    <2>1. QueueKept
      BY <1>6 DEF QueueKept, vars
    <2>2. TypeOK'
      BY <1>6 DEF BridgeInv, TypeOK, vars, clientVars, switchVars, plcVars, historyVars
    <2> QED
      BY <2>1, <2>2, KeptQueue DEF BridgeInv
  <1> QED
    BY <1>1, <1>2, <1>3, <1>4, <1>5, <1>6 DEF Next, Loop

LEMMA BridgeInvariant == Spec => []BridgeInv
  BY BridgeInit, BridgeStep, PTL DEF Spec

\* Whatever request threads, the PLC and the network do, and for queues of any
\* length, the bridge's variables stay within their types.
THEOREM BridgeTypeCorrect == Spec => []TypeOK
  <1>1. BridgeInv => TypeOK
    BY DEF BridgeInv
  <1> QED
    BY <1>1, BridgeInvariant, PTL

\* Only _process_events takes one event off the queue; what it then writes of
\* the flag with a measurement is the flag as it was when that was taken.
LEMMA WrittenLevel ==
  ASSUME BridgeInv, Next, events # << >>, events' = Tail(events), plcTarget' # plcTarget,
         Head(events).type = "measurement"
  PROVE  plcTarget' = Head(events).level
  <1>1. CASE ProcessEvent
    BY <1>1, ReadEvent
  <1>2. CASE ~ProcessEvent
    <2>1. UNCHANGED plcTarget
      BY <1>2 DEF Next, Loop, ApplyEnabled, NoteEnabled, ActOnEnabled, Enabling, Disabling,
                  Check, EventsDone, Wait, Dial, ConnectSucceeds, ConnectFails, Subscribe, Poll,
                  SetEnabled, SetCtrl, SetConnection, HungUp, LinkDies, WorkerMeasures,
                  WorkerChangesState, TargetReached, plcVars
    <2> QED
      BY <2>1
  <1> QED
    BY <1>1, <1>2

\* A measurement written tells the PLC of the flag as it was when the
\* measurement was taken, with however many events before it on the queue, and
\* whatever was thrown away while the bridge was off.
THEOREM LevelsAreRight == Spec => MeasurementsCarryTheLevel
  <1>1. BridgeInv /\ [Next]_vars =>
          [events # << >> /\ events' = Tail(events) /\ plcTarget' # plcTarget
             /\ Head(events).type = "measurement" => plcTarget' = Head(events).level]_vars
    BY WrittenLevel
  <1> QED
    BY <1>1, BridgeInvariant, PTL DEF Spec, MeasurementsCarryTheLevel

-----------------------------------------------------------------------------
(* The switch and the link, under any interleaving of the loop with request *)
(* threads and a network that fails.                                        *)

\* A change of the switch that has been acted on: off, and not flipped back
\* unseen, the loop goes round without a connection.
SwitchFollowed ==
  ~hasty /\ ~enabled /\ FALSE \in wasEnabled =>
    /\ pc \in {"top", "choosing", "disabling", "check"}
    /\ pc \in {"top", "check"} => ~Connected

\* A live subscription is over a connection that works, and but for a call that
\* failed half way it is the worker's own.
Subscribed ==
  /\ subs > 0 => Connected /\ ~broken
  /\ ~half => subs \in {0, 1} /\ (subs = 1 => subscription)

\* Without a subscription a command is sent only for a level not yet polled.
Answering ==
  ~half /\ orphans = 0 =>
    /\ answered \in {0, 1}
    /\ Connected /\ ~subscription /\ pc # "subscribing" /\ ctrl /\ ~polled => answered = 0

LinkInv == TypeOK /\ SwitchFollowed /\ Subscribed /\ Answering

LEMMA LinkInit == Init => LinkInv
  <1> SUFFICES ASSUME Init PROVE LinkInv
    OBVIOUS
  <1>1. TypeOK
    BY BridgeInit DEF BridgeInv
  <1>2. SwitchFollowed /\ Subscribed /\ Answering
    BY DEF Init, SwitchFollowed, Subscribed, Answering, Connected
  <1> QED
    BY <1>1, <1>2 DEF LinkInv

\* Setting up a subscription leaves one at most, and no command owed, unless it
\* fails half way or finds one it does not know of.
LEMMA SetupLeavesOne ==
  ASSUME LinkInv, Setup
  PROVE  /\ subs' > 0 => Connected /\ ~broken
         /\ ~half' => /\ subs' \in {0, 1} /\ answered' \in {0, 1}
                      /\ subs' = 1 => subscription'
                      /\ ~subscription' => answered' = 0
  <1>1. PICK deleted \in BOOLEAN, made \in {FALSE} \union {up \in {TRUE} : Connected /\ ~broken} :
          /\ subs' = AtMost2((IF deleted THEN TornDown ELSE subs) + (IF made THEN 1 ELSE 0))
          /\ subscription' \in {made, FALSE}
          /\ answered' = IF made /\ ctrl THEN 1 ELSE 0
          /\ half' = \/ made /\ ~subscription'
                     \/ subs > 0 /\ (half \/ ~deleted)
    BY DEF Setup
  <1>2. subs \in 0..2 /\ made \in BOOLEAN /\ (made => Connected /\ ~broken)
    BY DEF LinkInv, TypeOK
  <1>3. subs' > 0 => Connected /\ ~broken
    <2>1. subs' > 0 => subs > 0 \/ made
      BY <1>1, <1>2 DEF AtMost2, TornDown
    <2> QED
      BY <1>2, <2>1 DEF LinkInv, Subscribed
  <1>4. ASSUME ~half'
        PROVE  /\ subs' \in {0, 1} /\ answered' \in {0, 1}
               /\ subs' = 1 => subscription'
               /\ ~subscription' => answered' = 0
    <2>1. (made => subscription') /\ (subs > 0 => ~half /\ deleted)
      BY <1>1, <1>4
    <2>2. (IF deleted THEN TornDown ELSE subs) = 0
      <3>1. CASE subs = 0
        BY <3>1 DEF TornDown
      <3>2. CASE subs # 0
        <4>1. subs = 1 /\ subscription /\ deleted
          BY <1>2, <2>1, <3>2 DEF LinkInv, Subscribed
        <4> QED
          BY <4>1 DEF TornDown
      <3> QED
        BY <3>1, <3>2
    <2>3. subs' = IF made THEN 1 ELSE 0
      BY <1>1, <2>2 DEF AtMost2
    <2> QED
      BY <1>1, <2>1, <2>3
  <1> QED
    BY <1>3, <1>4

\* The loop, as far as it does not touch the connection.
LEMMA OffTheLink ==
  ASSUME LinkInv,
         ApplyEnabled \/ NoteEnabled \/ ActOnEnabled \/ EventsDone \/ Check
  PROVE  SwitchFollowed' /\ Subscribed' /\ Answering'
  <1> USE DEF clientVars, switchVars, plcVars, historyVars, LinkInv
  <1>1. CASE ApplyEnabled
    <2>1. SwitchFollowed'
      BY <1>1 DEF ApplyEnabled, SwitchFollowed, Connected, TypeOK
    <2>2. Subscribed' /\ Answering'
      BY <1>1 DEF ApplyEnabled, Subscribed, Answering, Connected
    <2> QED
      BY <2>1, <2>2
  <1>2. CASE NoteEnabled
    BY <1>2 DEF NoteEnabled, SwitchFollowed, Subscribed, Answering, Connected
  <1>3. CASE ActOnEnabled
    BY <1>3 DEF ActOnEnabled, SwitchFollowed, Subscribed, Answering, Connected
  <1>4. CASE EventsDone
    BY <1>4 DEF EventsDone, SwitchFollowed, Subscribed, Answering, Connected
  <1>5. CASE Check
    BY <1>5 DEF Check, SwitchFollowed, Subscribed, Answering, Connected
  <1> QED
    BY <1>1, <1>2, <1>3, <1>4, <1>5

\* The loop, where it makes, uses or drops the connection.
LEMMA OverTheLink ==
  ASSUME LinkInv,
         Enabling \/ Disabling \/ ProcessEvent \/ Wait \/ Dial \/ ConnectSucceeds \/ ConnectFails
           \/ Subscribe \/ Poll
  PROVE  SwitchFollowed' /\ Subscribed' /\ Answering'
  <1> USE DEF clientVars, switchVars, plcVars, historyVars, LinkInv
  <1>1. CASE Enabling
    <2>1. pc = "enabling" /\ pc' = "check"
          /\ UNCHANGED <<client, broken, orphans, switchVars, ctrl, polled, hasty>>
      BY <1>1 DEF Enabling
    <2>2. SwitchFollowed'
      BY <2>1 DEF SwitchFollowed
    <2>3. CASE Connected
      <3>1. Setup
        BY <1>1, <2>3 DEF Enabling
      <3> QED
        BY <2>1, <2>2, <2>3, <3>1, SetupLeavesOne DEF Subscribed, Answering, Connected
    <2>4. CASE ~Connected
      <3>1. UNCHANGED <<subscription, subs, answered, half>>
        BY <1>1, <2>4 DEF Enabling
      <3> QED
        BY <2>1, <2>2, <2>4, <3>1 DEF Subscribed, Answering, Connected
    <2> QED
      BY <2>3, <2>4
  <1>2. CASE Disabling
    BY <1>2 DEF Disabling, Disconnects, Drop, SwitchFollowed, Subscribed, Answering,
                Connected
  <1>3. CASE ProcessEvent
    <2>1. /\ UNCHANGED <<orphans, switchVars, ctrl, answered, subscription, polled, pc,
                         historyVars>>
          /\ pc = "events" /\ (Kept \/ Drop)
      BY <1>3 DEF ProcessEvent, Call
    <2> QED
      <3>1. SwitchFollowed'
        BY <2>1 DEF Kept, Drop, SwitchFollowed, Connected
      <3>2. Subscribed'
        BY <2>1 DEF Kept, Drop, Subscribed, Connected
      <3>3. Answering'
        BY <2>1 DEF Kept, Drop, Answering, Connected
      <3> QED
        BY <3>1, <3>2, <3>3
  <1>4. CASE Wait
    BY <1>4 DEF Wait, SwitchFollowed, Subscribed, Answering, Connected
  <1>5. CASE Dial
    <2>1. SwitchFollowed'
      BY <1>5 DEF Dial, SwitchFollowed, Connected
    <2>2. Subscribed'
      BY <1>5 DEF Dial, Subscribed, Connected
    <2>3. Answering'
      BY <1>5 DEF Dial, Answering, Connected
    <2> QED
      BY <2>1, <2>2, <2>3
  <1>6. CASE ConnectSucceeds
    <2>1. SwitchFollowed'
      BY <1>6 DEF ConnectSucceeds, SwitchFollowed, Connected
    <2>2. Subscribed'
      BY <1>6 DEF ConnectSucceeds, Subscribed, Connected
    <2>3. Answering'
      BY <1>6 DEF ConnectSucceeds, Answering, Connected
    <2> QED
      BY <2>1, <2>2, <2>3
  <1>7. CASE ConnectFails
    BY <1>7 DEF ConnectFails, Drop, SwitchFollowed, Subscribed, Answering, Connected
  <1>8. CASE Subscribe
    BY <1>8, SetupLeavesOne
       DEF Subscribe, SwitchFollowed, Subscribed, Answering, Connected
  <1>9. CASE Poll
    <2>1. /\ UNCHANGED <<orphans, switchVars, ctrl, subscription, historyVars>>
          /\ pc = "link" /\ pc' = "top" /\ (Kept \/ Drop) /\ Connected
      BY <1>9 DEF Poll, Call
    <2>2. SwitchFollowed' /\ Subscribed'
      <3>1. SwitchFollowed'
        BY <2>1 DEF Kept, Drop, SwitchFollowed, Connected
      <3>2. Subscribed'
        BY <2>1 DEF Kept, Drop, Subscribed, Connected
      <3> QED
        BY <3>1, <3>2
    <2>3. \/ UNCHANGED <<polled, answered>>
          \/ /\ ~subscription /\ polled' = ctrl
             /\ answered' = IF PollStarts THEN AtMost2(answered + 1) ELSE answered
      BY <1>9 DEF Poll, Call
    <2>4. Answering'
      <3>1. CASE UNCHANGED <<polled, answered>>
        BY <2>1, <3>1 DEF Kept, Drop, Answering, Connected
      <3>2. CASE /\ ~subscription /\ polled' = ctrl
                 /\ answered' = IF PollStarts THEN AtMost2(answered + 1) ELSE answered
        <4>1. ASSUME ~half, orphans = 0
              PROVE  answered' \in {0, 1}
          <5>1. CASE PollStarts
            <6>1. answered = 0
              BY <2>1, <3>2, <4>1, <5>1 DEF PollStarts, Answering
            <6> QED
              BY <3>2, <5>1, <6>1 DEF AtMost2
          <5>2. CASE ~PollStarts
            BY <3>2, <4>1, <5>2 DEF Answering
          <5> QED
            BY <5>1, <5>2
        <4> QED
          BY <2>1, <3>2, <4>1 DEF Answering
      <3> QED
        BY <2>3, <3>1, <3>2
    <2> QED
      BY <2>2, <2>4
  <1> QED
    BY <1>1, <1>2, <1>3, <1>4, <1>5, <1>6, <1>7, <1>8, <1>9

\* Request threads, the PLC, the link and the QCM worker.
LEMMA FromOutside ==
  ASSUME LinkInv,
         \/ \E on \in BOOLEAN : SetEnabled(on) \/ SetCtrl(on)
         \/ \E u \in Urls : SetConnection(u)
         \/ HungUp \/ LinkDies \/ WorkerMeasures \/ WorkerChangesState \/ TargetReached
  PROVE  SwitchFollowed' /\ Subscribed' /\ Answering'
  <1> USE DEF clientVars, switchVars, plcVars, historyVars, LinkInv
  <1>1. CASE \E on \in BOOLEAN : SetEnabled(on)
    <2>1. PICK on \in BOOLEAN : SetEnabled(on)
      BY <1>1
    <2>2. /\ enabled' = on /\ hasty' = (hasty \/ (on # enabled /\ on \in wasEnabled))
          /\ UNCHANGED <<clientVars, wasEnabled, plcVars, subscription, polled, pc, half>>
      BY <2>1 DEF SetEnabled
    <2>3. ASSUME ~hasty', ~enabled', FALSE \in wasEnabled'
          PROVE  ~hasty /\ ~enabled
      <3>1. on = FALSE /\ on \in wasEnabled /\ enabled \in BOOLEAN
        BY <2>2, <2>3 DEF TypeOK
      <3>2. ~hasty /\ on = enabled
        BY <2>2, <2>3, <3>1
      <3> QED
        BY <3>1, <3>2
    <2>4. SwitchFollowed'
      BY <2>2, <2>3 DEF SwitchFollowed, Connected
    <2> QED
      BY <2>2, <2>4 DEF Subscribed, Answering, Connected
  <1>2. CASE \E on \in BOOLEAN : SetCtrl(on)
    <2>1. /\ ctrl' \in BOOLEAN /\ answered' = IF ctrl' THEN AtMost2(subs + orphans) ELSE 0
          /\ UNCHANGED <<clientVars, switchVars, subscription, polled, pc, historyVars>>
      BY <1>2 DEF SetCtrl
    <2>2. ~half /\ orphans = 0 => AtMost2(subs + orphans) = subs
      BY DEF Subscribed, AtMost2
    <2>3. SwitchFollowed' /\ Subscribed'
      BY <2>1 DEF SwitchFollowed, Subscribed, Connected
    <2>4. Answering'
      <3> SUFFICES ASSUME ~half, orphans = 0
                   PROVE  /\ answered' \in {0, 1}
                          /\ Connected /\ ~subscription => answered' = 0
        BY <2>1 DEF Answering, Connected
      <3>1. answered' \in {0, subs} /\ subs \in {0, 1} /\ (subs = 1 => subscription)
        BY <2>1, <2>2 DEF Subscribed
      <3> QED
        BY <3>1
    <2> QED
      BY <2>3, <2>4
  <1>3. CASE \E u \in Urls : SetConnection(u)
    <2>1. /\ UNCHANGED <<client, orphans, switchVars, plcVars, subscription, polled, pc,
                         historyVars>>
          /\ \/ broken' = TRUE /\ subs' = 0
             \/ UNCHANGED <<broken, subs>>
      BY <1>3 DEF SetConnection
    <2> QED
      <3>1. SwitchFollowed'
        BY <2>1 DEF SwitchFollowed, Connected
      <3>2. Subscribed'
        BY <2>1 DEF Subscribed, Connected
      <3>3. Answering'
        BY <2>1 DEF Answering, Connected
      <3> QED
        BY <3>1, <3>2, <3>3
  <1>4. CASE HungUp
    <2>1. /\ client' = NoConn /\ subs' = 0 /\ orphans' \in {1, orphans}
          /\ UNCHANGED <<switchVars, plcVars, subscription, polled, pc, historyVars>>
      BY <1>4 DEF HungUp, Drop
    <2>2. SwitchFollowed'
      BY <2>1 DEF SwitchFollowed, Connected
    <2>3. Subscribed'
      BY <2>1 DEF Subscribed
    <2>4. orphans' = 0 => orphans = 0
      BY <2>1
    <2>5. Answering'
      BY <2>1, <2>4 DEF Answering, Connected
    <2> QED
      BY <2>2, <2>3, <2>5
  <1>5. CASE LinkDies
    <2>1. SwitchFollowed'
      BY <1>5 DEF LinkDies, SwitchFollowed, Connected
    <2>2. Subscribed'
      BY <1>5 DEF LinkDies, Subscribed, Connected
    <2>3. Answering'
      BY <1>5 DEF LinkDies, Answering, Connected
    <2> QED
      BY <2>1, <2>2, <2>3
  <1>6. CASE WorkerMeasures \/ WorkerChangesState \/ TargetReached
    <2>1. UNCHANGED <<clientVars, switchVars, plcVars, subscription, polled, pc, historyVars>>
      BY <1>6 DEF WorkerMeasures, WorkerChangesState, TargetReached
    <2> QED
      BY <2>1 DEF SwitchFollowed, Subscribed, Answering, Connected
  <1> QED
    BY <1>1, <1>2, <1>3, <1>4, <1>5, <1>6

LEMMA LinkStep ==
  ASSUME LinkInv, TypeOK', [Next]_vars
  PROVE  LinkInv'
  <1>1. CASE ApplyEnabled \/ NoteEnabled \/ ActOnEnabled \/ EventsDone \/ Check
    BY <1>1, OffTheLink DEF LinkInv
  <1>2. CASE Enabling \/ Disabling \/ ProcessEvent \/ Wait \/ Dial \/ ConnectSucceeds
               \/ ConnectFails \/ Subscribe \/ Poll
    BY <1>2, OverTheLink DEF LinkInv
  <1>3. CASE \/ \E on \in BOOLEAN : SetEnabled(on) \/ SetCtrl(on)
             \/ \E u \in Urls : SetConnection(u)
             \/ HungUp \/ LinkDies \/ WorkerMeasures \/ WorkerChangesState \/ TargetReached
    BY <1>3, FromOutside DEF LinkInv
  <1>4. CASE UNCHANGED vars
    BY <1>4 DEF LinkInv, SwitchFollowed, Subscribed, Answering, Connected,
                vars, clientVars, switchVars, plcVars, historyVars
  <1> QED
    BY <1>1, <1>2, <1>3, <1>4 DEF Next, Loop

LEMMA LinkInvariant == Spec => []LinkInv
  <1>1. BridgeInv => TypeOK
    BY DEF BridgeInv
  <1>2. LinkInv /\ TypeOK' /\ [Next]_vars => LinkInv'
    BY LinkStep
  <1> QED
    BY <1>1, <1>2, LinkInit, BridgeInvariant, PTL DEF Spec

\* Switched off, and not flipped back unseen since, the bridge holds no
\* connection and nothing of it is left over one, however often the link died,
\* the address was changed, or the switch flipped too fast before.
THEOREM OffIsOff == Spec => []OffOnceSeen
  <1>1. LinkInv => OffOnceSeen
    <2> SUFFICES ASSUME LinkInv, ~hasty, pc = "check", ~enabled, FALSE \in wasEnabled
                 PROVE  ~Connected /\ subs = 0 /\ (orphans = 0 \/ orphans > 0)
      BY DEF OffOnceSeen, OffMeansOff
    <2>1. ~Connected
      BY DEF LinkInv, SwitchFollowed
    <2> QED
      BY <2>1 DEF LinkInv, Subscribed, TypeOK
  <1> QED
    BY <1>1, LinkInvariant, PTL

\* Over the client's connection there is a second subscription only after a
\* call that failed half way; neither a re-connection nor a switch flipped at
\* any point of the loop makes one.
THEOREM OnlyOneSubscription == Spec => []OneSubscription
  <1>1. LinkInv => OneSubscription
    BY DEF LinkInv, Subscribed, OneSubscription
  <1> QED
    BY <1>1, LinkInvariant, PTL

\* One raising of StartMeasurement starts one run at most, whether the control
\* nodes are subscribed to, polled, or both by turns, while no subscription is
\* live that nobody holds.
THEOREM StartsOncePerEdge == Spec => []OneStartPerEdge
  <1>1. LinkInv => OneStartPerEdge
    <2> SUFFICES ASSUME LinkInv, ~half, ~(orphans > 0)
                 PROVE  answered <= 1
      BY DEF OneStartPerEdge
    <2>1. orphans = 0
      BY DEF LinkInv, TypeOK
    <2> QED
      BY <2>1 DEF LinkInv, Answering
  <1> QED
    BY <1>1, LinkInvariant, PTL

=============================================================================
