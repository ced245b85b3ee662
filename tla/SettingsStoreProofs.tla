------------------------ MODULE SettingsStoreProofs ------------------------
(***************************************************************************)
(* Theorems about the settings and the profiles, for every set of values,  *)
(* names and runs, full cards and power cuts included.  What a handler has *)
(* yet to do is a list, so what can be said of a thread is first of all    *)
(* what may follow what on such a list.                                    *)
(***************************************************************************)
EXTENDS SettingsStore, SequenceTheorems, TLAPS

\* The steps that may follow one another on a list, and those it may end with.
Follows(a, b) ==
  \/ a = "push" /\ b \in {"reload", "snapshot"}
  \/ a = "reload" /\ b = "snapshot"
  \/ a = "truncate" /\ b = "fill"
  \/ a = "fill" /\ b = "apply"
  \/ a = "apply" /\ b = "pushCal"
  \/ a = "pushCal" /\ b \in {"activate", "snapshot"}
  \/ a = "activate" /\ b = "snapshot"
  \/ a = "snapshot" /\ b = "open"
  \/ a = "open" /\ b = "write"
  \/ a = "write" /\ b = "replace"

Lasts == {"reload", "fill", "pushCal", "replace", "forget"}

Linked(s) == s \in Seq(Steps) /\ \A i \in 1..(Len(s) - 1) : Follows(s[i], s[i + 1])

Listed(s) == Linked(s) /\ (s # << >> => s[Len(s)] \in Lasts)

Items(s) == {s[i] : i \in 1..Len(s)}

-----------------------------------------------------------------------------
(* Lists of steps. *)

\* What is left of a list is a list, and begins with what may follow.
LEMMA TailListed ==
  ASSUME NEW s, Listed(s), s # << >>
  PROVE  /\ Listed(Tail(s))
         /\ Items(Tail(s)) \subseteq Items(s) /\ Head(s) \in Items(s)
         /\ Tail(s) # << >> => Follows(Head(s), Head(Tail(s)))
         /\ Tail(s) = << >> => Head(s) \in Lasts
  <1> DEFINE t == Tail(s)
             n == Len(s)
  <1>1. s \in Seq(Steps)
    BY DEF Listed, Linked
  <1>2. n \in Nat /\ n >= 1 /\ t \in Seq(Steps) /\ Len(t) = n - 1 /\ Head(s) = s[1]
    BY <1>1
  <1>3. \A i \in 1..(n - 1) : t[i] = s[i + 1]
    BY <1>1
  <1>4. Linked(t)
    <2>1. ASSUME NEW i \in 1..(n - 2)
          PROVE  Follows(t[i], t[i + 1])
      <3>1. i + 1 \in 1..(n - 1) /\ i \in 1..(n - 1)
        BY <1>2
      <3>2. t[i] = s[i + 1] /\ t[i + 1] = s[(i + 1) + 1]
        BY <1>3, <3>1
      <3>3. Follows(s[i + 1], s[(i + 1) + 1])
        BY <3>1 DEF Listed, Linked
      <3> QED
        BY <3>2, <3>3
    <2>2. (n - 1) - 1 = n - 2
      BY <1>2
    <2> QED
      BY <1>2, <2>1, <2>2 DEF Linked
  <1>5. t # << >> => n - 1 >= 1
    BY <1>2
  <1>6. t # << >> => t[Len(t)] \in Lasts
    <2>1. t # << >> => t[n - 1] = s[(n - 1) + 1] /\ (n - 1) + 1 = n
      BY <1>2, <1>3, <1>5
    <2> QED
      BY <1>2, <2>1 DEF Listed
  <1>7. Items(t) \subseteq Items(s)
    <2>1. ASSUME NEW i \in 1..(n - 1)
          PROVE  t[i] \in Items(s)
      <3>1. i + 1 \in 1..n /\ t[i] = s[i + 1]
        BY <1>2, <1>3
      <3> QED
        BY <3>1 DEF Items
    <2> QED
      BY <1>2, <2>1 DEF Items
  <1>8. Head(s) \in Items(s)
    BY <1>2 DEF Items
  <1>9. t # << >> => Follows(Head(s), Head(t))
    <2>1. t # << >> => Head(t) = t[1] /\ t[1] = s[1 + 1] /\ 1 \in 1..(n - 1)
      BY <1>2, <1>3, <1>5
    <2> QED
      BY <1>2, <2>1 DEF Listed, Linked
  <1>10. t = << >> => Head(s) \in Lasts
    <2>1. Len(t) = n - 1
      BY <1>2
    <2> HIDE DEF t
    <2>2. t = << >> => n = 1
      BY <1>2, <2>1
    <2> QED
      BY <1>2, <2>2 DEF Listed
  <1> HIDE DEF t
  <1> QED
    BY <1>4, <1>6, <1>7, <1>8, <1>9, <1>10 DEF Listed, t

\* Two lists one after the other.
LEMMA Joined ==
  ASSUME NEW a, NEW b, Linked(a), Linked(b), a # << >>, b # << >>,
         Follows(a[Len(a)], b[1])
  PROVE  /\ Linked(a \o b) /\ a \o b # << >>
         /\ (a \o b)[1] = a[1] /\ (a \o b)[Len(a \o b)] = b[Len(b)]
         /\ Items(a \o b) = Items(a) \union Items(b)
  <1> DEFINE c == a \o b
             m == Len(a)
             n == Len(b)
  <1>1. a \in Seq(Steps) /\ b \in Seq(Steps)
    BY DEF Linked
  <1>2. m \in Nat /\ n \in Nat /\ m >= 1 /\ n >= 1
    BY <1>1
  <1>3. /\ c \in Seq(Steps) /\ Len(c) = m + n
        /\ \A i \in 1..(m + n) : c[i] = IF i <= m THEN a[i] ELSE b[i - m]
    BY <1>1, ConcatProperties
  <1> HIDE DEF c
  <1>4. Linked(c)
    <2>1. ASSUME NEW i \in 1..(m + n - 1)
          PROVE  Follows(c[i], c[i + 1])
      <3>1. i \in 1..(m + n) /\ i + 1 \in 1..(m + n)
        BY <1>2
      <3>2. CASE i < m
        <4>1. c[i] = a[i] /\ c[i + 1] = a[i + 1] /\ i \in 1..(m - 1)
          BY <1>2, <1>3, <3>1, <3>2
        <4> QED
          BY <4>1 DEF Linked
      <3>3. CASE i = m
        <4>1. c[i] = a[m] /\ c[i + 1] = b[1]
          BY <1>2, <1>3, <3>1, <3>3
        <4> QED
          BY <4>1
      <3>4. CASE i > m
        <4>1. c[i] = b[i - m] /\ c[i + 1] = b[(i - m) + 1] /\ i - m \in 1..(n - 1)
          BY <1>2, <1>3, <3>1, <3>4
        <4> QED
          BY <4>1 DEF Linked
      <3> QED
        BY <1>2, <3>2, <3>3, <3>4
    <2> QED
      BY <1>3, <2>1 DEF Linked
  <1>5. c[Len(c)] = b[Len(b)]
    BY <1>2, <1>3
  <1>6. c # << >> /\ c[1] = a[1]
    BY <1>2, <1>3
  <1>7. Items(c) \subseteq Items(a) \union Items(b)
    <2>1. ASSUME NEW i \in 1..(m + n)
          PROVE  c[i] \in Items(a) \union Items(b)
      <3>1. CASE i <= m
        <4>1. i \in 1..m /\ c[i] = a[i]
          BY <1>2, <1>3, <3>1
        <4> QED
          BY <4>1 DEF Items
      <3>2. CASE ~(i <= m)
        <4>1. i - m \in 1..n /\ c[i] = b[i - m]
          BY <1>2, <1>3, <3>2
        <4> QED
          BY <4>1 DEF Items
      <3> QED
        BY <3>1, <3>2
    <2> QED
      BY <1>3, <2>1 DEF Items
  <1>8. Items(a) \union Items(b) \subseteq Items(c)
    <2>1. ASSUME NEW i \in 1..m
          PROVE  a[i] \in Items(c)
      <3>1. i \in 1..(m + n) /\ c[i] = a[i]
        BY <1>2, <1>3
      <3> QED
        BY <1>3, <3>1 DEF Items
    <2>2. ASSUME NEW i \in 1..n
          PROVE  b[i] \in Items(c)
      <3>1. i + m \in 1..(m + n) /\ c[i + m] = b[(i + m) - m] /\ (i + m) - m = i
        BY <1>2, <1>3
      <3> QED
        BY <1>3, <3>1 DEF Items
    <2> QED
      BY <2>1, <2>2 DEF Items
  <1> QED
    BY <1>4, <1>5, <1>6, <1>7, <1>8 DEF c

\* Nothing comes before a push, a truncate or a forget, and a profile is
\* filled by the thread that has just cut it off.
LEMMA FillsFirst ==
  ASSUME NEW s, Listed(s), s # << >>
  PROVE  /\ "fill" \in Items(s) <=> Head(s) \in {"truncate", "fill"}
         /\ "push" \in Items(s) <=> Head(s) = "push"
         /\ Head(s) = "fill" => "fill" \notin Items(Tail(s))
  <1> DEFINE n == Len(s)
  <1>1. s \in Seq(Steps) /\ n \in Nat /\ n >= 1 /\ Head(s) = s[1]
    BY DEF Listed, Linked
  <1>2. \A i \in 1..n : i # 1 => i - 1 \in 1..n /\ Follows(s[i - 1], s[i])
    <2> SUFFICES ASSUME NEW i \in 1..n, i # 1
                 PROVE  i - 1 \in 1..n /\ Follows(s[i - 1], s[i])
      OBVIOUS
    <2>1. i - 1 \in 1..(n - 1) /\ (i - 1) + 1 = i
      BY <1>1
    <2> QED
      BY <1>1, <2>1 DEF Listed, Linked
  <1>3. \A i \in 1..n : s[i] \in {"push", "truncate"} => i = 1
    BY <1>2 DEF Follows
  <1>4. \A i \in 1..n : s[i] = "fill" /\ i # 1 => s[i - 1] = "truncate" /\ i - 1 = 1
    BY <1>2, <1>3 DEF Follows
  <1>5. "fill" \in Items(s) => Head(s) \in {"truncate", "fill"}
    BY <1>1, <1>4 DEF Items
  <1>6. Head(s) \in {"truncate", "fill"} => "fill" \in Items(s)
    <2>1. CASE s[1] = "fill"
      BY <1>1, <2>1 DEF Items
    <2>2. CASE s[1] = "truncate"
      <3>1. n # 1
        <4>1. s[n] \in Lasts
          BY DEF Listed
        <4>2. "truncate" \notin Lasts
          BY DEF Lasts
        <4> QED
          BY <2>2, <4>1, <4>2
      <3>2. 2 \in 1..n /\ 2 # 1 /\ 2 - 1 = 1
        <4>1. n \in Nat /\ n >= 1 /\ n # 1
          BY <1>1, <3>1
        <4> HIDE DEF n
        <4> QED
          BY <4>1
      <3>3. Follows(s[1], s[2])
        BY <1>2, <3>2
      <3> QED
        BY <2>2, <3>2, <3>3 DEF Items, Follows
    <2> QED
      BY <1>1, <2>1, <2>2
  <1>7. "push" \in Items(s) <=> Head(s) = "push"
    BY <1>1, <1>3 DEF Items
  <1>8. ASSUME Head(s) = "fill"
        PROVE  "fill" \notin Items(Tail(s))
    <2> DEFINE t == Tail(s)
    <2>1. Len(t) = n - 1 /\ \A i \in 1..(n - 1) : t[i] = s[i + 1]
      BY <1>1
    <2> HIDE DEF t
    <2>2. ASSUME NEW i \in 1..(n - 1), t[i] = "fill"
          PROVE  FALSE
      <3>1. i + 1 \in 1..n /\ i + 1 # 1 /\ s[i + 1] = "fill"
        BY <1>1, <2>1, <2>2
      <3>2. s[(i + 1) - 1] = "truncate" /\ (i + 1) - 1 = 1
        BY <1>4, <3>1
      <3> QED
        BY <1>1, <1>8, <3>2
    <2> QED
      BY <2>1, <2>2 DEF Items, t
  <1> QED
    BY <1>5, <1>6, <1>7, <1>8

\* The lists that the requests put together.
LEMMA SaveListed ==
  /\ Listed(Save) /\ Save # << >> /\ Save[1] = "snapshot"
  /\ Items(Save) = {"snapshot", "open", "write", "replace"}
  BY DEF Listed, Linked, Save, Steps, Follows, Lasts, Items

LEMMA ApplyListed ==
  /\ Listed(Apply) /\ Apply # << >> /\ Apply[1] = "apply" /\ Apply[Len(Apply)] = "pushCal"
  /\ Items(Apply) = {"apply", "pushCal"}
  BY DEF Listed, Linked, Apply, Steps, Follows, Lasts, Items

LEMMA WriteListed ==
  /\ Listed(WriteProfile) /\ WriteProfile # << >>
  /\ WriteProfile[1] = "truncate" /\ WriteProfile[Len(WriteProfile)] = "fill"
  /\ Items(WriteProfile) = {"truncate", "fill"}
  BY DEF Listed, Linked, WriteProfile, Steps, Follows, Lasts, Items

\* A list of one step.
LEMMA OneListed ==
  ASSUME NEW a \in Steps
  PROVE  /\ Linked(<<a>>) /\ <<a>> # << >> /\ <<a>>[1] = a /\ <<a>>[Len(<<a>>)] = a
         /\ Items(<<a>>) = {a} /\ (a \in Lasts => Listed(<<a>>))
  BY DEF Listed, Linked, Items

LEMMA ActivateListed ==
  LET s == Apply \o <<"activate">> \o Save
  IN  /\ Listed(s) /\ s # << >> /\ s[1] = "apply"
      /\ Items(s) = {"apply", "pushCal", "activate"} \union Items(Save)
  <1> DEFINE a == Apply \o <<"activate">>
  <1>1. Follows("pushCal", "activate") /\ Follows("activate", "snapshot") /\ "activate" \in Steps
    BY DEF Follows, Steps
  <1>2. /\ Linked(<<"activate">>) /\ <<"activate">> # << >> /\ <<"activate">>[1] = "activate"
        /\ <<"activate">>[Len(<<"activate">>)] = "activate" /\ Items(<<"activate">>) = {"activate"}
    BY <1>1, OneListed
  <1>3. Linked(Apply) /\ Linked(Save) /\ Save[Len(Save)] \in Lasts
    BY ApplyListed, SaveListed DEF Listed
  <1>4. /\ Linked(a) /\ a # << >> /\ a[1] = "apply" /\ a[Len(a)] = "activate"
        /\ Items(a) = Items(Apply) \union {"activate"}
    BY <1>1, <1>2, <1>3, ApplyListed, Joined
  <1> HIDE DEF a
  <1> DEFINE s == a \o Save
  <1>5. /\ Linked(s) /\ s # << >> /\ s[1] = "apply" /\ s[Len(s)] \in Lasts
        /\ Items(s) = Items(a) \union Items(Save)
    BY <1>1, <1>3, <1>4, SaveListed, Joined
  <1> HIDE DEF s
  <1> QED
    BY <1>4, <1>5, ApplyListed DEF Listed, s, a

LEMMA FormListed ==
  LET s == WriteProfile \o Apply \o <<"activate">> \o Save
  IN  /\ Listed(s) /\ s # << >> /\ s[1] = "truncate"
      /\ Items(s) = {"truncate", "fill", "apply", "pushCal", "activate"} \union Items(Save)
  <1> DEFINE a == WriteProfile \o Apply
             b == a \o <<"activate">>
  <1>1. /\ Follows("pushCal", "activate") /\ Follows("activate", "snapshot")
        /\ Follows("fill", "apply") /\ "activate" \in Steps
    BY DEF Follows, Steps
  <1>2. /\ Linked(<<"activate">>) /\ <<"activate">> # << >> /\ <<"activate">>[1] = "activate"
        /\ <<"activate">>[Len(<<"activate">>)] = "activate" /\ Items(<<"activate">>) = {"activate"}
    BY <1>1, OneListed
  <1>3. Linked(WriteProfile) /\ Linked(Apply) /\ Linked(Save) /\ Save[Len(Save)] \in Lasts
    BY WriteListed, ApplyListed, SaveListed DEF Listed
  <1>4. /\ Linked(a) /\ a # << >> /\ a[1] = "truncate" /\ a[Len(a)] = "pushCal"
        /\ Items(a) = Items(WriteProfile) \union Items(Apply)
    BY <1>1, <1>3, WriteListed, ApplyListed, Joined
  <1> HIDE DEF a
  <1>5. /\ Linked(b) /\ b # << >> /\ b[1] = "truncate" /\ b[Len(b)] = "activate"
        /\ Items(b) = Items(a) \union {"activate"}
    BY <1>1, <1>2, <1>4, Joined
  <1> HIDE DEF b
  <1> DEFINE s == b \o Save
  <1>6. /\ Linked(s) /\ s # << >> /\ s[1] = "truncate" /\ s[Len(s)] \in Lasts
        /\ Items(s) = Items(b) \union Items(Save)
    BY <1>1, <1>3, <1>5, SaveListed, Joined
  <1> HIDE DEF s
  <1>7. Items(s) = {"truncate", "fill", "apply", "pushCal", "activate"} \union Items(Save)
    BY <1>4, <1>5, <1>6, WriteListed, ApplyListed
  <1> QED
    BY <1>6, <1>7 DEF Listed, s, b, a

\* A step, or two, before the settings are stored.
LEMMA PushListed ==
  LET s == <<"push">> \o Save
  IN  /\ Listed(s) /\ s # << >> /\ s[1] = "push" /\ Items(s) = {"push"} \union Items(Save)
  <1>1. Follows("push", "snapshot") /\ "push" \in Steps
    BY DEF Follows, Steps
  <1>2. Linked(Save) /\ Save[Len(Save)] \in Lasts
    BY SaveListed DEF Listed
  <1> QED
    BY <1>1, <1>2, OneListed, SaveListed, Joined DEF Listed

LEMMA RestoreListed ==
  LET s == <<"push", "reload">> \o Save
  IN  /\ Listed(s) /\ s # << >> /\ s[1] = "push"
      /\ Items(s) = {"push", "reload"} \union Items(Save)
  <1>1. Follows("reload", "snapshot")
    BY DEF Follows
  <1>2. Linked(Save) /\ Save[Len(Save)] \in Lasts
    BY SaveListed DEF Listed
  <1> DEFINE a == <<"push", "reload">>
  <1>3. Linked(a) /\ a # << >> /\ a[1] = "push" /\ a[Len(a)] = "reload"
    BY DEF Linked, Follows, Steps
  <1>4. Items(a) = {"push", "reload"}
    BY DEF Items
  <1> HIDE DEF a
  <1>5. LET s == a \o Save
        IN  /\ Linked(s) /\ s # << >> /\ s[1] = "push" /\ s[Len(s)] = Save[Len(Save)]
            /\ Items(s) = Items(a) \union Items(Save)
    BY <1>1, <1>2, <1>3, SaveListed, Joined
  <1> QED
    BY <1>2, <1>4, <1>5 DEF Listed, a

\* What a reload puts in its place.
LEMMA ReloadListed ==
  ASSUME NEW s, Listed(s), s # << >>, Head(s) = "reload"
  PROVE  LET c == Apply \o Tail(s)
         IN  /\ Listed(c) /\ c # << >> /\ Head(c) = "apply"
             /\ Items(c) = {"apply", "pushCal"} \union Items(Tail(s))
  <1> DEFINE t == Tail(s)
             c == Apply \o t
  <1>1. Listed(t) /\ (t # << >> => Follows("reload", Head(t)))
    BY TailListed
  <1>2. t \in Seq(Steps) /\ Apply \in Seq(Steps)
    BY <1>1, ApplyListed DEF Listed, Linked
  <1>3. CASE t = << >>
    <2>1. c = Apply
      BY <1>2, <1>3, ConcatEmptySeq
    <2>2. Items(t) = {}
      <3>1. Items(<< >>) = {}
        BY DEF Items
      <3> QED
        BY <1>3, <3>1
    <2>3. Head(Apply) = "apply"
      BY DEF Apply
    <2> HIDE DEF c
    <2> QED
      BY <2>1, <2>2, <2>3, ApplyListed DEF c
  <1>4. CASE t # << >>
    <2> HIDE DEF t
    <2>1. Head(t) = t[1] /\ Follows("pushCal", t[1])
      BY <1>1, <1>2, <1>4 DEF Follows
    <2>2. Linked(Apply) /\ Linked(t) /\ t[Len(t)] \in Lasts
      BY <1>1, <1>4, ApplyListed DEF Listed
    <2>3. /\ Linked(c) /\ c # << >> /\ c[1] = "apply" /\ c[Len(c)] = t[Len(t)]
          /\ Items(c) = Items(Apply) \union Items(t)
      BY <1>4, <2>1, <2>2, ApplyListed, Joined
    <2> HIDE DEF c
    <2>4. Head(c) = "apply" /\ Listed(c)
      BY <2>2, <2>3 DEF Listed, Linked
    <2> QED
      BY <2>3, <2>4, ApplyListed DEF c, t
  <1> QED
    BY <1>3, <1>4

-----------------------------------------------------------------------------
(* What a thread may be doing. *)

\* What a thread needs for the steps of its list it has: the value it pushes,
\* the profile it writes or applies, and under what name, and the copy of the
\* settings it stores.
JobOK(j) ==
  /\ j \in Jobs /\ Listed(j.todo)
  /\ "push" \in Items(j.todo) => j.value \in Pushed
  /\ Items(j.todo) \intersect {"truncate", "fill", "apply", "pushCal"} # {} => j.profile \in Profiles
  /\ Items(j.todo) \intersect {"truncate", "fill", "activate"} # {} => j.name \in Names
  /\ j.todo # << >> /\ Head(j.todo) \in {"open", "write", "replace"} => j.copy \in Settings

JobsOK ==
  /\ job \in [Ids -> Jobs]
  /\ \A t \in Ids : JobOK(job[t])
  /\ status # "up" => \A t \in Ids : job[t] = NoJob
  /\ Items(job[Loop].todo) \subseteq {"truncate", "fill"}

LEMMA NoJobOK == JobOK(NoJob) /\ NoJob \in Jobs /\ Items(NoJob.todo) = {} /\ NoJob.todo = << >>
  <1>1. NoJob.todo = << >> /\ << >> \in Seq(Steps) /\ Len(<< >>) = 0
    BY DEF NoJob
  <1>2. NoJob \in Jobs
    BY <1>1 DEF NoJob, Jobs
  <1>3. Items(<< >>) = {} /\ Listed(<< >>)
    BY <1>1 DEF Items, Listed, Linked
  <1> QED
    BY <1>1, <1>2, <1>3 DEF JobOK

\* Taking the first step of a list leaves a job that is as sound.
LEMMA Taken ==
  ASSUME NEW j, JobOK(j), j.todo # << >>, NEW k \in Jobs,
         k.todo = Tail(j.todo), k.value = j.value, k.name = j.name, k.profile = j.profile,
         k.copy = j.copy \/ k.copy \in Settings,
         Head(j.todo) = "snapshot" => k.copy \in Settings
  PROVE  LET r == IF k.todo = << >> THEN NoJob ELSE k
         IN  JobOK(r) /\ r \in Jobs /\ Items(r.todo) \subseteq Items(j.todo)
  <1> DEFINE s == j.todo
  <1>1. /\ Listed(k.todo) /\ Items(k.todo) \subseteq Items(s)
        /\ k.todo # << >> => Follows(Head(s), Head(k.todo))
    BY TailListed DEF JobOK
  <1>2. ASSUME k.todo # << >>, Head(k.todo) \in {"open", "write", "replace"}
        PROVE  k.copy \in Settings
    <2>1. Head(s) \in {"snapshot", "open", "write"}
      BY <1>1, <1>2 DEF Follows
    <2> QED
      BY <2>1 DEF JobOK
  <1>3. JobOK(k)
    BY <1>1, <1>2 DEF JobOK
  <1> QED
    BY <1>1, <1>3, NoJobOK

\* One thread's job changes, and to one that is sound.
LEMMA JobGiven ==
  ASSUME JobsOK, NEW t \in Ids, NEW j, JobOK(j), job' = [job EXCEPT ![t] = j],
         status = "up", status' = "up",
         t = Loop => Items(j.todo) \subseteq {"truncate", "fill"}
  PROVE  JobsOK'
  <1>1. j \in Jobs
    BY DEF JobOK
  <1>2. job' \in [Ids -> Jobs] /\ \A u \in Ids : job'[u] = IF u = t THEN j ELSE job[u]
    BY <1>1 DEF JobsOK
  <1>3. Loop \in Ids
    BY DEF Ids
  <1> QED
    BY <1>2, <1>3 DEF JobsOK

\* A thread takes the first step of its list, and that is all of its job.
LEMMA StepDone ==
  ASSUME JobsOK, NEW t \in Ids, status = "up", status' = "up", job[t].todo # << >>,
         Head(job[t].todo) # "snapshot", Done(t)
  PROVE  JobsOK'
  <1> DEFINE j == job[t]
             k == [j EXCEPT !.todo = Tail(@)]
             r == IF k.todo = << >> THEN NoJob ELSE k
  <1>1. JobOK(j) /\ j \in Jobs
    BY DEF JobsOK
  <1>2. Tail(j.todo) \in Seq(Steps)
    BY <1>1 DEF Jobs
  <1>3. k \in Jobs
    BY <1>1, <1>2 DEF Jobs
  <1>4. /\ k.todo = Tail(j.todo) /\ k.value = j.value /\ k.name = j.name
        /\ k.profile = j.profile /\ k.copy = j.copy
    BY <1>1 DEF Jobs
  <1>5. JobOK(r) /\ Items(r.todo) \subseteq Items(j.todo)
    <2> HIDE DEF k
    <2> QED
      BY <1>1, <1>3, <1>4, Taken
  <1>6. job' = [job EXCEPT ![t] = r]
    BY DEF Done, After
  <1>7. t = Loop => Items(r.todo) \subseteq {"truncate", "fill"}
    BY <1>5 DEF JobsOK
  <1> HIDE DEF r
  <1> QED
    BY <1>5, <1>6, <1>7, JobGiven

LEMMA StepRaised ==
  ASSUME JobsOK, NEW t \in Ids, status = "up", status' = "up", Raises(t)
  PROVE  JobsOK'
  BY JobGiven, NoJobOK DEF Raises

-----------------------------------------------------------------------------
(* Types, but for what the totals may be. *)

Base ==
  /\ status \in {"off", "up", "failed"}
  /\ setting \in Settings
  /\ cal \in Cals \union {None}
  /\ broadcasting \in BOOLEAN
  /\ told \in [setting : Pushed \union {None}, cal : Cals \union {None}]
  /\ file \in Settings \union NotText
  /\ tmp \in Settings \union NotText
  /\ profiles \in [Names -> Profiles \union NotText]
  /\ unsafe \subseteq Names
  /\ JobsOK

LEMMA BaseInit == Init => Base
  <1> SUFFICES ASSUME Init PROVE Base
    OBVIOUS
  <1>1. Defaults \in Settings
    BY StoreAssumption DEF Defaults, Settings
  <1>2. Absent \in NotText
    BY DEF NotText
  <1>3. job \in [Ids -> Jobs] /\ \A t \in Ids : job[t] = NoJob
    BY NoJobOK DEF Init
  <1>4. Loop \in Ids
    BY DEF Ids
  <1>5. JobsOK
    BY <1>3, <1>4, NoJobOK DEF JobsOK
  <1> QED
    BY <1>1, <1>2, <1>5 DEF Init, Base

\* Facts that the steps below share.
LEMMA InIds == Loop \in Ids /\ Threads \subseteq Ids /\ (\A t \in Threads : t # Loop)
  BY StoreAssumption DEF Ids

\* A request about a profile that is begun.
LEMMA ProfileBegun ==
  ASSUME Base, NEW t \in Ids, NEW n \in Names, NEW p \in Profiles, NEW f \in BOOLEAN,
         NEW s, Listed(s), s # << >>, s[1] \in {"truncate", "apply"},
         t = Loop => Items(s) \subseteq {"truncate", "fill"},
         status = "up", status' = "up", BeginProfile(t, n, p, f, s)
  PROVE  /\ JobsOK'
         /\ job'[t].name = n /\ job'[t].profile = p /\ (job'[t].fresh <=> f)
         /\ job'[t].todo = s /\ Head(s) = s[1]
         /\ \A u \in Ids \ {t} : job'[u] = job[u]
  <1> DEFINE j == [NoJob EXCEPT !.name = n, !.profile = p, !.fresh = f, !.todo = s]
  <1>1. s \in Seq(Steps) /\ Head(s) = s[1]
    BY DEF Listed, Linked
  <1>2. "push" \notin Items(s)
    BY <1>1, FillsFirst
  <1>3. j \in Jobs /\ j.name = n /\ j.profile = p /\ j.todo = s /\ (j.fresh <=> f)
    BY <1>1, NoJobOK DEF Jobs
  <1>4. job' = [job EXCEPT ![t] = j]
    BY DEF BeginProfile, Begin
  <1> HIDE DEF j
  <1>5. JobOK(j)
    BY <1>1, <1>2, <1>3 DEF JobOK
  <1>6. JobsOK'
    BY <1>3, <1>4, <1>5, JobGiven DEF Base
  <1>7. job'[t] = j /\ \A u \in Ids \ {t} : job'[u] = job[u]
    BY <1>4 DEF Base, JobsOK
  <1> QED
    BY <1>1, <1>3, <1>6, <1>7

\* What the requests about profiles begin with.
LEMMA Begun ==
  ASSUME Base, NEW n \in Names, NEW c \in Cals
  PROVE  /\ Whole(n) => /\ [profiles[n] EXCEPT !.cal = c] \in Profiles
                         /\ [profiles[n] EXCEPT !.cal = c].total = profiles[n].total
                         /\ [profiles[n] EXCEPT !.cal = IF cal = None THEN @ ELSE cal] \in Profiles
                         /\ [profiles[n] EXCEPT !.cal = IF cal = None THEN @ ELSE cal].total
                              = profiles[n].total
         /\ [cal |-> c, total |-> 0] \in Profiles
         /\ [cal |-> CalInForce, total |-> 0] \in Profiles
         /\ FALSE \in BOOLEAN /\ TRUE \in BOOLEAN
  <1>1. 0 \in 0..MaxTotal /\ Blank \in Cals
    BY StoreAssumption
  <1>2. CalInForce \in Cals
    BY <1>1 DEF CalInForce, Base
  <1>3. cal # None => cal \in Cals
    BY DEF Base
  <1> QED
    BY <1>1, <1>2, <1>3 DEF Whole, Profiles

\* A request keeps the types.
LEMMA BaseRequest ==
  ASSUME Base, NEW t \in Threads, Request(t)
  PROVE  Base'
  <1>1. t \in Ids /\ t # Loop
    BY InIds
  <1>2. Defaults \in Settings /\ DefaultPushed \in Pushed /\ 0 \in 0..MaxTotal /\ Blank \in Cals
    BY StoreAssumption DEF Defaults, Settings
  <1>3. CASE \E v \in Pushed : SetPushed(t, v)
    <2> PICK v \in Pushed : SetPushed(t, v)
      BY <1>3
    <2> DEFINE s == <<"push">> \o Save
               j == [NoJob EXCEPT !.value = v, !.todo = s]
    <2>1. Listed(s) /\ s # << >> /\ s[1] = "push" /\ Items(s) = {"push"} \union Items(Save)
      BY PushListed
    <2> HIDE DEF s
    <2>2. s \in Seq(Steps) /\ Head(s) = "push"
      BY <2>1 DEF Listed, Linked
    <2>3. j \in Jobs /\ j.todo = s /\ j.value = v
      BY <2>2, NoJobOK DEF Jobs
    <2> HIDE DEF j
    <2>4. JobOK(j)
      BY <2>1, <2>2, <2>3, SaveListed DEF JobOK
    <2>5. job' = [job EXCEPT ![t] = j] /\ status = "up" /\ status' = "up"
      BY DEF SetPushed, Begin, Idle, j, s
    <2>6. JobsOK'
      BY <1>1, <2>4, <2>5, JobGiven DEF Base
    <2>7. setting' \in Settings
      BY DEF SetPushed, Settings, Base
    <2> QED
      BY <2>6, <2>7 DEF Base, SetPushed, diskVars
  <1>4. CASE \E v \in Kept : SetKept(t, v)
    <2> PICK v \in Kept : SetKept(t, v)
      BY <1>4
    <2> DEFINE j == [NoJob EXCEPT !.todo = Save]
    <2>1. Save \in Seq(Steps) /\ Head(Save) = "snapshot"
      BY SaveListed DEF Listed, Linked
    <2>2. j \in Jobs /\ j.todo = Save
      BY <2>1, NoJobOK DEF Jobs
    <2> HIDE DEF j
    <2>3. JobOK(j)
      BY <2>1, <2>2, SaveListed DEF JobOK
    <2>4. job' = [job EXCEPT ![t] = j] /\ status = "up" /\ status' = "up"
      BY DEF SetKept, Begin, Idle, j
    <2>5. JobsOK'
      BY <1>1, <2>3, <2>4, JobGiven DEF Base
    <2>6. setting' \in Settings
      BY DEF SetKept, Settings, Base
    <2> QED
      BY <2>5, <2>6 DEF Base, SetKept, diskVars
  <1>5. CASE RestoreDefaults(t)
    <2> DEFINE s == <<"push", "reload">> \o Save
               j == [NoJob EXCEPT !.value = DefaultPushed, !.todo = s]
    <2>1. Listed(s) /\ s # << >> /\ s[1] = "push" /\ Items(s) = {"push", "reload"} \union Items(Save)
      BY RestoreListed
    <2> HIDE DEF s
    <2>2. s \in Seq(Steps) /\ Head(s) = "push"
      BY <2>1 DEF Listed, Linked
    <2>3. j \in Jobs /\ j.todo = s /\ j.value = DefaultPushed
      BY <1>2, <2>2, NoJobOK DEF Jobs
    <2> HIDE DEF j
    <2>4. JobOK(j)
      BY <1>2, <2>1, <2>2, <2>3, SaveListed DEF JobOK
    <2>5. job' = [job EXCEPT ![t] = j] /\ status = "up" /\ status' = "up"
      BY <1>5 DEF RestoreDefaults, Begin, Idle, j, s
    <2>6. JobsOK'
      BY <1>1, <2>4, <2>5, JobGiven DEF Base
    <2>7. setting' \in Settings
      BY <1>2, <1>5 DEF RestoreDefaults, Settings, Base
    <2> QED
      BY <1>5, <2>6, <2>7 DEF Base, RestoreDefaults, diskVars
  <1>6. CASE \E c \in Cals : SetCoefficients(t, c)
    <2> PICK c \in Cals : SetCoefficients(t, c)
      BY <1>6
    <2> DEFINE p == [cal |-> c, total |-> 0]
               s == <<"pushCal">>
               j == [NoJob EXCEPT !.profile = p, !.todo = s]
    <2>1. Listed(s) /\ s # << >> /\ s[1] = "pushCal" /\ Items(s) = {"pushCal"}
      BY OneListed DEF Steps, Lasts
    <2> HIDE DEF s
    <2>2. s \in Seq(Steps) /\ Head(s) = "pushCal" /\ p \in Profiles
      BY <1>2, <2>1, StoreAssumption DEF Listed, Linked, Profiles
    <2> HIDE DEF p
    <2>3. j \in Jobs /\ j.todo = s /\ j.profile = p
      BY <2>2, NoJobOK DEF Jobs
    <2> HIDE DEF j
    <2>4. JobOK(j)
      BY <2>1, <2>2, <2>3 DEF JobOK
    <2>5. job' = [job EXCEPT ![t] = j] /\ status = "up" /\ status' = "up"
      BY DEF SetCoefficients, Begin, Idle, j, s, p
    <2>6. JobsOK'
      BY <1>1, <2>4, <2>5, JobGiven DEF Base
    <2> QED
      BY <2>6 DEF Base, SetCoefficients, diskVars
  <1>7. CASE GetCoefficients(t)
    <2> DEFINE s == <<"reload">>
               j == [NoJob EXCEPT !.todo = s]
    <2>1. Listed(s) /\ s # << >> /\ s[1] = "reload" /\ Items(s) = {"reload"}
      BY OneListed DEF Steps, Lasts
    <2> HIDE DEF s
    <2>2. s \in Seq(Steps) /\ Head(s) = "reload"
      BY <2>1 DEF Listed, Linked
    <2>3. j \in Jobs /\ j.todo = s
      BY <2>2, NoJobOK DEF Jobs
    <2> HIDE DEF j
    <2>4. JobOK(j)
      BY <2>1, <2>2, <2>3 DEF JobOK
    <2>5. job' = [job EXCEPT ![t] = j] /\ status = "up" /\ status' = "up"
      BY <1>7 DEF GetCoefficients, Begin, Idle, j, s
    <2>6. JobsOK'
      BY <1>1, <2>4, <2>5, JobGiven DEF Base
    <2> QED
      BY <1>7, <2>6 DEF Base, GetCoefficients, diskVars, memVars
  <1>8. CASE \E n \in Names, c \in Cals : ApplyForm(t, n, c)
    <2> PICK n \in Names, c \in Cals : ApplyForm(t, n, c)
      BY <1>8
    <2> DEFINE s == WriteProfile \o Apply \o <<"activate">> \o Save
    <2>1. Listed(s) /\ s # << >> /\ s[1] = "truncate"
      BY FormListed
    <2> HIDE DEF s
    <2>2. status = "up" /\ status' = "up"
      BY DEF ApplyForm, Idle
    <2>3. CASE Whole(n) /\ BeginProfile(t, n, [profiles[n] EXCEPT !.cal = c], FALSE, s)
      <3> DEFINE p == [profiles[n] EXCEPT !.cal = c]
      <3>1. p \in Profiles /\ BeginProfile(t, n, p, FALSE, s)
        BY <2>3, Begun
      <3> HIDE DEF p
      <3> QED
        BY <1>1, <2>1, <2>2, <3>1, Begun, ProfileBegun DEF Base, ApplyForm, memVars, diskVars
    <2>4. CASE BeginProfile(t, n, [cal |-> c, total |-> 0], TRUE, s)
      <3> DEFINE p == [cal |-> c, total |-> 0]
      <3>1. p \in Profiles /\ BeginProfile(t, n, p, TRUE, s)
        BY <2>4, Begun
      <3> HIDE DEF p
      <3> QED
        BY <1>1, <2>1, <2>2, <3>1, Begun, ProfileBegun DEF Base, ApplyForm, memVars, diskVars
    <2> QED
      BY <2>3, <2>4 DEF ApplyForm, s
  <1>9. CASE \E n \in Names : Activate(t, n)
    <2> PICK n \in Names : Activate(t, n)
      BY <1>9
    <2> DEFINE s == Apply \o <<"activate">> \o Save
    <2>1. Listed(s) /\ s # << >> /\ s[1] = "apply"
      BY ActivateListed
    <2>2. BeginProfile(t, n, profiles[n], FALSE, s) /\ profiles[n] \in Profiles
      BY DEF Activate, Whole
    <2> HIDE DEF s
    <2>3. status = "up" /\ status' = "up"
      BY DEF Activate, Idle
    <2> QED
      BY <1>1, <2>1, <2>2, <2>3, ProfileBegun DEF Base, Activate, memVars, diskVars
  <1>10. CASE \E n \in Names : SaveCurrent(t, n)
    <2> PICK n \in Names : SaveCurrent(t, n)
      BY <1>10
    <2> DEFINE p == [profiles[n] EXCEPT !.cal = IF cal = None THEN @ ELSE cal]
    <2>1. BeginProfile(t, n, p, FALSE, WriteProfile) /\ Whole(n) /\ status = "up" /\ status' = "up"
      BY DEF SaveCurrent, Idle
    <2>2. p \in Profiles
      BY <1>2, <2>1, Begun
    <2> HIDE DEF p
    <2> QED
      BY <1>1, <2>1, <2>2, WriteListed, ProfileBegun DEF Base, SaveCurrent, memVars, diskVars
  <1>11. CASE \E n \in Names : Create(t, n)
    <2> PICK n \in Names : Create(t, n)
      BY <1>11
    <2> DEFINE p == [cal |-> CalInForce, total |-> 0]
    <2>1. BeginProfile(t, n, p, TRUE, WriteProfile) /\ status = "up" /\ status' = "up"
      BY DEF Create, Idle
    <2>2. p \in Profiles
      BY <1>2, Begun
    <2> HIDE DEF p
    <2> QED
      BY <1>1, <2>1, <2>2, WriteListed, ProfileBegun DEF Base, Create, memVars, diskVars
  <1>12. CASE \E n \in Names : Delete(t, n)
    <2> PICK n \in Names : Delete(t, n)
      BY <1>12
    <2> DEFINE s == <<"forget">>
               j == [NoJob EXCEPT !.name = n, !.profile = None, !.fresh = FALSE, !.todo = s]
    <2>1. Listed(s) /\ s # << >> /\ s[1] = "forget" /\ Items(s) = {"forget"}
      BY OneListed DEF Steps, Lasts
    <2> HIDE DEF s
    <2>2. s \in Seq(Steps) /\ Head(s) = "forget"
      BY <2>1 DEF Listed, Linked
    <2>3. j \in Jobs /\ j.todo = s
      BY <2>2, NoJobOK DEF Jobs
    <2> HIDE DEF j
    <2>4. JobOK(j)
      BY <2>1, <2>2, <2>3 DEF JobOK
    <2>5. job' = [job EXCEPT ![t] = j] /\ status = "up" /\ status' = "up"
      BY DEF Delete, BeginProfile, Begin, Idle, j, s
    <2>6. JobsOK'
      BY <1>1, <2>4, <2>5, JobGiven DEF Base
    <2>7. profiles' \in [Names -> Profiles \union NotText]
      BY DEF Base, Delete, NotText
    <2> QED
      BY <2>6, <2>7 DEF Base, Delete, memVars
  <1> QED
    BY <1>3, <1>4, <1>5, <1>6, <1>7, <1>8, <1>9, <1>10, <1>11, <1>12 DEF Request
\* What a thread has in hand at each step of its list.
LEMMA InHand ==
  ASSUME Base, NEW t \in Ids, NEW step, AtStep(t, step)
  PROVE  LET j == job[t]
         IN  /\ JobOK(j) /\ j \in Jobs /\ Listed(j.todo) /\ j.todo # << >> /\ Head(j.todo) = step
             /\ step \in Items(j.todo) /\ status = "up"
             /\ Tail(j.todo) \in Seq(Steps)
             /\ t = Loop => step \in {"truncate", "fill"}
             /\ step = "push" => j.value \in Pushed
             /\ step \in {"truncate", "fill", "apply", "pushCal"} => j.profile \in Profiles
             /\ step \in {"truncate", "fill", "activate"} => j.name \in Names
             /\ step \in {"open", "write", "replace"} => j.copy \in Settings
  <1>1. JobOK(job[t]) /\ job[t].todo # << >> /\ Head(job[t].todo) = step /\ status = "up"
    BY DEF AtStep, Base, JobsOK
  <1>2. Listed(job[t].todo) /\ job[t] \in Jobs
    BY <1>1 DEF JobOK
  <1>3. step \in Items(job[t].todo) /\ Tail(job[t].todo) \in Seq(Steps)
    BY <1>1, <1>2, TailListed DEF Listed, Linked
  <1>4. t = Loop => step \in {"truncate", "fill"}
    BY <1>3 DEF Base, JobsOK
  <1> QED
    BY <1>1, <1>2, <1>3, <1>4 DEF JobOK

\* A step that takes its place in a file, or in a copy, keeps the jobs sound.
LEMMA StepTaken ==
  ASSUME Base, NEW t \in Ids, NEW step, AtStep(t, step), status' = "up", NEW k \in Jobs,
         k.todo = Tail(job[t].todo), k.value = job[t].value, k.name = job[t].name,
         k.profile = job[t].profile, k.copy = job[t].copy \/ k.copy \in Settings,
         step = "snapshot" => k.copy \in Settings,
         After(t, k)
  PROVE  JobsOK'
  <1> DEFINE r == IF k.todo = << >> THEN NoJob ELSE k
  <1>1. /\ JobOK(job[t]) /\ job[t].todo # << >> /\ Head(job[t].todo) = step /\ status = "up"
        /\ t = Loop => Items(job[t].todo) \subseteq {"truncate", "fill"}
    BY InHand DEF Base, JobsOK
  <1>2. JobOK(r) /\ Items(r.todo) \subseteq Items(job[t].todo)
    BY <1>1, Taken
  <1>3. job' = [job EXCEPT ![t] = r]
    BY DEF After
  <1> HIDE DEF r
  <1> QED
    BY <1>1, <1>2, <1>3, JobGiven DEF Base

\* Renaming the files the others have open keeps the jobs sound.
LEMMA FilesRenamed ==
  ASSUME Base, NEW t \in Ids, status = "up", status' = "up",
         job' \in [Ids -> Jobs], job'[t] = NoJob,
         \A u \in Ids \ {t} :
            /\ job'[u].todo = job[u].todo /\ job'[u].value = job[u].value
            /\ job'[u].name = job[u].name /\ job'[u].profile = job[u].profile
            /\ job'[u].copy = job[u].copy
  PROVE  JobsOK'
  <1>1. ASSUME NEW u \in Ids
        PROVE  JobOK(job'[u])
    <2>1. CASE u = t
      BY <2>1, NoJobOK
    <2>2. CASE u # t
      <3>1. JobOK(job[u])
        BY DEF Base, JobsOK
      <3>2. job'[u] \in Jobs
        OBVIOUS
      <3> QED
        BY <2>2, <3>1, <3>2 DEF JobOK
    <2> QED
      BY <2>1, <2>2
  <1>2. Items(job'[Loop].todo) \subseteq {"truncate", "fill"}
    BY InIds, NoJobOK DEF Base, JobsOK
  <1> QED
    BY <1>1, <1>2 DEF JobsOK

\* A step of a list keeps the types.
LEMMA BaseStep ==
  ASSUME Base, NEW t \in Ids, Step(t)
  PROVE  Base'
  <1> DEFINE j == job[t]
  <1>1. CASE Push(t)
    <2>1. AtStep(t, "push") /\ status' = status
      BY <1>1 DEF Push
    <2>2. JobsOK'
      BY <1>1, <2>1, InHand, StepDone DEF Push, Base
    <2>3. told' \in [setting : Pushed \union {None}, cal : Cals \union {None}]
      BY <1>1, <2>1, InHand DEF Push, Base
    <2> QED
      BY <1>1, <2>2, <2>3 DEF Push, Base, memVars, diskVars
  <1>2. CASE Reload(t)
    <2>1. AtStep(t, "reload") /\ status' = status
      BY <1>2 DEF Reload
    <2>2. CASE Done(t)
      <3>1. JobsOK'
        BY <2>1, <2>2, InHand, StepDone DEF Base
      <3> QED
        BY <1>2, <3>1 DEF Reload, Base, memVars, diskVars
    <2>3. CASE Raises(t)
      <3>1. JobsOK'
        BY <2>1, <2>3, InHand, StepRaised DEF Base
      <3> QED
        BY <1>2, <3>1 DEF Reload, Base, memVars, diskVars
    <2>4. CASE /\ setting.active # None /\ Whole(setting.active)
               /\ Begin(t, [job[t] EXCEPT !.profile = profiles[setting.active],
                                          !.todo = Apply \o Tail(@)])
      <3> DEFINE s == Apply \o Tail(j.todo)
                 p == profiles[setting.active]
                 k == [j EXCEPT !.profile = p, !.todo = s]
      <3>1. JobOK(j) /\ Listed(j.todo) /\ j.todo # << >> /\ Head(j.todo) = "reload" /\ j \in Jobs
        BY <2>1, InHand
      <3>2. /\ Listed(s) /\ s # << >> /\ Head(s) = "apply"
            /\ Items(s) = {"apply", "pushCal"} \union Items(Tail(j.todo))
        BY <3>1, ReloadListed
      <3>3. Items(Tail(j.todo)) \subseteq Items(j.todo)
        BY <3>1, TailListed
      <3> HIDE DEF s
      <3>4. s \in Seq(Steps) /\ p \in Profiles
        BY <2>4, <3>2 DEF Listed, Linked, Whole
      <3>5. k \in Jobs /\ k.todo = s /\ k.profile = p /\ k.value = j.value /\ k.name = j.name
        BY <3>1, <3>4 DEF Jobs
      <3>6. job' = [job EXCEPT ![t] = k]
        BY <2>4 DEF Begin, s
      <3> HIDE DEF k, p
      <3>7. JobOK(k)
        BY <3>1, <3>2, <3>3, <3>4, <3>5 DEF JobOK
      <3>8. t # Loop
        BY <2>1, InHand
      <3>9. JobsOK'
        BY <2>1, <3>6, <3>7, <3>8, InHand, JobGiven DEF Base
      <3> QED
        BY <1>2, <3>9 DEF Reload, Base, memVars, diskVars
    <2> QED
      BY <1>2, <2>2, <2>3, <2>4 DEF Reload
  <1>3. CASE ApplyCal(t)
    <2>1. AtStep(t, "apply") /\ status' = status
      BY <1>3 DEF ApplyCal
    <2>2. JobsOK'
      BY <1>3, <2>1, InHand, StepDone DEF ApplyCal, Base
    <2>3. cal' \in Cals
      BY <1>3, <2>1, InHand DEF ApplyCal, Profiles
    <2> QED
      BY <1>3, <2>2, <2>3 DEF ApplyCal, Base, diskVars
  <1>4. CASE PushCal(t)
    <2>1. AtStep(t, "pushCal") /\ status' = status
      BY <1>4 DEF PushCal
    <2>2. JobsOK'
      BY <1>4, <2>1, InHand, StepDone DEF PushCal, Base
    <2>3. told' \in [setting : Pushed \union {None}, cal : Cals \union {None}]
      BY <1>4, <2>1, InHand DEF PushCal, Base, Profiles
    <2> QED
      BY <1>4, <2>2, <2>3 DEF PushCal, Base, memVars, diskVars
  <1>5. CASE SetActive(t)
    <2>1. AtStep(t, "activate") /\ status' = status
      BY <1>5 DEF SetActive
    <2>2. JobsOK'
      BY <1>5, <2>1, InHand, StepDone DEF SetActive, Base
    <2>3. setting' \in Settings
      BY <1>5, <2>1, InHand DEF SetActive, Base, Settings
    <2> QED
      BY <1>5, <2>2, <2>3 DEF SetActive, Base, diskVars
  <1>6. CASE Forget(t)
    <2>1. AtStep(t, "forget") /\ status' = status
      BY <1>6 DEF Forget
    <2>2. CASE Raises(t) /\ UNCHANGED setting
      <3>1. JobsOK'
        BY <2>1, <2>2, InHand, StepRaised DEF Base
      <3> QED
        BY <1>6, <2>2, <3>1 DEF Forget, Base, diskVars
    <2>3. CASE /\ setting' = [setting EXCEPT !.active = None]
               /\ Begin(t, [NoJob EXCEPT !.todo = Save])
      <3> DEFINE k == [NoJob EXCEPT !.todo = Save]
      <3>1. Save \in Seq(Steps) /\ Head(Save) = "snapshot"
        BY SaveListed DEF Listed, Linked
      <3>2. k \in Jobs /\ k.todo = Save
        BY <3>1, NoJobOK DEF Jobs
      <3>3. job' = [job EXCEPT ![t] = k]
        BY <2>3 DEF Begin
      <3> HIDE DEF k
      <3>4. JobOK(k)
        BY <3>1, <3>2, SaveListed DEF JobOK
      <3>5. JobsOK'
        BY <2>1, <3>3, <3>4, InHand, JobGiven DEF Base
      <3>6. setting' \in Settings
        BY <2>3 DEF Settings, Base
      <3> QED
        BY <1>6, <3>5, <3>6 DEF Base, Forget, diskVars
    <2> QED
      BY <1>6, <2>2, <2>3 DEF Forget
  <1>7. CASE Truncate(t)
    <2>1. AtStep(t, "truncate") /\ status' = status
      BY <1>7 DEF Truncate
    <2>2. JobsOK'
      BY <1>7, <2>1, InHand, StepDone DEF Truncate, Base
    <2>3. job[t].name \in Names
      BY <2>1, InHand
    <2>4. profiles' \in [Names -> Profiles \union NotText] /\ unsafe' \subseteq Names
      BY <1>7, <2>3 DEF Truncate, Base, NotText
    <2> QED
      BY <1>7, <2>2, <2>4 DEF Truncate, Base, memVars
  <1>8. CASE Fill(t)
    <2>1. AtStep(t, "fill") /\ status' = status
      BY <1>8 DEF Fill
    <2>2. job[t].name \in Names /\ job[t].profile \in Profiles
      BY <2>1, InHand
    <2>3. JobsOK'
      BY <1>8, <2>1, InHand, StepDone, StepRaised DEF Fill, Base
    <2>4. \A p \in Written(profiles[job[t].name], job[t].profile) : p \in Profiles \union NotText
      BY <2>2 DEF Written, NotText
    <2>5. profiles' \in [Names -> Profiles \union NotText]
      <3>1. CASE UNCHANGED profiles
        BY <3>1 DEF Base
      <3>2. CASE \E p \in Written(profiles[job[t].name], job[t].profile) :
                   profiles' = [profiles EXCEPT ![job[t].name] = p]
        BY <2>4, <3>2 DEF Base
      <3> QED
        BY <1>8, <3>1, <3>2 DEF Fill
    <2>6. broadcasting' \in BOOLEAN
      BY <1>8 DEF Fill, Base
    <2> QED
      BY <1>8, <2>3, <2>5, <2>6 DEF Fill, Base
  <1>9. CASE Snapshot(t)
    <2>1. AtStep(t, "snapshot") /\ status' = status
      BY <1>9 DEF Snapshot
    <2> DEFINE k == [j EXCEPT !.copy = setting, !.todo = Tail(@)]
    <2>2. j \in Jobs /\ Tail(j.todo) \in Seq(Steps) /\ setting \in Settings
      BY <2>1, InHand DEF Base
    <2>3. k \in Jobs
      BY <2>2 DEF Jobs
    <2>4. /\ k.todo = Tail(j.todo) /\ k.value = j.value /\ k.name = j.name
          /\ k.profile = j.profile /\ k.copy = setting
      BY <2>2 DEF Jobs
    <2>5. After(t, k)
      BY <1>9 DEF Snapshot
    <2> HIDE DEF k
    <2>6. JobsOK'
      BY <2>1, <2>2, <2>3, <2>4, <2>5, InHand, StepTaken
    <2> QED
      BY <1>9, <2>6 DEF Snapshot, Base, memVars, diskVars
  <1>10. CASE OpenTmp(t)
    <2>1. AtStep(t, "open") /\ status' = status
      BY <1>10 DEF OpenTmp
    <2> DEFINE k == [j EXCEPT !.fd = "tmp", !.todo = Tail(@)]
    <2>2. j \in Jobs /\ Tail(j.todo) \in Seq(Steps)
      BY <2>1, InHand
    <2>3. k \in Jobs
      BY <2>2 DEF Jobs
    <2>4. /\ k.todo = Tail(j.todo) /\ k.value = j.value /\ k.name = j.name
          /\ k.profile = j.profile /\ k.copy = j.copy
      BY <2>2 DEF Jobs
    <2>5. After(t, k)
      BY <1>10 DEF OpenTmp
    <2> HIDE DEF k
    <2>6. JobsOK'
      BY <2>1, <2>3, <2>4, <2>5, InHand, StepTaken
    <2> QED
      BY <1>10, <2>6 DEF OpenTmp, Base, memVars, NotText
  <1>11. CASE WriteTmp(t)
    <2>1. AtStep(t, "write") /\ status' = status
      BY <1>11 DEF WriteTmp
    <2>2. j \in Jobs /\ Tail(j.todo) \in Seq(Steps) /\ j.copy \in Settings
      BY <2>1, InHand
    <2>3. CASE /\ CASE j.fd = "tmp"  -> tmp' \in Written(tmp, j.copy) /\ UNCHANGED file
                     [] j.fd = "file" -> file' \in Written(file, j.copy) /\ UNCHANGED tmp
                     [] OTHER -> UNCHANGED <<tmp, file>>
               /\ After(t, [j EXCEPT !.fd = "none", !.todo = Tail(@)])
      <3> DEFINE k == [j EXCEPT !.fd = "none", !.todo = Tail(@)]
      <3>1. k \in Jobs
        BY <2>2 DEF Jobs
      <3>2. /\ k.todo = Tail(j.todo) /\ k.value = j.value /\ k.name = j.name
            /\ k.profile = j.profile /\ k.copy = j.copy
        BY <2>2 DEF Jobs
      <3>3. After(t, k)
        BY <2>3
      <3> HIDE DEF k
      <3>4. JobsOK'
        BY <2>1, <3>1, <3>2, <3>3, InHand, StepTaken
      <3>5. tmp' \in Settings \union NotText /\ file' \in Settings \union NotText
        BY <2>2, <2>3 DEF Written, NotText, Base
      <3> QED
        BY <1>11, <3>4, <3>5 DEF WriteTmp, Base, memVars
    <2>4. CASE /\ tmp' = Absent
               /\ job' = [Renamed("tmp", "gone") EXCEPT ![t] = NoJob]
               /\ file' \in IF j.fd = "file" THEN {file, Torn} ELSE {file}
      <3>1. \A u \in Ids : job[u] \in Jobs
        BY DEF Base, JobsOK
      <3>2. \A u \in Ids : [job[u] EXCEPT !.fd = "gone"] \in Jobs
        BY <3>1 DEF Jobs
      <3>3. job' \in [Ids -> Jobs] /\ job'[t] = NoJob
        BY <2>4, <3>1, <3>2, NoJobOK DEF Renamed
      <3>4. \A u \in Ids \ {t} : job'[u] \in {job[u], [job[u] EXCEPT !.fd = "gone"]}
        BY <2>4 DEF Renamed
      <3>5. \A u \in Ids \ {t} :
               /\ job'[u].todo = job[u].todo /\ job'[u].value = job[u].value
               /\ job'[u].name = job[u].name /\ job'[u].profile = job[u].profile
               /\ job'[u].copy = job[u].copy
        BY <3>1, <3>4 DEF Jobs
      <3>6. JobsOK'
        BY <2>1, <3>3, <3>5, InHand, FilesRenamed
      <3> QED
        BY <1>11, <2>4, <3>6 DEF WriteTmp, Base, memVars, NotText
    <2> QED
      BY <1>11, <2>3, <2>4 DEF WriteTmp
  <1>12. CASE Replace(t)
    <2>1. AtStep(t, "replace") /\ status' = status
      BY <1>12 DEF Replace
    <2>2. CASE tmp = Absent
      <3>1. Done(t) /\ UNCHANGED <<file, tmp>>
        BY <1>12, <2>2 DEF Replace
      <3>2. JobsOK'
        BY <2>1, <3>1, InHand, StepDone DEF Base
      <3> QED
        BY <1>12, <3>1, <3>2 DEF Replace, Base, memVars
    <2>3. CASE tmp # Absent
      <3>1. \A u \in Ids : job[u] \in Jobs
        BY DEF Base, JobsOK
      <3>2. \A u \in Ids : /\ [job[u] EXCEPT !.fd = "gone"] \in Jobs
                            /\ [job[u] EXCEPT !.fd = "file"] \in Jobs
        BY <3>1 DEF Jobs
      <3> DEFINE g == [u \in Ids |->
                        CASE job[u].fd = "file" -> [job[u] EXCEPT !.fd = "gone"]
                          [] job[u].fd = "tmp"  -> [job[u] EXCEPT !.fd = "file"]
                          [] OTHER -> job[u]]
      <3>3. job' = [g EXCEPT ![t] = NoJob] /\ file' = tmp /\ tmp' = Absent
        BY <1>12, <2>3 DEF Replace
      <3>4. \A u \in Ids : g[u] \in {job[u], [job[u] EXCEPT !.fd = "gone"], [job[u] EXCEPT !.fd = "file"]}
        OBVIOUS
      <3>5. g \in [Ids -> Jobs]
        BY <3>1, <3>2, <3>4
      <3> HIDE DEF g
      <3>6. job' \in [Ids -> Jobs] /\ job'[t] = NoJob /\ \A u \in Ids \ {t} : job'[u] = g[u]
        BY <3>3, <3>5, NoJobOK
      <3>7. \A u \in Ids \ {t} :
               /\ job'[u].todo = job[u].todo /\ job'[u].value = job[u].value
               /\ job'[u].name = job[u].name /\ job'[u].profile = job[u].profile
               /\ job'[u].copy = job[u].copy
        <4> SUFFICES ASSUME NEW u \in Ids \ {t}
                     PROVE  /\ job'[u].todo = job[u].todo /\ job'[u].value = job[u].value
                            /\ job'[u].name = job[u].name /\ job'[u].profile = job[u].profile
                            /\ job'[u].copy = job[u].copy
          OBVIOUS
        <4>1. job[u] \in Jobs /\ job'[u] = g[u]
          BY <3>1, <3>6
        <4>2. job'[u] \in {job[u], [job[u] EXCEPT !.fd = "gone"], [job[u] EXCEPT !.fd = "file"]}
          BY <3>4, <4>1
        <4> QED
          BY <4>1, <4>2 DEF Jobs
      <3>8. JobsOK'
        BY <2>1, <3>6, <3>7, InHand, FilesRenamed
      <3> QED
        BY <1>12, <3>3, <3>8 DEF Replace, Base, memVars, NotText
    <2> QED
      BY <2>2, <2>3
  <1> QED
    BY <1>1, <1>2, <1>3, <1>4, <1>5, <1>6, <1>7, <1>8, <1>9, <1>10, <1>11, <1>12 DEF Step

\* What an upload, and the run flushed, have in hand is a profile.
LEMMA LoopProfiles ==
  ASSUME Base, NEW n \in Names, Whole(n), profiles[n].total < MaxTotal
  PROVE  Credited(profiles[n]) \in Profiles /\ Credited(profiles[n]).total = profiles[n].total + 1
  BY StoreAssumption DEF Whole, Profiles, Credited

\* What a boot loads is settings.
LEMMA LoadedSettings == Loaded(file) \in Settings
  BY StoreAssumption DEF Loaded, Defaults, Settings

LEMMA BaseInvariant == Spec => []Base
  <1>1. ASSUME Base, [Next]_vars
        PROVE  Base'
    <2>1. CASE \E t \in Threads : Request(t)
      BY <1>1, <2>1, BaseRequest
    <2>2. CASE \E t \in Ids : Step(t)
      BY <1>1, <2>2, BaseStep
    <2>3. CASE \E n \in Names, p \in Profiles : Upload(n, p)
      <3> PICK n \in Names, p \in Profiles : Upload(n, p)
        BY <2>3
      <3>1. BeginProfile(Loop, n, p, TRUE, WriteProfile) /\ status = "up" /\ status' = "up"
        BY DEF Upload, Idle
      <3>2. JobsOK'
        BY <1>1, <3>1, InIds, WriteListed, ProfileBegun
      <3> QED
        BY <1>1, <3>2 DEF Upload, Base, memVars, diskVars
    <2>4. CASE FlushRun
      <3>1. status = "up" /\ status' = "up"
        BY <2>4 DEF FlushRun, Idle
      <3>2. setting.active \in Names
        BY <1>1, <2>4 DEF FlushRun, Base, Settings
      <3>3. CASE /\ Whole(setting.active) /\ profiles[setting.active].total < MaxTotal
                 /\ BeginProfile(Loop, setting.active, Credited(profiles[setting.active]),
                                 FALSE, WriteProfile)
                 /\ UNCHANGED broadcasting
        <4> DEFINE p == Credited(profiles[setting.active])
                   n == setting.active
        <4>1. p \in Profiles
          BY <1>1, <3>2, <3>3, LoopProfiles
        <4>2. BeginProfile(Loop, n, p, FALSE, WriteProfile)
          BY <3>3
        <4> HIDE DEF p
        <4>3. JobsOK'
          BY <1>1, <3>1, <3>2, <4>1, <4>2, InIds, WriteListed, ProfileBegun
        <4> QED
          BY <1>1, <2>4, <3>3, <4>3 DEF FlushRun, Base, diskVars
      <3>4. CASE broadcasting' = FALSE /\ UNCHANGED job
        BY <1>1, <2>4, <3>4 DEF FlushRun, Base, JobsOK, diskVars
      <3> QED
        BY <2>4, <3>3, <3>4 DEF FlushRun
    <2>5. CASE \E n \in Names : Writeback(n)
      BY <1>1, <2>5 DEF Writeback, Base, JobsOK, memVars
    <2>6. CASE Boot
      <3>1. setting' \in Settings /\ setting'.pushed \in Pushed /\ setting'.active \in Names \union {None}
        BY <2>6, LoadedSettings DEF Boot, Settings
      <3>2. \A n \in Names : Whole(n) => profiles[n].cal \in Cals
        BY DEF Whole, Profiles
      <3>3. cal' \in Cals \union {None} /\ status' \in {"up", "failed"}
        BY <2>6, <3>1, <3>2 DEF Boot
      <3>4. told' \in [setting : Pushed \union {None}, cal : Cals \union {None}]
        <4>1. CASE status' = "up"
          BY <2>6, <3>1, <3>3, <4>1 DEF Boot
        <4>2. CASE status' # "up"
          BY <1>1, <2>6, <4>2 DEF Boot, Base
        <4> QED
          BY <4>1, <4>2
      <3>5. broadcasting' \in BOOLEAN
        BY <2>6 DEF Boot
      <3>6. JobsOK'
        BY <1>1, <2>6 DEF Boot, Base, JobsOK
      <3> QED
        BY <1>1, <2>6, <3>1, <3>3, <3>4, <3>5, <3>6 DEF Boot, Base, diskVars
    <2>7. CASE Stop
      <3>1. job' \in [Ids -> Jobs] /\ \A t \in Ids : job'[t] = NoJob
        BY <2>7, NoJobOK DEF Stop
      <3>2. JobsOK'
        BY <3>1, InIds, NoJobOK DEF JobsOK
      <3>3. profiles' \in [Names -> Profiles \union NotText]
        <4> PICK cut \in SUBSET unsafe :
                   profiles' = [n \in Names |-> IF n \in cut THEN Empty ELSE profiles[n]]
          BY <2>7 DEF Stop
        <4> QED
          BY <1>1 DEF Base, NotText
      <3>4. setting' \in Settings
        BY <2>7, StoreAssumption DEF Stop, Defaults, Settings
      <3> QED
        BY <1>1, <2>7, <3>2, <3>3, <3>4 DEF Stop, Base, NotText
    <2>8. CASE UNCHANGED vars
      BY <1>1, <2>8 DEF Base, JobsOK, vars, memVars, diskVars
    <2> QED
      BY <1>1, <2>1, <2>2, <2>3, <2>4, <2>5, <2>6, <2>7, <2>8 DEF Next
  <1> QED
    BY <1>1, BaseInit, PTL DEF Spec

-----------------------------------------------------------------------------
(* Totals. *)

\* A thread with a profile in hand that it will write, or is writing.
Filling(t) == job[t].todo # << >> /\ Head(job[t].todo) \in {"truncate", "fill"}

\* A profile in the hands of one thread only: what will be written has the
\* total that the ledger will have by then.
Hand(t) ==
  /\ Head(job[t].todo) = "fill" => profiles[job[t].name] = Empty
  /\ ~job[t].fresh =>
       job[t].profile.total = ledger[job[t].name] + (IF t = Loop THEN 1 ELSE 0)

FillsIn(t, n) == Filling(t) /\ job[t].name = n

Kempt(n) ==
  /\ \A t \in Ids : FillsIn(t, n) => Hand(t) /\ \A u \in Ids \ {t} : ~FillsIn(u, n)
  /\ Whole(n) => profiles[n].total = ledger[n]

Totals ==
  /\ ledger \in [Names -> 0..MaxTotal] /\ muddled \subseteq Names
  /\ \A n \in Names \ muddled : Kempt(n)

LEMMA FillingWrites ==
  ASSUME JobsOK, NEW t \in Ids
  PROVE  WritesProfile(t) <=> Filling(t)
  <1> DEFINE s == job[t].todo
  <1>1. Listed(s) /\ s \in Seq(Steps) /\ DOMAIN s = 1..Len(s)
    <2>1. Listed(s)
      BY DEF JobsOK, JobOK
    <2>2. s \in Seq(Steps)
      BY <2>1 DEF Listed, Linked
    <2> QED
      BY <2>1, <2>2
  <1>2. WritesProfile(t) <=> "fill" \in Items(s)
    BY <1>1 DEF WritesProfile, Items
  <1>3. CASE s = << >>
    BY <1>1, <1>2, <1>3 DEF Filling, Items
  <1>4. CASE s # << >>
    BY <1>1, <1>2, <1>4, FillsFirst DEF Filling
  <1> QED
    BY <1>3, <1>4

\* One that takes up a profile undisturbed is alone in that.
LEMMA Alone ==
  ASSUME JobsOK, NEW t \in Ids, Idle(t), NEW n \in Names, TakesUp(n), Totals
  PROVE  /\ ~Filling(t) /\ muddled' \subseteq Names
         /\ muddled \subseteq muddled' /\ muddled' \subseteq muddled \union {n}
         /\ n \notin muddled' => \A u \in Ids : ~FillsIn(u, n)
  <1>1. ~Filling(t)
    BY NoJobOK DEF Idle, Filling
  <1>2. \A u \in Ids : FillsIn(u, n) => WritesProfile(u) /\ job[u].name = n
    BY FillingWrites DEF FillsIn
  <1> QED
    BY <1>1, <1>2 DEF TakesUp, Totals

\* What the steps of the others leave of a thread's job.
SameJob(u) ==
  /\ job'[u].todo = job[u].todo /\ job'[u].name = job[u].name
  /\ job'[u].profile = job[u].profile /\ (job'[u].fresh <=> job[u].fresh)

\* A profile that a step leaves alone.
LEMMA KeptKempt ==
  ASSUME NEW n \in Names, Kempt(n), NEW t \in Ids, ~FillsIn(t, n)',
         \A u \in Ids \ {t} : SameJob(u),
         profiles'[n] = profiles[n], ledger'[n] = ledger[n]
  PROVE  Kempt(n)'
  <1>1. \A u \in Ids \ {t} : FillsIn(u, n)' => FillsIn(u, n) /\ (Hand(u) => Hand(u)')
    BY DEF SameJob, Filling, FillsIn, Hand
  <1>2. \A u \in Ids : FillsIn(u, n)' => Hand(u)' /\ \A w \in Ids \ {u} : ~FillsIn(w, n)'
    BY <1>1 DEF Kempt
  <1>3. Whole(n)' => profiles'[n].total = ledger'[n]
    BY DEF Kempt, Whole
  <1> QED
    BY <1>2, <1>3 DEF Kempt

\* A step that writes no profile, of a thread that will not write one next.
LEMMA Quiet ==
  ASSUME Totals, NEW t \in Ids, UNCHANGED <<profiles, ledger, muddled>>,
         ~Filling(t)', \A u \in Ids \ {t} : SameJob(u)
  PROVE  Totals'
  <1>1. \A n \in Names : ~FillsIn(t, n)'
    BY DEF FillsIn
  <1>2. ASSUME NEW n \in Names \ muddled' PROVE Kempt(n)'
    BY <1>1, <1>2, KeptKempt DEF Totals
  <1> QED
    BY <1>2 DEF Totals

\* A thread gets a profile in hand, to write.
LEMMA TakesInHand ==
  ASSUME JobsOK, Totals, NEW t \in Ids, Idle(t), NEW n \in Names, TakesUp(n),
         UNCHANGED <<profiles, ledger>>,
         \A u \in Ids \ {t} : job'[u] = job[u],
         Head(job'[t].todo) = "truncate", job'[t].name = n,
         n \notin muddled /\ ~job'[t].fresh =>
           job'[t].profile.total = ledger[n] + (IF t = Loop THEN 1 ELSE 0)
  PROVE  Totals'
  <1>1. /\ muddled' \subseteq Names /\ muddled \subseteq muddled'
        /\ n \notin muddled' => \A u \in Ids : ~FillsIn(u, n)
    BY Alone
  <1>2. \A u \in Ids \ {t} : SameJob(u)
    BY DEF SameJob
  <1>3. ASSUME NEW m \in Names \ muddled' PROVE Kempt(m)'
    <2>1. Kempt(m)
      BY <1>1, <1>3 DEF Totals
    <2>2. CASE m # n
      <3>1. ~FillsIn(t, m)'
        BY <2>2 DEF FillsIn
      <3> QED
        BY <1>2, <2>1, <3>1, KeptKempt
    <2>3. CASE m = n
      <3>1. \A u \in Ids \ {t} : ~FillsIn(u, n)'
        BY <1>1, <1>3, <2>3 DEF FillsIn, Filling
      <3>2. Hand(t)'
        BY <1>1, <1>3, <2>3 DEF Hand
      <3>3. Whole(n)' => profiles'[n].total = ledger'[n]
        BY <2>1, <2>3 DEF Kempt, Whole
      <3> QED
        BY <2>3, <3>1, <3>2, <3>3 DEF Kempt
    <2> QED
      BY <2>2, <2>3
  <1> QED
    BY <1>1, <1>3 DEF Totals

\* A thread that is not cutting a profile off does not fill one next.
LEMMA GoesOn ==
  ASSUME Base, NEW t \in Ids, NEW step, AtStep(t, step), step # "truncate",
         NEW k, k.todo = Tail(job[t].todo), After(t, k)
  PROVE  ~Filling(t)' /\ \A u \in Ids \ {t} : SameJob(u)
  <1> DEFINE r == IF k.todo = << >> THEN NoJob ELSE k
  <1>1. Listed(job[t].todo) /\ job[t].todo # << >> /\ Head(job[t].todo) = step
    BY InHand
  <1>2. Tail(job[t].todo) # << >> => Follows(step, Head(Tail(job[t].todo)))
    BY <1>1, TailListed
  <1>3. r.todo = << >> \/ Head(r.todo) \notin {"truncate", "fill"}
    BY <1>2, NoJobOK DEF Follows
  <1>4. job' = [job EXCEPT ![t] = r]
    BY DEF After
  <1> HIDE DEF r
  <1>5. job'[t] = r /\ \A u \in Ids \ {t} : job'[u] = job[u]
    BY <1>4 DEF Base, JobsOK
  <1> QED
    BY <1>3, <1>5 DEF Filling, SameJob

\* A thread that raises writes nothing either.
LEMMA GivesUp ==
  ASSUME Base, NEW t \in Ids, Raises(t)
  PROVE  ~Filling(t)' /\ \A u \in Ids \ {t} : SameJob(u)
  <1>1. job'[t] = NoJob /\ \A u \in Ids \ {t} : job'[u] = job[u]
    BY DEF Raises, Base, JobsOK
  <1> QED
    BY <1>1, NoJobOK DEF Filling, SameJob

\* A new list that does not begin with a write.
LEMMA BeginsQuiet ==
  ASSUME Base, NEW t \in Ids, NEW j, Begin(t, j), Head(j.todo) \notin {"truncate", "fill"}
  PROVE  ~Filling(t)' /\ \A u \in Ids \ {t} : SameJob(u)
  <1>1. job'[t] = j /\ \A u \in Ids \ {t} : job'[u] = job[u]
    BY DEF Begin, Base, JobsOK
  <1> QED
    BY <1>1 DEF Filling, SameJob

\* A thread's list begins with a write.
LEMMA BeginsWriting ==
  ASSUME Base, Totals, NEW t \in Ids, NEW n \in Names, NEW p \in Profiles, NEW f \in BOOLEAN,
         NEW s, Listed(s), s # << >>, s[1] = "truncate",
         t = Loop => Items(s) \subseteq {"truncate", "fill"},
         Idle(t), status' = "up", UNCHANGED <<profiles, ledger>>, TakesUp(n),
         BeginProfile(t, n, p, f, s),
         n \notin muddled /\ ~f => p.total = ledger[n] + (IF t = Loop THEN 1 ELSE 0)
  PROVE  Totals'
  <1>1. /\ job'[t].name = n /\ job'[t].profile = p /\ (job'[t].fresh <=> f)
        /\ job'[t].todo = s /\ Head(s) = s[1]
        /\ \A u \in Ids \ {t} : job'[u] = job[u]
    BY ProfileBegun DEF Idle
  <1> QED
    BY <1>1, TakesInHand DEF Base

LEMMA TotalsRequest ==
  ASSUME Base, Totals, NEW t \in Threads, Request(t)
  PROVE  Totals'
  <1>1. t \in Ids /\ t # Loop
    BY InIds
  <1>2. CASE \E v \in Pushed : SetPushed(t, v)
    <2> PICK v \in Pushed : SetPushed(t, v)
      BY <1>2
    <2> DEFINE j == [NoJob EXCEPT !.value = v, !.todo = <<"push">> \o Save]
    <2>1. Head(<<"push">> \o Save) = "push"
      BY PushListed DEF Listed, Linked
    <2>2. Begin(t, j) /\ j.todo = <<"push">> \o Save
      BY DEF SetPushed, NoJob
    <2> HIDE DEF j
    <2>3. ~Filling(t)' /\ \A u \in Ids \ {t} : SameJob(u)
      BY <1>1, <2>1, <2>2, BeginsQuiet
    <2> QED
      BY <1>1, <2>3, Quiet DEF SetPushed, diskVars, raceVars
  <1>3. CASE \E v \in Kept : SetKept(t, v)
    <2> PICK v \in Kept : SetKept(t, v)
      BY <1>3
    <2> DEFINE j == [NoJob EXCEPT !.todo = Save]
    <2>1. Begin(t, j) /\ j.todo = Save /\ Head(Save) = "snapshot"
      BY DEF SetKept, NoJob, Save
    <2> HIDE DEF j
    <2>2. ~Filling(t)' /\ \A u \in Ids \ {t} : SameJob(u)
      BY <1>1, <2>1, BeginsQuiet
    <2> QED
      BY <1>1, <2>2, Quiet DEF SetKept, diskVars, raceVars
  <1>4. CASE RestoreDefaults(t)
    <2> DEFINE s == <<"push", "reload">> \o Save
               j == [NoJob EXCEPT !.value = DefaultPushed, !.todo = s]
    <2>1. Head(s) = "push"
      BY RestoreListed DEF Listed, Linked
    <2>2. Begin(t, j) /\ j.todo = s
      BY <1>4 DEF RestoreDefaults, NoJob
    <2> HIDE DEF j
    <2>3. ~Filling(t)' /\ \A u \in Ids \ {t} : SameJob(u)
      BY <1>1, <2>1, <2>2, BeginsQuiet
    <2> QED
      BY <1>1, <1>4, <2>3, Quiet DEF RestoreDefaults, diskVars, raceVars
  <1>5. CASE \E c \in Cals : SetCoefficients(t, c)
    <2> PICK c \in Cals : SetCoefficients(t, c)
      BY <1>5
    <2> DEFINE j == [NoJob EXCEPT !.profile = [cal |-> c, total |-> 0], !.todo = <<"pushCal">>]
    <2>1. Begin(t, j) /\ j.todo = <<"pushCal">> /\ Head(<<"pushCal">>) = "pushCal"
      BY DEF SetCoefficients, NoJob
    <2> HIDE DEF j
    <2>2. ~Filling(t)' /\ \A u \in Ids \ {t} : SameJob(u)
      BY <1>1, <2>1, BeginsQuiet
    <2> QED
      BY <1>1, <2>2, Quiet DEF SetCoefficients, diskVars, raceVars
  <1>6. CASE GetCoefficients(t)
    <2> DEFINE j == [NoJob EXCEPT !.todo = <<"reload">>]
    <2>1. Begin(t, j) /\ j.todo = <<"reload">> /\ Head(<<"reload">>) = "reload"
      BY <1>6 DEF GetCoefficients, NoJob
    <2> HIDE DEF j
    <2>2. ~Filling(t)' /\ \A u \in Ids \ {t} : SameJob(u)
      BY <1>1, <2>1, BeginsQuiet
    <2> QED
      BY <1>1, <1>6, <2>2, Quiet DEF GetCoefficients, diskVars, raceVars
  <1>7. CASE \E n \in Names, c \in Cals : ApplyForm(t, n, c)
    <2> PICK n \in Names, c \in Cals : ApplyForm(t, n, c)
      BY <1>7
    <2> DEFINE s == WriteProfile \o Apply \o <<"activate">> \o Save
    <2>1. Listed(s) /\ s # << >> /\ s[1] = "truncate"
      BY FormListed
    <2>2. /\ status = "up" /\ status' = "up" /\ UNCHANGED <<profiles, ledger>>
          /\ Idle(t) /\ TakesUp(n)
      BY DEF ApplyForm, Idle, diskVars
    <2>4. \/ Whole(n) /\ BeginProfile(t, n, [profiles[n] EXCEPT !.cal = c], FALSE, s)
          \/ BeginProfile(t, n, [cal |-> c, total |-> 0], TRUE, s)
      BY DEF ApplyForm
    <2> HIDE DEF s
    <2>5. CASE Whole(n) /\ BeginProfile(t, n, [profiles[n] EXCEPT !.cal = c], FALSE, s)
      <3> DEFINE p == [profiles[n] EXCEPT !.cal = c]
      <3>1. p \in Profiles /\ p.total = profiles[n].total /\ BeginProfile(t, n, p, FALSE, s)
        BY <2>5, Begun
      <3> HIDE DEF p
      <3>2. n \notin muddled => p.total = ledger[n] + (IF t = Loop THEN 1 ELSE 0)
        BY <1>1, <2>5, <3>1 DEF Totals, Kempt
      <3> QED
        BY <1>1, <2>1, <2>2, <3>1, <3>2, Begun, BeginsWriting
    <2>6. CASE BeginProfile(t, n, [cal |-> c, total |-> 0], TRUE, s)
      <3> DEFINE p == [cal |-> c, total |-> 0]
      <3>1. p \in Profiles /\ BeginProfile(t, n, p, TRUE, s)
        BY <2>6, Begun
      <3> HIDE DEF p
      <3> QED
        BY <1>1, <2>1, <2>2, <3>1, Begun, BeginsWriting
    <2> QED
      BY <2>4, <2>5, <2>6
  <1>8. CASE \E n \in Names : Activate(t, n)
    <2> PICK n \in Names : Activate(t, n)
      BY <1>8
    <2> DEFINE s == Apply \o <<"activate">> \o Save
    <2>1. Head(s) = "apply"
      BY ActivateListed DEF Listed, Linked
    <2> DEFINE j == [NoJob EXCEPT !.name = n, !.profile = profiles[n], !.fresh = FALSE, !.todo = s]
    <2>2. Begin(t, j) /\ j.todo = s
      BY DEF Activate, BeginProfile, NoJob
    <2> HIDE DEF j
    <2>3. ~Filling(t)' /\ \A u \in Ids \ {t} : SameJob(u)
      BY <1>1, <2>1, <2>2, BeginsQuiet
    <2> QED
      BY <1>1, <2>3, Quiet DEF Activate, diskVars, raceVars
  <1>9. CASE \E n \in Names : SaveCurrent(t, n)
    <2> PICK n \in Names : SaveCurrent(t, n)
      BY <1>9
    <2> DEFINE p == [profiles[n] EXCEPT !.cal = IF cal = None THEN @ ELSE cal]
    <2>1. /\ status = "up" /\ status' = "up" /\ UNCHANGED <<profiles, ledger>>
          /\ Idle(t) /\ TakesUp(n) /\ Whole(n) /\ BeginProfile(t, n, p, FALSE, WriteProfile)
      BY DEF SaveCurrent, Idle, diskVars
    <2>3. PICK c \in Cals : TRUE
      BY StoreAssumption
    <2>4. p \in Profiles /\ p.total = profiles[n].total
      BY <2>1, <2>3, Begun
    <2> HIDE DEF p
    <2>5. n \notin muddled => p.total = ledger[n] + (IF t = Loop THEN 1 ELSE 0)
      BY <1>1, <2>1, <2>4 DEF Totals, Kempt
    <2> QED
      BY <1>1, <2>1, <2>4, <2>5, Begun, WriteListed, BeginsWriting
  <1>10. CASE \E n \in Names : Create(t, n)
    <2> PICK n \in Names : Create(t, n)
      BY <1>10
    <2> DEFINE p == [cal |-> CalInForce, total |-> 0]
    <2>1. /\ status = "up" /\ status' = "up" /\ UNCHANGED <<profiles, ledger>>
          /\ Idle(t) /\ TakesUp(n) /\ BeginProfile(t, n, p, TRUE, WriteProfile)
      BY DEF Create, Idle, diskVars
    <2>3. PICK c \in Cals : TRUE
      BY StoreAssumption
    <2>4. p \in Profiles
      BY <2>3, Begun
    <2> HIDE DEF p
    <2> QED
      BY <1>1, <2>1, <2>4, Begun, WriteListed, BeginsWriting
  <1>11. CASE \E n \in Names : Delete(t, n)
    <2> PICK n \in Names : Delete(t, n)
      BY <1>11
    <2>1. /\ muddled' \subseteq Names /\ muddled \subseteq muddled'
          /\ n \notin muddled' => \A u \in Ids : ~FillsIn(u, n)
      BY <1>1, Alone DEF Base, Delete
    <2> DEFINE j == [NoJob EXCEPT !.name = n, !.profile = None, !.fresh = FALSE, !.todo = <<"forget">>]
    <2>2. Begin(t, j) /\ j.todo = <<"forget">> /\ Head(<<"forget">>) = "forget"
      BY DEF Delete, BeginProfile, NoJob
    <2> HIDE DEF j
    <2>3. ~Filling(t)' /\ \A u \in Ids \ {t} : SameJob(u)
      BY <1>1, <2>2, BeginsQuiet
    <2>4. /\ profiles'[n] = Absent /\ \A m \in Names \ {n} : profiles'[m] = profiles[m]
          /\ \A m \in Names \ {n} : ledger'[m] = ledger[m]
      BY DEF Delete, Base, Totals
    <2>5. ledger' \in [Names -> 0..MaxTotal]
      BY StoreAssumption DEF Delete, Totals
    <2>6. Absent \notin Profiles
      BY StoreAssumption DEF NotText
    <2>7. ASSUME NEW m \in Names \ muddled' PROVE Kempt(m)'
      <3>1. CASE m = n
        <4>1. \A u \in Ids : ~FillsIn(u, n)'
          BY <2>1, <2>3, <2>7, <3>1 DEF FillsIn, Filling, SameJob
        <4> QED
          BY <2>4, <2>6, <3>1, <4>1 DEF Kempt, Whole
      <3>2. CASE m # n
        <4>1. Kempt(m)
          BY <2>1, <2>7 DEF Totals
        <4>2. ~FillsIn(t, m)'
          BY <2>3 DEF FillsIn
        <4> QED
          BY <1>1, <2>3, <2>4, <3>2, <4>1, <4>2, KeptKempt
      <3> QED
        BY <3>1, <3>2
    <2> QED
      BY <2>1, <2>5, <2>7 DEF Totals
  <1> QED
    BY <1>2, <1>3, <1>4, <1>5, <1>6, <1>7, <1>8, <1>9, <1>10, <1>11 DEF Request

LEMMA TotalsStep ==
  ASSUME Base, Totals, NEW t \in Ids, Step(t)
  PROVE  Totals'
  <1> DEFINE j == job[t]
  <1>1. ASSUME NEW step, AtStep(t, step), step # "truncate", Done(t) \/ Raises(t),
               UNCHANGED <<profiles, ledger, muddled>>
        PROVE  Totals'
    <2>1. ~Filling(t)' /\ \A u \in Ids \ {t} : SameJob(u)
      <3>1. CASE Raises(t)
        BY <3>1, GivesUp
      <3>2. CASE Done(t)
        <4> DEFINE k == [j EXCEPT !.todo = Tail(@)]
        <4>1. After(t, k)
          BY <3>2 DEF Done
        <4>2. k.todo = Tail(j.todo)
          BY <1>1, InHand DEF Jobs
        <4> HIDE DEF k
        <4> QED
          BY <1>1, <4>1, <4>2, GoesOn
      <3> QED
        BY <1>1, <3>1, <3>2
    <2> QED
      BY <1>1, <2>1, Quiet
  <1>2. CASE Push(t)
    BY <1>1, <1>2 DEF Push, diskVars, raceVars
  <1>3. CASE Reload(t)
    <2>1. AtStep(t, "reload") /\ UNCHANGED <<profiles, ledger, muddled>>
      BY <1>3 DEF Reload, diskVars, raceVars
    <2>2. CASE Done(t) \/ Raises(t)
      BY <1>1, <2>1, <2>2
    <2>3. CASE Begin(t, [j EXCEPT !.profile = profiles[setting.active], !.todo = Apply \o Tail(@)])
      <3> DEFINE k == [j EXCEPT !.profile = profiles[setting.active], !.todo = Apply \o Tail(@)]
      <3>1. Listed(j.todo) /\ j.todo # << >> /\ Head(j.todo) = "reload" /\ j \in Jobs
        BY <2>1, InHand
      <3>2. Head(Apply \o Tail(j.todo)) = "apply"
        BY <3>1, ReloadListed
      <3>3. k.todo = Apply \o Tail(j.todo) /\ Begin(t, k)
        BY <2>3, <3>1 DEF Jobs
      <3> HIDE DEF k
      <3>4. ~Filling(t)' /\ \A u \in Ids \ {t} : SameJob(u)
        BY <3>2, <3>3, BeginsQuiet
      <3> QED
        BY <2>1, <3>4, Quiet
    <2> QED
      BY <1>3, <2>2, <2>3 DEF Reload
  <1>4. CASE ApplyCal(t)
    BY <1>1, <1>4 DEF ApplyCal, diskVars, raceVars
  <1>5. CASE PushCal(t)
    BY <1>1, <1>5 DEF PushCal, diskVars, raceVars
  <1>6. CASE SetActive(t)
    BY <1>1, <1>6 DEF SetActive, diskVars, raceVars
  <1>7. CASE Forget(t)
    <2>1. AtStep(t, "forget") /\ UNCHANGED <<profiles, ledger, muddled>>
      BY <1>7 DEF Forget, diskVars, raceVars
    <2>2. CASE Raises(t)
      BY <1>1, <2>1, <2>2
    <2>3. CASE Begin(t, [NoJob EXCEPT !.todo = Save])
      <3> DEFINE k == [NoJob EXCEPT !.todo = Save]
      <3>1. Begin(t, k) /\ k.todo = Save /\ Head(Save) = "snapshot"
        BY <2>3 DEF NoJob, Save
      <3> HIDE DEF k
      <3>2. ~Filling(t)' /\ \A u \in Ids \ {t} : SameJob(u)
        BY <3>1, BeginsQuiet
      <3> QED
        BY <2>1, <3>2, Quiet
    <2> QED
      BY <1>7, <2>2, <2>3 DEF Forget
  <1>8. CASE Truncate(t)
    <2>0. PICK n \in Names : n = j.name
      BY <1>8, InHand DEF Truncate
    <2> DEFINE k == [j EXCEPT !.todo = Tail(@)]
    <2>1. /\ Listed(j.todo) /\ j.todo # << >> /\ Head(j.todo) = "truncate" /\ n \in Names
          /\ j \in Jobs /\ Done(t) /\ profiles' = [profiles EXCEPT ![n] = Empty]
          /\ UNCHANGED ledger
      BY <1>8, <2>0, InHand DEF Truncate
    <2>2. Tail(j.todo) # << >> /\ Head(Tail(j.todo)) = "fill"
      BY <2>1, TailListed DEF Follows, Lasts
    <2>3. /\ k.todo = Tail(j.todo) /\ k.name = n /\ k.profile = j.profile /\ (k.fresh <=> j.fresh)
          /\ job' = [job EXCEPT ![t] = IF k.todo = << >> THEN NoJob ELSE k]
      BY <2>0, <2>1 DEF Jobs, Done, After
    <2> HIDE DEF k
    <2>4. job'[t] = k /\ \A u \in Ids \ {t} : job'[u] = job[u]
      BY <2>2, <2>3 DEF Base, JobsOK
    <2>5. profiles'[n] = Empty /\ \A m \in Names : m # n => profiles'[m] = profiles[m]
      BY <2>1 DEF Base
    <2>6. Empty \notin Profiles
      BY StoreAssumption DEF NotText
    <2>7. ASSUME NEW m \in Names \ muddled' PROVE Kempt(m)'
      <3>1. Kempt(m) /\ \A u \in Ids \ {t} : SameJob(u)
        BY <1>8, <2>4, <2>7 DEF Totals, SameJob, Truncate, raceVars
      <3>2. CASE m # n
        <4>1. ~FillsIn(t, m)'
          BY <2>3, <2>4, <3>2 DEF FillsIn
        <4> QED
          BY <2>1, <2>5, <3>1, <3>2, <4>1, KeptKempt
      <3>3. CASE m = n
        <4>1. FillsIn(t, n) /\ Hand(t) /\ \A u \in Ids \ {t} : ~FillsIn(u, n)
          BY <2>0, <2>1, <3>1, <3>3 DEF FillsIn, Filling, Kempt
        <4>2. \A u \in Ids \ {t} : ~FillsIn(u, n)'
          BY <2>4, <4>1 DEF FillsIn, Filling
        <4>3. Hand(t)'
          BY <2>0, <2>1, <2>3, <2>4, <2>5, <4>1 DEF Hand
        <4> QED
          BY <2>5, <2>6, <3>3, <4>2, <4>3 DEF Kempt, Whole
      <3> QED
        BY <3>2, <3>3
    <2>8. muddled' \subseteq Names /\ ledger' \in [Names -> 0..MaxTotal]
      BY <1>8, <2>1 DEF Totals, Truncate, raceVars
    <2> QED
      BY <2>7, <2>8 DEF Totals
  <1>9. CASE Fill(t)
    <2>0. PICK n \in Names : n = j.name
      BY <1>9, InHand DEF Fill
    <2>1. /\ AtStep(t, "fill") /\ j.todo # << >> /\ Head(j.todo) = "fill" /\ n \in Names
          /\ j.profile \in Profiles
      BY <1>9, <2>0, InHand DEF Fill
    <2>2. CASE Raises(t) /\ UNCHANGED <<profiles, ledger, muddled>>
      BY <1>1, <2>1, <2>2
    <2>3. CASE /\ IF profiles[n] = Absent THEN UNCHANGED profiles
                  ELSE \E p \in Written(profiles[n], j.profile) :
                         profiles' = [profiles EXCEPT ![n] = p]
               /\ ledger' = [ledger EXCEPT ![n] = IF j.fresh THEN j.profile.total
                                                  ELSE IF t = Loop /\ @ < MaxTotal THEN @ + 1
                                                  ELSE @]
               /\ Done(t)
      <3> DEFINE k == [j EXCEPT !.todo = Tail(@)]
                 new == IF j.fresh THEN j.profile.total
                        ELSE IF t = Loop /\ ledger[n] < MaxTotal THEN ledger[n] + 1
                        ELSE ledger[n]
      <3>1. After(t, k) /\ k.todo = Tail(j.todo)
        BY <2>1, <2>3, InHand DEF Done, Jobs
      <3> HIDE DEF k
      <3>2. ~Filling(t)' /\ \A u \in Ids \ {t} : SameJob(u)
        BY <2>1, <3>1, GoesOn
      <3>3. ledger[n] \in 0..MaxTotal /\ j.profile.total \in 0..MaxTotal /\ MaxTotal \in Nat
        BY <2>1, StoreAssumption DEF Totals, Profiles
      <3>4. new \in 0..MaxTotal
        BY <3>3
      <3>5. ledger' = [ledger EXCEPT ![n] = new]
        BY <2>3
      <3>6. ledger' \in [Names -> 0..MaxTotal] /\ muddled' = muddled
        BY <1>9, <2>1, <3>4, <3>5 DEF Totals, Fill, raceVars
      <3>7. \A m \in Names : m # n => profiles'[m] = profiles[m] /\ ledger'[m] = ledger[m]
        BY <2>3, <3>5 DEF Totals, Base
      <3>8. ASSUME NEW m \in Names \ muddled' PROVE Kempt(m)'
        <4>1. Kempt(m) /\ ~FillsIn(t, m)'
          BY <3>2, <3>6, <3>8 DEF Totals, FillsIn
        <4>2. CASE m # n
          BY <3>2, <3>7, <4>1, <4>2, KeptKempt
        <4>3. CASE m = n
          <5>1. Hand(t) /\ profiles[n] = Empty /\ \A u \in Ids \ {t} : ~FillsIn(u, n)
            BY <2>0, <2>1, <4>1, <4>3 DEF FillsIn, Filling, Kempt, Hand
          <5>2. \A u \in Ids : ~FillsIn(u, n)'
            BY <3>2, <5>1 DEF FillsIn, Filling, SameJob
          <5>3. ledger'[n] = j.profile.total
            <6>1. new = j.profile.total
              <7>1. CASE j.fresh
                BY <7>1
              <7>2. CASE ~j.fresh
                <8>1. j.profile.total = ledger[n] + (IF t = Loop THEN 1 ELSE 0)
                  BY <2>0, <5>1, <7>2 DEF Hand
                <8> QED
                  BY <3>3, <7>2, <8>1
              <7> QED
                BY <7>1, <7>2
            <6> QED
              BY <2>1, <3>5, <6>1 DEF Totals
          <5>4. Empty \notin Profiles
            BY StoreAssumption DEF NotText
          <5>5. Whole(n)' => profiles'[n].total = ledger'[n]
            <6>1. CASE Empty # Absent
              <7>1. profiles'[n] = j.profile
                BY <2>1, <2>3, <5>1, <6>1 DEF Written, Base
              <7> QED
                BY <5>3, <7>1
            <6>2. CASE Empty = Absent
              BY <2>3, <5>1, <5>4, <6>2 DEF Whole
            <6> QED
              BY <6>1, <6>2
          <5> QED
            BY <4>3, <5>2, <5>5 DEF Kempt
        <4> QED
          BY <4>2, <4>3
      <3> HIDE DEF new
      <3> QED
        BY <3>6, <3>8 DEF Totals
    <2> QED
      BY <1>9, <2>0, <2>2, <2>3 DEF Fill, raceVars
  <1>10. CASE Snapshot(t)
    <2> DEFINE k == [j EXCEPT !.copy = setting, !.todo = Tail(@)]
    <2>1. AtStep(t, "snapshot") /\ After(t, k) /\ k.todo = Tail(j.todo)
      BY <1>10, InHand DEF Snapshot, Jobs
    <2> HIDE DEF k
    <2>2. ~Filling(t)' /\ \A u \in Ids \ {t} : SameJob(u)
      BY <2>1, GoesOn
    <2> QED
      BY <1>10, <2>2, Quiet DEF Snapshot, diskVars
  <1>11. CASE OpenTmp(t)
    <2> DEFINE k == [j EXCEPT !.fd = "tmp", !.todo = Tail(@)]
    <2>1. AtStep(t, "open") /\ After(t, k) /\ k.todo = Tail(j.todo)
      BY <1>11, InHand DEF OpenTmp, Jobs
    <2> HIDE DEF k
    <2>2. ~Filling(t)' /\ \A u \in Ids \ {t} : SameJob(u)
      BY <2>1, GoesOn
    <2> QED
      BY <1>11, <2>2, Quiet DEF OpenTmp, raceVars
  <1>12. CASE WriteTmp(t)
    <2>1. AtStep(t, "write") /\ UNCHANGED <<profiles, ledger, muddled>>
      BY <1>12 DEF WriteTmp, raceVars
    <2>2. CASE After(t, [j EXCEPT !.fd = "none", !.todo = Tail(@)])
      <3> DEFINE k == [j EXCEPT !.fd = "none", !.todo = Tail(@)]
      <3>1. After(t, k) /\ k.todo = Tail(j.todo)
        BY <2>1, <2>2, InHand DEF Jobs
      <3> HIDE DEF k
      <3>2. ~Filling(t)' /\ \A u \in Ids \ {t} : SameJob(u)
        BY <2>1, <3>1, GoesOn
      <3> QED
        BY <2>1, <3>2, Quiet
    <2>3. CASE job' = [Renamed("tmp", "gone") EXCEPT ![t] = NoJob]
      <3>1. job'[t] = NoJob
        BY <2>3 DEF Renamed
      <3>2. \A u \in Ids \ {t} : job'[u] \in {job[u], [job[u] EXCEPT !.fd = "gone"]}
        BY <2>3 DEF Renamed
      <3>3. \A u \in Ids : job[u] \in Jobs
        BY DEF Base, JobsOK
      <3>4. \A u \in Ids \ {t} : SameJob(u)
        BY <3>2, <3>3 DEF SameJob, Jobs
      <3>5. ~Filling(t)'
        BY <3>1, NoJobOK DEF Filling
      <3> QED
        BY <2>1, <3>4, <3>5, Quiet
    <2> QED
      BY <1>12, <2>2, <2>3 DEF WriteTmp
  <1>13. CASE Replace(t)
    <2>1. AtStep(t, "replace") /\ UNCHANGED <<profiles, ledger, muddled>>
      BY <1>13 DEF Replace, raceVars
    <2>2. CASE Done(t)
      BY <1>1, <2>1, <2>2
    <2>3. CASE tmp # Absent
      <3> DEFINE g == [u \in Ids |->
                        CASE job[u].fd = "file" -> [job[u] EXCEPT !.fd = "gone"]
                          [] job[u].fd = "tmp"  -> [job[u] EXCEPT !.fd = "file"]
                          [] OTHER -> job[u]]
      <3>1. job' = [g EXCEPT ![t] = NoJob]
        BY <1>13, <2>3 DEF Replace
      <3>2. \A u \in Ids : g[u] \in {job[u], [job[u] EXCEPT !.fd = "gone"], [job[u] EXCEPT !.fd = "file"]}
        OBVIOUS
      <3>3. DOMAIN g = Ids
        OBVIOUS
      <3> HIDE DEF g
      <3>4. job'[t] = NoJob /\ \A u \in Ids \ {t} : job'[u] = g[u]
        BY <3>1, <3>3
      <3>5. \A u \in Ids : job[u] \in Jobs
        BY DEF Base, JobsOK
      <3>6. \A u \in Ids \ {t} : SameJob(u)
        BY <3>2, <3>4, <3>5 DEF SameJob, Jobs
      <3>7. ~Filling(t)'
        BY <3>4, NoJobOK DEF Filling
      <3> QED
        BY <2>1, <3>6, <3>7, Quiet
    <2> QED
      BY <1>13, <2>2, <2>3 DEF Replace
  <1> QED
    BY <1>2, <1>3, <1>4, <1>5, <1>6, <1>7, <1>8, <1>9, <1>10, <1>11, <1>12, <1>13 DEF Step

\* What has no part in it.
LEMMA TotalsStay ==
  ASSUME Totals, UNCHANGED <<job, profiles, ledger, muddled>>
  PROVE  Totals'
  <1>1. \A n \in Names : Kempt(n)' <=> Kempt(n)
    BY DEF Kempt, FillsIn, Filling, Hand, Whole
  <1> QED
    BY <1>1 DEF Totals

LEMMA TotalsInvariant ==
  Spec => [](Base /\ Totals)
  <1>1. Init => Totals
    <2> SUFFICES ASSUME Init PROVE Totals
      OBVIOUS
    <2>1. \A t \in Ids : ~Filling(t)
      BY NoJobOK DEF Init, Filling
    <2>2. Absent \notin Profiles /\ 0 \in 0..MaxTotal
      BY StoreAssumption DEF NotText
    <2> QED
      BY <2>1, <2>2 DEF Init, Totals, Kempt, FillsIn, Whole
  <1>2. ASSUME Base, Base', Totals, [Next]_vars
        PROVE  Totals'
    <2>1. CASE \E t \in Threads : Request(t)
      BY <1>2, <2>1, TotalsRequest
    <2>2. CASE \E t \in Ids : Step(t)
      BY <1>2, <2>2, TotalsStep
    <2>3. CASE \E n \in Names, p \in Profiles : Upload(n, p)
      <3> PICK n \in Names, p \in Profiles : Upload(n, p)
        BY <2>3
      <3>1. /\ status = "up" /\ status' = "up" /\ UNCHANGED <<profiles, ledger>>
            /\ Idle(Loop) /\ TakesUp(n) /\ BeginProfile(Loop, n, p, TRUE, WriteProfile)
        BY DEF Upload, Idle, diskVars
      <3>2. PICK c \in Cals : TRUE
        BY StoreAssumption
      <3> QED
        BY <1>2, <3>1, <3>2, InIds, Begun, WriteListed, BeginsWriting
    <2>4. CASE FlushRun
      <3> DEFINE n == setting.active
      <3>1. /\ status = "up" /\ status' = "up" /\ UNCHANGED <<profiles, ledger>>
            /\ Idle(Loop) /\ n \in Names
        BY <1>2, <2>4 DEF FlushRun, Idle, diskVars, Base, Settings
      <3>2. PICK c \in Cals : TRUE
        BY StoreAssumption
      <3>3. CASE /\ Whole(n) /\ profiles[n].total < MaxTotal
                 /\ BeginProfile(Loop, n, Credited(profiles[n]), FALSE, WriteProfile)
                 /\ TakesUp(n)
        <4> DEFINE p == Credited(profiles[n])
        <4>1. p \in Profiles /\ p.total = profiles[n].total + 1
          BY <1>2, <3>1, <3>3, LoopProfiles
        <4>2. BeginProfile(Loop, n, p, FALSE, WriteProfile)
          BY <3>3
        <4> HIDE DEF p
        <4>3. n \notin muddled => p.total = ledger[n] + (IF Loop = Loop THEN 1 ELSE 0)
          BY <1>2, <3>1, <3>3, <4>1 DEF Totals, Kempt
        <4> QED
          BY <1>2, <3>1, <3>2, <3>3, <4>1, <4>2, <4>3, InIds, Begun, WriteListed, BeginsWriting
      <3>4. CASE UNCHANGED <<job, muddled>>
        BY <1>2, <3>1, <3>4, TotalsStay
      <3> QED
        BY <2>4, <3>3, <3>4 DEF FlushRun
    <2>5. CASE \E n \in Names : Writeback(n)
      BY <1>2, <2>5, TotalsStay DEF Writeback, raceVars
    <2>6. CASE Boot
      BY <1>2, <2>6, TotalsStay DEF Boot, raceVars, diskVars
    <2>7. CASE Stop
      <3>1. \A t \in Ids : ~Filling(t)'
        BY <2>7, NoJobOK DEF Stop, Filling
      <3>2. ledger' = [n \in Names |-> IF profiles'[n] \in Profiles THEN profiles'[n].total ELSE 0]
        BY <2>7 DEF Stop
      <3>3. ledger' \in [Names -> 0..MaxTotal]
        BY <3>2, StoreAssumption DEF Profiles
      <3> QED
        BY <2>7, <3>1, <3>2, <3>3 DEF Stop, Totals, Kempt, FillsIn, Whole
    <2>8. CASE UNCHANGED vars
      BY <1>2, <2>8, TotalsStay DEF vars, raceVars, diskVars
    <2> QED
      BY <1>2, <2>1, <2>2, <2>3, <2>4, <2>5, <2>6, <2>7, <2>8 DEF Next
  <1> QED
    BY <1>1, <1>2, BaseInvariant, PTL DEF Spec

\* A crystal's total is the one it was created or uploaded with and the runs
\* credited to it since: the form applied, the coefficients saved, the run
\* flushed, a full card and a power cut lose or double none, for any number of
\* requests at once, as long as none takes a profile up that another, or the
\* broadcaster, has in hand.
THEOREM TotalsAreKept == Spec => []TotalsAddUp
  <1>1. Base /\ Totals => TotalsAddUp
    <2> SUFFICES ASSUME Base, Totals, NEW n \in Names \ muddled, Whole(n)
                 PROVE  profiles[n].total = ledger[n]
      BY DEF TotalsAddUp
    <2> QED
      BY DEF Totals, Kempt
  <1> QED
    BY <1>1, TotalsInvariant, PTL

-----------------------------------------------------------------------------
(* What the server shows, what the worker was told and what is stored, with *)
(* any number of requests at a time.                                        *)

First(j) == IF j.todo = << >> THEN "none" ELSE Head(j.todo)

Copying == {"open", "write", "replace"}

\* The worker was told of the setting in force, or one thread is about to tell.
PushWays ==
  status = "up" /\ "push" \notin crossed =>
    \/ told.setting = setting.pushed /\ \A u \in Ids : First(job[u]) # "push"
    \/ \E t \in Ids : /\ First(job[t]) = "push" /\ job[t].value = setting.pushed
                      /\ \A u \in Ids \ {t} : First(job[u]) # "push"

\* And of the calibration.
CalWays ==
  status = "up" /\ "pushCal" \notin crossed =>
    \/ told.cal = cal /\ \A u \in Ids : First(job[u]) # "pushCal"
    \/ \E t \in Ids : /\ First(job[t]) = "pushCal" /\ job[t].profile.cal = cal
                      /\ \A u \in Ids \ {t} : First(job[u]) # "pushCal"

\* What is on its way into the settings file is what is in force.
Storing(j) ==
  /\ j.copy = setting
  /\ First(j) = "write" => j.fd = "tmp" /\ tmp = Empty
  /\ First(j) = "replace" => tmp = setting

StoreWays ==
  ~outdated =>
    \A t \in Ids : First(job[t]) \in Copying =>
      Storing(job[t]) /\ \A u \in Ids \ {t} : First(job[u]) \notin Copying

Ways == PushWays /\ CalWays /\ StoreWays /\ outdated \in BOOLEAN

\* What a step of one thread leaves of the others' jobs.
SameWay(u) ==
  /\ job'[u].todo = job[u].todo /\ job'[u].value = job[u].value
  /\ job'[u].profile = job[u].profile /\ job'[u].copy = job[u].copy

LEMMA SameFirst ==
  ASSUME NEW u, SameWay(u)
  PROVE  First(job'[u]) = First(job[u])
  BY DEF SameWay, First

LEMMA AtFirst ==
  ASSUME status = "up", NEW u, NEW step, step # "none"
  PROVE  AtStep(u, step) <=> First(job[u]) = step
  BY DEF AtStep, First

\* A thread that sets nothing, and is not about to send.
LEMMA PushQuiet ==
  ASSUME PushWays, NEW t \in Ids, \A u \in Ids \ {t} : SameWay(u), status = "up",
         First(job[t]) # "push", First(job'[t]) # "push",
         setting'.pushed = setting.pushed, told'.setting = told.setting,
         "push" \in crossed' <=> "push" \in crossed
  PROVE  PushWays'
  <1>1. \A u \in Ids \ {t} : First(job'[u]) = First(job[u]) /\ job'[u].value = job[u].value
    BY SameFirst DEF SameWay
  <1>2. CASE "push" \in crossed'
    BY <1>2 DEF PushWays
  <1>3. CASE told.setting = setting.pushed /\ \A u \in Ids : First(job[u]) # "push"
    <2>1. \A u \in Ids : First(job'[u]) # "push"
      BY <1>1, <1>3
    <2> QED
      BY <1>3, <2>1 DEF PushWays
  <1>4. CASE \E s \in Ids : /\ First(job[s]) = "push" /\ job[s].value = setting.pushed
                            /\ \A u \in Ids \ {s} : First(job[u]) # "push"
    <2>1. PICK s \in Ids : /\ First(job[s]) = "push" /\ job[s].value = setting.pushed
                           /\ \A u \in Ids \ {s} : First(job[u]) # "push"
      BY <1>4
    <2>2. First(job'[s]) = "push" /\ job'[s].value = setting'.pushed
      BY <1>1, <2>1
    <2>3. \A u \in Ids \ {s} : First(job'[u]) # "push"
      BY <1>1, <2>1
    <2> QED
      BY <2>2, <2>3 DEF PushWays
  <1> QED
    BY <1>2, <1>3, <1>4 DEF PushWays

\* A thread sets the setting, and is about to send it.
LEMMA PushBegun ==
  ASSUME NEW t \in Ids, \A u \in Ids \ {t} : SameWay(u), status = "up",
         First(job'[t]) = "push", job'[t].value = setting'.pushed, Overtakes("push")
  PROVE  PushWays'
  <1>1. CASE \E u \in Ids : AtStep(u, "push")
    BY <1>1 DEF Overtakes, PushWays
  <1>2. CASE \A u \in Ids : ~AtStep(u, "push")
    <2>1. \A u \in Ids \ {t} : First(job'[u]) # "push"
      BY <1>2, AtFirst, SameFirst
    <2> QED
      BY <2>1 DEF PushWays
  <1> QED
    BY <1>1, <1>2

\* It sends it.
LEMMA PushDone ==
  ASSUME PushWays, NEW t \in Ids, \A u \in Ids \ {t} : SameWay(u), status = "up",
         First(job[t]) = "push", First(job'[t]) # "push",
         told'.setting = job[t].value, setting' = setting,
         "push" \in crossed' <=> "push" \in crossed
  PROVE  PushWays'
  <1>1. \A u \in Ids \ {t} : First(job'[u]) = First(job[u])
    BY SameFirst
  <1>2. CASE "push" \in crossed'
    BY <1>2 DEF PushWays
  <1>3. CASE "push" \notin crossed'
    <2>1. PICK s \in Ids : /\ First(job[s]) = "push" /\ job[s].value = setting.pushed
                           /\ \A u \in Ids \ {s} : First(job[u]) # "push"
      BY <1>3 DEF PushWays
    <2>2. s = t
      BY <2>1
    <2>3. \A u \in Ids : First(job'[u]) # "push"
      BY <1>1, <2>1, <2>2
    <2> QED
      BY <2>1, <2>2, <2>3 DEF PushWays
  <1> QED
    BY <1>2, <1>3

\* The same of the calibration: nothing is set or sent,
LEMMA CalQuiet ==
  ASSUME CalWays, NEW t \in Ids, \A u \in Ids \ {t} : SameWay(u), status = "up",
         First(job[t]) # "pushCal", First(job'[t]) # "pushCal",
         cal' = cal, told'.cal = told.cal,
         "pushCal" \in crossed' <=> "pushCal" \in crossed
  PROVE  CalWays'
  <1>1. \A u \in Ids \ {t} : First(job'[u]) = First(job[u]) /\ job'[u].profile = job[u].profile
    BY SameFirst DEF SameWay
  <1>2. CASE "pushCal" \in crossed'
    BY <1>2 DEF CalWays
  <1>3. CASE told.cal = cal /\ \A u \in Ids : First(job[u]) # "pushCal"
    <2>1. \A u \in Ids : First(job'[u]) # "pushCal"
      BY <1>1, <1>3
    <2> QED
      BY <1>3, <2>1 DEF CalWays
  <1>4. CASE \E s \in Ids : /\ First(job[s]) = "pushCal" /\ job[s].profile.cal = cal
                            /\ \A u \in Ids \ {s} : First(job[u]) # "pushCal"
    <2>1. PICK s \in Ids : /\ First(job[s]) = "pushCal" /\ job[s].profile.cal = cal
                           /\ \A u \in Ids \ {s} : First(job[u]) # "pushCal"
      BY <1>4
    <2>2. First(job'[s]) = "pushCal" /\ job'[s].profile.cal = cal'
      BY <1>1, <2>1
    <2>3. \A u \in Ids \ {s} : First(job'[u]) # "pushCal"
      BY <1>1, <2>1
    <2> QED
      BY <2>2, <2>3 DEF CalWays
  <1> QED
    BY <1>2, <1>3, <1>4 DEF CalWays

\* a thread sets it and is about to send it,
LEMMA CalBegun ==
  ASSUME NEW t \in Ids, \A u \in Ids \ {t} : SameWay(u), status = "up",
         First(job'[t]) = "pushCal", job'[t].profile.cal = cal', Overtakes("pushCal")
  PROVE  CalWays'
  <1>1. CASE \E u \in Ids : AtStep(u, "pushCal")
    BY <1>1 DEF Overtakes, CalWays
  <1>2. CASE \A u \in Ids : ~AtStep(u, "pushCal")
    <2>1. \A u \in Ids \ {t} : First(job'[u]) # "pushCal"
      BY <1>2, AtFirst, SameFirst
    <2> QED
      BY <2>1 DEF CalWays
  <1> QED
    BY <1>1, <1>2

\* and it is sent.
LEMMA CalDone ==
  ASSUME CalWays, NEW t \in Ids, \A u \in Ids \ {t} : SameWay(u), status = "up",
         First(job[t]) = "pushCal", First(job'[t]) # "pushCal",
         told'.cal = job[t].profile.cal, cal' = cal,
         "pushCal" \in crossed' <=> "pushCal" \in crossed
  PROVE  CalWays'
  <1>1. \A u \in Ids \ {t} : First(job'[u]) = First(job[u])
    BY SameFirst
  <1>2. CASE "pushCal" \in crossed'
    BY <1>2 DEF CalWays
  <1>3. CASE "pushCal" \notin crossed'
    <2>1. PICK s \in Ids : /\ First(job[s]) = "pushCal" /\ job[s].profile.cal = cal
                           /\ \A u \in Ids \ {s} : First(job[u]) # "pushCal"
      BY <1>3 DEF CalWays
    <2>2. s = t
      BY <2>1
    <2>3. \A u \in Ids : First(job'[u]) # "pushCal"
      BY <1>1, <2>1, <2>2
    <2> QED
      BY <2>1, <2>2, <2>3 DEF CalWays
  <1> QED
    BY <1>2, <1>3

\* A thread that stores nothing yet or any more; it may set the settings.
LEMMA StoreQuiet ==
  ASSUME StoreWays, NEW t \in Ids, \A u \in Ids \ {t} : job'[u] = job[u], status = "up",
         First(job[t]) \notin Copying, First(job'[t]) \notin Copying, tmp' = tmp,
         (setting' = setting /\ (outdated' <=> outdated)) \/ Outdates(t)
  PROVE  StoreWays'
  <1>1. CASE outdated'
    BY <1>1 DEF StoreWays
  <1>2. CASE ~outdated' /\ setting' = setting /\ (outdated' <=> outdated)
    <2>1. ASSUME NEW s \in Ids, First(job'[s]) \in Copying
          PROVE  Storing(job[s])' /\ \A u \in Ids \ {s} : First(job'[u]) \notin Copying
      <3>1. s # t /\ job'[s] = job[s]
        BY <2>1
      <3>2. Storing(job[s]) /\ \A u \in Ids \ {s} : First(job[u]) \notin Copying
        BY <1>2, <2>1, <3>1 DEF StoreWays
      <3>3. Storing(job[s])'
        BY <1>2, <3>1, <3>2 DEF Storing, First
      <3> QED
        BY <3>2, <3>3
    <2> QED
      BY <2>1 DEF StoreWays
  <1>3. CASE ~outdated' /\ Outdates(t)
    <2>1. \A u \in Ids \ {t} : ~HasCopy(u)
      BY <1>3 DEF Outdates, OthersHaveCopies
    <2>2. \A u \in Ids \ {t} : First(job[u]) \notin Copying
      BY <2>1, AtFirst DEF HasCopy, Copying
    <2>3. \A u \in Ids : First(job'[u]) \notin Copying
      BY <2>2
    <2> QED
      BY <2>3 DEF StoreWays
  <1> QED
    BY <1>1, <1>2, <1>3

\* A thread copies the settings.
LEMMA StoreCopied ==
  ASSUME NEW t \in Ids, \A u \in Ids \ {t} : job'[u] = job[u], status = "up",
         First(job'[t]) = "open", job'[t].copy = setting', outdated' = OthersHaveCopies(t)
  PROVE  StoreWays'
  <1>1. CASE outdated'
    BY <1>1 DEF StoreWays
  <1>2. CASE ~outdated'
    <2>1. \A u \in Ids \ {t} : ~HasCopy(u)
      BY <1>2 DEF OthersHaveCopies
    <2>2. \A u \in Ids \ {t} : First(job'[u]) \notin Copying
      BY <2>1, AtFirst DEF HasCopy, Copying
    <2>3. Storing(job[t])'
      BY DEF Storing
    <2> QED
      BY <2>2, <2>3 DEF StoreWays
  <1> QED
    BY <1>1, <1>2

\* It goes on with the copy, alone in that.
LEMMA StoreGoesOn ==
  ASSUME StoreWays, NEW t \in Ids, \A u \in Ids \ {t} : SameWay(u), outdated' <=> outdated,
         First(job[t]) \in Copying,
         Storing(job[t]) /\ ~outdated /\ First(job'[t]) \in Copying => Storing(job[t])'
  PROVE  StoreWays'
  <1>1. CASE outdated'
    BY <1>1 DEF StoreWays
  <1>2. CASE ~outdated'
    <2>1. Storing(job[t]) /\ \A u \in Ids \ {t} : First(job[u]) \notin Copying
      BY <1>2 DEF StoreWays
    <2>2. \A u \in Ids \ {t} : First(job'[u]) \notin Copying
      BY <2>1, SameFirst
    <2>3. First(job'[t]) \in Copying => Storing(job[t])'
      BY <1>2, <2>1
    <2> QED
      BY <2>2, <2>3 DEF StoreWays
  <1> QED
    BY <1>1, <1>2

\* A step that is about none of the three.
LEMMA WaysQuiet ==
  ASSUME Ways, NEW t \in Ids, \A u \in Ids \ {t} : job'[u] = job[u], status = "up",
         First(job[t]) \notin Copying \union {"push", "pushCal"},
         First(job'[t]) \notin Copying \union {"push", "pushCal"},
         setting'.pushed = setting.pushed, cal' = cal, told' = told, tmp' = tmp,
         crossed' = crossed, (setting' = setting /\ outdated' = outdated) \/ Outdates(t)
  PROVE  Ways'
  <1>1. \A u \in Ids \ {t} : SameWay(u)
    BY DEF SameWay
  <1>2. PushWays'
    BY <1>1, PushQuiet DEF Ways
  <1>3. CalWays'
    BY <1>1, CalQuiet DEF Ways
  <1>4. StoreWays'
    BY StoreQuiet DEF Ways
  <1>5. outdated' \in BOOLEAN
    BY DEF Ways, Outdates
  <1> QED
    BY <1>2, <1>3, <1>4, <1>5 DEF Ways

\* What comes first on a list that is begun.
LEMMA FirstBegun ==
  ASSUME Base, NEW t \in Ids, NEW j, Begin(t, j)
  PROVE  job'[t] = j /\ \A u \in Ids \ {t} : job'[u] = job[u]
  BY DEF Begin, Base, JobsOK

\* What comes first once a step is taken, and what the thread has by then.
LEMMA FirstTaken ==
  ASSUME Base, NEW t \in Ids, NEW step, AtStep(t, step), NEW k, k.todo = Tail(job[t].todo),
         After(t, k)
  PROVE  /\ First(job[t]) = step
         /\ \/ First(job'[t]) = "none" /\ step \in Lasts
            \/ Follows(step, First(job'[t])) /\ job'[t] = k
  <1> DEFINE r == IF k.todo = << >> THEN NoJob ELSE k
  <1>1. Listed(job[t].todo) /\ job[t].todo # << >> /\ Head(job[t].todo) = step
    BY InHand
  <1>2. /\ k.todo # << >> => Follows(step, Head(k.todo))
        /\ k.todo = << >> => step \in Lasts
    BY <1>1, TailListed
  <1>3. \/ First(r) = "none" /\ step \in Lasts
        \/ Follows(step, First(r)) /\ r = k
    BY <1>2, NoJobOK DEF First
  <1>4. job' = [job EXCEPT ![t] = r]
    BY DEF After
  <1> HIDE DEF r
  <1>5. job'[t] = r
    BY <1>4 DEF Base, JobsOK
  <1> QED
    BY <1>1, <1>3, <1>5 DEF First

LEMMA FirstDone ==
  ASSUME Base, NEW t \in Ids, NEW step, AtStep(t, step), Done(t)
  PROVE  /\ First(job[t]) = step
         /\ \/ First(job'[t]) = "none" /\ step \in Lasts
            \/ /\ Follows(step, First(job'[t]))
               /\ job'[t].value = job[t].value /\ job'[t].profile = job[t].profile
               /\ job'[t].copy = job[t].copy /\ job'[t].fd = job[t].fd
  <1> DEFINE k == [job[t] EXCEPT !.todo = Tail(@)]
  <1>1. job[t] \in Jobs
    BY InHand
  <1>2. /\ k.todo = Tail(job[t].todo) /\ k.value = job[t].value /\ k.profile = job[t].profile
        /\ k.copy = job[t].copy /\ k.fd = job[t].fd /\ After(t, k)
    BY <1>1 DEF Jobs, Done
  <1> HIDE DEF k
  <1> QED
    BY <1>2, FirstTaken

LEMMA DoneAlone ==
  ASSUME Base, NEW t \in Ids, Done(t)
  PROVE  \A u \in Ids \ {t} : job'[u] = job[u]
  BY DEF Done, After, Base, JobsOK

\* A setting is set that the thread sends next.
LEMMA SendsSetting ==
  ASSUME Ways, NEW t \in Ids, \A u \in Ids \ {t} : job'[u] = job[u], status = "up",
         First(job[t]) = "none", First(job'[t]) = "push", job'[t].value = setting'.pushed,
         cal' = cal, told' = told, tmp' = tmp, Overtakes("push"), Outdates(t)
  PROVE  Ways'
  <1>1. \A u \in Ids \ {t} : SameWay(u)
    BY DEF SameWay
  <1>2. PushWays'
    BY <1>1, PushBegun
  <1>3. "pushCal" \in crossed' <=> "pushCal" \in crossed
    BY DEF Overtakes
  <1>4. CalWays'
    BY <1>1, <1>3, CalQuiet DEF Ways
  <1>5. StoreWays'
    BY StoreQuiet DEF Ways, Copying
  <1> QED
    BY <1>2, <1>4, <1>5 DEF Ways, Outdates

\* A calibration is put in force that the thread sends next.
LEMMA SendsCal ==
  ASSUME Ways, NEW t \in Ids, \A u \in Ids \ {t} : job'[u] = job[u], status = "up",
         First(job[t]) \in {"none", "apply"}, First(job'[t]) = "pushCal",
         job'[t].profile.cal = cal', setting' = setting, told' = told, tmp' = tmp,
         Overtakes("pushCal"), outdated' = outdated
  PROVE  Ways'
  <1>1. \A u \in Ids \ {t} : SameWay(u)
    BY DEF SameWay
  <1>2. CalWays'
    BY <1>1, CalBegun
  <1>3. "push" \in crossed' <=> "push" \in crossed
    BY DEF Overtakes
  <1>4. PushWays'
    BY <1>1, <1>3, PushQuiet DEF Ways
  <1>5. StoreWays'
    BY StoreQuiet DEF Ways, Copying
  <1> QED
    BY <1>2, <1>4, <1>5 DEF Ways

LEMMA WaysRequest ==
  ASSUME Base, Ways, NEW t \in Threads, Request(t)
  PROVE  Ways'
  <1>1. t \in Ids
    BY InIds
  <1>2. status = "up" /\ status' = "up" /\ UNCHANGED <<told, file, tmp>> /\ job[t] = NoJob
    BY DEF Request, SetPushed, SetKept, RestoreDefaults, SetCoefficients, GetCoefficients,
           ApplyForm, Activate, SaveCurrent, Create, Delete, Idle, diskVars
  <1>3. First(job[t]) = "none"
    BY <1>2, NoJobOK DEF First
  <1>4. ASSUME NEW j, Begin(t, j), First(j) \notin Copying \union {"push", "pushCal"},
               setting'.pushed = setting.pushed, cal' = cal, crossed' = crossed,
               (setting' = setting /\ outdated' = outdated) \/ Outdates(t)
        PROVE  Ways'
    <2>1. job'[t] = j /\ \A u \in Ids \ {t} : job'[u] = job[u]
      BY <1>1, <1>4, FirstBegun
    <2> QED
      BY <1>1, <1>2, <1>3, <1>4, <2>1, WaysQuiet DEF Copying
  <1>5. CASE \E v \in Pushed : SetPushed(t, v)
    <2> PICK v \in Pushed : SetPushed(t, v)
      BY <1>5
    <2> DEFINE j == [NoJob EXCEPT !.value = v, !.todo = <<"push">> \o Save]
    <2>1. Head(<<"push">> \o Save) = "push" /\ <<"push">> \o Save # << >>
      BY PushListed DEF Listed, Linked
    <2>2. Begin(t, j) /\ j.todo = <<"push">> \o Save /\ j.value = v
      BY DEF SetPushed, NoJob
    <2> HIDE DEF j
    <2>3. job'[t] = j /\ First(j) = "push" /\ \A u \in Ids \ {t} : job'[u] = job[u]
      BY <1>1, <2>1, <2>2, FirstBegun DEF First
    <2>4. setting'.pushed = v /\ cal' = cal /\ Overtakes("push") /\ Outdates(t)
      BY DEF SetPushed, Base, Settings, Defaults
    <2> QED
      BY <1>1, <1>2, <1>3, <2>2, <2>3, <2>4, SendsSetting
  <1>6. CASE \E v \in Kept : SetKept(t, v)
    <2> PICK v \in Kept : SetKept(t, v)
      BY <1>6
    <2> DEFINE j == [NoJob EXCEPT !.todo = Save]
    <2>1. Begin(t, j) /\ j.todo = Save /\ Head(Save) = "snapshot" /\ Save # << >>
      BY DEF SetKept, NoJob, Save
    <2> HIDE DEF j
    <2>2. setting'.pushed = setting.pushed /\ cal' = cal /\ crossed' = crossed /\ Outdates(t)
      BY DEF SetKept, Base, Settings
    <2> QED
      BY <1>4, <2>1, <2>2 DEF First, Copying
  <1>7. CASE RestoreDefaults(t)
    <2> DEFINE s == <<"push", "reload">> \o Save
               j == [NoJob EXCEPT !.value = DefaultPushed, !.todo = s]
    <2>1. Head(s) = "push" /\ s # << >>
      BY RestoreListed DEF Listed, Linked
    <2>2. Begin(t, j) /\ j.todo = s /\ j.value = DefaultPushed
      BY <1>7 DEF RestoreDefaults, NoJob
    <2> HIDE DEF j, s
    <2>3. job'[t] = j /\ First(j) = "push" /\ \A u \in Ids \ {t} : job'[u] = job[u]
      BY <1>1, <2>1, <2>2, FirstBegun DEF First
    <2>4. setting'.pushed = DefaultPushed /\ cal' = cal /\ Overtakes("push") /\ Outdates(t)
      BY <1>7 DEF RestoreDefaults, Base, Settings, Defaults
    <2> QED
      BY <1>1, <1>2, <1>3, <2>2, <2>3, <2>4, SendsSetting
  <1>8. CASE \E c \in Cals : SetCoefficients(t, c)
    <2> PICK c \in Cals : SetCoefficients(t, c)
      BY <1>8
    <2> DEFINE j == [NoJob EXCEPT !.profile = [cal |-> c, total |-> 0], !.todo = <<"pushCal">>]
    <2>1. /\ Begin(t, j) /\ j.todo = <<"pushCal">> /\ Head(<<"pushCal">>) = "pushCal"
          /\ <<"pushCal">> # << >> /\ j.profile.cal = c
      BY DEF SetCoefficients, NoJob
    <2> HIDE DEF j
    <2>2. job'[t] = j /\ First(j) = "pushCal" /\ \A u \in Ids \ {t} : job'[u] = job[u]
      BY <1>1, <2>1, FirstBegun DEF First
    <2>3. /\ setting' = setting /\ cal' = c /\ Overtakes("pushCal") /\ outdated' = outdated
          /\ ("push" \in crossed' <=> "push" \in crossed)
      BY DEF SetCoefficients, Overtakes
    <2> QED
      BY <1>1, <1>2, <1>3, <2>1, <2>2, <2>3, SendsCal
  <1>9. CASE GetCoefficients(t)
    <2> DEFINE j == [NoJob EXCEPT !.todo = <<"reload">>]
    <2>1. /\ Begin(t, j) /\ j.todo = <<"reload">> /\ Head(<<"reload">>) = "reload"
          /\ <<"reload">> # << >>
      BY <1>9 DEF GetCoefficients, NoJob
    <2> HIDE DEF j
    <2> QED
      BY <1>4, <1>9, <2>1 DEF First, Copying, GetCoefficients, memVars, raceVars
  <1>10. ASSUME NEW n, NEW p, NEW f, NEW s, BeginProfile(t, n, p, f, s), s # << >>,
                Head(s) \in {"truncate", "apply", "forget"}, setting' = setting, cal' = cal,
                crossed' = crossed, outdated' = outdated
         PROVE  Ways'
    <2> DEFINE j == [NoJob EXCEPT !.name = n, !.profile = p, !.fresh = f, !.todo = s]
    <2>1. Begin(t, j) /\ j.todo = s
      BY <1>10 DEF BeginProfile, NoJob
    <2> HIDE DEF j
    <2> QED
      BY <1>4, <1>10, <2>1 DEF First, Copying
  <1>11. Head(WriteProfile) = "truncate" /\ WriteProfile # << >>
    BY DEF WriteProfile
  <1>12. CASE \E n \in Names, c \in Cals : ApplyForm(t, n, c)
    <2> DEFINE s == WriteProfile \o Apply \o <<"activate">> \o Save
    <2>1. Head(s) = "truncate" /\ s # << >>
      BY FormListed DEF Listed, Linked
    <2>2. /\ setting' = setting /\ cal' = cal /\ crossed' = crossed /\ outdated' = outdated
          /\ \E n, p, f : BeginProfile(t, n, p, f, s)
      BY <1>12 DEF ApplyForm, memVars, raceVars
    <2> HIDE DEF s
    <2> QED
      BY <1>10, <2>1, <2>2
  <1>13. CASE \E n \in Names : Activate(t, n)
    <2> DEFINE s == Apply \o <<"activate">> \o Save
    <2>1. Head(s) = "apply" /\ s # << >>
      BY ActivateListed DEF Listed, Linked
    <2>2. /\ setting' = setting /\ cal' = cal /\ crossed' = crossed /\ outdated' = outdated
          /\ \E n, p, f : BeginProfile(t, n, p, f, s)
      BY <1>13 DEF Activate, memVars, raceVars
    <2> HIDE DEF s
    <2> QED
      BY <1>10, <2>1, <2>2
  <1>14. CASE \E n \in Names : SaveCurrent(t, n)
    <2>1. /\ setting' = setting /\ cal' = cal /\ crossed' = crossed /\ outdated' = outdated
          /\ \E n, p, f : BeginProfile(t, n, p, f, WriteProfile)
      BY <1>14 DEF SaveCurrent, memVars, raceVars
    <2> QED
      BY <1>10, <1>11, <2>1
  <1>15. CASE \E n \in Names : Create(t, n)
    <2>1. /\ setting' = setting /\ cal' = cal /\ crossed' = crossed /\ outdated' = outdated
          /\ \E n, p, f : BeginProfile(t, n, p, f, WriteProfile)
      BY <1>15 DEF Create, memVars, raceVars
    <2> QED
      BY <1>10, <1>11, <2>1
  <1>16. CASE \E n \in Names : Delete(t, n)
    <2>1. /\ setting' = setting /\ cal' = cal
          /\ crossed' = crossed /\ outdated' = outdated
          /\ \E n : BeginProfile(t, n, None, FALSE, <<"forget">>)
      BY <1>16 DEF Delete, memVars, raceVars
    <2>2. Head(<<"forget">>) = "forget" /\ <<"forget">> # << >>
      OBVIOUS
    <2> QED
      BY <1>10, <2>1, <2>2
  <1> QED
    BY <1>5, <1>6, <1>7, <1>8, <1>9, <1>12, <1>13, <1>14, <1>15, <1>16 DEF Request

\* A step of a list, and what becomes of the settings file by it.
LEMMA WaysStep ==
  ASSUME Base, Ways, NEW t \in Ids, Step(t)
  PROVE  Ways' /\ setting' \in Settings \union {setting}
         /\ (file' = file \/ (setting' = setting /\ (file' = setting \/ outdated)))
  <1> DEFINE j == job[t]
  <1>2. status = "up" /\ status' = status
    BY DEF Step, Push, Reload, ApplyCal, PushCal, SetActive, Forget, Truncate, Fill,
           Snapshot, OpenTmp, WriteTmp, Replace, AtStep
  <1>3. setting \in Settings
    BY DEF Base
  <1>4. ASSUME Raises(t), UNCHANGED <<setting, cal, told, file, tmp, crossed, outdated>>,
               First(j) \notin Copying \union {"push", "pushCal"}
        PROVE  Ways'
    <2>1. job'[t] = NoJob /\ \A u \in Ids \ {t} : job'[u] = job[u]
      BY <1>4 DEF Raises, Base, JobsOK
    <2>2. First(NoJob) = "none"
      BY NoJobOK DEF First
    <2> QED
      BY <1>2, <1>4, <2>1, <2>2, WaysQuiet DEF Copying
  <1>5. ASSUME NEW step, AtStep(t, step), Done(t),
               UNCHANGED <<setting, cal, told, file, tmp, crossed, outdated>>,
               step \in {"reload", "truncate", "fill"}
        PROVE  Ways'
    <2>1. First(j) = step /\ First(job'[t]) \notin Copying \union {"push", "pushCal"}
      BY <1>5, FirstDone DEF Follows, Copying
    <2>2. \A u \in Ids \ {t} : job'[u] = job[u]
      BY <1>5, DoneAlone
    <2> QED
      BY <1>2, <1>5, <2>1, <2>2, WaysQuiet DEF Copying
  <1>6. CASE Push(t)
    <2>1. /\ AtStep(t, "push") /\ Done(t)
          /\ UNCHANGED <<setting, cal, file, tmp, crossed, outdated>>
          /\ told' = [told EXCEPT !.setting = j.value]
      BY <1>6 DEF Push, memVars, diskVars, raceVars
    <2>2. First(j) = "push" /\ First(job'[t]) \notin Copying \union {"push", "pushCal"}
      BY <2>1, FirstDone DEF Follows, Lasts, Copying
    <2>3. \A u \in Ids \ {t} : job'[u] = job[u] /\ SameWay(u)
      BY <2>1, DoneAlone DEF SameWay
    <2>4. told'.setting = j.value /\ told'.cal = told.cal
      BY <2>1 DEF Base
    <2>5. PushWays'
      BY <1>2, <2>1, <2>2, <2>3, <2>4, PushDone DEF Ways
    <2>6. CalWays'
      BY <1>2, <2>1, <2>2, <2>3, <2>4, CalQuiet DEF Ways
    <2>7. StoreWays'
      BY <1>2, <2>1, <2>2, <2>3, StoreQuiet DEF Ways, Copying
    <2> QED
      BY <2>1, <2>5, <2>6, <2>7 DEF Ways
  <1>7. CASE Reload(t)
    <2>1. AtStep(t, "reload") /\ UNCHANGED <<setting, cal, told, file, tmp, crossed, outdated>>
      BY <1>7 DEF Reload, memVars, diskVars, raceVars
    <2>2. First(j) = "reload" /\ Listed(j.todo) /\ j.todo # << >> /\ Head(j.todo) = "reload" /\ j \in Jobs
      BY <2>1, InHand DEF First
    <2>3. CASE Done(t)
      BY <1>5, <2>1, <2>3
    <2>4. CASE Raises(t)
      BY <1>4, <2>1, <2>2, <2>4 DEF Copying
    <2>5. CASE Begin(t, [j EXCEPT !.profile = profiles[setting.active], !.todo = Apply \o Tail(@)])
      <3> DEFINE k == [j EXCEPT !.profile = profiles[setting.active], !.todo = Apply \o Tail(@)]
      <3>1. Head(Apply \o Tail(j.todo)) = "apply" /\ Apply \o Tail(j.todo) # << >>
        BY <2>2, ReloadListed
      <3>2. k.todo = Apply \o Tail(j.todo) /\ Begin(t, k)
        BY <2>2, <2>5 DEF Jobs
      <3> HIDE DEF k
      <3>3. job'[t] = k /\ First(k) = "apply" /\ \A u \in Ids \ {t} : job'[u] = job[u]
        BY <3>1, <3>2, FirstBegun DEF First
      <3> QED
        BY <1>2, <2>1, <2>2, <3>3, WaysQuiet DEF Copying
    <2> QED
      BY <1>7, <2>1, <2>3, <2>4, <2>5 DEF Reload
  <1>8. CASE ApplyCal(t)
    <2>1. /\ AtStep(t, "apply") /\ Done(t) /\ UNCHANGED <<setting, told, file, tmp, outdated>>
          /\ cal' = j.profile.cal /\ Overtakes("pushCal")
      BY <1>8 DEF ApplyCal, diskVars
    <2>2. First(j) = "apply" /\ First(job'[t]) = "pushCal" /\ job'[t].profile = j.profile
      BY <2>1, FirstDone DEF Follows, Lasts
    <2>3. \A u \in Ids \ {t} : job'[u] = job[u]
      BY <2>1, DoneAlone
    <2> QED
      BY <1>2, <2>1, <2>2, <2>3, SendsCal
  <1>9. CASE PushCal(t)
    <2>1. /\ AtStep(t, "pushCal") /\ Done(t)
          /\ UNCHANGED <<setting, cal, file, tmp, crossed, outdated>>
          /\ told' = [told EXCEPT !.cal = j.profile.cal]
      BY <1>9 DEF PushCal, memVars, diskVars, raceVars
    <2>2. First(j) = "pushCal" /\ First(job'[t]) \notin Copying \union {"push", "pushCal"}
      BY <2>1, FirstDone DEF Follows, Copying
    <2>3. \A u \in Ids \ {t} : job'[u] = job[u] /\ SameWay(u)
      BY <2>1, DoneAlone DEF SameWay
    <2>4. told'.cal = j.profile.cal /\ told'.setting = told.setting
      BY <2>1 DEF Base
    <2>5. PushWays'
      BY <1>2, <2>1, <2>2, <2>3, <2>4, PushQuiet DEF Ways
    <2>6. CalWays'
      BY <1>2, <2>1, <2>2, <2>3, <2>4, CalDone DEF Ways
    <2>7. StoreWays'
      BY <1>2, <2>1, <2>2, <2>3, StoreQuiet DEF Ways, Copying
    <2> QED
      BY <2>1, <2>5, <2>6, <2>7 DEF Ways
  <1>10. CASE SetActive(t)
    <2>1. /\ AtStep(t, "activate") /\ Done(t) /\ UNCHANGED <<cal, told, file, tmp, crossed>>
          /\ setting' = [setting EXCEPT !.active = j.name] /\ Outdates(t)
      BY <1>10 DEF SetActive, diskVars
    <2>2. First(j) = "activate" /\ First(job'[t]) \notin Copying \union {"push", "pushCal"}
      BY <2>1, FirstDone DEF Follows, Copying
    <2>3. \A u \in Ids \ {t} : job'[u] = job[u]
      BY <2>1, DoneAlone
    <2>4. setting'.pushed = setting.pushed /\ setting' \in Settings
      BY <1>3, <2>1, InHand DEF Settings
    <2>5. Ways'
      BY <1>2, <2>1, <2>2, <2>3, <2>4, WaysQuiet DEF Copying
    <2> QED
      BY <2>1, <2>4, <2>5
  <1>11. CASE Forget(t)
    <2>1. AtStep(t, "forget") /\ UNCHANGED <<cal, told, file, tmp, crossed>>
      BY <1>11 DEF Forget, diskVars
    <2>2. First(j) = "forget"
      BY <2>1, InHand DEF First
    <2>3. CASE Raises(t) /\ UNCHANGED <<setting, outdated>>
      BY <1>4, <2>1, <2>2, <2>3 DEF Copying
    <2>4. CASE /\ setting' = [setting EXCEPT !.active = None] /\ Outdates(t)
               /\ Begin(t, [NoJob EXCEPT !.todo = Save])
      <3> DEFINE k == [NoJob EXCEPT !.todo = Save]
      <3>1. Begin(t, k) /\ k.todo = Save /\ Head(Save) = "snapshot" /\ Save # << >>
        BY <2>4 DEF NoJob, Save
      <3> HIDE DEF k
      <3>2. job'[t] = k /\ First(k) = "snapshot" /\ \A u \in Ids \ {t} : job'[u] = job[u]
        BY <3>1, FirstBegun DEF First
      <3>3. setting'.pushed = setting.pushed /\ setting' \in Settings
        BY <1>3, <2>4 DEF Settings
      <3>4. Ways'
        BY <1>2, <2>1, <2>2, <2>4, <3>2, <3>3, WaysQuiet DEF Copying
      <3> QED
        BY <2>1, <3>3, <3>4
    <2> QED
      BY <1>11, <2>1, <2>3, <2>4 DEF Forget
  <1>12. CASE Truncate(t)
    BY <1>5, <1>12 DEF Truncate, memVars, raceVars
  <1>13. CASE Fill(t)
    <2>1. AtStep(t, "fill") /\ UNCHANGED <<setting, cal, told, file, tmp, crossed, outdated>>
      BY <1>13 DEF Fill, raceVars
    <2>2. First(j) = "fill"
      BY <2>1, InHand DEF First
    <2> QED
      BY <1>4, <1>5, <1>13, <2>1, <2>2 DEF Fill, Copying
  <1>14. CASE Snapshot(t)
    <2> DEFINE k == [j EXCEPT !.copy = setting, !.todo = Tail(@)]
    <2>1. /\ AtStep(t, "snapshot") /\ After(t, k) /\ UNCHANGED <<setting, cal, told, file, tmp, crossed>>
          /\ outdated' = OthersHaveCopies(t)
      BY <1>14 DEF Snapshot, memVars, diskVars
    <2>2. k.todo = Tail(j.todo) /\ k.copy = setting
      BY <2>1, InHand DEF Jobs
    <2> HIDE DEF k
    <2>3. First(j) = "snapshot" /\ First(job'[t]) = "open" /\ job'[t] = k
      BY <2>1, <2>2, FirstTaken DEF Follows, Lasts
    <2>4. \A u \in Ids \ {t} : job'[u] = job[u] /\ SameWay(u)
      BY <2>1 DEF After, Base, JobsOK, SameWay
    <2>5. PushWays' /\ CalWays'
      BY <1>2, <2>1, <2>3, <2>4, PushQuiet, CalQuiet DEF Ways
    <2>6. StoreWays'
      BY <1>2, <2>1, <2>2, <2>3, <2>4, StoreCopied
    <2> QED
      BY <2>1, <2>5, <2>6 DEF Ways, OthersHaveCopies
  <1>15. CASE OpenTmp(t)
    <2> DEFINE k == [j EXCEPT !.fd = "tmp", !.todo = Tail(@)]
    <2>1. /\ AtStep(t, "open") /\ After(t, k)
          /\ UNCHANGED <<setting, cal, told, file, crossed, outdated>> /\ tmp' = Empty
      BY <1>15 DEF OpenTmp, memVars, raceVars
    <2>2. k.todo = Tail(j.todo) /\ k.copy = j.copy /\ k.fd = "tmp"
      BY <2>1, InHand DEF Jobs
    <2> HIDE DEF k
    <2>3. First(j) = "open" /\ First(job'[t]) = "write" /\ job'[t] = k
      BY <2>1, <2>2, FirstTaken DEF Follows, Lasts
    <2>4. \A u \in Ids \ {t} : SameWay(u)
      BY <2>1 DEF After, Base, JobsOK, SameWay
    <2>5. PushWays' /\ CalWays'
      BY <1>2, <2>1, <2>3, <2>4, PushQuiet, CalQuiet DEF Ways
    <2>6. Storing(j) => Storing(job[t])'
      BY <2>1, <2>2, <2>3 DEF Storing
    <2>7. StoreWays'
      BY <2>1, <2>3, <2>4, <2>6, StoreGoesOn DEF Ways, Copying
    <2> QED
      BY <2>1, <2>5, <2>7 DEF Ways
  <1>16. CASE WriteTmp(t)
    <2>1. AtStep(t, "write") /\ UNCHANGED <<setting, cal, told, crossed, outdated>>
      BY <1>16 DEF WriteTmp, memVars, raceVars
    <2>2. First(j) = "write"
      BY <2>1, InHand DEF First
    <2>3. ASSUME ~outdated
          PROVE  Storing(j) /\ j.fd = "tmp" /\ tmp = Empty /\ j.copy = setting
      BY <2>2, <2>3 DEF Ways, StoreWays, Storing, Copying
    <2>4. CASE /\ CASE j.fd = "tmp"  -> tmp' \in Written(tmp, j.copy) /\ UNCHANGED file
                     [] j.fd = "file" -> file' \in Written(file, j.copy) /\ UNCHANGED tmp
                     [] OTHER -> UNCHANGED <<tmp, file>>
               /\ After(t, [j EXCEPT !.fd = "none", !.todo = Tail(@)])
      <3> DEFINE k == [j EXCEPT !.fd = "none", !.todo = Tail(@)]
      <3>1. After(t, k) /\ k.todo = Tail(j.todo) /\ k.copy = j.copy
        BY <2>1, <2>4, InHand DEF Jobs
      <3> HIDE DEF k
      <3>2. First(job'[t]) = "replace" /\ job'[t] = k
        BY <2>1, <3>1, FirstTaken DEF Follows, Lasts
      <3>3. \A u \in Ids \ {t} : SameWay(u)
        BY <3>1 DEF After, Base, JobsOK, SameWay
      <3>4. PushWays' /\ CalWays'
        BY <1>2, <2>1, <2>2, <3>2, <3>3, PushQuiet, CalQuiet DEF Ways
      <3>5. ASSUME ~outdated
            PROVE  file' = file /\ Storing(job[t])'
        <4>1. tmp' \in Written(tmp, j.copy) /\ file' = file
          BY <2>3, <2>4, <3>5
        <4>2. tmp' = setting
          BY <2>3, <3>5, <4>1 DEF Written
        <4> QED
          BY <2>1, <2>3, <3>1, <3>2, <3>5, <4>1, <4>2 DEF Storing
      <3>6. StoreWays'
        BY <2>1, <2>2, <3>3, <3>5, StoreGoesOn DEF Ways, Copying
      <3> QED
        BY <2>1, <3>4, <3>5, <3>6 DEF Ways
    <2>5. CASE /\ tmp' = Absent
               /\ job' = [Renamed("tmp", "gone") EXCEPT ![t] = NoJob]
               /\ file' \in IF j.fd = "file" THEN {file, Torn} ELSE {file}
      <3>1. job'[t] = NoJob
        BY <2>5 DEF Renamed
      <3>2. First(NoJob) = "none"
        BY NoJobOK DEF First
      <3>3. \A u \in Ids \ {t} : SameWay(u)
        <4>1. \A u \in Ids : job[u] \in Jobs
          BY DEF Base, JobsOK
        <4>2. \A u \in Ids \ {t} : job'[u] \in {job[u], [job[u] EXCEPT !.fd = "gone"]}
          BY <2>5 DEF Renamed
        <4> QED
          BY <4>1, <4>2 DEF SameWay, Jobs
      <3>4. PushWays' /\ CalWays'
        BY <1>2, <2>1, <2>2, <3>1, <3>2, <3>3, PushQuiet, CalQuiet DEF Ways
      <3>5. StoreWays'
        BY <2>1, <2>2, <3>1, <3>2, <3>3, StoreGoesOn DEF Ways, Copying
      <3>6. ~outdated => file' = file
        BY <2>3, <2>5
      <3> QED
        BY <2>1, <3>4, <3>5, <3>6 DEF Ways
    <2> QED
      BY <1>16, <2>4, <2>5 DEF WriteTmp
  <1>17. CASE Replace(t)
    <2>1. AtStep(t, "replace") /\ UNCHANGED <<setting, cal, told, crossed, outdated>>
      BY <1>17 DEF Replace, memVars, raceVars
    <2>2. First(j) = "replace"
      BY <2>1, InHand DEF First
    <2>3. ~outdated => tmp = setting
      BY <2>2 DEF Ways, StoreWays, Storing, Copying
    <2>4. CASE UNCHANGED <<file, tmp>> /\ Done(t)
      <3>1. First(job'[t]) \notin Copying \union {"push", "pushCal"}
        BY <2>1, <2>4, FirstDone DEF Follows, Copying
      <3>2. \A u \in Ids \ {t} : SameWay(u)
        BY <2>1, <2>4, DoneAlone DEF SameWay
      <3>3. PushWays' /\ CalWays'
        BY <1>2, <2>1, <2>2, <3>1, <3>2, PushQuiet, CalQuiet DEF Ways
      <3>4. StoreWays'
        BY <2>1, <2>2, <3>1, <3>2, StoreGoesOn DEF Ways, Copying
      <3> QED
        BY <2>1, <2>4, <3>3, <3>4 DEF Ways
    <2>5. CASE tmp # Absent
      <3> DEFINE g == [u \in Ids |->
                        CASE job[u].fd = "file" -> [job[u] EXCEPT !.fd = "gone"]
                          [] job[u].fd = "tmp"  -> [job[u] EXCEPT !.fd = "file"]
                          [] OTHER -> job[u]]
      <3>1. file' = tmp /\ job' = [g EXCEPT ![t] = NoJob] /\ DOMAIN g = Ids
        BY <1>17, <2>5 DEF Replace
      <3>2. \A u \in Ids : g[u] \in {job[u], [job[u] EXCEPT !.fd = "gone"], [job[u] EXCEPT !.fd = "file"]}
        OBVIOUS
      <3> HIDE DEF g
      <3>3. job'[t] = NoJob /\ \A u \in Ids \ {t} : job'[u] = g[u]
        BY <3>1
      <3>4. \A u \in Ids \ {t} : SameWay(u)
        <4>1. \A u \in Ids : job[u] \in Jobs
          BY DEF Base, JobsOK
        <4> QED
          BY <3>2, <3>3, <4>1 DEF SameWay, Jobs
      <3>5. First(NoJob) = "none"
        BY NoJobOK DEF First
      <3>6. PushWays' /\ CalWays'
        BY <1>2, <2>1, <2>2, <3>3, <3>4, <3>5, PushQuiet, CalQuiet DEF Ways
      <3>7. StoreWays'
        BY <2>1, <2>2, <3>3, <3>4, <3>5, StoreGoesOn DEF Ways, Copying
      <3> QED
        BY <2>1, <2>3, <3>1, <3>6, <3>7 DEF Ways
    <2> QED
      BY <1>17, <2>4, <2>5 DEF Replace
  <1> QED
    BY <1>6, <1>7, <1>8, <1>9, <1>10, <1>11, <1>12, <1>13, <1>14, <1>15, <1>16, <1>17 DEF Step

LEMMA WaysInit == Init => Ways
  <1> SUFFICES ASSUME Init PROVE Ways
    OBVIOUS
  <1>1. \A t \in Ids : First(job[t]) = "none"
    BY NoJobOK DEF Init, First
  <1> QED
    BY <1>1 DEF Init, Ways, PushWays, CalWays, StoreWays, Copying

\* What a boot finds and what it tells the worker.
LEMMA WaysBoot ==
  ASSUME Base, Ways, Boot
  PROVE  Ways'
  <1>1. \A t \in Ids : job'[t] = NoJob
    BY DEF Boot, Base, JobsOK
  <1>2. First(NoJob) = "none"
    BY NoJobOK DEF First
  <1>3. status' = "up" => told'.setting = setting'.pushed /\ told'.cal = cal'
    BY DEF Boot
  <1> QED
    BY <1>1, <1>2, <1>3 DEF Boot, raceVars, Ways, PushWays, CalWays, StoreWays, Copying

LEMMA WaysStay ==
  ASSUME Ways, UNCHANGED <<status, setting, cal, told, tmp, job, crossed, outdated>>
  PROVE  Ways'
  BY DEF Ways, PushWays, CalWays, StoreWays, Storing, First

LEMMA WaysInvariant == Spec => [](Base /\ Ways)
  <1>1. ASSUME Base, Ways, [Next]_vars
        PROVE  Ways'
    <2>1. CASE \E t \in Threads : Request(t)
      BY <1>1, <2>1, WaysRequest
    <2>2. CASE \E t \in Ids : Step(t)
      BY <1>1, <2>2, WaysStep
    <2>3. ASSUME status = "up", job[Loop] = NoJob, Base, Ways,
                 NEW n, NEW p, NEW f, BeginProfile(Loop, n, p, f, WriteProfile),
                 UNCHANGED <<setting, cal, told, tmp, crossed, outdated>>
          PROVE  Ways'
      <3> DEFINE k == [NoJob EXCEPT !.name = n, !.profile = p, !.fresh = f, !.todo = WriteProfile]
      <3>1. Begin(Loop, k) /\ k.todo = WriteProfile /\ Head(WriteProfile) = "truncate"
            /\ WriteProfile # << >>
        BY <2>3 DEF BeginProfile, NoJob, WriteProfile
      <3> HIDE DEF k
      <3>2. job'[Loop] = k /\ First(k) = "truncate" /\ \A u \in Ids \ {Loop} : job'[u] = job[u]
        BY <2>3, <3>1, InIds, FirstBegun DEF First
      <3>3. First(job[Loop]) = "none"
        BY <2>3, NoJobOK DEF First
      <3> QED
        BY <2>3, <3>2, <3>3, InIds, WaysQuiet DEF Copying
    <2>4. CASE \E n \in Names, p \in Profiles : Upload(n, p)
      BY <1>1, <2>3, <2>4 DEF Upload, Idle, memVars, diskVars
    <2>5. CASE FlushRun
      <3>1. /\ status = "up" /\ job[Loop] = NoJob
            /\ UNCHANGED <<status, setting, cal, told, tmp, crossed, outdated>>
        BY <2>5 DEF FlushRun, Idle, diskVars
      <3>2. CASE UNCHANGED job
        BY <1>1, <3>1, <3>2, WaysStay
      <3>3. CASE \E n, p : BeginProfile(Loop, n, p, FALSE, WriteProfile)
        BY <1>1, <2>3, <3>1, <3>3
      <3> QED
        BY <2>5, <3>2, <3>3 DEF FlushRun
    <2>6. CASE \E n \in Names : Writeback(n)
      BY <1>1, <2>6, WaysStay DEF Writeback, memVars, raceVars
    <2>7. CASE Boot
      BY <1>1, <2>7, WaysBoot
    <2>8. CASE Stop
      <3>1. \A t \in Ids : First(job'[t]) = "none"
        BY <2>8, NoJobOK DEF Stop, First
      <3> QED
        BY <2>8, <3>1 DEF Stop, Ways, PushWays, CalWays, StoreWays, Copying
    <2>9. CASE UNCHANGED vars
      BY <1>1, <2>9, WaysStay DEF vars, memVars, diskVars, raceVars
    <2> QED
      BY <1>1, <2>1, <2>2, <2>4, <2>5, <2>6, <2>7, <2>8, <2>9 DEF Next
  <1> QED
    BY <1>1, WaysInit, BaseInvariant, PTL DEF Spec

\* What is not on its way to the worker, the worker was sent last as the server
\* shows it, with any number of requests at once: each that changes something
\* in force sends it before anything in it can fail, and a boot tells the worker
\* what it loads.  Only one that is set again before it was sent may be lost.
THEOREM WorkerIsTold == Spec => []WorkerFollows
  <1>1. ASSUME Base, Ways, status = "up"
        PROVE  /\ "push" \in crossed \/ (\E t \in Ids : AtStep(t, "push"))
                  \/ told.setting = setting.pushed
               /\ "pushCal" \in crossed \/ (\E t \in Ids : AtStep(t, "pushCal")) \/ told.cal = cal
    <2>1. \A t \in Ids : /\ AtStep(t, "push") <=> First(job[t]) = "push"
                         /\ AtStep(t, "pushCal") <=> First(job[t]) = "pushCal"
      BY <1>1, AtFirst
    <2> QED
      BY <1>1, <2>1 DEF Ways, PushWays, CalWays
  <1>2. Base /\ Ways => WorkerFollows
    BY <1>1 DEF WorkerFollows
  <1> QED
    BY <1>2, WaysInvariant, PTL

\* The settings file holds settings that were in force together, or none, and
\* changes only to those in force: every step of the server, full cards, power
\* cuts and profiles that cannot be read included, is one of the abstract
\* store's, or none of its business, with any number of requests at once.
THEOREM SettingsRefineDurable == Spec => SettingsAreDurable
  <1> DEFINE force == IF status = "up" THEN setting ELSE None
  <1>1. None \notin Settings /\ Absent \notin Settings
    BY StoreAssumption DEF NotText
  <1>2. Init => Durable!Init
    BY <1>1 DEF Init, Durable!Init, Loaded
  <1>3. ASSUME Base, Base', Ways, [Next]_vars
        PROVE  [Durable!Next]_Durable!vars
    <2>1. status = "up" => force \in Settings /\ force # None
      BY <1>1, <1>3 DEF Base
    <2>2. ASSUME status = "up", status' = "up", file' = file
          PROVE  Durable!Change
      <3>1. setting' \in Settings
        BY <1>3 DEF Base
      <3> QED
        BY <2>1, <2>2, <3>1 DEF Durable!Change, Loaded
    <2>3. CASE \E t \in Threads : Request(t)
      <3>1. status = "up" /\ status' = "up" /\ file' = file
        BY <2>3 DEF Request, SetPushed, SetKept, RestoreDefaults, SetCoefficients, GetCoefficients,
                    ApplyForm, Activate, SaveCurrent, Create, Delete, Idle, diskVars
      <3> QED
        BY <2>2, <3>1 DEF Durable!Next
    <2>4. CASE \E t \in Ids : Step(t)
      <3>1. status = "up" /\ status' = "up"
        BY <2>4 DEF Step, Push, Reload, ApplyCal, PushCal, SetActive, Forget, Truncate, Fill,
                    Snapshot, OpenTmp, WriteTmp, Replace, AtStep
      <3>2. file' = file \/ (setting' = setting /\ (file' = setting \/ outdated))
        BY <1>3, <2>4, WaysStep
      <3>3. CASE file' = file
        BY <2>2, <3>1, <3>3 DEF Durable!Next
      <3>4. CASE file' = setting /\ setting' = setting
        <4>1. Loaded(file)' = setting
          BY <1>3, <3>4 DEF Loaded, Base
        <4>2. Durable!Store
          BY <2>1, <3>1, <3>4, <4>1 DEF Durable!Store
        <4> QED
          BY <4>2 DEF Durable!Next
      <3>5. CASE outdated /\ setting' = setting
        <4>1. Loaded(file') \in Settings
          BY StoreAssumption DEF Loaded, Defaults, Settings
        <4>2. Durable!StoreAtOnce
          BY <2>1, <3>1, <3>5, <4>1 DEF Durable!StoreAtOnce, Loaded
        <4> QED
          BY <4>2 DEF Durable!Next
      <3> QED
        BY <3>2, <3>3, <3>4, <3>5
    <2>5. CASE \E n \in Names, p \in Profiles : Upload(n, p)
      BY <2>2, <2>5 DEF Upload, Idle, diskVars, Durable!Next
    <2>6. CASE FlushRun
      BY <2>2, <2>6 DEF FlushRun, Idle, diskVars, Durable!Next
    <2>7. CASE \E n \in Names : Writeback(n)
      BY <2>7 DEF Writeback, memVars, Durable!vars, Loaded
    <2>8. CASE Boot
      <3>1. status # "up" /\ setting' = Loaded(file) /\ file' = file
        BY <2>8 DEF Boot, diskVars
      <3>2. CASE status' = "up"
        BY <3>1, <3>2 DEF Durable!Boot, Durable!Next, Loaded
      <3>3. CASE status' # "up"
        BY <3>1, <3>3 DEF Durable!vars, Loaded
      <3> QED
        BY <3>2, <3>3
    <2>9. CASE Stop
      BY <2>9 DEF Stop, Durable!Stop, Durable!Next, Loaded
    <2>10. CASE UNCHANGED vars
      BY <2>10 DEF vars, memVars, diskVars, Durable!vars, Loaded
    <2> QED
      BY <1>3, <2>3, <2>4, <2>5, <2>6, <2>7, <2>8, <2>9, <2>10 DEF Next
  <1>4. Spec => Durable!Spec
    BY <1>2, <1>3, WaysInvariant, PTL DEF Spec, Durable!Spec
  <1> QED
    BY <1>4 DEF SettingsAreDurable

-----------------------------------------------------------------------------
\* Nothing in memory or on the card is anything but what it is declared to be,
\* settings and profiles that were cut off or mixed up included, for any number
\* of requests at once: what each thread pushes, applies, writes or stores it
\* has been given by then.
THEOREM StoreTypeCorrect == Spec => []TypeOK
  <1> DEFINE Queues == crossed \subseteq {"push", "pushCal"}
  <1>1. ASSUME Queues, [Next]_vars PROVE Queues'
    BY <1>1 DEF Next, Request, Step, SetPushed, SetKept, RestoreDefaults, SetCoefficients,
       GetCoefficients, ApplyForm, Activate, SaveCurrent, Create, Delete, Push, Reload, ApplyCal,
       PushCal, SetActive, Forget, Truncate, Fill, Snapshot, OpenTmp, WriteTmp, Replace, Upload,
       FlushRun, Writeback, Boot, Stop, Overtakes, raceVars, vars
  <1>2. Init => Queues
    BY DEF Init
  <1>3. Base /\ Totals /\ Ways /\ Queues => TypeOK
    BY DEF Base, Totals, Ways, TypeOK, JobsOK
  <1> HIDE DEF Queues
  <1>4. Spec => []Queues
    BY <1>1, <1>2, PTL DEF Spec
  <1> QED
    BY <1>3, <1>4, TotalsInvariant, WaysInvariant, PTL
=============================================================================
