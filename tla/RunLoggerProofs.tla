--------------------------- MODULE RunLoggerProofs ---------------------------
(***************************************************************************)
(* Theorems about the run log, for any number of runs, parts and seconds.  *)
(* Every method is an operator from a state of the log to the states it    *)
(* can leave, so the proof goes method by method: what each can leave of a *)
(* sound log, and then what the worker's steps make of that.               *)
(***************************************************************************)
EXTENDS RunLogger, FiniteSetTheorems, SequenceTheorems, WellFoundedInduction, TLAPS

\* A part of the run has no number beyond the last one's.
Numbered(s) == \A p \in s.files : RunBase(p) = s.base => PartNumber(p) <= s.part

\* What is left of the run are its latest parts, but for those that could not be
\* deleted.
Tight(s) ==
  \A p \in s.files \ s.spared :
    RunBase(p) = s.base => \A k \in PartNumber(p)..s.part : <<s.base, k>> \in s.files

\* The part that has its name is the one being written, and the run was reported.
Recorded(s) ==
  s.path # NoPart =>
    /\ s.base # NoBase /\ s.path = <<s.base, s.part>> /\ s.handle = s.path /\ s.told = s.base
    /\ s.named # "unread" => Numbered(s)
    /\ s.named = "free" => Tight(s)

Sound(s) ==
  /\ s \in LogStates /\ IsFiniteSet(s.files) /\ s.part \in 1..MaxParts
  /\ Recorded(s)
  /\ s.overwrote => s.named = "unread"

Reported(s) == s.part = 1 => s.told = IF s.handle # NoPart THEN s.base ELSE NoBase

\* What the server takes to be recorded is what it was told last, or will be.
Linked(s, v) ==
  IF s.news = << >> THEN v = s.told ELSE s.news[Len(s.news)] = s.told

Follows(s, t) == \A v : Linked(s, v) => Linked(t, v)

\* The run in hand is the same.
SameRun(s, t) == t.base = s.base /\ t.named = s.named /\ t.overwrote = s.overwrote

\* A deletion of the run being written was let through before it could be known
\* to be, and what it has still to remove is older than what it leaves.
Pending(s, d) ==
  s.path # NoPart /\ d.base = s.base /\ s.named = "free" =>
    /\ d.behind
    /\ \A q \in d.parts :
         /\ PartNumber(q) <= s.part
         /\ \A p \in s.files \ s.spared :
              RunBase(p) = s.base /\ PartNumber(p) < PartNumber(q) => p \in d.parts

-----------------------------------------------------------------------------
(* Names. *)

\* The least of a set of numbers.
LEMMA LeastNumber ==
  ASSUME NEW K, K \subseteq Nat, K # {}
  PROVE  \E m \in K : \A k \in K : m <= k
  <1> DEFINE R == {ss \in Nat \X Nat : ss[1] < ss[2]}
  <1>1. IsWellFoundedOn(R, Nat)
    BY NatLessThanWellFounded DEF OpToRel
  <1>2. PICK m \in K : \A k \in K : <<k, m>> \notin R
    <2> HIDE DEF R
    <2> QED
      BY <1>1, WFMin
  <1>3. \A k \in K : ~(k < m)
    BY <1>2
  <1> QED
    BY <1>3

LEMMA PartNames ==
  ASSUME NEW p \in Parts
  PROVE  RunBase(p) \in Bases /\ PartNumber(p) \in Nat /\ p = <<RunBase(p), PartNumber(p)>>
  BY DEF Parts, RunBase, PartNumber

LEMMA NamedPart ==
  ASSUME NEW b \in Bases, NEW k \in Nat
  PROVE  /\ <<b, k>> \in Parts /\ RunBase(<<b, k>>) = b /\ PartNumber(<<b, k>>) = k
         /\ <<b, k>> # NoPart /\ b # NoBase
  BY NoneAssumption DEF Parts, RunBase, PartNumber

\* The runs on the card are no more than its files.
LEMMA RunsFinite ==
  ASSUME NEW files, IsFiniteSet(files)
  PROVE  IsFiniteSet({RunBase(p) : p \in files})
  <1> DEFINE taken == {RunBase(p) : p \in files}
             f == [p \in files |-> RunBase(p)]
  <1>1. f \in Surjection(files, taken)
    BY DEF Surjection
  <1> HIDE DEF f, taken
  <1>2. IsFiniteSet(taken)
    BY <1>1, FS_Surjection
  <1> QED
    BY <1>2 DEF taken

\* With fewer than MaxRuns runs taken one of a second's names is free, and the
\* one that is chosen is.
LEMMA FreshIsFree ==
  ASSUME NEW stamp \in Stamps, NEW taken, IsFiniteSet(taken), Cardinality(taken) < MaxRuns
  PROVE  FreshBase(stamp, taken) \in Bases /\ FreshBase(stamp, taken) \notin taken
  <1> DEFINE free == {k \in 1..MaxRuns + 1 : <<stamp, k>> \notin taken}
             Chosen(k) == <<stamp, k>> \notin taken /\ \A j \in 1..k - 1 : <<stamp, j>> \in taken
  <1>1. IsFiniteSet(taken) /\ Cardinality(taken) \in Nat /\ Cardinality(taken) < MaxRuns
    BY FS_CardinalityType
  <1>2. MaxRuns \in Nat /\ IsFiniteSet(1..MaxRuns + 1) /\ Cardinality(1..MaxRuns + 1) = MaxRuns + 1
    BY BoundsAssumption, FS_Interval
  <1>3. free # {}
    <2> SUFFICES ASSUME \A k \in 1..MaxRuns + 1 : <<stamp, k>> \in taken
                 PROVE  FALSE
      OBVIOUS
    <2> DEFINE f == [k \in 1..MaxRuns + 1 |-> <<stamp, k>>]
    <2>1. f \in [1..MaxRuns + 1 -> taken]
      OBVIOUS
    <2>2. \A x, y \in 1..MaxRuns + 1 : x # y => f[x] # f[y]
      OBVIOUS
    <2>3. Cardinality(taken) < Cardinality(1..MaxRuns + 1)
      BY <1>1, <1>2
    <2> HIDE DEF f
    <2> QED
      BY <1>1, <1>2, <2>1, <2>2, <2>3, FS_PigeonHole
  <1>4. PICK m \in free : \A k \in free : m <= k
    <2>1. free \subseteq Nat
      BY <1>2
    <2> HIDE DEF free
    <2> QED
      BY <1>3, <2>1, LeastNumber
  <1>5. m \in 1..MaxRuns + 1 /\ Chosen(m)
    BY <1>2, <1>4
  <1>6. PICK n \in 1..MaxRuns + 1 : n = (CHOOSE k \in 1..MaxRuns + 1 : Chosen(k)) /\ Chosen(n)
    BY <1>5
  <1>7. FreshBase(stamp, taken) = <<stamp, n>>
    BY <1>6 DEF FreshBase
  <1>8. <<stamp, n>> \in Bases
    BY <1>2 DEF Bases
  <1> QED
    BY <1>6, <1>7, <1>8

\* The name a run gets when the directory cannot be read is the first of its
\* second: a name all the same.
LEMMA FirstName ==
  ASSUME NEW stamp \in Stamps
  PROVE  FreshBase(stamp, {}) \in Bases
  <1>1. MaxRuns \in Nat
    BY BoundsAssumption
  <1>2. \A k \in 1..MaxRuns + 1 : (\A j \in 1..k - 1 : <<stamp, j>> \in {}) <=> k = 1
    <2> SUFFICES ASSUME NEW k \in 1..MaxRuns + 1, k # 1, \A j \in 1..k - 1 : <<stamp, j>> \in {}
                 PROVE  FALSE
      OBVIOUS
    <2>1. 1 \in 1..k - 1
      BY <1>1
    <2> QED
      BY <2>1
  <1>3. PICK n \in 1..MaxRuns + 1 : FreshBase(stamp, {}) = <<stamp, n>>
    <2> DEFINE Chosen(k) == <<stamp, k>> \notin {} /\ \A j \in 1..k - 1 : <<stamp, j>> \in {}
    <2>1. 1 \in 1..MaxRuns + 1 /\ Chosen(1)
      BY <1>1, <1>2
    <2>2. (CHOOSE k \in 1..MaxRuns + 1 : Chosen(k)) \in 1..MaxRuns + 1
      BY <2>1
    <2> QED
      BY <2>2 DEF FreshBase
  <1> QED
    BY <1>1, <1>3 DEF Bases

-----------------------------------------------------------------------------
(* What the methods leave of the log. *)

LEMMA Following ==
  /\ \A s : Follows(s, s)
  /\ \A s, t, u : Follows(s, t) /\ Follows(t, u) => Follows(s, u)
  BY DEF Follows

\* A log that is closed and has no part with a name is sound.
LEMMA ClosedSound ==
  ASSUME NEW s \in LogStates, IsFiniteSet(s.files), s.part \in 1..MaxParts, s.path = NoPart,
         s.overwrote => s.named = "unread"
  PROVE  Sound(s)
  BY DEF Sound, Recorded

\* A report is all that a report adds.
LEMMA Reporting ==
  ASSUME NEW s \in LogStates, NEW b \in Reports
  PROVE  LET t == Report(s, b)
         IN  /\ t \in LogStates /\ t.told = b /\ Follows(s, t) /\ SameRun(s, t)
             /\ t.handle = s.handle /\ t.path = s.path /\ t.part = s.part /\ t.files = s.files
             /\ t.described = s.described /\ t.spared = s.spared
  <1> DEFINE t == Report(s, b)
  <1>1. CASE b = s.told
    BY <1>1 DEF Report, Follows, SameRun
  <1>2. CASE b # s.told
    <2>1. t = [s EXCEPT !.told = b, !.news = Append(@, b)]
      BY <1>2 DEF Report
    <2>2. /\ s.news \in Seq(Reports) /\ Append(s.news, b) \in Seq(Reports)
          /\ Append(s.news, b) # << >> /\ Len(Append(s.news, b)) = Len(s.news) + 1
          /\ Append(s.news, b)[Len(s.news) + 1] = b
      BY DEF LogStates
    <2>3. /\ t \in LogStates /\ t.told = b /\ t.news = Append(s.news, b) /\ SameRun(s, t)
          /\ t.handle = s.handle /\ t.path = s.path /\ t.part = s.part /\ t.files = s.files
          /\ t.described = s.described /\ t.spared = s.spared
      BY <2>1, <2>2 DEF LogStates, SameRun
    <2>4. Follows(s, t)
      BY <2>2, <2>3 DEF Follows, Linked
    <2> QED
      BY <2>3, <2>4
  <1> QED
    BY <1>1, <1>2

LEMMA Failed ==
  ASSUME NEW s \in LogStates
  PROVE  /\ Fail(s) \in LogStates /\ Fail(s).handle = NoPart /\ Fail(s).path = NoPart
         /\ Fail(s).part = s.part /\ Fail(s).files = s.files
         /\ Fail(s).told = NoBase /\ Fail(s).described = s.described
         /\ Fail(s).spared = s.spared /\ SameRun(s, Fail(s)) /\ Follows(s, Fail(s))
  <1> DEFINE c == Close(s)
  <1>1. /\ c \in LogStates /\ c.handle = NoPart /\ c.path = NoPart /\ c.part = s.part
        /\ c.files = s.files /\ c.described = s.described /\ c.spared = s.spared
        /\ SameRun(s, c) /\ c.told = s.told /\ c.news = s.news
    BY DEF Close, LogStates, SameRun
  <1>2. Fail(s) = Report(c, NoBase) /\ NoBase \in Reports
    BY DEF Fail, Reports
  <1> HIDE DEF c
  <1>3. Follows(s, c)
    BY <1>1 DEF Follows, Linked
  <1> QED
    BY <1>1, <1>2, <1>3, Reporting, Following DEF SameRun

LEMMA Written ==
  ASSUME NEW s, NEW t \in WriteEvent(s)
  PROVE  t = s \/ t = Fail(s)
  BY DEF WriteEvent

\* A row keeps a log sound.
LEMMA EventSound ==
  ASSUME NEW s, Sound(s), NEW t \in WriteEvent(s)
  PROVE  /\ Sound(t) /\ (Reported(s) => Reported(t)) /\ Follows(s, t) /\ SameRun(s, t)
         /\ t.part = s.part /\ t.files = s.files /\ t.described = s.described
         /\ t.spared = s.spared
         /\ t.handle \in {s.handle, NoPart} /\ t.path \in {s.path, NoPart}
  <1>1. s \in LogStates
    BY DEF Sound
  <1>2. CASE t = s
    BY <1>2, Following DEF SameRun
  <1>3. CASE t = Fail(s)
    <2>1. Sound(t)
      BY <1>1, <1>3, Failed, ClosedSound DEF Sound, SameRun
    <2> QED
      BY <1>1, <1>3, <2>1, Failed DEF Reported
  <1> QED
    BY <1>2, <1>3, Written

\* Reclaiming space takes what the switches allow, and of the run in progress
\* its oldest parts but for those it must skip: never the one being written.
LEMMA SpaceSound ==
  ASSUME NEW s, Sound(s), NEW t \in EnsureSpace(s)
  PROVE  /\ Sound(t) /\ (Reported(s) => Reported(t)) /\ Follows(s, t) /\ SameRun(s, t)
         /\ t.part = s.part /\ t.files \subseteq s.files /\ t.described = s.described
         /\ s.spared \subseteq t.spared
         /\ t.handle \in {s.handle, NoPart} /\ t.path \in {s.path, NoPart}
         /\ s.path \in s.files => s.path \in t.files
         /\ \A p \in s.files \ t.files : IF RunBase(p) = s.base THEN trim ELSE prune
  <1>1. s \in LogStates /\ s.files \in SUBSET Parts
    BY DEF Sound, LogStates
  <1>2. CASE t = s
    BY <1>2, Following DEF SameRun
  <1>3. CASE t \in Reclaim(s)
    <2> PICK D \in Deletable(s) :
          t \in WriteEvent([s EXCEPT !.files = @ \ D,
                                     !.spared = @ \union (Skipped(s, D) \intersect Mine(s))])
      BY <1>3 DEF Reclaim
    <2> DEFINE K == Skipped(s, D) \intersect Mine(s)
               r == [s EXCEPT !.files = @ \ D, !.spared = @ \union K]
    <2>1. \A p \in D : /\ p \in s.files
                       /\ \/ prune /\ RunBase(p) # s.base
                          \/ trim /\ p # s.path /\ RunBase(p) = s.base
      BY DEF Deletable, Candidates, Others, Mine
    <2>2. \A p \in D : p # s.path /\ RunBase(p) = s.base =>
            \A q \in s.files : q # s.path /\ RunBase(q) = s.base /\ PartNumber(q) < PartNumber(p)
              => q \in D \/ q \in K
      BY <2>1 DEF Deletable, Skipped, Candidates, Mine, Others, GoesBefore
    <2>3. K \subseteq s.files
      BY DEF Mine
    <2> HIDE DEF K
    <2>4. /\ r \in LogStates /\ r.files = s.files \ D /\ r.part = s.part
          /\ r.path = s.path /\ r.handle = s.handle /\ r.told = s.told
          /\ r.described = s.described /\ r.spared = s.spared \union K /\ SameRun(s, r)
          /\ r.news = s.news
      BY <1>1, <2>3 DEF LogStates, SameRun
    <2> HIDE DEF r
    <2>5. IsFiniteSet(r.files) /\ r.base = s.base /\ r.named = s.named
      BY <2>4, FS_Subset DEF Sound, SameRun
    <2>6. s.path \in s.files => s.path \in r.files
      <3>1. SUFFICES ASSUME s.path \in D, s.path \in s.files
                     PROVE  FALSE
        BY <2>4
      <3>2. s.path # NoPart /\ RunBase(s.path) # s.base
        BY <1>1, <2>1, <3>1, NoneAssumption
      <3>3. s.path = <<s.base, s.part>>
        BY <3>2 DEF Sound, Recorded
      <3> QED
        BY <3>2, <3>3 DEF RunBase
    <2>7. ASSUME s.path # NoPart, s.named = "free"
          PROVE  Tight(r)
      <3>1. /\ s.base # NoBase /\ s.path = <<s.base, s.part>> /\ Tight(s) /\ Numbered(s)
            /\ s.part \in Nat /\ s.base \in Bases
        BY <1>1, <2>7 DEF Sound, Recorded, LogStates
      <3>2. RunBase(s.path) = s.base /\ PartNumber(s.path) = s.part
        BY <3>1, NamedPart
      <3>3. ASSUME NEW p \in r.files \ r.spared, RunBase(p) = s.base
            PROVE  \A k \in PartNumber(p)..s.part : <<s.base, k>> \in r.files
        <4>1. /\ p \in s.files /\ p \notin D /\ p \notin s.spared /\ p \notin K
              /\ PartNumber(p) \in Nat /\ p = <<s.base, PartNumber(p)>>
          BY <1>1, <2>4, <3>3, PartNames
        <4>2. /\ PartNumber(p) <= s.part
              /\ \A k \in PartNumber(p)..s.part : <<s.base, k>> \in s.files
          BY <3>1, <3>3, <4>1 DEF Tight, Numbered
        <4>3. ASSUME NEW k \in PartNumber(p)..s.part, <<s.base, k>> \in D
              PROVE  FALSE
          <5>1. k \in Nat
            BY <3>1, <4>1
          <5>2. RunBase(<<s.base, k>>) = s.base /\ PartNumber(<<s.base, k>>) = k
            BY <3>1, <5>1, NamedPart
          <5>3. <<s.base, k>> # s.path
            BY <2>1, <4>3, <5>2
          <5>4. k # PartNumber(p)
            BY <4>1, <4>3
          <5>5. PartNumber(p) < k /\ k # s.part
            BY <3>1, <4>1, <5>1, <5>3, <5>4
          <5>6. p # s.path
            BY <3>1, <3>2, <4>1, <5>1, <5>5
          <5>7. p \in D \/ p \in K
            BY <2>2, <3>3, <4>1, <4>3, <5>2, <5>3, <5>5, <5>6
          <5> QED
            BY <4>1, <5>7
        <4> QED
          BY <2>4, <4>2, <4>3
      <3> QED
        BY <2>4, <2>5, <3>3 DEF Tight
    <2>8. s.path # NoPart /\ s.named # "unread" => Numbered(r)
      BY <2>4, <2>5 DEF Sound, Recorded, Numbered
    <2>9. Recorded(r)
      BY <2>4, <2>5, <2>7, <2>8 DEF Sound, Recorded
    <2>10. Sound(r) /\ (Reported(s) => Reported(r)) /\ Follows(s, r)
      BY <2>4, <2>5, <2>9 DEF Sound, Reported, SameRun, Follows, Linked
    <2>11. t \in WriteEvent(r)
      BY DEF r, K
    <2>12. /\ Sound(t) /\ (Reported(r) => Reported(t)) /\ Follows(r, t) /\ SameRun(r, t)
           /\ t.part = r.part /\ t.files = r.files /\ t.described = r.described
           /\ t.spared = r.spared
           /\ t.handle \in {r.handle, NoPart} /\ t.path \in {r.path, NoPart}
      BY <2>10, <2>11, EventSound
    <2>13. \A p \in s.files \ t.files : IF RunBase(p) = s.base THEN trim ELSE prune
      BY <2>1, <2>4, <2>12
    <2>14. Follows(s, t) /\ SameRun(s, t)
      BY <2>4, <2>10, <2>12, Following DEF SameRun
    <2> QED
      BY <2>4, <2>6, <2>10, <2>12, <2>13, <2>14
  <1> QED
    BY <1>2, <1>3 DEF EnsureSpace

\* A part is opened: over a file only if the name was taken unread.
LEMMA Truncated ==
  ASSUME NEW s \in LogStates, IsFiniteSet(s.files), s.path = NoPart,
         s.base # NoBase, NEW p, p = <<s.base, s.part>>,
         s.overwrote => s.named = "unread",
         s.named # "unread" => \A q \in s.files : RunBase(q) = s.base => PartNumber(q) < s.part
  PROVE  LET t == Truncate(s, p)
         IN  /\ t \in LogStates /\ IsFiniteSet(t.files) /\ t.handle = p /\ t.path = NoPart
             /\ t.files = s.files \union {p} /\ t.base = s.base /\ t.named = s.named
             /\ t.part = s.part /\ t.spared = s.spared /\ t.described = s.described
             /\ t.told = s.told /\ t.news = s.news
             /\ t.overwrote => t.named = "unread"
             /\ p \in Parts /\ p # NoPart /\ RunBase(p) = s.base /\ PartNumber(p) = s.part
  <1> DEFINE t == Truncate(s, p)
  <1>1. s.base \in Bases /\ s.part \in Nat
    BY DEF LogStates
  <1>2. p \in Parts /\ RunBase(p) = s.base /\ PartNumber(p) = s.part /\ p # NoPart
    BY <1>1, NamedPart
  <1>3. /\ t \in LogStates /\ t.handle = p /\ t.path = NoPart
        /\ t.files = s.files \union {p} /\ t.base = s.base /\ t.named = s.named
        /\ t.part = s.part /\ t.spared = s.spared /\ t.described = s.described
        /\ t.told = s.told /\ t.news = s.news
        /\ t.overwrote <=> s.overwrote \/ p \in s.files
    BY <1>2 DEF Truncate, LogStates
  <1>4. IsFiniteSet(t.files)
    <2>1. \A x : IsFiniteSet(s.files \union {x})
      BY FS_AddElement
    <2> QED
      BY <1>3, <2>1
  <1> HIDE DEF t
  <1>5. p \in s.files => s.named = "unread"
    BY <1>1, <1>2
  <1> QED
    BY <1>2, <1>3, <1>4, <1>5 DEF t

\* A part that is opened behind all that there is of its run.
LEMMA OpenSound ==
  ASSUME NEW s \in LogStates, IsFiniteSet(s.files), s.part \in 1..MaxParts, s.path = NoPart,
         s.base # NoBase, NEW p, p = <<s.base, s.part>>,
         s.overwrote => s.named = "unread",
         s.named # "unread" => \A q \in s.files : RunBase(q) = s.base => PartNumber(q) < s.part,
         s.named = "free" =>
           \A q \in s.files \ s.spared : RunBase(q) = s.base =>
             \A k \in PartNumber(q)..(s.part - 1) : <<s.base, k>> \in s.files,
         NEW t \in OpenPart(s, p)
  PROVE  /\ Sound(t) /\ t.base = s.base /\ t.named = s.named /\ t.part = s.part
         /\ t.files = s.files \union {p} /\ t.spared = s.spared
         /\ t.handle \in {p, NoPart} /\ t.told = s.base /\ Follows(s, t)
         /\ (~s.described => t.handle = p /\ t.path = p)
  <1> DEFINE c == Truncate(s, p)
             o == [c EXCEPT !.path = p]
  <1>1. s.base \in Bases /\ s.part \in Nat /\ MaxParts \in Nat /\ s.files \in SUBSET Parts
    BY BoundsAssumption DEF LogStates
  <1>2. /\ c \in LogStates /\ IsFiniteSet(c.files) /\ c.handle = p
        /\ c.files = s.files \union {p} /\ c.base = s.base /\ c.named = s.named
        /\ c.part = s.part /\ c.spared = s.spared /\ c.described = s.described
        /\ c.told = s.told /\ c.news = s.news
        /\ c.overwrote => c.named = "unread"
        /\ p \in Parts /\ p # NoPart /\ RunBase(p) = s.base /\ PartNumber(p) = s.part
    BY Truncated
  <1> HIDE DEF c
  <1>3. /\ o \in LogStates /\ IsFiniteSet(o.files) /\ o.handle = p /\ o.path = p
        /\ o.files = s.files \union {p} /\ o.base = s.base /\ o.named = s.named
        /\ o.part = s.part /\ o.spared = s.spared /\ o.described = s.described
        /\ o.told = s.told /\ o.news = s.news
        /\ o.overwrote => o.named = "unread"
    BY <1>2 DEF LogStates
  <1>4. PICK u : /\ u = o \/ (s.described /\ u = Fail(o))
                 /\ t = Report(u, u.base)
    <2> DEFINE W == IF s.described THEN WriteEvent(o) ELSE {o}
    <2>1. t \in {Report(x, x.base) : x \in W}
      BY Zenon DEF OpenPart, c
    <2> HIDE DEF o
    <2>2. \A x \in W : x = o \/ (s.described /\ x = Fail(o))
      BY Written
    <2> HIDE DEF W
    <2> QED
      BY <2>1, <2>2
  <1> HIDE DEF o
  <1>5. /\ u \in LogStates /\ u.files = o.files /\ u.base = s.base /\ u.named = s.named
        /\ u.part = s.part /\ u.spared = s.spared /\ Follows(o, u)
        /\ u.overwrote => u.named = "unread"
    BY <1>3, <1>4, Failed, Following DEF SameRun
  <1>6. u.base \in Reports
    BY <1>1, <1>5 DEF Reports
  <1>7. /\ t \in LogStates /\ t.files = o.files /\ t.base = s.base /\ t.named = s.named
        /\ t.part = s.part /\ t.spared = s.spared /\ t.told = s.base
        /\ t.handle = u.handle /\ t.path = u.path /\ Follows(u, t)
        /\ t.overwrote => t.named = "unread"
    BY <1>4, <1>5, <1>6, Reporting DEF SameRun
  <1>8. Follows(s, t)
    <2>1. Follows(s, o)
      BY <1>3 DEF Follows, Linked
    <2> QED
      BY <1>5, <1>7, <2>1, Following
  <1>9. s.named # "unread" => Numbered(t)
    <2>1. ASSUME s.named # "unread", NEW q \in t.files, RunBase(q) = s.base
          PROVE  PartNumber(q) <= s.part
      <3>1. CASE q = p
        BY <1>1, <1>2, <3>1
      <3>2. CASE q \in s.files
        <4>1. PartNumber(q) \in Nat
          BY <1>1, <3>2, PartNames
        <4> QED
          BY <1>1, <2>1, <3>2, <4>1
      <3> QED
        BY <1>3, <1>7, <2>1, <3>1, <3>2
    <2> QED
      BY <1>7, <2>1 DEF Numbered
  <1>10. s.named = "free" => Tight(t)
    <2>1. ASSUME s.named = "free", NEW q \in t.files \ t.spared, RunBase(q) = s.base
          PROVE  \A k \in PartNumber(q)..s.part : <<s.base, k>> \in t.files
      <3>1. CASE q = p
        BY <1>1, <1>2, <1>3, <1>7, <3>1
      <3>2. CASE q \in s.files
        <4>1. PartNumber(q) \in Nat
          BY <1>1, <3>2, PartNames
        <4>2. \A k \in PartNumber(q)..s.part : k = s.part \/ k \in PartNumber(q)..(s.part - 1)
          BY <1>1, <4>1
        <4> QED
          BY <1>1, <1>3, <1>7, <2>1, <3>2, <4>1, <4>2
      <3> QED
        BY <1>3, <1>7, <2>1, <3>1, <3>2
    <2> QED
      BY <1>7, <2>1 DEF Tight
  <1>11. CASE u = o
    <2>1. Recorded(t)
      BY <1>2, <1>3, <1>7, <1>9, <1>10, <1>11 DEF Recorded
    <2> QED
      BY <1>3, <1>7, <1>8, <1>11, <2>1 DEF Sound
  <1>12. CASE s.described /\ u = Fail(o)
    <2>1. t.path = NoPart /\ t.handle = NoPart
      BY <1>3, <1>7, <1>12, Failed
    <2>2. Sound(t)
      BY <1>3, <1>7, <2>1, ClosedSound
    <2> QED
      BY <1>3, <1>7, <1>8, <1>12, <2>1, <2>2
  <1> QED
    BY <1>4, <1>11, <1>12

\* A part that cannot be opened, or not be begun.
LEMMA OpenRaised ==
  ASSUME NEW s \in LogStates, IsFiniteSet(s.files), s.part \in 1..MaxParts, s.path = NoPart,
         s.base # NoBase, NEW p, p = <<s.base, s.part>>,
         s.overwrote => s.named = "unread",
         s.named # "unread" => \A q \in s.files : RunBase(q) = s.base => PartNumber(q) < s.part,
         NEW t \in OpenPartRaises(s, p)
  PROVE  /\ Sound(t) /\ t.base = s.base /\ t.named = s.named /\ t.part = s.part
         /\ t.path = NoPart /\ t.spared = s.spared
         /\ t.handle \in {s.handle, p} /\ t.files \in {s.files, s.files \union {p}}
         /\ t.told = s.told /\ Follows(s, t)
  <1> DEFINE c == Truncate(s, p)
  <1>1. t = s \/ t = c
    BY DEF OpenPartRaises
  <1>2. /\ c \in LogStates /\ IsFiniteSet(c.files) /\ c.handle = p /\ c.path = NoPart
        /\ c.files = s.files \union {p} /\ c.base = s.base /\ c.named = s.named
        /\ c.part = s.part /\ c.spared = s.spared
        /\ c.told = s.told /\ c.news = s.news
        /\ c.overwrote => c.named = "unread"
    BY Truncated
  <1> HIDE DEF c
  <1>3. Follows(s, c)
    BY <1>2 DEF Follows, Linked
  <1>4. Sound(s) /\ Follows(s, s)
    BY ClosedSound, Following
  <1>5. Sound(c)
    BY <1>2, ClosedSound
  <1> QED
    BY <1>1, <1>2, <1>3, <1>4, <1>5

-----------------------------------------------------------------------------
(* What the calls of the worker leave of it. *)

\* What start() does to the files there are, and that the run it begins is not
\* one whose deletion is under way, unless it was named as such.
Begun(s, t) ==
  /\ Sound(t) /\ Reported(t) /\ Follows(s, t)
  /\ \A p \in s.files : p \notin t.files => prune
  /\ t.path # NoPart => t.path = t.handle /\ (t.named = "free" => t.base # deleting.base)

LEMMA RunNamed ==
  ASSUME NEW r \in LogStates, IsFiniteSet(r.files), Cardinality(Taken(r.files)) < MaxRuns,
         r.part = 1, r.path = NoPart, ~r.overwrote,
         NEW stamp \in Stamps, NEW n \in NameRun(r, stamp)
  PROVE  /\ n \in LogStates /\ n.files = r.files /\ n.part = 1 /\ n.path = NoPart
         /\ n.handle = r.handle /\ n.told = r.told /\ n.news = r.news /\ ~n.overwrote
         /\ n.described = r.described /\ n.base \in Bases
         /\ n.named # "unread" => \A q \in n.files : RunBase(q) # n.base
         /\ n.named = "free" => n.base # deleting.base
  <1> DEFINE fresh == FreshBase(stamp, Taken(r.files))
             first == FreshBase(stamp, {})
  <1>1. IsFiniteSet(Taken(r.files))
    BY RunsFinite DEF Taken
  <1>2. fresh \in Bases /\ fresh \notin Taken(r.files) /\ first \in Bases
    BY <1>1, FreshIsFree, FirstName
  <1> HIDE DEF fresh, first
  <1>3. PICK b \in {fresh, first} :
          n = [r EXCEPT !.base = b,
                        !.named = CASE b # fresh -> "unread"
                                    [] b = fresh /\ b = deleting.base -> "reused"
                                    [] b = fresh /\ b # deleting.base -> "free"]
    BY DEF NameRun, fresh, first
  <1> DEFINE how == CASE b # fresh -> "unread"
                      [] b = fresh /\ b = deleting.base -> "reused"
                      [] b = fresh /\ b # deleting.base -> "free"
  <1>4. /\ how \in Namings
        /\ how # "unread" => b = fresh
        /\ how = "free" => b # deleting.base
    <2>1. CASE b # fresh
      BY <2>1 DEF Namings
    <2>2. CASE b = fresh /\ b = deleting.base
      BY <2>2 DEF Namings
    <2>3. CASE b = fresh /\ b # deleting.base
      BY <2>3 DEF Namings
    <2> QED
      BY <2>1, <2>2, <2>3
  <1> HIDE DEF how
  <1>5. n = [r EXCEPT !.base = b, !.named = how]
    BY <1>3 DEF how
  <1>6. /\ n \in LogStates /\ n.files = r.files /\ n.part = 1 /\ n.path = NoPart
        /\ n.handle = r.handle /\ n.told = r.told /\ n.news = r.news /\ ~n.overwrote
        /\ n.described = r.described /\ n.base = b /\ n.named = how
    BY <1>2, <1>4, <1>5 DEF LogStates
  <1>7. \A q \in r.files : RunBase(q) \in Taken(r.files)
    BY DEF Taken
  <1> QED
    BY <1>2, <1>4, <1>6, <1>7

\* start(): the run has a name that no file has if it could look, and what it
\* deletes is of other runs; whether it is recorded has been reported.
LEMMA StartSound ==
  ASSUME NEW s, Sound(s), NEW stamp \in Stamps, Cardinality(Taken(s.files)) < MaxRuns,
         NEW t \in Start(s, stamp)
  PROVE  Begun(s, t)
  <1> DEFINE a == Afresh(s)
  <1>1. s \in LogStates /\ IsFiniteSet(s.files) /\ 1 \in 1..MaxParts /\ MaxParts \in Nat
    BY BoundsAssumption DEF Sound
  <1>2. /\ a \in LogStates /\ a.files = s.files /\ a.base = NoBase /\ a.part = 1
        /\ a.path = NoPart /\ a.handle = NoPart /\ ~a.described /\ ~a.overwrote
        /\ a.told = s.told /\ a.news = s.news
    BY <1>1 DEF Afresh, Forget, Close, LogStates, Namings
  <1>3. PICK r \in EnsureSpace(a) :
          \/ t = Fail(r)
          \/ \E n \in NameRun(r, stamp) :
               LET p == <<n.base, 1>>
               IN  t \in OpenPart(n, p) \/ \E u \in OpenPartRaises(n, p) : t = Fail(u)
    <2> DEFINE Opened(n) == LET p == <<n.base, 1>>
                            IN  OpenPart(n, p) \union {Fail(u) : u \in OpenPartRaises(n, p)}
    <2>1. PICK r \in EnsureSpace(a) :
                 t \in {Fail(r)} \union UNION {Opened(n) : n \in NameRun(r, stamp)}
      BY Zenon DEF Start
    <2>2. t = Fail(r) \/ \E n \in NameRun(r, stamp) : t \in Opened(n)
      BY Zenon, <2>1
    <2>3. \A n : t \in Opened(n) =>
            t \in OpenPart(n, <<n.base, 1>>) \/ \E u \in OpenPartRaises(n, <<n.base, 1>>) : t = Fail(u)
      BY Zenon
    <2> HIDE DEF Opened
    <2> QED
      BY <2>1, <2>2, <2>3
  <1> HIDE DEF a
  <1>4. Sound(a) /\ Follows(s, a)
    BY <1>1, <1>2, ClosedSound DEF Follows, Linked
  <1>5. /\ Sound(r) /\ r.base = NoBase /\ r.part = 1 /\ r.files \subseteq s.files /\ ~r.described
        /\ r.handle = NoPart /\ r.path = NoPart /\ ~r.overwrote /\ Follows(a, r)
        /\ \A p \in s.files \ r.files : IF RunBase(p) = NoBase THEN trim ELSE prune
    BY <1>2, <1>3, <1>4, SpaceSound DEF SameRun
  <1>6. r \in LogStates /\ r.files \in SUBSET Parts /\ IsFiniteSet(r.files) /\ s.files \in SUBSET Parts
    BY <1>1, <1>5 DEF Sound, LogStates
  <1>7. (\A p \in s.files \ r.files : prune) /\ Follows(s, r)
    BY <1>4, <1>5, <1>6, PartNames, NoneAssumption, Following
  <1>8. Cardinality(Taken(r.files)) < MaxRuns
    <2> DEFINE few == Taken(r.files)
               all == Taken(s.files)
    <2>1. few \in SUBSET all
      BY <1>5 DEF Taken
    <2>2. IsFiniteSet(all) /\ Cardinality(all) < MaxRuns
      BY <1>1, RunsFinite DEF Taken
    <2> HIDE DEF few, all
    <2>3. IsFiniteSet(few) /\ Cardinality(few) <= Cardinality(all)
      BY <2>1, <2>2, FS_Subset
    <2>4. Cardinality(few) \in Nat /\ Cardinality(all) \in Nat /\ MaxRuns \in Nat
      BY <2>2, <2>3, FS_CardinalityType, BoundsAssumption
    <2>5. Cardinality(few) < MaxRuns
      BY <2>2, <2>3, <2>4
    <2> QED
      BY <2>5 DEF few
  <1>9. ASSUME NEW u \in LogStates, IsFiniteSet(u.files), u.part = 1, r.files \subseteq u.files,
               u.overwrote => u.named = "unread", Follows(r, u), t = Fail(u)
        PROVE  Begun(s, t)
    <2>1. /\ t \in LogStates /\ t.handle = NoPart /\ t.path = NoPart /\ t.files = u.files
          /\ t.part = 1 /\ t.told = NoBase /\ SameRun(u, t) /\ Follows(u, t)
      BY <1>9, Failed
    <2>2. Sound(t)
      BY <1>1, <1>9, <2>1, ClosedSound DEF SameRun
    <2>3. Follows(s, t)
      BY <1>7, <1>9, <2>1, Following
    <2> QED
      BY <1>7, <1>9, <2>1, <2>2, <2>3 DEF Reported, Begun
  <1>10. CASE t = Fail(r)
    BY <1>5, <1>6, <1>9, <1>10, Following
  <1>11. ASSUME NEW n \in NameRun(r, stamp),
                \/ t \in OpenPart(n, <<n.base, 1>>)
                \/ \E u \in OpenPartRaises(n, <<n.base, 1>>) : t = Fail(u)
         PROVE  Begun(s, t)
    <2> DEFINE p == <<n.base, 1>>
    <2>1. /\ n \in LogStates /\ n.files = r.files /\ n.part = 1 /\ n.path = NoPart
          /\ n.handle = NoPart /\ n.told = r.told /\ n.news = r.news /\ ~n.overwrote
          /\ ~n.described /\ n.base \in Bases
          /\ n.named # "unread" => \A q \in n.files : RunBase(q) # n.base
          /\ n.named = "free" => n.base # deleting.base
      BY <1>5, <1>6, <1>8, RunNamed
    <2>2. Follows(r, n) /\ n.base # NoBase /\ p = <<n.base, n.part>>
      BY <2>1, NoneAssumption DEF Follows, Linked
    <2> HIDE DEF p
    <2>3. CASE t \in OpenPart(n, p)
      <3>1. /\ Sound(t) /\ t.part = 1 /\ t.files = r.files \union {p} /\ t.told = n.base
            /\ t.handle = p /\ t.path = p /\ t.base = n.base /\ t.named = n.named /\ Follows(n, t)
        BY <1>1, <1>6, <2>1, <2>2, <2>3, OpenSound
      <3>2. p # NoPart
        BY <2>1, NamedPart DEF p
      <3>3. Follows(s, t)
        BY <1>7, <2>2, <3>1, Following
      <3> QED
        BY <1>7, <2>1, <3>1, <3>2, <3>3 DEF Reported, Begun
    <2>4. CASE \E u \in OpenPartRaises(n, p) : t = Fail(u)
      <3>1. PICK u \in OpenPartRaises(n, p) : t = Fail(u)
        BY <2>4
      <3>2. /\ Sound(u) /\ u.part = 1 /\ u.files \in {r.files, r.files \union {p}}
            /\ Follows(n, u)
        BY <1>1, <1>6, <2>1, <2>2, OpenRaised
      <3>3. u \in LogStates /\ IsFiniteSet(u.files) /\ (u.overwrote => u.named = "unread")
        BY <3>2 DEF Sound
      <3>4. Follows(r, u)
        BY <2>2, <3>2, Following
      <3> QED
        BY <1>9, <3>1, <3>2, <3>3, <3>4
    <2> QED
      BY <1>11, <2>3, <2>4 DEF p
  <1> QED
    BY <1>3, <1>10, <1>11

\* _roll_over: the next part is opened behind the others, where no file is
\* unless the name was taken unread.
LEMMA RollSound ==
  ASSUME NEW s, Sound(s), RollsOver(s), NEW t \in RollOver(s)
  PROVE  LET p == <<s.base, s.part + 1>>
         IN  /\ Sound(t) /\ t.base = s.base /\ t.named = s.named /\ t.part = s.part + 1
             /\ t.files \in {s.files, s.files \union {p}} /\ t.spared = s.spared
             /\ t.path # s.path /\ Follows(s, t)
             /\ p \in Parts /\ PartNumber(p) = s.part + 1 /\ s.part \in Nat /\ s.path # NoPart
  <1> DEFINE p == <<s.base, s.part + 1>>
  <1>1. s.path # NoPart /\ s.part < MaxParts /\ s \in LogStates /\ s.files \in SUBSET Parts
    BY NoneAssumption DEF Sound, RollsOver, LogStates
  <1>2. /\ IsFiniteSet(s.files) /\ s.part \in Nat
        /\ s.part + 1 \in 1..MaxParts /\ s.base \in Bases /\ s.base # NoBase
        /\ s.path = <<s.base, s.part>>
        /\ s.named # "unread" => Numbered(s)
        /\ s.named = "free" => Tight(s)
        /\ s.part + 1 \in Nat /\ MaxParts \in Nat
    BY <1>1, BoundsAssumption DEF Sound, Recorded, LogStates
  <1>3. p \in Parts /\ RunBase(p) = s.base /\ PartNumber(p) = s.part + 1 /\ s.path # p
    BY <1>2, NamedPart
  <1>4. PICK e \in WriteEvent(s) :
          LET next == [Close(e) EXCEPT !.part = @ + 1]
              q == <<s.base, next.part>>
          IN  \/ t \in OpenPartRaises(next, q)
              \/ \E o \in OpenPart(next, q) : t \in WriteEvent(o)
    <2> DEFINE Rolled(e) == LET next == [Close(e) EXCEPT !.part = @ + 1]
                                q == <<s.base, next.part>>
                            IN  OpenPartRaises(next, q)
                                  \union UNION {WriteEvent(o) : o \in OpenPart(next, q)}
    <2>1. t \in UNION {Rolled(e) : e \in WriteEvent(s)}
      BY Zenon DEF RollOver
    <2>2. PICK e \in WriteEvent(s) : t \in Rolled(e)
      BY Zenon, <2>1
    <2> QED
      BY Zenon, <2>2
  <1>5. /\ e \in LogStates /\ e.files = s.files /\ e.base = s.base /\ e.part = s.part
        /\ e.named = s.named /\ e.spared = s.spared /\ Follows(s, e)
        /\ e.overwrote => e.named = "unread"
    BY EventSound DEF Sound, SameRun
  <1> DEFINE next == [Close(e) EXCEPT !.part = @ + 1]
  <1>6. /\ next \in LogStates /\ next.files = s.files /\ next.base = s.base
        /\ next.part = s.part + 1 /\ next.path = NoPart /\ next.handle = NoPart
        /\ next.named = s.named /\ next.spared = s.spared
        /\ next.told = e.told /\ next.news = e.news
        /\ next.overwrote => next.named = "unread"
    BY <1>2, <1>5 DEF Close, LogStates
  <1>7. \/ t \in OpenPartRaises(next, p)
        \/ \E o \in OpenPart(next, p) : t \in WriteEvent(o)
    BY <1>4, <1>6
  <1> HIDE DEF next
  <1>8. p = <<next.base, next.part>>
    BY <1>6
  <1>9. next.named # "unread" => \A q \in next.files : RunBase(q) = next.base => PartNumber(q) < next.part
    <2> SUFFICES ASSUME NEW q \in s.files, RunBase(q) = s.base, s.named # "unread"
                 PROVE  PartNumber(q) < s.part + 1
      BY <1>6
    <2>1. PartNumber(q) \in Nat
      BY <1>1, PartNames
    <2> QED
      BY <1>2, <2>1 DEF Numbered
  <1>10. next.named = "free" =>
           \A q \in next.files \ next.spared : RunBase(q) = next.base =>
             \A k \in PartNumber(q)..(next.part - 1) : <<next.base, k>> \in next.files
    <2> SUFFICES ASSUME NEW q \in s.files \ s.spared, RunBase(q) = s.base, s.named = "free"
                 PROVE  \A k \in PartNumber(q)..((s.part + 1) - 1) : <<s.base, k>> \in s.files
      BY <1>6
    <2>1. (s.part + 1) - 1 = s.part
      BY <1>2
    <2> QED
      BY <1>2, <2>1 DEF Tight
  <1>11. Follows(s, next)
    <2>1. Follows(e, next)
      BY <1>6 DEF Follows, Linked
    <2> QED
      BY <1>5, <2>1, Following
  <1> HIDE DEF p
  <1>12. ASSUME Sound(t), t.base = s.base, t.part = s.part + 1
         PROVE  t.path # s.path
    BY <1>2, <1>3, <1>12, NoneAssumption, <1>1 DEF Sound, Recorded, p
  <1>13. CASE t \in OpenPartRaises(next, p)
    <2>1. /\ Sound(t) /\ t.base = s.base /\ t.named = s.named /\ t.part = s.part + 1
          /\ t.files \in {s.files, s.files \union {p}} /\ t.spared = s.spared
          /\ Follows(next, t)
      BY <1>2, <1>6, <1>8, <1>9, <1>13, OpenRaised
    <2> QED
      BY <1>1, <1>2, <1>3, <1>11, <1>12, <2>1, Following DEF p
  <1>14. CASE \E o \in OpenPart(next, p) : t \in WriteEvent(o)
    <2>1. PICK o \in OpenPart(next, p) : t \in WriteEvent(o)
      BY <1>14
    <2>2. /\ Sound(o) /\ o.base = s.base /\ o.named = s.named /\ o.part = s.part + 1
          /\ o.files = s.files \union {p} /\ o.spared = s.spared /\ Follows(next, o)
      BY <1>2, <1>6, <1>8, <1>9, <1>10, OpenSound
    <2>3. /\ Sound(t) /\ t.base = o.base /\ t.named = o.named /\ t.part = o.part
          /\ t.files = o.files /\ t.spared = o.spared /\ Follows(o, t)
      BY <2>1, <2>2, EventSound DEF SameRun
    <2>4. Follows(s, t)
      BY <1>11, <2>2, <2>3, Following
    <2> QED
      BY <1>1, <1>2, <1>3, <1>12, <2>2, <2>3, <2>4 DEF p
  <1> QED
    BY <1>7, <1>13, <1>14

\* What is pending stays so while the run grows behind and shrinks in front.
LEMMA PendingKept ==
  ASSUME NEW s \in LogStates, NEW t \in LogStates, t.base = s.base, t.named = s.named,
         t.part >= s.part, s.path = NoPart => t.path = NoPart,
         \A p \in t.files \ t.spared : p \in s.files \ s.spared \/ PartNumber(p) > s.part,
         NEW d \in Deletions, Pending(s, d)
  PROVE  Pending(t, d)
  <1> SUFFICES ASSUME t.path # NoPart, d.base = t.base, t.named = "free", NEW q \in d.parts
               PROVE  /\ d.behind /\ PartNumber(q) <= t.part
                      /\ \A p \in t.files \ t.spared :
                           RunBase(p) = t.base /\ PartNumber(p) < PartNumber(q) => p \in d.parts
    <2>1. t.path # NoPart /\ d.base = t.base /\ t.named = "free" => d.behind
      BY DEF Pending
    <2> QED
      BY <2>1 DEF Pending
  <1>1. /\ d.behind /\ PartNumber(q) <= s.part
        /\ \A p \in s.files \ s.spared :
             RunBase(p) = s.base /\ PartNumber(p) < PartNumber(q) => p \in d.parts
    BY DEF Pending
  <1>2. /\ \A p \in t.files : PartNumber(p) \in Nat
        /\ PartNumber(q) \in Nat /\ s.part \in Nat /\ t.part \in Nat
    BY PartNames DEF LogStates, Deletions
  <1> QED
    BY <1>1, <1>2

\* What a row of readings does to a log, housekeeping included.
Grown(s, t) ==
  /\ Sound(t) /\ (Reported(s) => Reported(t)) /\ Follows(s, t)
  /\ \A p \in s.files \ t.files : IF RunBase(p) = s.base THEN trim ELSE prune
  /\ s.path \in s.files /\ t.path = s.path => s.path \in t.files
  /\ \A d \in Deletions : Pending(s, d) => Pending(t, d)

LEMMA EventGrown ==
  ASSUME NEW s, Sound(s), NEW t \in WriteEvent(s)
  PROVE  Grown(s, t)
  <1>1. s \in LogStates /\ s.part \in Nat
    BY DEF Sound, LogStates
  <1>2. /\ Sound(t) /\ (Reported(s) => Reported(t)) /\ Follows(s, t) /\ SameRun(s, t)
        /\ t.part = s.part /\ t.files = s.files /\ t.spared = s.spared
        /\ t.path \in {s.path, NoPart}
    BY EventSound
  <1>3. t \in LogStates /\ t.part >= s.part
    BY <1>1, <1>2 DEF Sound
  <1>4. \A d \in Deletions : Pending(s, d) => Pending(t, d)
    BY <1>1, <1>2, <1>3, PendingKept DEF SameRun
  <1> QED
    BY <1>2, <1>4 DEF Grown

LEMMA SpaceGrown ==
  ASSUME NEW s, Sound(s), NEW t \in EnsureSpace(s)
  PROVE  Grown(s, t)
  <1>1. s \in LogStates /\ s.part \in Nat
    BY DEF Sound, LogStates
  <1>2. /\ Sound(t) /\ (Reported(s) => Reported(t)) /\ Follows(s, t) /\ SameRun(s, t)
        /\ t.part = s.part /\ t.files \subseteq s.files /\ s.spared \subseteq t.spared
        /\ t.path \in {s.path, NoPart}
        /\ s.path \in s.files => s.path \in t.files
        /\ \A p \in s.files \ t.files : IF RunBase(p) = s.base THEN trim ELSE prune
    BY SpaceSound
  <1>3. t \in LogStates /\ t.part >= s.part
    BY <1>1, <1>2 DEF Sound
  <1>4. \A d \in Deletions : Pending(s, d) => Pending(t, d)
    BY <1>1, <1>2, <1>3, PendingKept DEF SameRun
  <1> QED
    BY <1>2, <1>4 DEF Grown

LEMMA MeasurementSound ==
  ASSUME NEW s, Sound(s), NEW t \in WriteMeasurement(s)
  PROVE  Grown(s, t)
  <1>1. s \in LogStates /\ s.files \in SUBSET Parts /\ IsFiniteSet(s.files) /\ s.part \in Nat
    BY BoundsAssumption DEF Sound, LogStates
  <1>2. CASE t = s
    BY <1>2, Following DEF Grown
  <1>3. CASE Faults /\ t = Fail(s) /\ s.handle # NoPart
    <2>1. t \in WriteEvent(s)
      BY <1>3 DEF WriteEvent
    <2> QED
      BY <2>1, EventGrown
  <1>4. CASE s.handle # NoPart /\ t \in Housekeep(s)
    <2>1. PICK h : /\ h = s \/ (h \in RollOver(s) /\ RollsOver(s))
                   /\ t \in EnsureSpace(h)
      BY <1>4 DEF Housekeep
    <2>2. CASE h = s
      BY <2>1, <2>2, SpaceGrown
    <2>3. CASE h \in RollOver(s) /\ RollsOver(s)
      <3> DEFINE p == <<s.base, s.part + 1>>
      <3>1. /\ Sound(h) /\ h.base = s.base /\ h.named = s.named /\ h.part = s.part + 1
            /\ h.files \in {s.files, s.files \union {p}} /\ h.spared = s.spared
            /\ h.path # s.path /\ Follows(s, h)
            /\ p \in Parts /\ PartNumber(p) = s.part + 1 /\ s.path # NoPart
        BY <2>3, RollSound
      <3> HIDE DEF p
      <3>2. /\ Sound(t) /\ t.part = h.part /\ SameRun(h, t) /\ Follows(h, t)
            /\ t.path \in {h.path, NoPart} /\ t.files \subseteq h.files
            /\ h.spared \subseteq t.spared
            /\ \A q \in h.files \ t.files : IF RunBase(q) = h.base THEN trim ELSE prune
        BY <2>1, <3>1, SpaceSound
      <3>3. t.part # 1 /\ t.path # s.path /\ t.part >= s.part /\ t \in LogStates
        BY <1>1, <3>1, <3>2 DEF Sound
      <3>4. \A q \in t.files \ t.spared : q \in s.files \ s.spared \/ PartNumber(q) > s.part
        BY <1>1, <3>1, <3>2
      <3>5. \A d \in Deletions : Pending(s, d) => Pending(t, d)
        BY <1>1, <3>1, <3>2, <3>3, <3>4, PendingKept DEF SameRun
      <3>6. Follows(s, t)
        BY <3>1, <3>2, Following
      <3> QED
        BY <3>1, <3>2, <3>3, <3>5, <3>6 DEF Reported, Grown
    <2> QED
      BY <2>1, <2>2, <2>3
  <1> QED
    BY <1>2, <1>3, <1>4 DEF WriteMeasurement

-----------------------------------------------------------------------------
(* The steps of the worker and the server. *)

\* The deletion in hand is of parts of its run.
Removal(d) == d \in Deletions /\ \A q \in d.parts : RunBase(q) = d.base

LogInv ==
  /\ Sound(log) /\ (going => Reported(log)) /\ (~going => log.path = NoPart)
  /\ Linked(log, view) /\ Removal(deleting) /\ Pending(log, deleting)
  /\ prune \in BOOLEAN /\ trim \in BOOLEAN /\ going \in BOOLEAN /\ view \in Reports

LEMMA InitSound == Init => LogInv
  <1> SUFFICES ASSUME Init PROVE LogInv
    OBVIOUS
  <1>1. 1 \in 1..MaxParts /\ IsFiniteSet({})
    BY BoundsAssumption, FS_EmptySet
  <1>2. /\ log \in LogStates /\ log.files = {} /\ log.part = 1 /\ log.path = NoPart
        /\ log.news = << >> /\ log.told = NoBase /\ ~log.overwrote
    BY DEF Init, NewLog, LogStates, Reports, Namings
  <1>3. Sound(log)
    BY <1>1, <1>2, ClosedSound
  <1>4. Removal(deleting) /\ Linked(log, view) /\ Pending(log, deleting)
    BY <1>2 DEF Init, NoDeletion, Removal, Deletions, Linked, Pending
  <1> QED
    BY <1>2, <1>3, <1>4 DEF Init, LogInv, Reports

\* A run is started, or its recording tried again.
LEMMA RunStarted ==
  ASSUME LogInv, NEW stamp \in Stamps, RoomForRun, StartRunLog(stamp)
  PROVE  /\ Sound(log)' /\ Reported(log)' /\ Linked(log', view)
         /\ Pending(log', deleting)
         /\ \A p \in log.files : p \notin log'.files => prune
  <1>1. PICK s \in Start(log, stamp) :
               log' \in IF s.handle = NoPart THEN {s} ELSE WriteEvent([s EXCEPT !.described = TRUE])
    BY DEF StartRunLog
  <1>2. Begun(log, s) /\ s \in LogStates
    BY StartSound DEF LogInv, RoomForRun, Begun, Sound
  <1>3. PICK t : /\ log' = t /\ Sound(t) /\ Reported(t) /\ Follows(s, t) /\ t.files = s.files
                 /\ t.path \in {s.path, NoPart} /\ SameRun(s, t)
    <2>1. CASE s.handle = NoPart
      BY <1>1, <1>2, <2>1, Following DEF Begun, SameRun
    <2>2. CASE s.handle # NoPart
      <3> DEFINE d == [s EXCEPT !.described = TRUE]
      <3>1. /\ d \in LogStates /\ d.handle = s.handle /\ d.path = s.path /\ d.base = s.base
            /\ d.part = s.part /\ d.told = s.told /\ d.files = s.files /\ d.spared = s.spared
            /\ d.news = s.news /\ SameRun(s, d)
        BY <1>2 DEF LogStates, SameRun
      <3>2. log' \in WriteEvent(d)
        BY <1>1, <2>2
      <3> HIDE DEF d
      <3>3. Sound(d) /\ Reported(d) /\ Follows(s, d)
        BY <1>2, <3>1 DEF Begun, Sound, Recorded, Numbered, Tight, Reported, SameRun, Follows, Linked
      <3>4. PICK t \in WriteEvent(d) : log' = t
        BY <3>2
      <3>5. /\ Sound(t) /\ Reported(t) /\ Follows(d, t) /\ SameRun(d, t) /\ t.files = d.files
            /\ t.path \in {d.path, NoPart}
        BY <3>3, EventSound
      <3> QED
        BY <3>1, <3>3, <3>4, <3>5, Following DEF SameRun
    <2> QED
      BY <2>1, <2>2
  <1>4. Linked(t, view)
    BY <1>2, <1>3 DEF LogInv, Begun, Follows
  <1>5. Pending(t, deleting)
    BY <1>2, <1>3 DEF Begun, Pending, SameRun
  <1> QED
    BY <1>2, <1>3, <1>4, <1>5
    DEF Begun, Sound, Recorded, Numbered, Tight, Reported, Linked, Pending

\* What any step does to the log and to the files there are.
Steady ==
  /\ LogInv'
  /\ log.path \in log.files \ log'.files /\ log'.path = log.path =>
       /\ deleting.base = log.base
       /\ deleting.behind \/ log.named # "free"
  /\ \A p \in log.files \ log'.files :
       \/ IF RunBase(p) = log.base /\ ~StartsRun THEN trim ELSE prune
       \/ RemovePart

\* A step of a running log, which is then as its method leaves it.
LEMMA GrownSteady ==
  ASSUME LogInv, going, ~StartsRun, NEW t, log' = t, Grown(log, t), UNCHANGED <<workerVars, serverVars>>
  PROVE  Steady
  <1>1. Linked(t, view) /\ Pending(t, deleting)
    BY DEF LogInv, Grown, Follows, Removal
  <1>2. Sound(log)' /\ Reported(log)'
    BY DEF LogInv, Grown, Sound, Recorded, Numbered, Tight, Reported
  <1>3. Linked(log, view)' /\ Pending(log, deleting)' /\ Removal(deleting)'
    BY <1>1 DEF LogInv, Linked, Pending, Removal, serverVars
  <1>4. LogInv'
    BY <1>2, <1>3 DEF LogInv, workerVars, serverVars
  <1> QED
    BY <1>4 DEF Grown, Steady

\* The server removes the part that comes next of the run it is deleting.
LEMMA RemovalSteady ==
  ASSUME LogInv, RemovePart
  PROVE  Steady
  <1> DEFINE d == deleting
             Lowest(q) == \A r \in d.parts : PartNumber(q) <= PartNumber(r)
             p == CHOOSE q \in d.parts : Lowest(q)
             rest == d.parts \ {p}
  <1>1. /\ log \in LogStates /\ log.files \in SUBSET Parts /\ IsFiniteSet(log.files)
        /\ d \in Deletions /\ d.parts \in SUBSET Parts
        /\ \A q \in d.parts : RunBase(q) = d.base
    BY DEF LogInv, Sound, LogStates, Removal, Deletions
  <1>2. p \in d.parts /\ Lowest(p)
    <2>1. \A q \in d.parts : PartNumber(q) \in Nat
      BY <1>1, PartNames
    <2>2. PICK m \in {PartNumber(q) : q \in d.parts} : \A k \in {PartNumber(q) : q \in d.parts} : m <= k
      <3> DEFINE numbers == {PartNumber(q) : q \in d.parts}
      <3>1. numbers \subseteq Nat /\ numbers # {}
        BY <2>1 DEF RemovePart
      <3> HIDE DEF numbers
      <3>2. \E m \in numbers : \A k \in numbers : m <= k
        BY <3>1, LeastNumber
      <3> QED
        BY <3>2 DEF numbers
    <2>3. PICK q \in d.parts : m = PartNumber(q)
      BY <2>2
    <2>4. q \in d.parts /\ Lowest(q)
      BY <2>2, <2>3
    <2> QED
      BY <2>4
  <1>3. /\ deleting' = IF rest = {} THEN NoDeletion ELSE [d EXCEPT !.parts = rest]
        /\ \/ log' = [log EXCEPT !.files = @ \ {p}]
           \/ log' = [log EXCEPT !.spared = @ \union {q \in log.files : q = p /\ RunBase(q) = log.base}]
        /\ UNCHANGED <<workerVars, view>>
    BY DEF RemovePart
  <1> HIDE DEF p, rest
  <1>4. /\ p \in Parts /\ RunBase(p) = d.base /\ PartNumber(p) \in Nat
        /\ \A r \in d.parts : PartNumber(p) <= PartNumber(r)
    BY <1>1, <1>2, PartNames
  <1>5. PICK t : /\ log' = t /\ t \in LogStates /\ SameRun(log, t)
                 /\ t.handle = log.handle /\ t.path = log.path /\ t.part = log.part
                 /\ t.told = log.told /\ t.news = log.news
                 /\ t.files \subseteq log.files /\ log.files \ t.files \subseteq {p}
                 /\ log.spared \subseteq t.spared
                 /\ p \in log.files /\ RunBase(p) = log.base => p \notin t.files \ t.spared
    <2>1. CASE log' = [log EXCEPT !.files = @ \ {p}]
      BY <1>1, <2>1 DEF LogStates, SameRun
    <2>2. CASE log' = [log EXCEPT !.spared = @ \union {q \in log.files : q = p /\ RunBase(q) = log.base}]
      BY <1>1, <2>2 DEF LogStates, SameRun
    <2> QED
      BY <1>3, <2>1, <2>2
  <1>6. IsFiniteSet(t.files)
    BY <1>1, <1>5, FS_Subset
  <1>7. ASSUME log.path # NoPart, log.named = "free"
        PROVE  Tight(t)
    <2>1. /\ log.base \in Bases /\ log.part \in Nat /\ Numbered(log) /\ Tight(log)
      BY <1>1, <1>7 DEF LogInv, Sound, Recorded, LogStates
    <2>2. ASSUME NEW q \in t.files \ t.spared, RunBase(q) = log.base,
                 NEW k \in PartNumber(q)..log.part
          PROVE  <<log.base, k>> \in t.files
      <3>1. /\ q \in log.files \ log.spared /\ PartNumber(q) \in Nat /\ k \in Nat
            /\ q = <<log.base, PartNumber(q)>>
        BY <1>1, <1>5, <2>1, <2>2, PartNames
      <3>2. <<log.base, k>> \in log.files
        BY <2>1, <2>2, <3>1 DEF Tight
      <3>3. ASSUME p = <<log.base, k>>, p \notin t.files
            PROVE  FALSE
        <4>1. RunBase(p) = log.base /\ PartNumber(p) = k
          BY <2>1, <3>1, <3>3, NamedPart
        <4>2. PartNumber(q) < PartNumber(p)
          BY <2>2, <3>1, <3>3, <4>1
        <4>3. q \in d.parts
          BY <1>2, <1>4, <1>7, <2>2, <3>1, <4>1, <4>2 DEF LogInv, Pending
        <4> QED
          BY <1>4, <3>1, <4>2, <4>3
      <3> QED
        BY <1>5, <3>2, <3>3
    <2> QED
      BY <1>5, <2>2 DEF Tight, SameRun
  <1>8. Sound(t)
    BY <1>5, <1>6, <1>7 DEF LogInv, Sound, Recorded, Numbered, SameRun
  <1>9. Reported(log) => Reported(t)
    BY <1>5 DEF Reported, SameRun
  <1>10. Removal(deleting') /\ Linked(t, view)
    <2>1. Linked(t, view)
      BY <1>5 DEF LogInv, Linked
    <2>2. Removal(NoDeletion)
      BY DEF Removal, Deletions, NoDeletion
    <2>3. Removal([d EXCEPT !.parts = rest])
      BY <1>1 DEF Removal, Deletions, rest
    <2> QED
      BY <1>3, <2>1, <2>2, <2>3
  <1>11. Pending(t, deleting')
    <2>1. CASE rest = {}
      BY <1>3, <1>8, <2>1 DEF NoDeletion, Pending, Sound, Recorded
    <2>2. CASE rest # {}
      <3>1. deleting'.base = d.base /\ deleting'.behind = d.behind /\ deleting'.parts = rest
        BY <1>1, <1>3, <2>2 DEF Deletions
      <3>2. \A r \in t.files \ t.spared :
              r \in log.files \ log.spared /\ (RunBase(r) = log.base => r # p)
        BY <1>5
      <3> QED
        BY <1>5, <3>1, <3>2 DEF LogInv, Pending, SameRun, rest
    <2> QED
      BY <2>1, <2>2
  <1>12. Sound(log)' /\ Linked(log, view)' /\ Pending(log, deleting)' /\ (Reported(t) => Reported(log)')
    BY <1>3, <1>5, <1>8, <1>10, <1>11
    DEF Sound, Recorded, Numbered, Tight, Linked, Pending, Reported
  <1>13. LogInv'
    BY <1>3, <1>5, <1>9, <1>10, <1>12 DEF LogInv, workerVars, Removal
  <1>14. ASSUME log.path \in log.files \ log'.files
         PROVE  deleting.base = log.base /\ (deleting.behind \/ log.named # "free")
    <2>1. log.path = p /\ log.path # NoPart
      BY <1>1, <1>5, <1>14, NoneAssumption
    <2>2. log.path = <<log.base, log.part>>
      BY <2>1 DEF LogInv, Sound, Recorded
    <2>3. RunBase(p) = log.base
      BY <2>1, <2>2 DEF RunBase
    <2> QED
      BY <1>4, <2>1, <2>3 DEF LogInv, Pending
  <1> QED
    BY <1>13, <1>14 DEF Steady

\* A deletion is let through: if it is of the run being written, the report of it
\* must still be on its way.
LEMMA DeletionSteady ==
  ASSUME LogInv, NEW b \in Taken(log.files), DeleteRun(b)
  PROVE  Steady
  <1> DEFINE run == {p \in log.files : RunBase(p) = b}
             late == \E i \in 1..Len(log.news) : log.news[i] = b
  <1>1. log \in LogStates /\ log.files \in SUBSET Parts /\ log.news \in Seq(Reports)
    BY DEF LogInv, Sound, LogStates
  <1>2. b \in Bases
    BY <1>1, PartNames DEF Taken
  <1>3. PICK d \in Deletions : deleting' = d /\ d.base = b /\ d.parts = run /\ d.behind = late
    <2> DEFINE d == [base |-> b, parts |-> run, behind |-> late]
    <2>1. deleting' = d
      BY DEF DeleteRun
    <2>2. late \in BOOLEAN /\ run \in SUBSET Parts
      BY <1>1
    <2>3. d \in Deletions
      BY <1>2, <2>2 DEF Deletions
    <2> QED
      BY <2>1, <2>3
  <1>4. log' = log /\ UNCHANGED <<workerVars, view>> /\ view # b
    BY DEF DeleteRun
  <1>5. Pending(log, d)
    <2> SUFFICES ASSUME log.path # NoPart, b = log.base, log.named = "free"
                 PROVE  late /\ \A q \in run : PartNumber(q) <= log.part
      BY <1>3 DEF Pending
    <2>1. log.told = b /\ Numbered(log)
      BY DEF LogInv, Sound, Recorded
    <2>2. log.news # << >> /\ log.news[Len(log.news)] = b
      BY <1>4, <2>1 DEF LogInv, Linked
    <2>3. Len(log.news) \in 1..Len(log.news)
      BY <1>1, <2>2
    <2> QED
      BY <2>1, <2>2, <2>3 DEF Numbered
  <1>6. Removal(d)
    BY <1>3 DEF Removal
  <1> HIDE DEF run, late
  <1>7. LogInv'
    BY <1>3, <1>4, <1>5, <1>6
    DEF LogInv, workerVars, Sound, Recorded, Numbered, Tight, Reported, Linked, Removal, Pending
  <1> QED
    BY <1>4, <1>7 DEF Steady

\* What taking the first of a queue leaves of it.
LEMMA Shifted ==
  ASSUME NEW R, NEW q \in Seq(R), q # << >>
  PROVE  /\ Tail(q) \in Seq(R) /\ Head(q) \in R
         /\ Len(q) \in Nat \ {0} /\ Head(q) = q[1]
         /\ Len(Tail(q)) = Len(q) - 1
         /\ \A i \in 1..Len(q) - 1 : Tail(q)[i] = q[i + 1]
         /\ Tail(q) = << >> <=> Len(q) = 1
  <1>1. Len(q) \in Nat /\ Len(q) # 0
    BY EmptySeq
  <1>2. /\ Tail(q) \in Seq(R) /\ Head(q) \in R /\ Len(Tail(q)) = Len(q) - 1
        /\ \A i \in 1..Len(q) - 1 : Tail(q)[i] = q[i + 1]
    BY HeadTailProperties
  <1>3. Head(q) = q[1]
    BY DEF Head
  <1>4. Tail(q) = << >> <=> Len(Tail(q)) = 0
    BY <1>2, EmptySeq
  <1> QED
    BY <1>1, <1>2, <1>3, <1>4

\* The server takes the next report.
LEMMA HearingSteady ==
  ASSUME LogInv, Hear
  PROVE  Steady
  <1>1. log \in LogStates /\ log.news \in Seq(Reports) /\ log.news # << >>
    BY DEF LogInv, Sound, LogStates, Hear
  <1>2. /\ Tail(log.news) \in Seq(Reports) /\ Head(log.news) \in Reports
        /\ Len(log.news) \in Nat \ {0} /\ Head(log.news) = log.news[1]
        /\ Len(Tail(log.news)) = Len(log.news) - 1
        /\ \A i \in 1..Len(log.news) - 1 : Tail(log.news)[i] = log.news[i + 1]
        /\ Tail(log.news) = << >> <=> Len(log.news) = 1
    BY <1>1, Shifted
  <1>3. PICK t : /\ log' = t /\ t \in LogStates /\ SameRun(log, t)
                 /\ t.handle = log.handle /\ t.path = log.path /\ t.part = log.part
                 /\ t.told = log.told /\ t.news = Tail(log.news) /\ t.files = log.files
                 /\ t.spared = log.spared
    <2> DEFINE t == [log EXCEPT !.news = Tail(log.news)]
    <2>1. log' = t
      BY DEF Hear
    <2>2. /\ t \in LogStates /\ SameRun(log, t)
          /\ t.handle = log.handle /\ t.path = log.path /\ t.part = log.part
          /\ t.told = log.told /\ t.news = Tail(log.news) /\ t.files = log.files
          /\ t.spared = log.spared
      BY <1>1, <1>2 DEF LogStates, SameRun
    <2> HIDE DEF t
    <2> QED
      BY <2>1, <2>2
  <1>4. view' = log.news[1] /\ UNCHANGED <<workerVars, deleting>>
    BY <1>2 DEF Hear
  <1>5. Linked(t, view')
    <2>1. log.news[Len(log.news)] = log.told
      BY <1>1 DEF LogInv, Linked
    <2>2. CASE Len(log.news) = 1
      BY <1>2, <1>3, <1>4, <2>1, <2>2 DEF Linked
    <2>3. CASE Len(log.news) # 1
      <3>1. /\ Len(log.news) - 1 \in 1..Len(log.news) - 1
            /\ (Len(log.news) - 1) + 1 = Len(log.news)
        BY <1>2, <2>3
      <3>2. t.news[Len(t.news)] = log.news[Len(log.news)] /\ t.news # << >>
        BY <1>2, <1>3, <2>3, <3>1
      <3> QED
        BY <1>3, <2>1, <3>2 DEF Linked
    <2> QED
      BY <2>2, <2>3
  <1>6. Sound(t) /\ (Reported(log) => Reported(t)) /\ Pending(t, deleting)
    BY <1>3 DEF LogInv, Sound, Recorded, Numbered, Tight, Reported, Pending, SameRun
  <1>7. LogInv'
    BY <1>2, <1>3, <1>4, <1>5, <1>6
    DEF LogInv, workerVars, Sound, Recorded, Numbered, Tight, Reported, Linked, Removal, Pending
  <1> QED
    BY <1>3, <1>7 DEF Steady

LEMMA StepSteady ==
  ASSUME LogInv, Next
  PROVE  Steady
  <1>1. log \in LogStates /\ log.files \in SUBSET Parts /\ IsFiniteSet(log.files) /\ Sound(log)
    BY DEF LogInv, Sound, LogStates
  <1>2. CASE StartsRun
    <2>1. PICK stamp \in Stamps : StartRunLog(stamp)
      BY <1>2 DEF StartsRun, StartMeasurement, RetryRunLog
    <2>2. /\ Sound(log)' /\ Reported(log)' /\ Linked(log', view) /\ Pending(log', deleting)
          /\ \A p \in log.files : p \notin log'.files => prune
      BY <1>2, <2>1, RunStarted DEF StartsRun, StartMeasurement, RetryRunLog
    <2>3. going' = TRUE /\ UNCHANGED <<prune, trim, serverVars>>
      BY <1>2 DEF StartsRun, StartMeasurement, RetryRunLog, workerVars, LogInv
    <2>4. LogInv'
      BY <2>2, <2>3 DEF LogInv, serverVars, Linked, Pending, Removal
    <2>5. log.path = NoPart
      BY <1>2, NoneAssumption
      DEF StartsRun, StartMeasurement, RetryRunLog, active, LogInv, Sound, Recorded
    <2>6. log.path \notin log.files
      BY <1>1, <2>5, NoneAssumption
    <2> QED
      BY <1>2, <2>2, <2>4, <2>6 DEF Steady
  <1>3. CASE ~StartsRun /\ Measure
    <2>1. PICK t \in WriteMeasurement(log) : log' = t
      BY <1>3 DEF Measure
    <2> QED
      BY <1>1, <1>3, <2>1, MeasurementSound, GrownSteady DEF Measure
  <1>4. CASE ~StartsRun /\ LogEvent
    <2>1. PICK t \in WriteEvent(log) : log' = t
      BY <1>4 DEF LogEvent
    <2> QED
      BY <1>1, <1>4, <2>1, EventGrown, GrownSteady DEF LogEvent
  <1>5. CASE StopMeasurement
    <2>1. PICK e \in WriteEvent(log) : log' = Report(Close(Forget(e)), NoBase)
      BY <1>5 DEF StopMeasurement
    <2>2. Sound(e) /\ e.files = log.files /\ Follows(log, e) /\ e \in LogStates
      BY <1>1, EventSound DEF Sound
    <2> DEFINE c == Close(Forget(e))
    <2>3. /\ c \in LogStates /\ c.files = log.files /\ c.part = e.part /\ c.path = NoPart
          /\ ~c.overwrote /\ c.told = e.told /\ c.news = e.news
      BY <2>2 DEF Close, Forget, LogStates, Namings
    <2> HIDE DEF c
    <2>4. PICK t : /\ log' = t /\ t \in LogStates /\ t.files = log.files /\ t.part = e.part
                   /\ t.path = NoPart /\ ~t.overwrote /\ Follows(c, t)
      BY <2>1, <2>3, Reporting DEF c, Reports, SameRun
    <2>5. Sound(t)
      BY <1>1, <2>2, <2>4, ClosedSound DEF Sound
    <2>6. Linked(t, view)
      <3>1. Follows(e, c)
        BY <2>3 DEF Follows, Linked
      <3> QED
        BY <2>2, <2>4, <3>1 DEF LogInv, Follows
    <2>7. going' = FALSE /\ UNCHANGED <<prune, trim, serverVars>>
      BY <1>5 DEF StopMeasurement
    <2>8. Sound(log)' /\ Linked(log, view)' /\ Pending(log, deleting)' /\ Removal(deleting)'
      BY <2>4, <2>5, <2>6, <2>7
      DEF Sound, Recorded, Numbered, Tight, Linked, Pending, Removal, LogInv, serverVars
    <2>9. LogInv'
      BY <2>4, <2>7, <2>8 DEF LogInv, serverVars
    <2> QED
      BY <2>4, <2>9 DEF Steady
  <1>6. CASE \E p, t \in BOOLEAN : SetReclaim(p, t)
    <2>1. /\ log' = log /\ UNCHANGED <<going, serverVars>>
          /\ prune' \in BOOLEAN /\ trim' \in BOOLEAN
      BY <1>6 DEF SetReclaim
    <2>2. LogInv'
      BY <2>1
      DEF LogInv, serverVars, Sound, Recorded, Numbered, Tight, Reported, Linked, Removal, Pending
    <2> QED
      BY <2>1, <2>2 DEF Steady
  <1>7. CASE Restart
    <2>1. PICK t : /\ log' = t /\ t \in LogStates /\ t.files = log.files /\ t.part = 1
                   /\ t.path = NoPart /\ t.news = << >> /\ t.told = NoBase /\ ~t.overwrote
      <3> DEFINE t == NewLog(log.files)
      <3>1. log' = t
        BY <1>7 DEF Restart
      <3>2. t \in LogStates
        BY <1>1 DEF NewLog, LogStates, Reports, Namings
      <3>3. /\ t.files = log.files /\ t.part = 1 /\ t.path = NoPart
            /\ t.news = << >> /\ t.told = NoBase /\ ~t.overwrote
        BY DEF NewLog
      <3> HIDE DEF t
      <3> QED
        BY <3>1, <3>2, <3>3
    <2>2. 1 \in 1..MaxParts
      BY BoundsAssumption
    <2>3. Sound(t)
      BY <1>1, <2>1, <2>2, ClosedSound
    <2>4. view' = NoBase /\ deleting' = NoDeletion /\ going' = FALSE /\ UNCHANGED <<prune, trim>>
      BY <1>7 DEF Restart
    <2>5. Linked(t, view') /\ Pending(t, deleting') /\ Removal(deleting')
      BY <2>1, <2>4 DEF Linked, Pending, Removal, NoDeletion, Deletions
    <2>6. LogInv'
      BY <2>1, <2>3, <2>4, <2>5
      DEF LogInv, Reports, Sound, Recorded, Numbered, Tight, Linked, Removal, Pending
    <2> QED
      BY <2>1, <2>6 DEF Steady
  <1>8. CASE Hear
    BY <1>8, HearingSteady
  <1>9. CASE \E b \in Taken(log.files) : DeleteRun(b)
    BY <1>9, DeletionSteady
  <1>10. CASE RemovePart
    BY <1>10, RemovalSteady
  <1> QED
    BY <1>2, <1>3, <1>4, <1>5, <1>6, <1>7, <1>8, <1>9, <1>10 DEF Next, StartsRun

LEMMA LogInvariant == Spec => []LogInv
  <1>1. LogInv /\ [Next]_vars => LogInv'
    <2>1. ASSUME LogInv, UNCHANGED vars
          PROVE  LogInv'
      BY <2>1
      DEF vars, workerVars, serverVars, LogInv, Sound, Recorded, Numbered, Tight, Reported,
          Linked, Removal, Pending
    <2> QED
      BY <2>1, StepSteady DEF Steady
  <1> QED
    BY <1>1, InitSound, PTL DEF Spec

\* The log, its switches and the server's idea of it keep their types, for any
\* number of runs, parts and seconds; in particular a run always finds a name.
THEOREM LogTypeCorrect == Spec => []TypeOK
  <1>1. LogInv => TypeOK
    BY DEF LogInv, Sound, TypeOK, Removal
  <1> QED
    BY <1>1, LogInvariant, PTL

\* The part being written stays on the card, but for a deletion that was let
\* through with the report of the run on its way, or of a name that the run took
\* unread or while it was being deleted: the reclaim knows the part by its path,
\* and the server, once it has heard of the run, refuses.
THEOREM WrittenPartStays == Spec => OpenPartKept
  <1>1. LogInv /\ [Next]_vars =>
          [log.path \in log.files \ log'.files /\ log'.path = log.path =>
             /\ deleting.base = log.base
             /\ deleting.behind \/ log.named # "free"]_vars
    BY StepSteady DEF Steady
  <1> QED
    BY <1>1, LogInvariant, PTL DEF Spec, OpenPartKept

\* What is left of the run being recorded is its latest parts, without a gap but
\* behind a part that could not be deleted: the reclaim and the server's deletion
\* both go through its parts oldest first, at the same time even.
THEOREM LatestPartsLeft == Spec => []TrimmedFromTheFront
  <1>1. ASSUME LogInv, log.path # NoPart, log.named = "free",
               NEW p \in log.files, NEW q \in log.files,
               RunBase(p) = log.base, RunBase(q) = log.base, p \notin log.spared,
               NEW k \in PartNumber(p)..PartNumber(q)
        PROVE  <<log.base, k>> \in log.files
    <2>1. Tight(log) /\ Numbered(log) /\ log.files \in SUBSET Parts /\ log.part \in Nat
      BY <1>1 DEF LogInv, Sound, Recorded, LogStates
    <2>2. PartNumber(p) \in Nat /\ PartNumber(q) \in Nat /\ PartNumber(q) <= log.part
      BY <1>1, <2>1, PartNames DEF Numbered
    <2>3. k \in PartNumber(p)..log.part
      BY <2>1, <2>2
    <2> QED
      BY <1>1, <2>1, <2>3 DEF Tight
  <1>2. LogInv => TrimmedFromTheFront
    BY <1>1 DEF TrimmedFromTheFront
  <1> QED
    BY <1>2, LogInvariant, PTL

\* As long as a run is in its first part, it has been reported whether it is
\* recorded, whatever failed to open or to be written.
THEOREM FirstPartSaidSo == Spec => []FirstPartReported
  <1>1. LogInv => FirstPartReported
    BY DEF LogInv, Reported, FirstPartReported, active
  <1> QED
    BY <1>1, LogInvariant, PTL

\* A part is opened over a file only by a run whose name was taken without
\* reading the directory: else the name of a run is one that no file has and a
\* part's is behind all there are, over retries, clocks that step back, restarts
\* and deletions.
THEOREM NothingOverwritten == Spec => []NeverOverwrites
  <1>1. LogInv => NeverOverwrites
    BY DEF LogInv, Sound, NeverOverwrites
  <1> QED
    BY <1>1, LogInvariant, PTL

\* The logger deletes only what its two switches allow.
THEOREM SwitchesObeyed == Spec => SwitchesHonoured
  <1>1. LogInv /\ [Next]_vars =>
          [\A p \in log.files \ log'.files :
             \/ IF RunBase(p) = log.base /\ ~StartsRun THEN trim ELSE prune
             \/ RemovePart]_vars
    BY StepSteady DEF Steady
  <1> QED
    BY <1>1, LogInvariant, PTL DEF Spec, SwitchesHonoured
=============================================================================
