----------------------------- MODULE HostProofs -----------------------------
(***************************************************************************)
(* Proofs about what calls of several devices and sessions share, for any  *)
(* devices, steps, calls, messages, clients, tabs and bounds.  No worker   *)
(* blocked at a barrier is stranded or told a lie; a page follows the      *)
(* rules of its interceptor.  What is remembered of a page that has a      *)
(* connection is so: a session that logs hears each event once, what the   *)
(* HAR recorder says of a request is of one hop of it, a recording that    *)
(* runs has somebody who can stop it, and the tabs of a device are those   *)
(* of its QA sessions.  Of the rule that blocks the host's network: with   *)
(* one call at a time it blocks when it was said to, and has a reason to.  *)
(***************************************************************************)
EXTENDS MCHost, TLAPS, FiniteSetTheorems, SequenceTheorems

-----------------------------------------------------------------------------
(* The log collectors of a page. *)

LogEar == [of : Backends, heeds : Listeners, n : Nat]
LogWhole(l) ==
  l = [tool |-> l.tool, attached |-> l.attached, wired |-> l.wired, ears |-> l.ears,
       waking |-> l.waking, failed |-> l.failed, order |-> l.order, on |-> l.on, told |-> l.told,
       buf |-> l.buf, events |-> l.events]
LogTypes(l) ==
  /\ LogWhole(l) /\ l.attached \in Backends \cup {0}
  /\ l.wired \in Nat /\ l.events \in Nat /\ l.failed \in BOOLEAN
  /\ l.ears \subseteq LogEar /\ l.waking \subseteq l.ears
  /\ l.order \in Seq(Loggers) /\ Len(l.order) <= MaxCollectors
  /\ l.on \subseteq Loggers
  /\ l.told \in [Loggers -> Backends \cup {0}] /\ l.buf \in [Loggers -> Seq(Nat)]
\* Who has a collector is listed.
Listed(l, s) == \E i \in DOMAIN l.order : l.order[i] = s
LogListed(l) == \A s \in Loggers : s \in l.on \/ l.buf[s] # <<>> => Listed(l, s)
\* The client that was attached last, and each that a session was told of, is listened to.
HeardOf(l, k) == \A h \in Listeners : \E e \in l.ears : e.of = k /\ e.heeds = h
LogHeard(l) ==
  l.failed = FALSE => (l.attached # 0 => HeardOf(l, l.attached))
      /\ \A s \in l.on : HeardOf(l, l.told[s])
\* Each client was attached at most as often as all were; if each was attached once, its
\* listeners are of one attachment.
Ofs(l) == {e.of : e \in l.ears}
Once(l) == l.wired <= Cardinality(Ofs(l))
LogOnce(l) ==
  /\ Cardinality(Ofs(l)) <= l.wired
  /\ Once(l) => \A e, f \in l.ears : e.of = f.of => e.n = f.n
\* Then a buffer has each event once, in their order.
Rising(q, n) ==
  /\ \A i \in DOMAIN q : q[i] <= n
  /\ \A i, j \in DOMAIN q : i < j => q[i] < q[j]
LogSorted(l) ==
  \A s \in Loggers :
    /\ \A i \in DOMAIN l.buf[s] : l.buf[s][i] <= l.events
    /\ Once(l) => Rising(l.buf[s], l.events)
LogOk(l) == LogTypes(l) /\ LogListed(l) /\ LogHeard(l) /\ LogOnce(l) /\ LogSorted(l)
LogInv == log.tool \in {"console", "error", "network"} /\ LogOk(log)

\* The bounds on collectors and entries are positive.
LEMMA LogConstants == MaxCollectors \in Nat /\ MaxCollectors > 0 /\ MaxBuffer \in Nat
    /\ MaxBuffer > 0
  BY CaptureAssumption

\* Moving an item to the end keeps the length and every item.
LEMMA ToTheEndKeeps ==
  ASSUME NEW S, NEW o \in Seq(S), NEW i \in DOMAIN o
  PROVE  /\ ToTheEnd(o, i) \in Seq(S) /\ Len(ToTheEnd(o, i)) = Len(o)
         /\ \A j \in DOMAIN o : \E m \in DOMAIN ToTheEnd(o, i) : ToTheEnd(o, i)[m] = o[j]
<1> DEFINE t == ToTheEnd(o, i)
<1>1. DOMAIN o = 1 .. Len(o) /\ Len(o) \in Nat
  OBVIOUS
<1>2. \A j \in 1 .. Len(o) : t[j] = IF j < i THEN o[j] ELSE IF j < Len(o) THEN o[j + 1] ELSE o[i]
  BY <1>1 DEF ToTheEnd
<1>3. DOMAIN t = 1 .. Len(o)
  BY <1>1 DEF ToTheEnd
<1>4. t \in [1 .. Len(o) -> S]
  <2>1. t = [j \in 1 .. Len(o) |-> t[j]]
    BY <1>1, <1>2 DEF ToTheEnd
  <2>2. \A j \in 1 .. Len(o) : t[j] \in S
    <3> TAKE j \in 1 .. Len(o)
    <3>1. i \in 1 .. Len(o) /\ (j < Len(o) => j + 1 \in 1 .. Len(o))
      BY <1>1
    <3> HIDE DEF t
    <3> QED  BY <3>1, <1>1, <1>2
  <2> HIDE DEF t
  <2> QED  BY <2>1, <2>2
<1> HIDE DEF t
<1>5. t \in Seq(S) /\ Len(t) = Len(o)
  BY <1>1, <1>3, <1>4
<1>6. ASSUME NEW j \in DOMAIN o  PROVE \E m \in DOMAIN t : t[m] = o[j]
  <2>1. CASE j < i
    BY <2>1, <1>1, <1>2, <1>3
  <2>2. CASE j = i
    <3>1. t[Len(o)] = o[i] /\ Len(o) \in 1 .. Len(o)
      BY <1>1, <1>2
    <3> QED  BY <3>1, <2>2, <1>3
  <2>3. CASE j > i
    <3>1. j - 1 \in 1 .. Len(o) /\ ~(j - 1 < i) /\ j - 1 < Len(o) /\ (j - 1) + 1 = j
      BY <2>3, <1>1
    <3>2. t[j - 1] = o[j]
      BY <3>1, <1>2
    <3> QED  BY <3>1, <3>2, <1>3
  <2> QED  BY <2>1, <2>2, <2>3, <1>1
<1> QED  BY <1>5, <1>6 DEF t

\* The collector of a session is there after it was asked for, and nothing else is lost but the
\* one used longest ago.
LEMMA GetOrCreateOk ==
  ASSUME NEW l, LogOk(l), NEW s \in Loggers
  PROVE  /\ LogOk(GetOrCreate(l, s)) /\ Listed(GetOrCreate(l, s), s)
         /\ GetOrCreate(l, s).tool = l.tool /\ GetOrCreate(l, s).attached = l.attached
<1> DEFINE at == {i \in DOMAIN l.order : l.order[i] = s}
           full == at = {} /\ Len(l.order) >= MaxCollectors
           evicted == IF full THEN {Head(l.order)} ELSE {}
           order == IF at # {} THEN ToTheEnd(l.order, CHOOSE i \in at : TRUE)
                    ELSE Append(IF full THEN Tail(l.order) ELSE l.order, s)
           g == GetOrCreate(l, s)
<1>1. LogTypes(l)
  BY DEF LogOk
<1>2. g = [l EXCEPT !.order = order, !.on = @ \ evicted,
               !.told = [t \in Loggers |-> IF t \in evicted THEN 0 ELSE @[t]],
               !.buf = [t \in Loggers |-> IF t \in evicted THEN <<>> ELSE @[t]]]
  BY DEF GetOrCreate
<1>3. \A i : i \in at <=> i \in DOMAIN l.order /\ l.order[i] = s
  OBVIOUS
<1>4. /\ order \in Seq(Loggers) /\ Len(order) <= MaxCollectors
      /\ \E i \in DOMAIN order : order[i] = s
      /\ \A t \in Loggers : Listed(l, t) => t \in evicted \/ \E i \in DOMAIN order : order[i] = t
  <2> DEFINE o == l.order
  <2>1. o \in Seq(Loggers) /\ Len(o) <= MaxCollectors /\ Len(o) \in Nat /\ DOMAIN o = 1 .. Len(o)
    BY <1>1 DEF LogTypes
  <2>2. CASE at # {}
    <3> DEFINE i == CHOOSE i \in at : TRUE
    <3>1. i \in DOMAIN o /\ o[i] = s
      BY <2>2, <1>3
    <3>2. order = ToTheEnd(o, i)
      BY <2>2
    <3> HIDE DEF at, i, o, order
    <3>3. /\ order \in Seq(Loggers) /\ Len(order) = Len(o)
          /\ \A j \in DOMAIN o : \E m \in DOMAIN order : order[m] = o[j]
      BY <2>1, <3>1, <3>2, ToTheEndKeeps
    <3>4. \E m \in DOMAIN order : order[m] = s
      BY <3>1, <3>3
    <3>5. \A t \in Loggers : Listed(l, t) => \E m \in DOMAIN order : order[m] = t
      BY <3>3 DEF Listed, o
    <3> QED  BY <2>1, <3>3, <3>4, <3>5
  <2>3. CASE at = {} /\ ~full
    <3>1. order = Append(o, s) /\ Len(o) < MaxCollectors
      BY <2>1, <2>3, LogConstants
    <3> HIDE DEF at, full, order
    <3>2. order \in Seq(Loggers) /\ Len(order) = Len(o) + 1 /\ DOMAIN order = 1 .. (Len(o) + 1)
          /\ order[Len(o) + 1] = s /\ \A j \in 1 .. Len(o) : order[j] = o[j]
      BY <2>1, <3>1
    <3> QED  BY <2>1, <3>1, <3>2, LogConstants DEF Listed
  <2>4. CASE full
    <3>1. order = Append(Tail(o), s) /\ Len(o) >= MaxCollectors /\ evicted = {Head(o)}
      BY <2>4
    <3> HIDE DEF at, full, order, evicted
    <3>2. Len(o) >= 1 /\ o # <<>>
      BY <2>1, <3>1, LogConstants
    <3> DEFINE r == Tail(o)
    <3>3. r \in Seq(Loggers) /\ Len(r) = Len(o) - 1 /\ \A j \in 1 .. Len(r) : r[j] = o[j + 1]
      BY <2>1, <3>2
    <3> HIDE DEF r
    <3>4. order \in Seq(Loggers) /\ Len(order) = Len(o) /\ DOMAIN order = 1 .. Len(o)
          /\ order[Len(o)] = s /\ \A j \in 1 .. Len(r) : order[j] = r[j]
      BY <2>1, <3>1, <3>2, <3>3 DEF r
    <3>5. Len(o) \in DOMAIN order
      BY <3>2, <3>4, <2>1
    <3>6. ASSUME NEW t \in Loggers, NEW j \in DOMAIN o, o[j] = t, t \notin evicted
          PROVE  \E i \in DOMAIN order : order[i] = t
      <4>1. Head(o) = o[1]
        BY <2>1, <3>2
      <4>2. j # 1 /\ j - 1 \in 1 .. Len(r) /\ j - 1 \in DOMAIN order /\ (j - 1) + 1 = j
        BY <4>1, <3>6, <3>1, <3>3, <3>4, <2>1
      <4> QED  BY <4>2, <3>3, <3>4, <3>6
    <3> QED  BY <3>4, <3>5, <3>6, <2>1 DEF Listed
  <2> QED  BY <2>2, <2>3, <2>4
<1> HIDE DEF at, full, order, evicted
<1>5. /\ g.order = order /\ g.on = l.on \ evicted
      /\ g.told = [t \in Loggers |-> IF t \in evicted THEN 0 ELSE l.told[t]]
      /\ g.buf = [t \in Loggers |-> IF t \in evicted THEN <<>> ELSE l.buf[t]]
      /\ g.tool = l.tool /\ g.attached = l.attached /\ g.wired = l.wired /\ g.ears = l.ears
      /\ g.waking = l.waking /\ g.failed = l.failed /\ g.events = l.events
  BY <1>1, <1>2 DEF LogTypes, LogWhole
<1>6. LogWhole(g)
  BY <1>1, <1>2 DEF LogTypes, LogWhole
<1> HIDE DEF g
<1>7. LogTypes(g)
  <2>1. <<>> \in Seq(Nat)
    OBVIOUS
  <2>2. g.told \in [Loggers -> Backends \cup {0}] /\ g.buf \in [Loggers -> Seq(Nat)]
    BY <1>1, <1>5, <2>1 DEF LogTypes
  <2> QED  BY <1>1, <1>4, <1>5, <1>6, <2>2 DEF LogTypes
<1>8. LogListed(g)
  <2> SUFFICES ASSUME NEW t \in Loggers, t \in g.on \/ g.buf[t] # <<>>  PROVE Listed(g, t)
    BY DEF LogListed
  <2>1. t \notin evicted
    BY <1>5
  <2>2. t \in l.on \/ l.buf[t] # <<>>
    BY <1>5, <2>1
  <2> QED  BY <1>4, <1>5, <2>1, <2>2 DEF LogOk, LogListed, Listed
<1>9. LogHeard(g)
  <2>1. \A k : HeardOf(g, k) <=> HeardOf(l, k)
    BY <1>5 DEF HeardOf
  <2>2. \A t \in g.on : t \in l.on /\ g.told[t] = l.told[t]
    BY <1>1, <1>5 DEF LogTypes
  <2> QED  BY <1>5, <2>1, <2>2 DEF LogOk, LogHeard
<1>10. LogOnce(g)
  BY <1>5 DEF LogOk, LogOnce, Ofs, Once
<1>11. LogSorted(g)
  <2>1. Once(g) <=> Once(l)
    BY <1>5 DEF Once, Ofs
  <2>2. \A t \in Loggers : g.buf[t] = l.buf[t] \/ g.buf[t] = <<>>
    BY <1>5
  <2>3. \A n : Rising(<<>>, n)
    BY DEF Rising
  <2> QED  BY <1>5, <2>1, <2>2, <2>3 DEF LogOk, LogSorted
<1>12. Listed(g, s)
  BY <1>4, <1>5 DEF Listed
<1> QED  BY <1>5, <1>7, <1>8, <1>9, <1>10, <1>11, <1>12 DEF LogOk, g

\* The sets of events that listeners heed do not overlap.
LEMMA ListenersAre ==
  ASSUME log.tool \in {"console", "error", "network"}
  PROVE  \A h, j \in Listeners : h \cap j # {} => h = j
<1>1. Listeners \in {{{"message", "error"}}, {{"error"}}, {{"request"}, {"response"}}}
  BY DEF Listeners, OnConsole, OnError, OnRequests
<1> QED  BY <1>1

\* The backends that are listened to are finitely many.
LEMMA OfsAre == ASSUME NEW l, LogTypes(l)  PROVE IsFiniteSet(Ofs(l)) /\ Cardinality(Ofs(l)) \in Nat
<1>1. IsFiniteSet(({} \cup {1}) \cup {2})
  BY FS_EmptySet, FS_AddElement
<1>2. Backends = ({} \cup {1}) \cup {2}
  BY DEF Backends
<1>3. Ofs(l) \subseteq Backends
  BY DEF LogTypes, LogEar, Ofs
<1> QED  BY <1>1, <1>2, <1>3, FS_Subset, FS_CardinalityType

\* Attaching to a backend once more leaves one listener of each kind, and all of them if it does
\* not fail.
LEMMA AttachOk ==
  ASSUME log.tool \in {"console", "error", "network"}, NEW l, LogOk(l), NEW k \in Backends
  PROVE  /\ LogOk(Attach(l, k)) /\ (Attach(l, k).failed = FALSE => HeardOf(Attach(l, k), k))
         /\ Attach(l, k).tool = l.tool /\ Attach(l, k).order = l.order
<1> DEFINE new == {[of |-> k, heeds |-> h, n |-> l.wired + 1] : h \in Listeners}
           a == Attach(l, k)
<1>0. LogTypes(l) /\ k # 0
  BY DEF LogOk, Backends
<1>1. CASE l.attached = k
  <2>1. a = l
    BY <1>1 DEF Attach
  <2> HIDE DEF a
  <2> QED  BY <1>0, <1>1, <2>1 DEF LogOk, LogHeard, a
<1>2. CASE l.attached # k
  <2>1. a = [l EXCEPT !.attached = k, !.wired = @ + 1, !.ears = @ \cup new, !.waking = @ \cup new]
    BY <1>2 DEF Attach
  <2>2. /\ a.attached = k /\ a.wired = l.wired + 1 /\ a.ears = l.ears \cup new
        /\ a.waking = l.waking \cup new /\ a.failed = l.failed /\ a.order = l.order /\ a.on = l.on
        /\ a.told = l.told /\ a.buf = l.buf /\ a.events = l.events /\ a.tool = l.tool
    BY <1>0, <2>1 DEF LogTypes, LogWhole
  <2>3. LogWhole(a)
    BY <1>0, <2>1 DEF LogTypes, LogWhole
  <2>4. /\ new \subseteq LogEar
        /\ \A e \in new : e.of = k /\ e.n = l.wired + 1
        /\ \A h \in Listeners : \E e \in new : e.of = k /\ e.heeds = h
    <3>1. l.wired + 1 \in Nat
      BY <1>0 DEF LogTypes
    <3>2. \A h \in Listeners : [of |-> k, heeds |-> h, n |-> l.wired + 1] \in new
      OBVIOUS
    <3>3. \A e \in new : \E h \in Listeners : e = [of |-> k, heeds |-> h, n |-> l.wired + 1]
      OBVIOUS
    <3> HIDE DEF new
    <3>4. new \subseteq LogEar
      BY <3>1, <3>3 DEF LogEar
    <3>5. \A e \in new : e.of = k /\ e.n = l.wired + 1
      BY <3>3
    <3>6. \A h \in Listeners : \E e \in new : e.of = k /\ e.heeds = h
      BY <3>2
    <3> QED  BY <3>4, <3>5, <3>6
  <2> HIDE DEF new, a
  <2>5. LogTypes(a)
    BY <1>0, <2>2, <2>3, <2>4 DEF LogTypes
  <2>6. LogListed(a)
    BY <2>2 DEF LogOk, LogListed, Listed
  <2>7. HeardOf(a, k) /\ \A j : HeardOf(l, j) => HeardOf(a, j)
    BY <2>2, <2>4 DEF HeardOf
  <2>8. LogHeard(a)
    BY <2>2, <2>7 DEF LogOk, LogHeard
  <2>9. Ofs(a) \in {Ofs(l), Ofs(l) \cup {k}} /\ (k \in Ofs(l) => Ofs(a) = Ofs(l))
    <3>1. \A j \in Ofs(a) : j \in Ofs(l) \/ j = k
      BY <2>2, <2>4 DEF Ofs
    <3>2. \A j \in Ofs(l) : j \in Ofs(a)
      BY <2>2 DEF Ofs
    <3> QED  BY <3>1, <3>2
  <2>10. /\ Cardinality(Ofs(a)) <= Cardinality(Ofs(l)) + 1
         /\ k \in Ofs(l) => Cardinality(Ofs(a)) = Cardinality(Ofs(l))
         /\ Cardinality(Ofs(l)) \in Nat
    BY <1>0, <2>9, OfsAre, FS_AddElement
  <2>11. Cardinality(Ofs(a)) \in Nat /\ l.wired \in Nat
    BY <1>0, <2>5, OfsAre DEF LogTypes
  <2>12. Once(a) => Once(l) /\ k \notin Ofs(l)
    BY <2>2, <2>10, <2>11 DEF Once, LogOk, LogOnce
  <2>13. LogOnce(a)
    <3>1. Cardinality(Ofs(a)) <= a.wired
      BY <2>2, <2>10, <2>11 DEF LogOk, LogOnce
    <3>2. ASSUME Once(a), NEW e \in a.ears, NEW f \in a.ears, e.of = f.of  PROVE e.n = f.n
      <4>1. \A d \in l.ears : d.of \in Ofs(l)
        BY DEF Ofs
      <4> QED  BY <3>2, <4>1, <2>2, <2>4, <2>12 DEF LogOk, LogOnce
    <3> QED  BY <3>1, <3>2 DEF LogOnce
  <2>14. LogSorted(a)
    BY <2>2, <2>12 DEF LogOk, LogSorted
  <2> QED  BY <2>2, <2>5, <2>6, <2>7, <2>8, <2>13, <2>14 DEF LogOk, a
<1> QED  BY <1>1, <1>2 DEF a

\* A call that starts a log attaches and creates its collector.
LEMMA LogStartInv == ASSUME LogInv, NEW s \in Loggers, LogStart(s)  PROVE LogInv'
<1> PICK k \in Backends : log' = [Attach(GetOrCreate(log, s), k) EXCEPT !.on = @ \cup {s},
                                  !.told[s] = k]
  BY DEF LogStart
<1> DEFINE l == Attach(GetOrCreate(log, s), k)
<1>1. /\ LogOk(l) /\ Listed(l, s) /\ l.tool = log.tool /\ (l.failed = FALSE => HeardOf(l, k))
  <2>1. LogOk(GetOrCreate(log, s)) /\ Listed(GetOrCreate(log, s), s)
      /\ GetOrCreate(log, s).tool = log.tool
    BY GetOrCreateOk DEF LogInv
  <2>2. LogOk(l) /\ l.tool = log.tool /\ l.order = GetOrCreate(log, s).order
      /\ (l.failed = FALSE => HeardOf(l, k))
    BY <2>1, AttachOk DEF LogInv
  <2> QED  BY <2>1, <2>2 DEF Listed
<1>2. log' = [l EXCEPT !.on = @ \cup {s}, !.told[s] = k]
  OBVIOUS
<1> HIDE DEF l
<1>3. LogTypes(l)
  BY <1>1 DEF LogOk
<1>4. /\ log'.on = l.on \cup {s} /\ log'.told = [l.told EXCEPT ![s] = k] /\ log'.tool = l.tool
      /\ log'.attached = l.attached /\ log'.wired = l.wired /\ log'.ears = l.ears
      /\ log'.waking = l.waking /\ log'.failed = l.failed /\ log'.order = l.order
      /\ log'.buf = l.buf /\ log'.events = l.events
  BY <1>2, <1>3 DEF LogTypes, LogWhole
<1>5. LogWhole(log') /\ Listeners' = Listeners
  BY <1>1, <1>2, <1>3, <1>4 DEF LogTypes, LogWhole, Listeners
<1>6. LogTypes(log)'
  <2>1. LogEar' = LogEar
    BY <1>5 DEF LogEar
  <2> QED  BY <1>3, <1>4, <1>5, <2>1, ZenonT(40) DEF LogTypes, LogWhole
<1>7. LogListed(log)'
  BY <1>1, <1>4 DEF LogOk, LogListed, Listed
<1>8. LogHeard(log)'
  <2>1. \A j : HeardOf(log, j)' <=> HeardOf(l, j)
    BY <1>4, <1>5 DEF HeardOf
  <2>2. log'.told[s] = k /\ \A t \in l.on : t # s => log'.told[t] = l.told[t]
    BY <1>3, <1>4 DEF LogTypes
  <2> QED  BY <1>1, <1>4, <2>1, <2>2 DEF LogOk, LogHeard
<1>9. LogOnce(log)' /\ LogSorted(log)'
  <2>1. Ofs(log)' = Ofs(l)
    BY <1>4 DEF Ofs
  <2>2. Once(log)' <=> Once(l)
    BY <1>4, <2>1 DEF Once
  <2>3. LogOnce(log)'
    BY <1>1, <1>4, <2>1, <2>2 DEF LogOk, LogOnce
  <2>4. LogSorted(log)'
    BY <1>1, <1>4, <2>2 DEF LogOk, LogSorted
  <2> QED  BY <2>3, <2>4
<1> QED  BY <1>1, <1>4, <1>6, <1>7, <1>8, <1>9 DEF LogOk, LogInv

\* A log that is in order and of the same tool keeps the strengthening.
LEMMA LogBecomes == ASSUME LogInv, NEW l, LogOk(l), l.tool = log.tool, log' = l  PROVE LogInv'
<1>1. Listeners' = Listeners
  BY DEF Listeners
<1>2. LogTypes(log)'
  BY <1>1 DEF LogOk, LogTypes, LogWhole, LogEar
<1>3. LogHeard(log)'
  BY <1>1 DEF LogOk, LogHeard, HeardOf
<1>4. LogListed(log)' /\ LogOnce(log)' /\ LogSorted(log)'
  BY DEF LogOk, LogListed, Listed, LogOnce, LogSorted, Ofs, Once
<1>5. log'.tool \in {"console", "error", "network"}
  BY DEF LogInv
<1> QED  BY <1>2, <1>3, <1>4, <1>5 DEF LogOk, LogInv

\* A call that stops a log takes its session off, and leaves the listeners to the others.
LEMMA LogStopInv == ASSUME LogInv, NEW s \in Loggers, LogStop(s)  PROVE LogInv'
<1> DEFINE l == GetOrCreate(log, s)
<1>0. PICK m : m = [l EXCEPT !.on = @ \ {s}, !.told[s] = 0]
  OBVIOUS
<1>1. LogOk(l) /\ l.tool = log.tool
  BY GetOrCreateOk DEF LogInv
<1>2. log' = m
  BY <1>0 DEF LogStop
<1> HIDE DEF l
<1>3. LogTypes(l)
  BY <1>1 DEF LogOk
<1>4. /\ m.on = l.on \ {s} /\ m.told = [l.told EXCEPT ![s] = 0] /\ m.tool = l.tool
      /\ m.attached = l.attached /\ m.wired = l.wired /\ m.ears = l.ears
      /\ m.waking = l.waking /\ m.failed = l.failed /\ m.order = l.order
      /\ m.buf = l.buf /\ m.events = l.events
  BY <1>0, <1>3 DEF LogTypes, LogWhole
<1>5. LogWhole(m)
  BY <1>0, <1>3, <1>4 DEF LogTypes, LogWhole
<1>6. LogTypes(m)
  BY <1>3, <1>4, <1>5 DEF LogTypes
<1>7. LogListed(m)
  BY <1>1, <1>4 DEF LogOk, LogListed, Listed
<1>8. LogHeard(m)
  <2>1. \A j : HeardOf(m, j) <=> HeardOf(l, j)
    BY <1>4 DEF HeardOf
  <2>2. \A t \in m.on : t \in l.on /\ m.told[t] = l.told[t]
    BY <1>3, <1>4 DEF LogTypes
  <2> QED  BY <1>1, <1>4, <2>1, <2>2 DEF LogOk, LogHeard
<1>9. LogOnce(m) /\ LogSorted(m)
  BY <1>1, <1>4 DEF LogOk, LogOnce, LogSorted, Ofs, Once
<1>10. LogOk(m)
  BY <1>6, <1>7, <1>8, <1>9 DEF LogOk
<1> QED  BY <1>1, <1>2, <1>4, <1>10, LogBecomes

\* A call that reads a log uses its collector.
LEMMA LogGetInv ==
  ASSUME LogInv, NEW s \in Loggers, LogGet(s) \/ log' = GetOrCreate(log, s)  PROVE LogInv'
<1> DEFINE l == GetOrCreate(log, s)
<1>0. PICK m : m = [l EXCEPT !.buf[s] = <<>>]
  OBVIOUS
<1>1. LogOk(l) /\ l.tool = log.tool
  BY GetOrCreateOk DEF LogInv
<1>2. log' = l \/ log' = m
  BY <1>0 DEF LogGet
<1> HIDE DEF l
<1>3. LogTypes(l)
  BY <1>1 DEF LogOk
<1>4. /\ m.buf = [l.buf EXCEPT ![s] = <<>>] /\ m.on = l.on /\ m.told = l.told /\ m.tool = l.tool
      /\ m.attached = l.attached /\ m.wired = l.wired /\ m.ears = l.ears
      /\ m.waking = l.waking /\ m.failed = l.failed /\ m.order = l.order /\ m.events = l.events
  BY <1>0, <1>3 DEF LogTypes, LogWhole
<1>5. LogWhole(m)
  BY <1>0, <1>3, <1>4 DEF LogTypes, LogWhole
<1>6. LogTypes(m)
  <2>1. <<>> \in Seq(Nat)
    OBVIOUS
  <2> QED  BY <1>3, <1>4, <1>5, <2>1 DEF LogTypes
<1>7. \A t \in Loggers : m.buf[t] \in {<<>>, l.buf[t]}
  BY <1>3, <1>4 DEF LogTypes
<1>8. LogListed(m)
  BY <1>1, <1>4, <1>7 DEF LogOk, LogListed, Listed
<1>9. LogHeard(m) /\ LogOnce(m)
  BY <1>1, <1>4 DEF LogOk, LogHeard, HeardOf, LogOnce, Ofs, Once
<1>10. LogSorted(m)
  <2>1. Once(m) <=> Once(l)
    BY <1>4 DEF Once, Ofs
  <2>2. \A n : Rising(<<>>, n)
    BY DEF Rising
  <2> QED  BY <1>1, <1>4, <1>7, <2>1, <2>2 DEF LogOk, LogSorted
<1>11. LogOk(m)
  BY <1>6, <1>8, <1>9, <1>10 DEF LogOk
<1> QED  BY <1>1, <1>2, <1>4, <1>11, LogBecomes

\* A listener that is waking is awake, or fails and is taken out.
LEMMA WakesInv == LogInv /\ Wakes => LogInv'
<1> SUFFICES ASSUME LogInv, Wakes PROVE LogInv'
  OBVIOUS
<1> PICK e \in log.waking :
      \/ log' = [log EXCEPT !.waking = @ \ {e}]
      \/ log' = [log EXCEPT !.waking = @ \ {e}, !.ears = @ \ {e}, !.failed = TRUE]
  BY DEF Wakes
<1>1. LogOk(log) /\ LogTypes(log)
  BY DEF LogInv, LogOk
<1>0. PICK m, f : /\ m = [log EXCEPT !.waking = @ \ {e}]
                  /\ f = [log EXCEPT !.waking = @ \ {e}, !.ears = @ \ {e}, !.failed = TRUE]
  OBVIOUS
<1>2. LogOk(m) /\ m.tool = log.tool
  <2>1. /\ m.waking = log.waking \ {e} /\ m.buf = log.buf /\ m.on = log.on /\ m.told = log.told
        /\ m.tool = log.tool /\ m.attached = log.attached /\ m.wired = log.wired
        /\ m.ears = log.ears /\ m.failed = log.failed /\ m.order = log.order
        /\ m.events = log.events
    BY <1>0, <1>1 DEF LogTypes, LogWhole
  <2>2. LogWhole(m)
    BY <1>0, <1>1, <2>1 DEF LogTypes, LogWhole
  <2>3. LogTypes(m)
    BY <1>1, <2>1, <2>2 DEF LogTypes
  <2>4. LogListed(m) /\ LogHeard(m)
    BY <1>1, <2>1 DEF LogOk, LogListed, Listed, LogHeard, HeardOf
  <2>5. LogOnce(m) /\ LogSorted(m)
    BY <1>1, <2>1 DEF LogOk, LogOnce, LogSorted, Ofs, Once
  <2> QED  BY <2>1, <2>3, <2>4, <2>5 DEF LogOk
<1>3. LogOk(f) /\ f.tool = log.tool
  <2>1. /\ f.waking = log.waking \ {e} /\ f.buf = log.buf /\ f.on = log.on /\ f.told = log.told
        /\ f.tool = log.tool /\ f.attached = log.attached /\ f.wired = log.wired
        /\ f.ears = log.ears \ {e} /\ f.failed = TRUE /\ f.order = log.order
        /\ f.events = log.events
    BY <1>0, <1>1 DEF LogTypes, LogWhole
  <2>2. LogWhole(f)
    BY <1>0, <1>1, <2>1 DEF LogTypes, LogWhole
  <2>3. LogTypes(f)
    BY <1>1, <2>1, <2>2 DEF LogTypes
  <2>4. LogListed(f) /\ LogHeard(f)
    BY <1>1, <2>1 DEF LogOk, LogListed, Listed, LogHeard
  <2>5. Cardinality(Ofs(f)) <= Cardinality(Ofs(log)) /\ Cardinality(Ofs(log)) \in Nat
        /\ Cardinality(Ofs(f)) \in Nat
    <3>1. Ofs(f) \subseteq Ofs(log)
      BY <2>1 DEF Ofs
    <3> QED  BY <1>1, <2>3, <3>1, OfsAre, FS_Subset
  <2>6. Once(f) => Once(log)
    BY <1>1, <2>1, <2>5 DEF LogTypes, Once
  <2>7. LogOnce(f)
    <3>1. Cardinality(Ofs(f)) <= f.wired
      BY <1>1, <2>1, <2>5 DEF LogTypes, LogOk, LogOnce
    <3> QED  BY <1>1, <2>1, <2>6, <3>1 DEF LogOk, LogOnce
  <2>8. LogSorted(f)
    BY <1>1, <2>1, <2>6 DEF LogOk, LogSorted
  <2> QED  BY <2>1, <2>3, <2>4, <2>7, <2>8 DEF LogOk
<1> QED  BY <1>0, <1>2, <1>3, LogBecomes

\* A buffer with one more entry, or with one more and without the oldest, still rises.
LEMMA PushIs ==
  ASSUME NEW q \in Seq(Nat), NEW e \in Nat, \A i \in DOMAIN q : q[i] <= e
  PROVE  /\ Push(q, e) \in Seq(Nat) /\ (\A i \in DOMAIN Push(q, e) : Push(q, e)[i] <= e)
         /\ Rising(q, e - 1) => Rising(Push(q, e), e)
<1> DEFINE more == Append(q, e)
<1>1. /\ more \in Seq(Nat) /\ Len(more) = Len(q) + 1 /\ DOMAIN more = 1 .. Len(q) + 1
      /\ more[Len(q) + 1] = e /\ \A i \in 1 .. Len(q) : more[i] = q[i]
      /\ Len(q) \in Nat /\ DOMAIN q = 1 .. Len(q) /\ \A i \in 1 .. Len(q) : q[i] \in Nat
  OBVIOUS
<1> HIDE DEF more
<1>2. (\A i \in DOMAIN more : more[i] <= e) /\ (Rising(q, e - 1) => Rising(more, e))
  <2>1. \A i \in DOMAIN more : more[i] <= e
    BY <1>1
  <2>2. ASSUME Rising(q, e - 1), NEW i \in DOMAIN more, NEW j \in DOMAIN more, i < j
    PROVE more[i] < more[j]
    <3>1. i \in 1 .. Len(q) /\ q[i] <= e - 1
      BY <1>1, <2>2 DEF Rising
    <3>2. CASE j = Len(q) + 1
      BY <1>1, <3>1, <3>2
    <3>3. CASE j \in 1 .. Len(q)
      BY <1>1, <2>2, <3>1, <3>3 DEF Rising
    <3> QED  BY <1>1, <3>2, <3>3
  <2> QED  BY <2>1, <2>2 DEF Rising
<1>3. Push(q, e) = IF Len(more) > MaxBuffer THEN Tail(more) ELSE more
  BY DEF Push, more
<1> DEFINE t == Tail(more)
<1>4. /\ t \in Seq(Nat) /\ DOMAIN t = 1 .. Len(q) /\ \A i \in 1 .. Len(q) : t[i] = more[i + 1]
  <2>1. more # <<>>
    BY <1>1
  <2> QED  BY <1>1, <2>1
<1> HIDE DEF t
<1>5. (\A i \in DOMAIN t : t[i] <= e) /\ (Rising(more, e) => Rising(t, e))
  <2>1. \A i \in DOMAIN t : i + 1 \in DOMAIN more /\ t[i] = more[i + 1]
    BY <1>1, <1>4
  <2>2. ASSUME Rising(more, e), NEW i \in DOMAIN t, NEW j \in DOMAIN t, i < j  PROVE t[i] < t[j]
    <3>1. i + 1 < j + 1
      BY <2>2, <1>1, <1>4
    <3> QED  BY <2>1, <2>2, <3>1 DEF Rising
  <2> QED  BY <1>2, <2>1, <2>2 DEF Rising
<1> QED  BY <1>1, <1>2, <1>3, <1>4, <1>5 DEF t

\* An event of the page goes to the buffers of the sessions that log, once for each listener.
LEMMA PageEventInv == LogInv /\ PageEvent => LogInv'
<1> SUFFICES ASSUME LogInv, PageEvent PROVE LogInv'
  OBVIOUS
<1> PICK k \in Backends, kind \in UNION Listeners \cup {"message"} :
    LET n == Cardinality({e \in log.ears : e.of = k /\ kind \in e.heeds})
    IN log' = [log EXCEPT !.events = @ + 1,
                   !.buf = [s \in Loggers |-> IF s \in log.on
                            THEN PushAll(@[s], log.events + 1, n) ELSE @[s]]]
  BY DEF PageEvent
<1> DEFINE n == Cardinality({e \in log.ears : e.of = k /\ kind \in e.heeds})
<1>0. PICK m :
        m = [log EXCEPT !.events = @ + 1,
               !.buf = [s \in Loggers |-> IF s \in log.on THEN PushAll(@[s], log.events + 1, n)
                        ELSE @[s]]]
  OBVIOUS
<1>1. LogOk(log) /\ LogTypes(log)
  BY DEF LogInv, LogOk
<1>2. log' = m
  BY <1>0
<1>3. Once(log) => n \in {0, 1}
  <2> SUFFICES ASSUME Once(log) PROVE n \in {0, 1}
    OBVIOUS
  <2> DEFINE H == {e \in log.ears : e.of = k /\ kind \in e.heeds}
  <2>1. ASSUME NEW e \in H, NEW f \in H  PROVE e = f
    <3>1. e \in LogEar /\ f \in LogEar /\ e.of = f.of /\ e.n = f.n
      BY <1>1 DEF LogTypes, LogOk, LogOnce
    <3>2. e.heeds = f.heeds
      <4>1. e.heeds \in Listeners /\ f.heeds \in Listeners /\ kind \in e.heeds \cap f.heeds
        BY <3>1 DEF LogEar
      <4> QED  BY <4>1, ListenersAre DEF LogInv
    <3> QED  BY <3>1, <3>2 DEF LogEar
  <2>2. n = Cardinality(H)
    OBVIOUS
  <2> HIDE DEF H
  <2>3. CASE H = {}
    BY <2>2, <2>3, FS_EmptySet
  <2>4. CASE H # {}
    <3>1. PICK e : H = {e}
      BY <2>1, <2>4
    <3> QED  BY <2>2, <3>1, FS_Singleton
  <2> QED  BY <2>3, <2>4
<1> HIDE DEF n
<1>4. /\ m.events = log.events + 1
      /\ m.buf = [s \in Loggers |-> IF s \in log.on THEN PushAll(log.buf[s], log.events + 1, n)
                  ELSE log.buf[s]]
      /\ m.waking = log.waking /\ m.on = log.on /\ m.told = log.told
      /\ m.tool = log.tool /\ m.attached = log.attached /\ m.wired = log.wired
      /\ m.ears = log.ears /\ m.failed = log.failed /\ m.order = log.order
  BY <1>0, <1>1 DEF LogTypes, LogWhole
<1>5. LogWhole(m)
  BY <1>0, <1>1, <1>4 DEF LogTypes, LogWhole
<1>6. \A s \in Loggers :
        /\ m.buf[s] \in Seq(Nat) /\ \A i \in DOMAIN m.buf[s] : m.buf[s][i] <= log.events + 1
        /\ Once(log) => Rising(m.buf[s], log.events + 1)
        /\ m.buf[s] # <<>> => log.buf[s] # <<>> \/ s \in log.on
  <2> TAKE s \in Loggers
  <2> DEFINE q == log.buf[s]  e == log.events + 1
  <2>1. /\ q \in Seq(Nat) /\ e \in Nat /\ e - 1 = log.events /\ \A i \in DOMAIN q : q[i] <= e - 1
        /\ Once(log) => Rising(q, e - 1)
    BY <1>1 DEF LogTypes, LogOk, LogSorted
  <2> HIDE DEF q, e
  <2>2. \A i \in DOMAIN q : q[i] <= e
    BY <2>1
  <2>3. Rising(q, e - 1) => Rising(q, e)
    BY <2>1, <2>2 DEF Rising
  <2>4. m.buf[s] = IF s \in log.on THEN PushAll(q, e, n) ELSE q
    BY <1>4 DEF q, e
  <2>5. /\ Push(q, e) \in Seq(Nat) /\ (\A i \in DOMAIN Push(q, e) : Push(q, e)[i] <= e)
        /\ Rising(q, e - 1) => Rising(Push(q, e), e)
    BY <2>1, <2>2, PushIs
  <2>6. /\ Push(Push(q, e), e) \in Seq(Nat)
        /\ (\A i \in DOMAIN Push(Push(q, e), e) : Push(Push(q, e), e)[i] <= e)
    BY <2>1, <2>5, PushIs
  <2> QED  BY <1>3, <2>1, <2>2, <2>3, <2>4, <2>5, <2>6 DEF PushAll, q, e
<1>7. LogTypes(m)
  <2>1. m.buf \in [Loggers -> Seq(Nat)]
    BY <1>4, <1>6
  <2> QED  BY <1>1, <1>4, <1>5, <2>1 DEF LogTypes
<1>8. LogListed(m)
  BY <1>1, <1>4, <1>6 DEF LogOk, LogListed, Listed
<1>9. LogHeard(m) /\ LogOnce(m)
  BY <1>1, <1>4 DEF LogOk, LogHeard, HeardOf, LogOnce, Ofs, Once
<1>10. LogSorted(m)
  <2>1. Once(m) <=> Once(log)
    BY <1>4 DEF Once, Ofs
  <2> QED  BY <1>4, <1>6, <2>1 DEF LogSorted
<1> QED  BY <1>2, <1>4, <1>7, <1>8, <1>9, <1>10, LogBecomes DEF LogOk

\* No session logs and nothing is listened to.
LEMMA LogInitInv == LogInit => LogInv
<1> SUFFICES ASSUME NEW tool \in {"console", "error", "network"},
               log = [tool |-> tool, attached |-> 0, wired |-> 0, ears |-> {}, waking |-> {},
                      failed |-> FALSE,
                      order |-> <<>>, on |-> {}, told |-> [s \in Loggers |-> 0],
                      buf |-> [s \in Loggers |-> <<>>], events |-> 0]
             PROVE  LogInv
  BY DEF LogInit
<1>1. LogTypes(log)
  <2>1. <<>> \in Seq(Loggers) /\ <<>> \in Seq(Nat) /\ Len(<<>>) = 0
    OBVIOUS
  <2>2. LogWhole(log)
    BY DEF LogWhole
  <2> QED  BY <2>1, <2>2, LogConstants DEF LogTypes
<1>2. LogListed(log) /\ LogHeard(log)
  BY DEF LogListed, LogHeard
<1>3. LogOnce(log)
  <2>1. Ofs(log) = {} /\ log.ears = {} /\ log.wired = 0
    BY DEF Ofs
  <2>2. Cardinality(Ofs(log)) = 0
    BY <2>1, FS_EmptySet
  <2>3. Cardinality(Ofs(log)) <= log.wired
    BY <2>1, <2>2
  <2> QED  BY <2>1, <2>3 DEF LogOnce
<1>4. LogSorted(log)
  <2>1. \A s \in Loggers : log.buf[s] = <<>>
    OBVIOUS
  <2> QED  BY <2>1 DEF LogSorted, Rising
<1> QED  BY <1>1, <1>2, <1>3, <1>4 DEF LogOk, LogInv

\* Every step on the logs keeps the strengthening.
LEMMA LogStepInv == LogInv /\ [LogNext]_log => LogInv'
<1>1. ASSUME LogInv, LogNext  PROVE LogInv'
  <2>1. ASSUME NEW s \in Loggers, LogCall(s) \/ log' = GetOrCreate(log, s)  PROVE LogInv'
    BY <1>1, <2>1, LogStartInv, LogStopInv, LogGetInv DEF LogCall
  <2> QED  BY <1>1, <2>1, WakesInv, PageEventInv DEF LogNext, ConsoleLog, ErrorLog, NetworkLog
<1>2. LogInv /\ UNCHANGED log => LogInv'
  <2> SUFFICES ASSUME LogInv, UNCHANGED log PROVE LogInv'
    OBVIOUS
  <2> QED  BY LogBecomes DEF LogInv
<1> QED  BY <1>1, <1>2

\* A session that logs is listed, hears of its page, and has no entry twice.
LEMMA LogInvHears == LogInv => LogsHear
<1> SUFFICES ASSUME LogInv PROVE LogsHear
  OBVIOUS
<1>1. ~log.failed =>
       \A s \in log.on, h \in Listeners : \E e \in log.ears : e.of = log.told[s] /\ e.heeds = h
  BY DEF LogInv, LogOk, LogTypes, LogHeard, HeardOf
<1>2. log.wired <= Cardinality({e.of : e \in log.ears}) =>
       \A s \in Loggers : \A i, j \in DOMAIN log.buf[s] : i < j => log.buf[s][i] < log.buf[s][j]
  BY DEF LogInv, LogOk, LogSorted, Rising, Once, Ofs
<1> QED  BY <1>1, <1>2 DEF LogInv, LogOk, LogTypes, LogListed, Listed, LogsHear

-----------------------------------------------------------------------------
(* The HAR recorder. *)

HarEntry == [hop : Nat, of : Nat, body : Nat]
HarWhole ==
  har = [active |-> har.active, at |-> har.at, rec |-> har.rec, ears |-> har.ears,
            early |-> har.early, got |-> har.got, dropped |-> har.dropped, hop |-> har.hop,
            ended |-> har.ended, fetching |-> har.fetching]
HarTypes ==
  /\ HarWhole
  /\ har.at \in [Captured -> {"new", "enabling", "listening", "failed"}]
  /\ har.rec \subseteq Captured /\ har.ears \subseteq Captured
  /\ har.dropped \in [Captured -> Nat] /\ har.hop \in [Requests -> Nat]
  /\ har.fetching \subseteq Captured \X Requests
  /\ DOMAIN har.got = Captured /\ har.got = [c \in Captured |-> har.got[c]]
\* The entries of a capture, by the requests of the page: no more than may be.
HarGot(g) ==
  /\ DOMAIN g \subseteq Requests /\ g \in [DOMAIN g -> HarEntry]
  /\ Cardinality(DOMAIN g) <= MaxEntries
HarEntries == \A c \in Captured : HarGot(har.got[c])
\* How far a capture is: its listeners, and what it has before they are there.
HarStages ==
  /\ \A c \in har.rec : c = har.active
  /\ \A c \in Captured :
       /\ har.at[c] = "new" => c \notin har.rec
       /\ har.at[c] = "enabling" => c \in har.rec \/ c \in har.early
       /\ har.at[c] \in {"new", "enabling"} => DOMAIN har.got[c] = {}
       /\ c \in har.ears => har.at[c] = "listening"
       /\ c \in har.ears /\ c \notin har.rec => c \in har.early
       /\ c \in har.rec /\ har.at[c] = "listening" => c \in har.ears
\* A capture that hears the page has the last hop of each request; and what an entry says
\* of the answer is of its hop, also when it comes late.
HarHops ==
  \A c \in Captured : har.dropped[c] = 0 =>
    \A r \in DOMAIN har.got[c] :
      /\ har.got[c][r].of \in {0, har.got[c][r].hop}
      /\ har.got[c][r].body \in {0, har.got[c][r].hop}
      /\ c \in har.ears /\ c \in har.rec => har.got[c][r].hop = har.hop[r]
      /\ <<c, r>> \in har.fetching => har.got[c][r].hop = har.hop[r]
HarFetches ==
  \A c \in Captured, r \in Requests :
    <<c, r>> \in har.fetching => r \in har.ended /\ r \in DOMAIN har.got[c]
HarInv == HarTypes /\ HarEntries /\ HarStages /\ HarHops /\ HarFetches

\* The bounds on entries are positive, and 0 names no connection and no request.
LEMMA HarConstants == MaxEntries \in Nat /\ MaxEntries > 0 /\ MaxStarts \in Nat
    /\ 0 \notin Captured /\ 0 \notin Requests
  BY CaptureAssumption DEF Captured, Requests

\* The requests are finitely many.
LEMMA RequestsAreFinite == IsFiniteSet(Requests)
<1>1. IsFiniteSet({} \cup {1})
  BY FS_EmptySet, FS_AddElement
<1>2. IsFiniteSet(({} \cup {1}) \cup {2})
  BY <1>1, FS_AddElement
<1>3. Requests = ({} \cup {1}) \cup {2}
  BY DEF Requests
<1> QED  BY <1>2, <1>3

\* A recorder that starts has no entry.
LEMMA NoEntriesGot == HarGot(NoEntries) /\ DOMAIN NoEntries = {}
<1>1. DOMAIN NoEntries = {}
  BY DEF NoEntries
<1>2. NoEntries \in [DOMAIN NoEntries -> HarEntry]
  BY <1>1 DEF NoEntries
<1> QED  BY <1>1, <1>2, FS_EmptySet, HarConstants DEF HarGot

\* An entry for a request that is added below the limit, or written over.
LEMMA WithGot ==
  ASSUME NEW g, HarGot(g), NEW r \in Requests, NEW e \in HarEntry,
      Cardinality(DOMAIN g) < MaxEntries
  PROVE  /\ HarGot(With(g, r, e)) /\ DOMAIN With(g, r, e) = DOMAIN g \cup {r}
         /\ \A x \in DOMAIN With(g, r, e) : With(g, r, e)[x] = IF x = r THEN e ELSE g[x]
<1>1. /\ DOMAIN With(g, r, e) = DOMAIN g \cup {r}
      /\ \A x \in DOMAIN With(g, r, e) : With(g, r, e)[x] = IF x = r THEN e ELSE g[x]
  BY DEF With
<1>2. With(g, r, e) \in [DOMAIN g \cup {r} -> HarEntry]
  BY DEF With, HarGot
<1>3. IsFiniteSet(DOMAIN g)
  BY RequestsAreFinite, FS_Subset DEF HarGot
<1>4. Cardinality(DOMAIN g \cup {r}) <= MaxEntries
  <2>1. Cardinality(DOMAIN g) \in Nat
    BY <1>3, FS_CardinalityType
  <2>2. Cardinality(DOMAIN g \cup {r}) = Cardinality(DOMAIN g)
      \/ Cardinality(DOMAIN g \cup {r}) = Cardinality(DOMAIN g) + 1
    BY <1>3, FS_AddElement
  <2> QED  BY <2>1, <2>2, HarConstants
<1> QED  BY <1>1, <1>2, <1>4 DEF HarGot

\* Nothing is recorded.
LEMMA HarInitInv == HarInit => HarInv
<1> SUFFICES ASSUME HarInit PROVE HarInv
  OBVIOUS
<1>1. \A c \in Captured : har.got[c] = NoEntries
  BY DEF HarInit
<1>2. HarTypes
  BY HarConstants DEF HarInit, HarTypes, HarWhole
<1>3. HarEntries
  BY <1>1, NoEntriesGot DEF HarEntries
<1>4. HarStages
  BY <1>1, NoEntriesGot DEF HarStages, HarInit
<1>5. HarHops /\ HarFetches
  BY <1>1, NoEntriesGot DEF HarHops, HarFetches, HarInit
<1> QED  BY <1>2, <1>3, <1>4, <1>5 DEF HarInv

\* A call that starts recording forgets the entries of the connection.
LEMMA HarStartInv == HarInv /\ HarStart => HarInv'
<1> SUFFICES ASSUME HarInv, NEW c \in Captured, har.at[c] = "new", har.active \notin har.rec,
                    har' = [har EXCEPT !.active = c, !.rec = @ \cup {c}, !.at[c] = "enabling"]
             PROVE  HarInv'
  BY DEF HarStart
<1>1. /\ har'.active = c /\ har'.rec = har.rec \cup {c}
         /\ har'.at = [har.at EXCEPT ![c] = "enabling"]
      /\ har'.ears = har.ears /\ har'.early = har.early /\ har'.got = har.got
      /\ har'.dropped = har.dropped /\ har'.hop = har.hop /\ har'.ended = har.ended
      /\ har'.fetching = har.fetching
  BY DEF HarInv, HarTypes, HarWhole
<1>2. HarTypes'
  <2>1. HarWhole'
    BY DEF HarInv, HarTypes, HarWhole
  <2>2. har'.got = [x \in Captured |-> har'.got[x]] /\ DOMAIN har'.got = Captured
    BY <1>1 DEF HarInv, HarTypes
  <2>3. har'.at \in [Captured -> {"new", "enabling", "listening", "failed"}]
    BY <1>1 DEF HarInv, HarTypes
  <2> QED  BY <1>1, <2>1, <2>2, <2>3 DEF HarInv, HarTypes
<1>3. HarEntries' /\ HarFetches'
  BY <1>1 DEF HarInv, HarEntries, HarFetches, HarGot
<1>4. HarStages'
  BY <1>1 DEF HarInv, HarTypes, HarStages
<1>5. HarHops'
  BY <1>1 DEF HarInv, HarTypes, HarStages, HarHops
<1> QED  BY <1>2, <1>3, <1>4, <1>5 DEF HarInv

\* A connection is listened to once its domain is enabled, or the start fails.
LEMMA HarListenInv == HarInv /\ HarListen => HarInv'
<1> SUFFICES ASSUME HarInv, NEW c \in Captured, har.at[c] = "enabling",
                    \/ har' = [har EXCEPT !.at[c] = "listening", !.ears = @ \cup {c}]
                    \/ har' = [har EXCEPT !.at[c] = "failed"]
             PROVE  HarInv'
  BY DEF HarListen
<1>1. /\ \/ har'.at = [har.at EXCEPT ![c] = "listening"] /\ har'.ears = har.ears \cup {c}
         \/ har'.at = [har.at EXCEPT ![c] = "failed"] /\ har'.ears = har.ears
      /\ har'.active = har.active /\ har'.rec = har.rec /\ har'.early = har.early
         /\ har'.got = har.got
      /\ har'.dropped = har.dropped /\ har'.hop = har.hop /\ har'.ended = har.ended
      /\ har'.fetching = har.fetching
  BY DEF HarInv, HarTypes, HarWhole
<1>2. HarTypes'
  <2>1. HarWhole'
    BY DEF HarInv, HarTypes, HarWhole
  <2>2. har'.got = [x \in Captured |-> har'.got[x]] /\ DOMAIN har'.got = Captured
    BY <1>1 DEF HarInv, HarTypes
  <2>3. har'.at \in [Captured -> {"new", "enabling", "listening", "failed"}]
    BY <1>1 DEF HarInv, HarTypes
  <2> QED  BY <1>1, <2>1, <2>2, <2>3 DEF HarInv, HarTypes
<1>3. HarEntries' /\ HarFetches'
  BY <1>1 DEF HarInv, HarEntries, HarFetches, HarGot
<1>4. HarStages'
  BY <1>1 DEF HarInv, HarTypes, HarStages
<1>5. HarHops'
  BY <1>1 DEF HarInv, HarTypes, HarStages, HarHops
<1> QED  BY <1>2, <1>3, <1>4, <1>5 DEF HarInv

\* A call that stops recording stops listening, and may be too early for a start under way.
LEMMA HarStopInv == HarInv /\ HarStop => HarInv'
<1> SUFFICES ASSUME HarInv, HarStop PROVE HarInv'
  OBVIOUS
<1> DEFINE c == har.active
<1>0. c \in Captured
  BY DEF HarStop, HarInv, HarTypes, HarWhole
<1>1. /\ har'.rec = har.rec \ {c} /\ har'.ears = har.ears \ {c}
      /\ har'.early = IF har.at[c] = "enabling" THEN har.early \cup {c} ELSE har.early
      /\ har'.at = har.at /\ har'.active = har.active /\ har'.got = har.got
      /\ har'.dropped = har.dropped /\ har'.hop = har.hop /\ har'.ended = har.ended
      /\ har'.fetching = har.fetching
  BY DEF HarStop, HarInv, HarTypes, HarWhole
<1>2. HarTypes'
  <2>1. HarWhole'
    BY DEF HarStop, HarInv, HarTypes, HarWhole
  <2>2. har'.got = [x \in Captured |-> har'.got[x]] /\ DOMAIN har'.got = Captured
    BY <1>0, <1>1 DEF HarInv, HarTypes
  <2>3. har'.at \in [Captured -> {"new", "enabling", "listening", "failed"}]
    BY <1>0, <1>1 DEF HarInv, HarTypes
  <2> QED  BY <1>0, <1>1, <2>1, <2>2, <2>3 DEF HarInv, HarTypes
<1>3. HarEntries' /\ HarFetches'
  BY <1>1 DEF HarInv, HarEntries, HarFetches, HarGot
<1>4. HarStages'
  BY <1>0, <1>1 DEF HarInv, HarTypes, HarStages
<1>5. HarHops'
  BY <1>1 DEF HarInv, HarTypes, HarStages, HarHops
<1> QED  BY <1>2, <1>3, <1>4, <1>5 DEF HarInv

\* A request is entered with the hop it is at, unless the recorder is full.
LEMMA HarRequestInv == HarInv /\ HarRequest => HarInv'
<1> SUFFICES ASSUME HarInv, HarRequest PROVE HarInv'
  OBVIOUS
<1> DEFINE heard == har.ears \cap har.rec
           Full(c) == Cardinality(DOMAIN har.got[c]) >= MaxEntries
<1> PICK r \in Requests :
      /\ r \notin har.ended
      /\ har' = [har EXCEPT !.hop[r] = har.hop[r] + 1,
            !.got = [c \in Captured |-> IF c \in heard /\ ~Full(c)
                       THEN With(@[c], r, [hop |-> har.hop[r] + 1, of |-> 0, body |-> 0])
                           ELSE @[c]],
            !.dropped = [c \in Captured |-> IF c \in heard /\ Full(c) THEN @[c] + 1 ELSE @[c]]]
  BY DEF HarRequest
<1> DEFINE e == [hop |-> har.hop[r] + 1, of |-> 0, body |-> 0]
<1>1. /\ har'.rec = har.rec /\ har'.ears = har.ears /\ har'.early = har.early
      /\ har'.at = har.at /\ har'.active = har.active
      /\ har'.ended = har.ended /\ har'.fetching = har.fetching
      /\ har'.hop = [har.hop EXCEPT ![r] = har.hop[r] + 1]
      /\ har'.got = [c \in Captured |-> IF c \in heard /\ ~Full(c) THEN With(har.got[c], r, e)
                     ELSE har.got[c]]
      /\ har'.dropped = [c \in Captured |-> IF c \in heard /\ Full(c) THEN har.dropped[c] + 1
                         ELSE har.dropped[c]]
  BY DEF HarInv, HarTypes, HarWhole
<1>2. har.hop[r] \in Nat /\ e \in HarEntry
  BY DEF HarInv, HarTypes, HarEntry
<1>3. \A c \in Captured : HarGot(har.got[c]) /\ Cardinality(DOMAIN har.got[c]) \in Nat
  <2> QED  BY RequestsAreFinite, FS_Subset, FS_CardinalityType DEF HarInv, HarEntries, HarGot
<1>4. \A c \in Captured :
        \/ c \in heard /\ ~Full(c) /\ HarGot(har'.got[c])
           /\ DOMAIN har'.got[c] = DOMAIN har.got[c] \cup {r}
           /\ (\A x \in DOMAIN har'.got[c] : har'.got[c][x] = IF x = r THEN e ELSE har.got[c][x])
           /\ har'.dropped[c] = har.dropped[c]
        \/ c \in heard /\ har'.got[c] = har.got[c] /\ har'.dropped[c] = har.dropped[c] + 1
        \/ c \notin heard /\ har'.got[c] = har.got[c] /\ har'.dropped[c] = har.dropped[c]
  <2> TAKE c \in Captured
  <2>1. CASE c \in heard /\ ~Full(c)
    <3>1. har'.got[c] = With(har.got[c], r, e) /\ har'.dropped[c] = har.dropped[c]
      BY <2>1, <1>1
    <3>2. Cardinality(DOMAIN har.got[c]) < MaxEntries
      BY <2>1, <1>3, HarConstants
    <3> HIDE DEF e, heard, Full
    <3> QED  BY <3>1, <3>2, <2>1, <1>2, <1>3, WithGot
  <2>2. CASE ~(c \in heard /\ ~Full(c))
    BY <2>2, <1>1
  <2> QED  BY <2>1, <2>2
<1> HIDE DEF Full
<1>5. HarTypes'
  <2>1. HarWhole'
    BY DEF HarInv, HarTypes, HarWhole
  <2>2. har'.got = [x \in Captured |-> har'.got[x]] /\ DOMAIN har'.got = Captured
    BY <1>1, <1>2 DEF HarInv, HarTypes
  <2>3. har'.at \in [Captured -> {"new", "enabling", "listening", "failed"}]
    BY <1>1, <1>2 DEF HarInv, HarTypes
  <2> QED  BY <1>1, <1>2, <2>1, <2>2, <2>3 DEF HarInv, HarTypes
<1>6. HarEntries'
  BY <1>3, <1>4 DEF HarEntries
<1>7. HarFetches'
  BY <1>1, <1>4 DEF HarInv, HarFetches
<1>8. HarStages'
  <2>1. \A c \in Captured : har.at[c] \in {"new", "enabling"} => har'.got[c] = har.got[c]
    BY <1>4 DEF HarInv, HarStages
  <2> QED  BY <1>1, <2>1 DEF HarInv, HarTypes, HarStages
<1>9. HarHops'
  <2> SUFFICES ASSUME NEW c \in Captured, har'.dropped[c] = 0, NEW x \in DOMAIN har'.got[c]
               PROVE  /\ har'.got[c][x].of \in {0, har'.got[c][x].hop}
                      /\ har'.got[c][x].body \in {0, har'.got[c][x].hop}
                      /\ c \in har'.ears /\ c \in har'.rec => har'.got[c][x].hop = har'.hop[x]
                      /\ <<c, x>> \in har'.fetching => har'.got[c][x].hop = har'.hop[x]
    BY DEF HarHops
  <2>1. har.dropped[c] \in Nat
    BY DEF HarInv, HarTypes
  <2>2. har.dropped[c] = 0
    BY <1>4, <2>1
  <2>3. x \in Requests
    BY <1>4, <1>3 DEF HarGot
  <2>4. CASE c \in heard
    <3>1. /\ DOMAIN har'.got[c] = DOMAIN har.got[c] \cup {r}
          /\ har'.got[c][x] = IF x = r THEN e ELSE har.got[c][x]
      BY <2>1, <2>4, <1>4
    <3>2. CASE x = r
      BY <3>1, <3>2, <1>1, <1>2 DEF HarInv, HarTypes
    <3>3. CASE x # r
      BY <3>1, <3>3, <2>2, <2>3, <2>4, <1>1 DEF HarInv, HarTypes, HarHops
    <3> QED  BY <3>2, <3>3
  <2>5. CASE c \notin heard
    <3>1. har'.got[c] = har.got[c]
      BY <2>5, <1>4
    <3>2. x = r => <<c, x>> \notin har.fetching
      BY <2>3 DEF HarInv, HarFetches
    <3>3. x # r => har'.hop[x] = har.hop[x]
      BY <1>1, <2>3 DEF HarInv, HarTypes
    <3> QED  BY <3>1, <3>2, <3>3, <2>2, <2>5, <1>1 DEF HarInv, HarHops
  <2> QED  BY <2>4, <2>5
<1> QED  BY <1>5, <1>6, <1>7, <1>8, <1>9 DEF HarInv

\* A response is entered by the recorders that know its request, and its body may be fetched.
LEMMA HarResponseInv == HarInv /\ HarResponse => HarInv'
<1> SUFFICES ASSUME HarInv, HarResponse PROVE HarInv'
  OBVIOUS
<1> PICK r \in Requests :
    LET heard == {c \in har.ears \cap har.rec : r \in DOMAIN har.got[c]}
    IN /\ har.hop[r] > 0 /\ r \notin har.ended
       /\ \E asked \in {heard, {}} :
            har' = [har EXCEPT !.ended = @ \cup {r},
              !.got = [c \in Captured |-> IF c \in heard THEN [@[c] EXCEPT ![r].of = har.hop[r]]
                       ELSE @[c]],
              !.fetching = @ \cup {<<c, r>> : c \in asked}]
  BY DEF HarResponse
<1> DEFINE heard == {c \in har.ears \cap har.rec : r \in DOMAIN har.got[c]}
<1> PICK asked \in {heard, {}} :
            har' = [har EXCEPT !.ended = @ \cup {r},
              !.got = [c \in Captured |-> IF c \in heard THEN [@[c] EXCEPT ![r].of = har.hop[r]]
                       ELSE @[c]],
              !.fetching = @ \cup {<<c, r>> : c \in asked}]
  OBVIOUS
<1>1. /\ har'.rec = har.rec /\ har'.ears = har.ears /\ har'.early = har.early
      /\ har'.at = har.at /\ har'.active = har.active /\ har'.dropped = har.dropped
      /\ har'.hop = har.hop /\ har'.ended = har.ended \cup {r}
      /\ har'.fetching = har.fetching \cup {<<c, r>> : c \in asked}
      /\ har'.got = [c \in Captured |-> IF c \in heard
                     THEN [har.got[c] EXCEPT ![r].of = har.hop[r]] ELSE har.got[c]]
  BY DEF HarInv, HarTypes, HarWhole
<1>2. \A c \in heard : c \in Captured /\ c \in har.ears /\ c \in har.rec /\ r \in DOMAIN har.got[c]
  BY DEF HarInv, HarTypes, HarWhole
<1>3. asked \subseteq heard
  OBVIOUS
<1> HIDE DEF heard
<1>4. har.hop[r] \in Nat
  BY DEF HarInv, HarTypes, HarWhole
<1>5. \A c \in Captured :
        /\ HarGot(har'.got[c]) /\ DOMAIN har'.got[c] = DOMAIN har.got[c]
        /\ \A x \in DOMAIN har.got[c] :
             /\ har'.got[c][x].hop = har.got[c][x].hop
             /\ har'.got[c][x].body = har.got[c][x].body
             /\ har'.got[c][x].of = IF c \in heard /\ x = r THEN har.hop[r] ELSE har.got[c][x].of
  <2> TAKE c \in Captured
  <2> DEFINE g == har.got[c]
  <2>1. HarGot(g)
    BY DEF HarInv, HarEntries
  <2>2. CASE c \in heard
    <3>1. har'.got[c] = [g EXCEPT ![r].of = har.hop[r]] /\ r \in DOMAIN g
      BY <1>1, <1>2, <2>2
    <3>2. g[r] \in HarEntry /\ [g[r] EXCEPT !.of = har.hop[r]] \in HarEntry
      BY <2>1, <3>1, <1>4 DEF HarGot, HarEntry
    <3>3. har'.got[c] \in [DOMAIN g -> HarEntry]
      BY <2>1, <3>1, <3>2 DEF HarGot
    <3>4. DOMAIN har'.got[c] = DOMAIN g
      BY <3>1
    <3>5. \A x \in DOMAIN g : har'.got[c][x] = IF x = r THEN [g[r] EXCEPT !.of = har.hop[r]]
        ELSE g[x]
      BY <3>1
    <3> HIDE DEF g
    <3>6. HarGot(har'.got[c])
      BY <2>1, <3>3, <3>4 DEF HarGot
    <3>7. \A x \in DOMAIN g : g[x] \in HarEntry
      BY <2>1 DEF HarGot
    <3> QED  BY <2>2, <3>2, <3>4, <3>5, <3>6, <3>7 DEF g, HarEntry
  <2>3. CASE c \notin heard
    <3>1. har'.got[c] = har.got[c]
      BY <1>1, <2>3
    <3>2. HarGot(har'.got[c]) /\ DOMAIN har'.got[c] = DOMAIN har.got[c]
      BY <2>1, <3>1
    <3>3. ASSUME NEW x \in DOMAIN har.got[c]
          PROVE  /\ har'.got[c][x].hop = har.got[c][x].hop
                 /\ har'.got[c][x].body = har.got[c][x].body
                 /\ har'.got[c][x].of = har.got[c][x].of
      BY <3>1, Zenon
    <3> QED  BY <2>3, <3>2, <3>3
  <2> QED  BY <2>2, <2>3
<1>6. \A c \in Captured, x \in Requests :
        <<c, x>> \in har'.fetching => <<c, x>> \in har.fetching \/ (x = r /\ c \in heard)
  BY <1>1, <1>3
<1>7. HarTypes'
  <2>1. HarWhole'
    BY DEF HarInv, HarTypes, HarWhole
  <2>2. har'.got = [x \in Captured |-> har'.got[x]] /\ DOMAIN har'.got = Captured
    BY <1>1 DEF HarInv, HarTypes
  <2>3. \A c \in asked : <<c, r>> \in Captured \X Requests
    BY <1>2, <1>3
  <2>4. har'.fetching \subseteq Captured \X Requests
    BY <1>1, <2>3 DEF HarInv, HarTypes
  <2> QED  BY <1>1, <2>1, <2>2, <2>4 DEF HarInv, HarTypes
<1>8. HarEntries'
  BY <1>5 DEF HarEntries
<1>9. HarFetches'
  BY <1>1, <1>2, <1>5, <1>6 DEF HarInv, HarFetches
<1>10. HarStages'
  BY <1>1, <1>5 DEF HarInv, HarTypes, HarStages
<1>11. HarHops'
  <2> SUFFICES ASSUME NEW c \in Captured, har'.dropped[c] = 0, NEW x \in DOMAIN har'.got[c]
               PROVE  /\ har'.got[c][x].of \in {0, har'.got[c][x].hop}
                      /\ har'.got[c][x].body \in {0, har'.got[c][x].hop}
                      /\ c \in har'.ears /\ c \in har'.rec => har'.got[c][x].hop = har'.hop[x]
                      /\ <<c, x>> \in har'.fetching => har'.got[c][x].hop = har'.hop[x]
    BY DEF HarHops
  <2>1. x \in Requests /\ x \in DOMAIN har.got[c]
    BY <1>5 DEF HarGot
  <2> QED  BY <1>1, <1>2, <1>5, <1>6, <2>1 DEF HarInv, HarHops
<1> QED  BY <1>7, <1>8, <1>9, <1>10, <1>11 DEF HarInv

\* A body that is fetched is entered with the hop it is at, or it is lost.
LEMMA HarBodyInv == HarInv /\ HarBody => HarInv'
<1> SUFFICES ASSUME HarInv, NEW f \in har.fetching,
                    \/ har' = [har EXCEPT !.fetching = @ \ {f},
                               !.got[f[1]][f[2]].body = har.hop[f[2]]]
                    \/ har' = [har EXCEPT !.fetching = @ \ {f}]
             PROVE  HarInv'
  BY DEF HarBody
<1> DEFINE b == f[1]  r == f[2]  g == har.got[b]
<1>1. b \in Captured /\ r \in Requests /\ f = <<b, r>>
  BY DEF HarInv, HarTypes, HarWhole
<1>2. r \in DOMAIN g /\ HarGot(g) /\ har.hop[r] \in Nat
  BY <1>1 DEF HarInv, HarTypes, HarFetches, HarEntries
<1>3. /\ har'.rec = har.rec /\ har'.ears = har.ears /\ har'.early = har.early
      /\ har'.at = har.at /\ har'.active = har.active /\ har'.dropped = har.dropped
      /\ har'.hop = har.hop /\ har'.ended = har.ended /\ har'.fetching = har.fetching \ {f}
      /\ \/ har'.got = [har.got EXCEPT ![b] = [g EXCEPT ![r].body = har.hop[r]]]
         \/ har'.got = har.got
  BY DEF HarInv, HarTypes, HarWhole
<1>4. \A c \in Captured :
        /\ HarGot(har'.got[c]) /\ DOMAIN har'.got[c] = DOMAIN har.got[c]
        /\ \A x \in DOMAIN har.got[c] :
             /\ har'.got[c][x].hop = har.got[c][x].hop
             /\ har'.got[c][x].of = har.got[c][x].of
             /\ \/ har'.got[c][x].body = har.got[c][x].body
                \/ c = b /\ x = r /\ har'.got[c][x].body = har.hop[r]
  <2> TAKE c \in Captured
  <2>1. HarGot(har.got[c])
    BY DEF HarInv, HarEntries
  <2>2. CASE har'.got = [har.got EXCEPT ![b] = [g EXCEPT ![r].body = har.hop[r]]] /\ c = b
    <3>1. har'.got[c] = [g EXCEPT ![r].body = har.hop[r]] /\ r \in DOMAIN g
      BY <1>1, <1>2, <2>2 DEF HarInv, HarTypes
    <3>2. g[r] \in HarEntry /\ [g[r] EXCEPT !.body = har.hop[r]] \in HarEntry
      BY <1>2 DEF HarGot, HarEntry
    <3>3. har'.got[c] \in [DOMAIN g -> HarEntry]
      BY <1>2, <3>1, <3>2 DEF HarGot
    <3>4. DOMAIN har'.got[c] = DOMAIN g
      BY <3>1
    <3>5. \A x \in DOMAIN g : har'.got[c][x] = IF x = r THEN [g[r] EXCEPT !.body = har.hop[r]]
        ELSE g[x]
      BY <3>1
    <3>6. g = har.got[c]
      BY <2>2
    <3> HIDE DEF g
    <3>7. HarGot(har'.got[c])
      BY <1>2, <3>3, <3>4 DEF HarGot
    <3>8. \A x \in DOMAIN g : g[x] \in HarEntry
      BY <1>2 DEF HarGot
    <3>9. ASSUME NEW x \in DOMAIN g
          PROVE  /\ har'.got[c][x].hop = g[x].hop /\ har'.got[c][x].of = g[x].of
                 /\ (har'.got[c][x].body = g[x].body \/ (x = r /\ har'.got[c][x].body = har.hop[r]))
      <4>1. CASE x = r
        BY <4>1, <3>2, <3>5 DEF HarEntry
      <4>2. CASE x # r
        <5>1. har'.got[c][x] = g[x]
          BY <4>2, <3>5
        <5>2. /\ har'.got[c][x].hop = g[x].hop /\ har'.got[c][x].of = g[x].of
              /\ har'.got[c][x].body = g[x].body
          BY <5>1, Zenon
        <5> QED  BY <5>2
      <4> QED  BY <4>1, <4>2
    <3> QED  BY <2>2, <3>4, <3>6, <3>7, <3>9
  <2>3. CASE har'.got[c] = har.got[c]
    BY <2>1, <2>3
  <2>4. c # b => har'.got[c] = har.got[c]
    BY <1>3 DEF HarInv, HarTypes
  <2> QED  BY <1>3, <2>2, <2>3, <2>4
<1>5. <<b, r>> \in har.fetching
  BY <1>1
<1> HIDE DEF b, r, g
<1>6. HarTypes'
  <2>1. HarWhole'
    BY DEF HarInv, HarTypes, HarWhole
  <2>2. har'.got = [x \in Captured |-> har'.got[x]] /\ DOMAIN har'.got = Captured
    BY <1>3, <1>1 DEF HarInv, HarTypes
  <2>3. har'.at \in [Captured -> {"new", "enabling", "listening", "failed"}]
    BY <1>3, <1>1 DEF HarInv, HarTypes
  <2> QED  BY <1>3, <1>1, <2>1, <2>2, <2>3 DEF HarInv, HarTypes
<1>7. HarEntries'
  BY <1>4 DEF HarEntries
<1>8. HarFetches'
  BY <1>3, <1>4 DEF HarInv, HarFetches
<1>9. HarStages'
  BY <1>3, <1>4 DEF HarInv, HarTypes, HarStages
<1>10. HarHops'
  <2> SUFFICES ASSUME NEW c \in Captured, har'.dropped[c] = 0, NEW x \in DOMAIN har'.got[c]
               PROVE  /\ har'.got[c][x].of \in {0, har'.got[c][x].hop}
                      /\ har'.got[c][x].body \in {0, har'.got[c][x].hop}
                      /\ c \in har'.ears /\ c \in har'.rec => har'.got[c][x].hop = har'.hop[x]
                      /\ <<c, x>> \in har'.fetching => har'.got[c][x].hop = har'.hop[x]
    BY DEF HarHops
  <2>1. x \in Requests /\ x \in DOMAIN har.got[c]
    BY <1>4 DEF HarGot
  <2> QED  BY <1>3, <1>4, <1>5, <2>1 DEF HarInv, HarHops
<1> QED  BY <1>6, <1>7, <1>8, <1>9, <1>10 DEF HarInv

\* Every step on the recorder keeps the strengthening.
LEMMA HarStepInv == HarInv /\ [HarNext]_har => HarInv'
<1>1. HarInv /\ HarNext => HarInv'
  BY HarStartInv, HarListenInv, HarStopInv, HarRequestInv, HarResponseInv, HarBodyInv DEF HarNext
<1>2. HarInv /\ UNCHANGED har => HarInv'
  BY DEF HarInv, HarTypes, HarWhole, HarEntries, HarGot, HarStages, HarHops, HarFetches
<1> QED  BY <1>1, <1>2

\* What the recorder says of a request is of one hop of it.
LEMMA HarInvTrue == HarInv => HarIsTrue
<1> SUFFICES ASSUME HarInv PROVE HarIsTrue
  OBVIOUS
<1>1. Cardinality(har.rec) <= 1
  <2>1. har.rec \subseteq {har.active}
    BY DEF HarInv, HarStages
  <2>2. IsFiniteSet({har.active}) /\ Cardinality({har.active}) = 1
    BY FS_Singleton
  <2> QED  BY <2>1, <2>2, FS_Subset
<1> QED  BY <1>1 DEF HarInv, HarStages, HarEntries, HarGot, HarHops, HarIsTrue

-----------------------------------------------------------------------------
(* The screen recordings. *)

FilmCall == [at : {"idle", "refused", "recording", "waits", "stat", "stopped", "failed"},
             of : Films \cup {0}, heard : BOOLEAN]
FilmTypes ==
  film \in [map : Films \cup {0}, proc : [Films -> {"none", "runs", "asked", "killed", "dead"}],
            file : SUBSET Films, twice : BOOLEAN, call : [Filmers -> FilmCall]]
\* The device's entry names a process that was started.
FilmNamed == film.map # 0 => film.proc[film.map] # "none"
\* Unless two calls were stopping one recording, what runs is what the entry names, and
\* one call waits for it.
FilmAlone ==
  film.twice = FALSE =>
    /\ \A p \in Films : film.proc[p] = "runs" => film.map = p
    /\ \A c \in Filmers : film.call[c].at = "waits" => film.map = film.call[c].of
    /\ \A c, d \in Filmers : film.call[c].at = "waits" /\ film.call[d].at = "waits" => c = d
\* What a stop knows of its process.
FilmKnown ==
  \A c \in Filmers :
    LET k == film.call[c] IN
    /\ k.at \in {"waits", "stat", "stopped", "failed"} => k.of \in Films /\ film.proc[k.of] # "none"
    /\ k.at \in {"stat", "stopped"} => film.proc[k.of] = "dead"
    /\ k.at \in {"stat", "stopped", "failed"} => k.of # film.map
    /\ k.at = "stopped" => k.of \in film.file
    /\ k.at = "waits" /\ film.proc[k.of] = "dead" => k.heard = FALSE
FilmInv == FilmTypes /\ FilmNamed /\ FilmAlone /\ FilmKnown

\* No recording has the number that says there is none.
LEMMA FilmsArePositive == 0 \notin Films
  BY CaptureAssumption DEF Films

\* No recording runs.
LEMMA FilmInitInv == FilmInit => FilmInv
  BY FilmsArePositive DEF FilmInit, FilmInv, FilmTypes, FilmNamed, FilmAlone, FilmKnown, FilmCall

\* A recording starts if the map has none, and is the one that runs.
LEMMA FilmStartInv ==
  ASSUME FilmInv, NEW c \in Filmers, FilmStart(c)  PROVE FilmInv'
<1> USE FilmsArePositive
<1>1. CASE film.map # 0 /\ film' = [film EXCEPT !.call[c].at = "refused"]
  <2>1. FilmTypes'
    BY <1>1 DEF FilmInv, FilmTypes, FilmCall
  <2>2. FilmNamed' /\ FilmAlone'
    BY <1>1 DEF FilmInv, FilmTypes, FilmCall, FilmNamed, FilmAlone
  <2>3. FilmKnown'
    BY <1>1 DEF FilmInv, FilmTypes, FilmCall, FilmKnown
  <2> QED  BY <2>1, <2>2, <2>3 DEF FilmInv
<1>2. ASSUME film.map = 0, NEW p \in Films, film.proc[p] = "none",
             film' = [film EXCEPT !.map = p, !.proc[p] = "runs", !.call[c].at = "recording"]
      PROVE  FilmInv'
  <2>1. FilmTypes'
    <3>1. [film.call[c] EXCEPT !.at = "recording"] \in FilmCall
      BY DEF FilmInv, FilmTypes, FilmCall
    <3> QED  BY <1>2, <3>1 DEF FilmInv, FilmTypes
  <2>2. FilmNamed' /\ FilmAlone'
    BY <1>2 DEF FilmInv, FilmTypes, FilmCall, FilmNamed, FilmAlone, FilmKnown
  <2>3. FilmKnown'
    BY <1>2 DEF FilmInv, FilmTypes, FilmCall, FilmKnown
  <2> QED  BY <2>1, <2>2, <2>3 DEF FilmInv
<1>3. ASSUME film.map = 0, NEW p \in Films, film.proc[p] = "none",
             film' = [film EXCEPT !.proc[p] = "dead", !.call[c].at = "recording"]
      PROVE  FilmInv'
  <2>1. FilmTypes'
    <3>1. [film.call[c] EXCEPT !.at = "recording"] \in FilmCall
      BY DEF FilmInv, FilmTypes, FilmCall
    <3> QED  BY <1>3, <3>1 DEF FilmInv, FilmTypes
  <2>2. FilmNamed' /\ FilmAlone'
    BY <1>3 DEF FilmInv, FilmTypes, FilmCall, FilmNamed, FilmAlone, FilmKnown
  <2>3. FilmKnown'
    BY <1>3 DEF FilmInv, FilmTypes, FilmCall, FilmKnown
  <2> QED  BY <2>1, <2>2, <2>3 DEF FilmInv
<1> QED  BY <1>1, <1>2, <1>3 DEF FilmStart

\* A call that stops asks the recording of the map to end, and waits for its process.
LEMMA FilmStopInv ==
  ASSUME FilmInv, NEW c \in Filmers, FilmStop(c)  PROVE FilmInv'
<1> USE FilmsArePositive
<1>1. CASE film.map = 0 /\ film' = [film EXCEPT !.call[c].at = "refused"]
  <2>1. FilmTypes'
    BY <1>1 DEF FilmInv, FilmTypes, FilmCall
  <2>2. FilmNamed' /\ FilmAlone'
    BY <1>1 DEF FilmInv, FilmTypes, FilmCall, FilmNamed, FilmAlone
  <2>3. FilmKnown'
    BY <1>1 DEF FilmInv, FilmTypes, FilmCall, FilmKnown
  <2> QED  BY <2>1, <2>2, <2>3 DEF FilmInv
<1>2. CASE film.map # 0 /\ film.call[c].at = "idle"
  <2> DEFINE p == film.map
             again == \E d \in Filmers : film.call[d].at = "waits" /\ film.call[d].of = p
  <2>1. p \in Films
    BY <1>2 DEF FilmInv, FilmTypes
  <2>2. film' = [film EXCEPT !.call[c] = [at |-> "waits", of |-> p,
                                          heard |-> film.proc[p] # "dead"],
                             !.proc[p] = IF @ = "dead" THEN @ ELSE "asked",
                             !.twice = @ \/ again]
    BY <1>2 DEF FilmStop
  <2>3. FilmTypes'
    <3>1. film.twice \/ again \in BOOLEAN
      OBVIOUS
    <3> HIDE DEF again
    <3> QED  BY <2>1, <2>2, <3>1 DEF FilmInv, FilmTypes, FilmCall
  <2>4. FilmNamed'
    BY <2>1, <2>2 DEF FilmInv, FilmTypes, FilmCall, FilmNamed
  <2>5. film'.twice = FALSE => film.twice = FALSE /\ ~again
    BY <2>2 DEF FilmInv, FilmTypes
  <2>6. FilmAlone'
    BY <2>1, <2>2, <2>5 DEF FilmInv, FilmTypes, FilmCall, FilmNamed, FilmAlone
  <2>7. FilmKnown'
    <3>1. film.proc[p] # "none"
      BY <1>2, <2>1 DEF FilmInv, FilmNamed
    <3>2. /\ film'.map = film.map /\ film'.file = film.file
          /\ film'.call[c].at = "waits" /\ film'.call[c].of = p
          /\ film.proc[p] = "dead" => film'.call[c].heard = FALSE
      BY <2>2 DEF FilmInv, FilmTypes
    <3>3. \A d \in Filmers : d # c => film'.call[d] = film.call[d]
      BY <2>2 DEF FilmInv, FilmTypes
    <3>4. film'.proc[p] = IF film.proc[p] = "dead" THEN "dead" ELSE "asked"
      BY <2>1, <2>2 DEF FilmInv, FilmTypes
    <3>5. \A q \in Films : q # p => film'.proc[q] = film.proc[q]
      BY <2>1, <2>2 DEF FilmInv, FilmTypes
    <3> HIDE DEF p, again
    <3> SUFFICES ASSUME NEW d \in Filmers, FilmKnown!(d)  PROVE FilmKnown!(d)'
      BY DEF FilmInv, FilmKnown
    <3>6. CASE d = c
      BY <3>1, <3>2, <3>4, <3>6, <2>1
    <3>7. CASE d # c
      BY <3>1, <3>2, <3>3, <3>4, <3>5, <3>7, <2>1
    <3> QED  BY <3>6, <3>7
  <2> QED  BY <2>3, <2>4, <2>6, <2>7 DEF FilmInv
<1> QED  BY <1>1, <1>2 DEF FilmStop, FilmIdle

\* The process that exits is heard of by the call that waits for it.
LEMMA FilmExitsInv ==
  ASSUME FilmInv, FilmExits  PROVE FilmInv'
<1> USE FilmsArePositive
<1> PICK p \in Films :
      LET waiting == {c \in Filmers : film.call[c].at = "waits" /\ film.call[c].of = p}
      IN /\ film.proc[p] \in {"runs", "asked", "killed"}
         /\ \E file \in {film.file, film.file \cup {p}} :
              film' = [film EXCEPT !.proc[p] = "dead", !.file = file,
                !.map = IF waiting = {} THEN @ ELSE 0,
                !.call = [c \in Filmers |-> IF c \in waiting THEN [@[c] EXCEPT !.at = "stat"]
                          ELSE @[c]]]
  BY DEF FilmExits
<1> DEFINE waiting == {c \in Filmers : film.call[c].at = "waits" /\ film.call[c].of = p}
<1> PICK file \in {film.file, film.file \cup {p}} :
      film' = [film EXCEPT !.proc[p] = "dead", !.file = file,
                !.map = IF waiting = {} THEN @ ELSE 0,
                !.call = [c \in Filmers |-> IF c \in waiting THEN [@[c] EXCEPT !.at = "stat"]
                          ELSE @[c]]]
  OBVIOUS
<1>1. \A c \in Filmers : c \in waiting <=> film.call[c].at = "waits" /\ film.call[c].of = p
  OBVIOUS
<1>2. file \subseteq Films /\ film.file \subseteq file
  BY DEF FilmInv, FilmTypes
<1>3. film.proc[p] \in {"runs", "asked", "killed"}
  OBVIOUS
<1> HIDE DEF waiting
<1>4. FilmTypes'
  <2>1. \A c \in Filmers : [film.call[c] EXCEPT !.at = "stat"] \in FilmCall
    BY DEF FilmInv, FilmTypes, FilmCall
  <2> QED  BY <1>2, <2>1 DEF FilmInv, FilmTypes
<1>5. FilmNamed'
  BY <1>2 DEF FilmInv, FilmTypes, FilmNamed
<1>6. /\ film'.proc = [film.proc EXCEPT ![p] = "dead"]
      /\ film'.file = file
      /\ film'.twice = film.twice
      /\ film'.map = IF waiting = {} THEN film.map ELSE 0
      /\ \A c \in Filmers : film'.call[c] = IF c \in waiting
         THEN [film.call[c] EXCEPT !.at = "stat"] ELSE film.call[c]
  BY <1>2 DEF FilmInv, FilmTypes
<1>7. FilmAlone'
  <2> SUFFICES ASSUME film.twice = FALSE  PROVE FilmAlone'
    BY <1>6 DEF FilmAlone
  <2>1. CASE waiting = {}
    BY <2>1, <1>1, <1>2, <1>6 DEF FilmInv, FilmTypes, FilmCall, FilmAlone, FilmKnown
  <2>2. CASE waiting # {}
    <3> PICK w \in Filmers : film.call[w].at = "waits" /\ film.call[w].of = p
      BY <2>2, <1>1 DEF waiting
    <3>1. film.map = p /\ \A d \in Filmers : film.call[d].at = "waits" => d \in waiting
      BY <1>1 DEF FilmInv, FilmAlone
    <3>2. \A d \in Filmers : film'.call[d].at # "waits"
      BY <3>1, <1>1, <1>6 DEF FilmInv, FilmTypes, FilmCall
    <3> QED  BY <3>1, <3>2, <2>2, <1>3, <1>6 DEF FilmInv, FilmTypes, FilmAlone
  <2> QED  BY <2>1, <2>2
<1>8. FilmKnown'
  <2> SUFFICES ASSUME NEW c \in Filmers
               PROVE  /\ film'.call[c].at \in {"waits", "stat", "stopped", "failed"}
                         => film'.call[c].of \in Films /\ film'.proc[film'.call[c].of] # "none"
                      /\ film'.call[c].at \in {"stat", "stopped"}
                         => film'.proc[film'.call[c].of] = "dead"
                      /\ film'.call[c].at \in {"stat", "stopped", "failed"}
                         => film'.call[c].of # film'.map
                      /\ film'.call[c].at = "stopped" => film'.call[c].of \in film'.file
                      /\ film'.call[c].at = "waits" /\ film'.proc[film'.call[c].of] = "dead"
                         => film'.call[c].heard = FALSE
    BY DEF FilmKnown
  <2>1. film.call[c] \in FilmCall
      /\ film.proc \in [Films -> {"none", "runs", "asked", "killed", "dead"}]
    BY DEF FilmInv, FilmTypes
  <2>2. CASE c \in waiting
    <3>1. film'.call[c].at = "stat" /\ film'.call[c].of = p
      BY <2>1, <2>2, <1>1, <1>6 DEF FilmCall
    <3>2. film'.map = 0 /\ film'.proc[p] = "dead"
      BY <2>1, <2>2, <1>6
    <3> QED  BY <3>1, <3>2
  <2>3. CASE c \notin waiting
    <3>1. film'.call[c] = film.call[c] /\ ~(film.call[c].at = "waits" /\ film.call[c].of = p)
      BY <2>3, <1>1, <1>6
    <3> QED  BY <3>1, <2>1, <1>2, <1>6 DEF FilmInv, FilmKnown, FilmCall
  <2> QED  BY <2>2, <2>3
<1> QED  BY <1>4, <1>5, <1>7, <1>8 DEF FilmInv

\* A call that stops ends by its timeout or with the file it found.
LEMMA FilmEndsInv ==
  ASSUME FilmInv, NEW c \in Filmers, FilmTimeout(c) \/ FilmStat(c)  PROVE FilmInv'
<1> USE FilmsArePositive
<1>1. CASE FilmTimeout(c)
  <2>1. film.call[c].at = "waits" /\ film.call[c].of \in Films
      /\ film.proc[film.call[c].of] # "none"
    BY <1>1 DEF FilmTimeout, FilmInv, FilmKnown
  <2>2. FilmTypes'
    <3>1. [film.call[c] EXCEPT !.at = "failed"] \in FilmCall
      BY DEF FilmInv, FilmTypes, FilmCall
    <3> QED  BY <1>1, <2>1, <3>1 DEF FilmTimeout, FilmInv, FilmTypes
  <2>3. FilmNamed'
    BY <1>1, <2>1 DEF FilmTimeout, FilmInv, FilmTypes, FilmCall, FilmNamed
  <2>4. FilmAlone'
    BY <1>1, <2>1 DEF FilmTimeout, FilmInv, FilmTypes, FilmCall, FilmAlone
  <2>5. FilmKnown'
    BY <1>1, <2>1 DEF FilmTimeout, FilmInv, FilmTypes, FilmCall, FilmKnown
  <2> QED  BY <2>2, <2>3, <2>4, <2>5 DEF FilmInv
<1>2. CASE FilmStat(c)
  <2>2. FilmTypes'
    <3>1. \A x \in {"stopped", "failed"} : [film.call[c] EXCEPT !.at = x] \in FilmCall
      BY DEF FilmInv, FilmTypes, FilmCall
    <3> QED  BY <1>2, <3>1 DEF FilmStat, FilmInv, FilmTypes
  <2>3. FilmNamed'
    BY <1>2 DEF FilmStat, FilmInv, FilmTypes, FilmCall, FilmNamed
  <2>4. FilmAlone'
    BY <1>2 DEF FilmStat, FilmInv, FilmTypes, FilmCall, FilmAlone
  <2>5. FilmKnown'
    BY <1>2 DEF FilmStat, FilmInv, FilmTypes, FilmCall, FilmKnown
  <2> QED  BY <2>2, <2>3, <2>4, <2>5 DEF FilmInv
<1> QED  BY <1>1, <1>2

\* Every step on the recordings keeps the strengthening.
LEMMA FilmStepInv == FilmInv /\ [FilmNext]_film => FilmInv'
<1>1. FilmInv /\ FilmNext => FilmInv'
  BY FilmStartInv, FilmStopInv, FilmExitsInv, FilmEndsInv DEF FilmNext
<1>2. FilmInv /\ UNCHANGED film => FilmInv'
  BY DEF FilmInv, FilmTypes, FilmNamed, FilmAlone, FilmKnown
<1> QED  BY <1>1, <1>2

\* A recording that runs is in the map or has a call that stops it.
LEMMA FilmInvOwned == FilmInv => FilmsAreOwned
  BY DEF FilmInv, FilmTypes, FilmAlone, FilmKnown, FilmsAreOwned

-----------------------------------------------------------------------------
(* The step barrier. *)

\* A resolver slot is only taken for a device that has arrived, so a new
\* waiter never overwrites the resolver of another one.
SlotsOfArrived ==
  \A s \in Steps : barriers[s] # NoEntry =>
    \A d \in Devices :
      barriers[s].resolvers[d] # NoCall => d \in barriers[s].arrived

\* A resolver slot holds the call that waits at that step for that device, so
\* resolving the slots of one step touches no waiter of another step.
SlotsAreWaiters ==
  \A s \in Steps : barriers[s] # NoEntry =>
    \A d \in Devices : barriers[s].resolvers[d] # NoCall =>
      /\ status[barriers[s].resolvers[d]] = "waiting"
      /\ request[barriers[s].resolvers[d]] = [step |-> s, device |-> d]

\* WaitersAnswerable is not inductive alone; with the two slot facts it is.
IInv == TypeOK /\ SlotsOfArrived /\ SlotsAreWaiters /\ WaitersAnswerable

-----------------------------------------------------------------------------
\* The initial state satisfies the inductive invariant.
LEMMA InitIInv == Init => IInv
<1> SUFFICES ASSUME Init PROVE IInv
  OBVIOUS
<1> USE DEF Init
<1>1. TypeOK
  BY DEF TypeOK
<1>2. SlotsOfArrived /\ SlotsAreWaiters
  BY DEF SlotsOfArrived, SlotsAreWaiters
<1>3. WaitersAnswerable
  BY DEF WaitersAnswerable
<1> QED
  BY <1>1, <1>2, <1>3 DEF IInv

\* The entry a wait() works on is an entry, existing or fresh.
LEMMA EntryForType ==
  ASSUME TypeOK, NEW s \in Steps, NEW all \in SUBSET Devices
  PROVE  EntryFor(s, all) \in Entry /\ EntryFor(s, all) # NoEntry
<1>1. NewEntry(all) \in Entry
  BY DEF NewEntry, Entry
<1> QED
  BY <1>1, BarrierConstants DEF TypeOK, EntryFor

\* The waiters of a step are calls that wait at that step, and no other.
LEMMA WaitersOfStep ==
  ASSUME IInv, NEW s \in Steps, barriers[s] # NoEntry,
         NEW c \in Waiters(barriers[s])
  PROVE  c \in Calls /\ status[c] = "waiting" /\ request[c].step = s
<1>1. PICK d \in Devices : c = barriers[s].resolvers[d] /\ c # NoCall
  BY DEF Waiters
<1>2. status[c] = "waiting" /\ request[c] = [step |-> s, device |-> d]
  BY <1>1 DEF IInv, SlotsAreWaiters
<1>3. c \in Calls
  BY <1>1 DEF IInv, TypeOK, Entry
<1> QED
  BY <1>2, <1>3

\* A call that is not among the waiters of any step keeps its facts when the
\* slots of step s are emptied.
LEMMA ClearIInv ==
  ASSUME IInv, NEW s \in Steps, Clear(s)
  PROVE  IInv'
<1> USE BarrierConstants
<1>1. TypeOK'
  BY DEF IInv, TypeOK, Clear, Resolve, BuildResult, Waiters, Entry, Verdict
<1>2. SlotsOfArrived'
  BY DEF IInv, TypeOK, Clear, SlotsOfArrived
<1>3. SlotsAreWaiters'
  <2> SUFFICES ASSUME NEW t \in Steps, barriers'[t] # NoEntry,
                      NEW k \in Devices,
                      barriers'[t].resolvers[k] # NoCall
               PROVE  /\ status'[barriers'[t].resolvers[k]] = "waiting"
                      /\ request'[barriers'[t].resolvers[k]]
                           = [step |-> t, device |-> k]
    BY DEF SlotsAreWaiters
  <2>1. t # s /\ barriers'[t] = barriers[t]
    BY DEF Clear, IInv, TypeOK
  <2>2. /\ barriers[t].resolvers[k] \in Calls
        /\ status[barriers[t].resolvers[k]] = "waiting"
        /\ request[barriers[t].resolvers[k]] = [step |-> t, device |-> k]
    BY <2>1 DEF IInv, TypeOK, SlotsAreWaiters, Entry
  <2>3. barriers[t].resolvers[k] \notin Waiters(barriers[s])
    <3>1. request[barriers[t].resolvers[k]].step = t
      BY <2>2
    <3> QED
      BY <2>1, <3>1, WaitersOfStep DEF Clear
  <2> QED
    BY <2>1, <2>2, <2>3 DEF Clear, Resolve
<1>4. WaitersAnswerable'
  BY DEF IInv, TypeOK, Clear, Resolve, SlotsAreWaiters, WaitersAnswerable,
         Waiters, Request, Entry, AllArrived
<1> QED
  BY <1>1, <1>2, <1>3, <1>4 DEF IInv

\* The timer of one step answers the waiters of that step and no other.
LEMMA TimeoutIInv ==
  ASSUME IInv, NEW s \in Steps, HandleTimeout(s)
  PROVE  IInv'
<1> USE BarrierConstants
<1>0. barriers[s] \in Entry /\ Drained(barriers[s]) \in Entry
  BY DEF IInv, TypeOK, HandleTimeout, Drained, Entry
<1>1. TypeOK'
  BY <1>0 DEF IInv, TypeOK, HandleTimeout, Resolve, BuildResult, Entry, Verdict
<1>2. SlotsOfArrived'
  BY <1>0 DEF IInv, TypeOK, HandleTimeout, Drained, SlotsOfArrived, Entry
<1>3. SlotsAreWaiters'
  <2> SUFFICES ASSUME NEW t \in Steps, barriers'[t] # NoEntry,
                      NEW k \in Devices,
                      barriers'[t].resolvers[k] # NoCall
               PROVE  /\ status'[barriers'[t].resolvers[k]] = "waiting"
                      /\ request'[barriers'[t].resolvers[k]]
                           = [step |-> t, device |-> k]
    BY DEF SlotsAreWaiters
  <2>1. t # s /\ barriers'[t] = barriers[t]
    BY <1>0 DEF HandleTimeout, Drained, Entry, IInv, TypeOK
  <2>2. /\ barriers[t].resolvers[k] \in Calls
        /\ status[barriers[t].resolvers[k]] = "waiting"
        /\ request[barriers[t].resolvers[k]] = [step |-> t, device |-> k]
    BY <2>1 DEF IInv, TypeOK, SlotsAreWaiters, Entry
  <2>3. barriers[t].resolvers[k] \notin Waiters(barriers[s])
    <3>1. request[barriers[t].resolvers[k]].step = t
      BY <2>2
    <3> QED
      BY <2>1, <3>1, WaitersOfStep DEF HandleTimeout
  <2> QED
    BY <2>1, <2>2, <2>3 DEF HandleTimeout, Resolve
<1>4. WaitersAnswerable'
  BY <1>0 DEF IInv, TypeOK, HandleTimeout, Drained, Resolve, SlotsAreWaiters,
              WaitersAnswerable, Waiters, Request, Entry, AllArrived
<1> QED
  BY <1>1, <1>2, <1>3, <1>4 DEF IInv

\* Clearing every barrier answers every waiter.
LEMMA ClearAllIInv ==
  ASSUME IInv, ClearAll
  PROVE  IInv'
<1> USE BarrierConstants
<1>1. TypeOK'
  <2>1. ASSUME NEW c \in Calls, \E s \in Steps : c \in BlockedOn(s)
        PROVE  BuildResult(barriers[request[c].step], TRUE, FALSE) \in Verdict
    <3>1. PICK s \in Steps : c \in BlockedOn(s)
      BY <2>1
    <3>2. barriers[s] # NoEntry /\ c \in Waiters(barriers[s])
      BY <3>1 DEF BlockedOn
    <3>3. request[c].step = s /\ barriers[s] \in Entry
      BY <3>2, WaitersOfStep DEF IInv, TypeOK
    <3> QED
      BY <3>3 DEF BuildResult, Verdict, Entry
  <2> QED
    BY <2>1 DEF IInv, TypeOK, ClearAll
<1>2. SlotsOfArrived' /\ SlotsAreWaiters'
  BY DEF ClearAll, SlotsOfArrived, SlotsAreWaiters
<1>3. WaitersAnswerable'
  BY DEF IInv, TypeOK, ClearAll, WaitersAnswerable, BlockedOn, Waiters,
         Request, Entry
<1> QED
  BY <1>1, <1>2, <1>3 DEF IInv

-----------------------------------------------------------------------------
\* The three outcomes of wait().
LEMMA WaitIInv ==
  ASSUME IInv, NEW c \in Calls, NEW s \in Steps, NEW d \in Devices,
         NEW all \in SUBSET Devices, Wait(c, s, d, all)
  PROVE  IInv'
<1> USE BarrierConstants
<1> DEFINE e  == EntryFor(s, all)
<1> DEFINE e2 == [e EXCEPT !.arrived = @ \cup {d}]
<1>1. e \in Entry /\ e # NoEntry
  BY EntryForType DEF IInv
<1>2. /\ status[c] = "new"
      /\ request' = [request EXCEPT ![c] = [step |-> s, device |-> d]]
      /\ [step |-> s, device |-> d] \in Request
  BY DEF Wait, Request
<1>3. \A k \in Devices : e.resolvers[k] # NoCall =>
        /\ barriers[s] # NoEntry
        /\ e = barriers[s]
        /\ k \in e.arrived
        /\ status[e.resolvers[k]] = "waiting"
        /\ request[e.resolvers[k]] = [step |-> s, device |-> k]
        /\ e.resolvers[k] # c
  BY <1>2 DEF EntryFor, NewEntry, IInv, SlotsOfArrived, SlotsAreWaiters
<1>4. \A k \in Calls : status[k] = "waiting" =>
        /\ k # c
        /\ request[k] \in Request
        /\ barriers[request[k].step] # NoEntry
        /\ (request[k].step = s =>
             e = barriers[s] /\ e.resolvers[request[k].device] = k
             /\ e.timer /\ ~ AllArrived(e))
  BY <1>2 DEF IInv, TypeOK, WaitersAnswerable, EntryFor
<1>5. CASE WaitAgain(c, s, d, e)
  <2>1. TypeOK'
    BY <1>1, <1>2, <1>5 DEF IInv, TypeOK, WaitAgain, BuildResult, Verdict, Entry
  <2>2. SlotsOfArrived'
    BY <1>1, <1>3, <1>5 DEF IInv, TypeOK, SlotsOfArrived, WaitAgain
  <2>3. SlotsAreWaiters'
    BY <1>1, <1>2, <1>3, <1>5
    DEF IInv, TypeOK, SlotsAreWaiters, WaitAgain, Entry
  <2>4. WaitersAnswerable'
    BY <1>1, <1>2, <1>4, <1>5
    DEF IInv, TypeOK, WaitersAnswerable, WaitAgain, Request
  <2> QED
    BY <2>1, <2>2, <2>3, <2>4 DEF IInv
<1>6. CASE WaitLast(c, s, d, e)
  <2>0. e2 \in Entry /\ Drained(e2) \in Entry
    BY <1>1 DEF Entry, Drained
  <2>1. TypeOK'
    BY <1>1, <1>2, <1>6, <2>0
    DEF IInv, TypeOK, WaitLast, BuildResult, Verdict, Entry
  <2>2. SlotsOfArrived'
    BY <1>1, <1>6, <2>0 DEF IInv, TypeOK, SlotsOfArrived, WaitLast, Drained, Entry
  <2>3. SlotsAreWaiters'
    <3> SUFFICES ASSUME NEW t \in Steps, barriers'[t] # NoEntry,
                        NEW k \in Devices,
                        barriers'[t].resolvers[k] # NoCall
                 PROVE  /\ status'[barriers'[t].resolvers[k]] = "waiting"
                        /\ request'[barriers'[t].resolvers[k]]
                             = [step |-> t, device |-> k]
      BY DEF SlotsAreWaiters
    <3>1. t # s /\ barriers'[t] = barriers[t]
      BY <1>6, <2>0 DEF IInv, TypeOK, WaitLast, Drained, Entry
    <3>2. /\ barriers[t].resolvers[k] \in Calls
          /\ status[barriers[t].resolvers[k]] = "waiting"
          /\ request[barriers[t].resolvers[k]] = [step |-> t, device |-> k]
      BY <3>1 DEF IInv, TypeOK, SlotsAreWaiters, Entry
    <3>3. barriers[t].resolvers[k] \notin Waiters(e2) \cup {c}
      <4> DEFINE r == barriers[t].resolvers[k]
      <4>1. r # c
        BY <1>2, <3>2
      <4>2. request[r].step = t
        BY <3>2
      <4>3. ASSUME NEW j \in Devices, e2.resolvers[j] = r, r # NoCall
            PROVE  FALSE
        <5>1. e.resolvers[j] = r
          BY <1>1, <4>3 DEF Entry
        <5>2. request[r] = [step |-> s, device |-> j]
          BY <1>3, <4>3, <5>1
        <5> QED
          BY <3>1, <4>2, <5>2
      <4> QED
        BY <4>1, <4>3 DEF Waiters
    <3> QED
      BY <1>2, <1>6, <3>1, <3>2, <3>3 DEF WaitLast, IInv, TypeOK
  <2>4. WaitersAnswerable'
    <3> SUFFICES ASSUME NEW k \in Calls, status'[k] = "waiting"
                 PROVE  /\ request'[k] # NoCall
                        /\ barriers'[request'[k].step] # NoEntry
                        /\ LET b == barriers'[request'[k].step] IN
                             /\ b.resolvers[request'[k].device] = k
                             /\ b.timer
                             /\ ~ AllArrived(b)
      BY DEF WaitersAnswerable, AllArrived
    <3>1. status[k] = "waiting" /\ k # c /\ k \notin Waiters(e2)
      BY <1>6 DEF WaitLast, IInv, TypeOK
    <3>2. request'[k] = request[k] /\ request[k] \in Request
      BY <1>2, <1>4, <3>1 DEF IInv, TypeOK
    <3>3. request[k].step # s
      BY <1>1, <1>4, <3>1, <3>2 DEF Waiters, Request, Entry
    <3> QED
      BY <1>6, <3>1, <3>2, <3>3
      DEF WaitLast, IInv, TypeOK, WaitersAnswerable, Request, AllArrived
  <2> QED
    BY <2>1, <2>2, <2>3, <2>4 DEF IInv
<1>7. CASE WaitBlocked(c, s, d, e)
  <2> DEFINE e3 == [e2 EXCEPT !.resolvers[d] = c, !.timer = TRUE]
  <2>0. /\ e3 \in Entry /\ e3 # NoEntry
        /\ e3.timer /\ ~ AllArrived(e3)
        /\ e3.arrived = e.arrived \cup {d}
        /\ e3.resolvers = [e.resolvers EXCEPT ![d] = c]
        /\ d \notin e.arrived
        /\ barriers' = [barriers EXCEPT ![s] = e3]
    <3>1. e2 \in Entry /\ e2.arrived = e.arrived \cup {d}
          /\ e2.resolvers = e.resolvers /\ e2.expected = e.expected
      BY <1>1 DEF Entry
    <3>2. /\ e3 \in Entry /\ e3.timer /\ e3.arrived = e2.arrived
          /\ e3.resolvers = [e2.resolvers EXCEPT ![d] = c]
          /\ e3.expected = e2.expected
      BY <3>1 DEF Entry
    <3>3. e3 # NoEntry
      BY <3>2
    <3>4. /\ ~ AllArrived(e2) /\ d \notin e.arrived
          /\ barriers' = [barriers EXCEPT ![s] = e3]
      BY <1>7 DEF WaitBlocked
    <3> QED
      BY <3>1, <3>2, <3>3, <3>4 DEF AllArrived
  <2>00. e.resolvers \in [Devices -> Calls \cup {NoCall}]
    BY <1>1 DEF Entry
  <2> HIDE DEF e3
  <2>1. TypeOK'
    <3>1. /\ status' = [status EXCEPT ![c] = "waiting"]
          /\ verdict' = verdict
      BY <1>7 DEF WaitBlocked
    <3> QED
      BY <1>2, <2>0, <3>1 DEF IInv, TypeOK
  <2>2. SlotsOfArrived'
    <3>1. \A k \in Devices : e3.resolvers[k] # NoCall => k \in e3.arrived
      BY <1>3, <2>0, <2>00
    <3>2. \A t \in Steps : barriers'[t] = IF t = s THEN e3 ELSE barriers[t]
      BY <2>0 DEF IInv, TypeOK
    <3> QED
      BY <3>1, <3>2 DEF IInv, SlotsOfArrived
  <2>3. SlotsAreWaiters'
    BY <1>2, <1>3, <1>7, <2>0, <2>00
    DEF IInv, TypeOK, SlotsAreWaiters, WaitBlocked, Entry
  <2>4. WaitersAnswerable'
    <3> SUFFICES ASSUME NEW k \in Calls, status'[k] = "waiting"
                 PROVE  /\ request'[k] # NoCall
                        /\ barriers'[request'[k].step] # NoEntry
                        /\ LET b == barriers'[request'[k].step] IN
                             /\ b.resolvers[request'[k].device] = k
                             /\ b.timer
                             /\ ~ AllArrived(b)
      BY DEF WaitersAnswerable, AllArrived
    <3>1. CASE k = c
      BY <1>2, <2>0, <2>00, <3>1 DEF IInv, TypeOK
    <3>2. CASE k # c /\ request[k].step = s
      <4>1. /\ request'[k] = request[k] /\ request[k] \in Request
            /\ e.resolvers[request[k].device] = k
        BY <1>2, <1>4, <1>7, <3>2 DEF WaitBlocked, IInv, TypeOK
      <4>2. request[k].device # d
        <5>1. k # NoCall /\ request[k].device \in Devices
          BY <4>1 DEF Request
        <5> QED
          BY <1>3, <2>0, <4>1, <5>1
      <4> QED
        BY <2>0, <2>00, <3>2, <4>1, <4>2 DEF IInv, TypeOK, Request
    <3>3. CASE k # c /\ request[k].step # s
      BY <1>2, <1>4, <1>7, <2>0, <3>3
      DEF WaitBlocked, IInv, TypeOK, WaitersAnswerable, Request, AllArrived
    <3> QED
      BY <3>1, <3>2, <3>3
  <2> QED
    BY <2>1, <2>2, <2>3, <2>4 DEF IInv
<1> QED
  BY <1>5, <1>6, <1>7 DEF Wait

-----------------------------------------------------------------------------
\* Every step preserves the inductive invariant.
LEMMA NextIInv == IInv /\ [Next]_vars => IInv'
<1> SUFFICES ASSUME IInv, [Next]_vars PROVE IInv'
  OBVIOUS
<1>1. CASE UNCHANGED vars
  BY <1>1 DEF vars, IInv, TypeOK, SlotsOfArrived, SlotsAreWaiters,
              WaitersAnswerable, AllArrived
<1>2. CASE Next
  BY <1>2, WaitIInv, TimeoutIInv, ClearIInv, ClearAllIInv DEF Next
<1> QED
  BY <1>1, <1>2

\* The state of the barrier keeps its shape.
THEOREM TypeCorrect == Spec => []TypeOK
<1>1. IInv => TypeOK
  BY DEF IInv
<1> QED
  BY InitIInv, NextIInv, <1>1, PTL DEF Spec

\* In every reachable state a blocked barrier_wait can still be answered: its
\* entry exists, holds its resolver and has a running timer.
THEOREM NoWaiterStranded == Spec => []WaitersAnswerable
<1>1. IInv => WaitersAnswerable
  BY DEF IInv
<1> QED
  BY InitIInv, NextIInv, <1>1, PTL DEF Spec

\* Resolving blocked calls of an entry that is not complete, as timeout and clear do,
\* tells them the truth.
LEMMA UnfinishedIsHonest ==
  ASSUME IInv, NEW c \in Calls, NEW s \in Steps, c \in BlockedOn(s)
  PROVE  /\ BuildResult(barriers[s], TRUE, FALSE).allArrived = FALSE
         /\ BuildResult(barriers[s], TRUE, FALSE).missing # {}
         /\ request[c].step = s
<1>1. barriers[s] # NoEntry /\ c \in Waiters(barriers[s])
  BY DEF BlockedOn
<1>2. status[c] = "waiting" /\ request[c].step = s
  BY <1>1, WaitersOfStep
<1>3. ~ AllArrived(barriers[s])
  BY <1>2 DEF IInv, WaitersAnswerable
<1> QED
  BY <1>2, <1>3 DEF BuildResult, AllArrived

\* Every step tells the calls it answers the truth.
LEMMA NextIsHonest == IInv /\ BlockedVerdictIsHonest /\ [Next]_vars => BlockedVerdictIsHonest'
<1> SUFFICES ASSUME IInv, BlockedVerdictIsHonest, [Next]_vars,
                    NEW k \in Calls, status'[k] = "answered", verdict'[k].waited
             PROVE  verdict'[k].allArrived <=> verdict'[k].missing = {}
  BY DEF BlockedVerdictIsHonest
<1>0. status \in [Calls -> {"new", "waiting", "answered"}]
    /\ verdict \in [Calls -> Verdict \cup {NoCall}]
  BY DEF IInv, TypeOK
<1>1. CASE status'[k] = status[k] /\ verdict'[k] = verdict[k]
  BY <1>1 DEF BlockedVerdictIsHonest
<1>2. ASSUME NEW s \in Steps, Clear(s) \/ HandleTimeout(s)
      PROVE  verdict'[k].allArrived <=> verdict'[k].missing = {}
  <2>1. CASE k \in Waiters(barriers[s])
    <3>1. k \in BlockedOn(s) /\ verdict'[k] = BuildResult(barriers[s], TRUE, FALSE)
      BY <1>2, <2>1 DEF Clear, HandleTimeout, BlockedOn, Resolve
    <3>2. verdict'[k].allArrived = FALSE /\ verdict'[k].missing # {}
      BY <3>1, UnfinishedIsHonest
    <3> QED
      BY <3>2
  <2>2. CASE k \notin Waiters(barriers[s])
    BY <1>1, <1>2, <2>2 DEF Clear, HandleTimeout, Resolve
  <2> QED
    BY <2>1, <2>2
<1>3. CASE ClearAll
  <2>1. CASE \E s \in Steps : k \in BlockedOn(s)
    <3>1. PICK s \in Steps : k \in BlockedOn(s)
      BY <2>1
    <3>2. verdict'[k] = BuildResult(barriers[request[k].step], TRUE, FALSE)
      BY <1>3, <2>1 DEF ClearAll
    <3>3. verdict'[k].allArrived = FALSE /\ verdict'[k].missing # {}
      BY <3>1, <3>2, UnfinishedIsHonest
    <3> QED
      BY <3>3
  <2>2. CASE ~ \E s \in Steps : k \in BlockedOn(s)
    BY <1>1, <1>3, <2>2 DEF ClearAll
  <2> QED
    BY <2>1, <2>2
<1>4. ASSUME NEW c \in Calls, NEW s \in Steps, NEW d \in Devices, NEW e,
             WaitAgain(c, s, d, e) \/ WaitLast(c, s, d, e) \/ WaitBlocked(c, s, d, e)
      PROVE  verdict'[k].allArrived <=> verdict'[k].missing = {}
  <2>1. CASE WaitAgain(c, s, d, e)
    <3>1. CASE k = c
      BY <1>0, <2>1, <3>1 DEF WaitAgain, BuildResult
    <3>2. CASE k # c
      BY <1>0, <1>1, <2>1, <3>2 DEF WaitAgain
    <3> QED
      BY <3>1, <3>2
  <2>2. CASE WaitLast(c, s, d, e)
    <3> DEFINE e2 == [e EXCEPT !.arrived = @ \cup {d}]
    <3>1. AllArrived(e2)
      BY <2>2 DEF WaitLast
    <3>2. CASE k \in Waiters(e2)
      <4>1. verdict'[k] = BuildResult(e2, TRUE, TRUE)
        BY <2>2, <3>2 DEF WaitLast
      <4> HIDE DEF e2
      <4> QED
        BY <3>1, <4>1 DEF BuildResult, AllArrived
    <3>3. CASE k \notin Waiters(e2) /\ k = c
      <4>1. verdict'[k] = BuildResult(e2, FALSE, TRUE)
        BY <2>2, <3>3 DEF WaitLast
      <4> QED
        BY <4>1 DEF BuildResult
    <3>4. CASE k \notin Waiters(e2) /\ k # c
      BY <1>1, <2>2, <3>4 DEF WaitLast
    <3> QED
      BY <3>2, <3>3, <3>4
  <2>3. CASE WaitBlocked(c, s, d, e)
    BY <1>0, <1>1, <2>3 DEF WaitBlocked
  <2> QED
    BY <1>4, <2>1, <2>2, <2>3
<1>5. CASE UNCHANGED vars
  BY <1>1, <1>5 DEF vars
<1> QED
  BY <1>2, <1>3, <1>4, <1>5 DEF Next, Wait

\* Timeout and clear never announce success and release never announces it early: a call
\* that blocked is told "all arrived" exactly when its list of the missing is empty.
THEOREM VerdictsAreHonest == Spec => []BlockedVerdictIsHonest
<1>1. Init => BlockedVerdictIsHonest
  BY DEF Init, BlockedVerdictIsHonest
<1> QED
  BY InitIInv, NextIInv, <1>1, NextIsHonest, PTL DEF Spec

-----------------------------------------------------------------------------
(* The rules of the server's interceptor and of the page. *)

Holding == [on : BOOLEAN, rules : Nat, offline : BOOLEAN]
Message == [at : {"initialize", "tools/call", "begin", "evaluate", "list", "join", "handled"},
            sess : Clients,
            batch : SUBSET Msgs, tool : Tools \cup {"none"}, own : Nat, fresh : BOOLEAN]
MessageTypes == msg \in [Msgs -> Message \cup {NoMsg}] /\ backend \in Nat /\ backends \in Nat
Writes == [by : Msgs, to : Pages, held : Holding]
WireTypes ==
  /\ rules \in [Clients -> Holding] /\ wire \in Seq(Writes)
  /\ on \in Pages /\ page \in [Pages -> Holding]
\* A write on its way is of a message that waits for it, and each of another.
WireIsAwaited ==
  /\ \A i \in DOMAIN wire : MAt(wire[i].by, "evaluate")
  /\ \A i, j \in DOMAIN wire : wire[i].by = wire[j].by => i = j
\* What the page of the connection will hold when all writes have arrived; other pages
\* have nothing, and nothing comes to them.
Written == IF wire = <<>> THEN page[on] ELSE wire[Len(wire)].held
WrittenIsHeld ==
  disturbed = FALSE =>
    /\ \E s \in Clients : Written = rules[s]
    /\ \A i \in DOMAIN wire : wire[i].to = on
    /\ \A p \in Pages : p # on => page[p] = Nothing
McpInv == MessageTypes /\ WireTypes /\ disturbed \in BOOLEAN /\ WireIsAwaited /\ WrittenIsHeld

\* The server starts with no rule held and none on the wire.
LEMMA McpInitInv == McpInit => McpInv
<1> SUFFICES ASSUME McpInit PROVE McpInv
  OBVIOUS
<1>1. Nothing \in Holding
  BY DEF Nothing, Holding
<1>2. MessageTypes
  BY DEF McpInit, MessageTypes
<1>3. WireTypes
  BY <1>1 DEF McpInit, WireTypes
<1>4. WireIsAwaited
  BY DEF McpInit, WireIsAwaited
<1>5. WrittenIsHeld /\ disturbed \in BOOLEAN
  <2>1. disturbed = FALSE /\ wire = <<>> /\ DOMAIN wire = {} /\ on \in Pages
    BY DEF McpInit
  <2>2. (\E s \in Clients : page[on] = rules[s]) /\ \A p \in Pages : page[p] = Nothing
    BY <2>1, McpAssumption DEF McpInit
  <2> QED  BY <2>1, <2>2 DEF WrittenIsHeld, Written
<1> QED  BY <1>2, <1>3, <1>4, <1>5 DEF McpInv

\* An item of a sequence is of its set.
LEMMA ItemOf == ASSUME NEW S, NEW q \in Seq(S), NEW i \in DOMAIN q  PROVE q[i] \in S
  OBVIOUS

\* What is on the wire was sent by a message, and holds rules.
LEMMA WireItem == ASSUME WireTypes, NEW i \in DOMAIN wire
  PROVE wire[i].by \in Msgs /\ wire[i].to \in Pages /\ wire[i].held \in Holding
<1>1. wire[i] \in Writes
  BY ItemOf DEF WireTypes
<1> HIDE DEF Holding
<1> QED  BY <1>1 DEF Writes

\* A message that is not there is at no handler.
LEMMA NoMsgIsIdle == NoMsg.at = "idle" /\ \A r \in Message : r.at # "idle"
  BY DEF NoMsg, Message

\* The connection is on its page still, or on another while no rule is held or on its way.
Unmoved == on' = on \/ (wire = <<>> /\ \A s \in Clients : rules[s] = Nothing)

\* What leaves the wire alone, and each message that waits for it.
LEMMA WireFrame ==
  ASSUME McpInv, MessageTypes', rules' = rules, wire' = wire, page' = page, disturbed' \in BOOLEAN,
         disturbed = TRUE => disturbed' = TRUE, on' \in Pages, disturbed' = TRUE \/ Unmoved,
         \A m \in Msgs : MAt(m, "evaluate") => msg'[m].at = "evaluate"
  PROVE  McpInv'
<1>1. WireTypes'
  BY DEF McpInv, WireTypes
<1>2. WireIsAwaited'
  <2>1. \A i \in DOMAIN wire : wire[i].by \in Msgs
    BY WireItem DEF McpInv
  <2> QED  BY <2>1 DEF McpInv, WireIsAwaited, MAt
<1>3. WrittenIsHeld'
  <2> SUFFICES ASSUME disturbed' = FALSE  PROVE WrittenIsHeld'
    BY DEF WrittenIsHeld
  <2>1. disturbed = FALSE /\ Unmoved
    BY DEF McpInv
  <2>2. CASE on' = on
    BY <2>1, <2>2 DEF McpInv, WrittenIsHeld, Written
  <2>3. CASE wire = <<>> /\ \A s \in Clients : rules[s] = Nothing
    <3>1. \A p \in Pages : page[p] = Nothing
      BY <2>1, <2>3 DEF McpInv, WrittenIsHeld, Written
    <3>2. DOMAIN wire' = {}
      BY <2>3
    <3> QED  BY <2>3, <3>1, <3>2, McpAssumption DEF WrittenIsHeld, Written
  <2> QED  BY <2>1, <2>2, <2>3 DEF Unmoved
<1> QED  BY <1>1, <1>2, <1>3 DEF McpInv

\* A message that goes on to another step.
LEMMA TurnsTypes ==
  ASSUME MessageTypes, NEW m \in Msgs, msg[m] # NoMsg,
         NEW at \in {"initialize", "tools/call", "begin", "evaluate", "list", "join", "handled"},
         msg' = [msg EXCEPT ![m].at = at], backend' \in Nat, backends' \in Nat
  PROVE  MessageTypes' /\ msg'[m].at = at /\ \A n \in Msgs : n # m => msg'[n] = msg[n]
<1>1. msg[m] \in Message
  BY DEF MessageTypes
<1>2. [msg[m] EXCEPT !.at = at] \in Message /\ [msg[m] EXCEPT !.at = at].at = at
  BY <1>1 DEF Message
<1> HIDE DEF Message
<1> QED  BY <1>2 DEF MessageTypes

\* A message that arrives sends nothing yet.
LEMMA HandlePostInv == McpInv /\ HandlePost => McpInv'
<1> SUFFICES ASSUME McpInv, HandlePost PROVE McpInv'
  OBVIOUS
<1> PICK batch \in SUBSET {m \in Msgs : MAt(m, "idle")}, s \in Clients :
      \E what \in [batch -> {"initialize", "tools/call"}] :
         msg' = [m \in Msgs |-> IF m \in batch
                   THEN [at |-> what[m], sess |-> s, batch |-> batch, tool |-> "none",
                         own |-> 0, fresh |-> FALSE]
                   ELSE msg[m]]
  BY DEF HandlePost
<1> PICK what \in [batch -> {"initialize", "tools/call"}] :
         msg' = [m \in Msgs |-> IF m \in batch
                   THEN [at |-> what[m], sess |-> s, batch |-> batch, tool |-> "none",
                         own |-> 0, fresh |-> FALSE]
                   ELSE msg[m]]
  OBVIOUS
<1>1. \A m \in batch : m \in Msgs /\ MAt(m, "idle")
  OBVIOUS
<1>2. \A m \in batch :
        [at |-> what[m], sess |-> s, batch |-> batch, tool |-> "none", own |-> 0,
         fresh |-> FALSE] \in Message
  BY <1>1 DEF Message
<1>3. MessageTypes'
  <2>1. UNCHANGED <<backend, backends>>
    BY DEF HandlePost
  <2> HIDE DEF Message
  <2> QED  BY <1>2, <2>1 DEF McpInv, MessageTypes
<1>4. \A m \in Msgs : MAt(m, "evaluate") => msg'[m].at = "evaluate"
  <2>1. \A m \in Msgs : MAt(m, "evaluate") => m \notin batch
    BY <1>1 DEF MAt
  <2> QED  BY <2>1 DEF MAt
<1> QED  BY <1>3, <1>4, WireFrame DEF HandlePost, pageVars, McpInv, WireTypes, Unmoved

\* The answer of a message comes after what it sent was evaluated.
LEMMA RespondInv == McpInv /\ Respond => McpInv'
<1> SUFFICES ASSUME McpInv, Respond PROVE McpInv'
  OBVIOUS
<1> PICK m \in Msgs : /\ \A n \in msg[m].batch : MAt(n, "handled")
                      /\ msg' = [n \in Msgs |-> IF n \in msg[m].batch THEN NoMsg ELSE msg[n]]
  BY DEF Respond
<1>1. MessageTypes'
  BY DEF Respond, McpInv, MessageTypes
<1>2. \A n \in Msgs : MAt(n, "evaluate") => msg'[n].at = "evaluate"
  BY DEF MAt
<1> QED  BY <1>1, <1>2, WireFrame DEF Respond, pageVars, McpInv, WireTypes, Unmoved

\* A session that is deleted drops its rules, which the page may keep: it is disturbed.
LEMMA HandleDeleteInv == McpInv /\ HandleDelete => McpInv'
<1> SUFFICES ASSUME McpInv, NEW s \in sessions, rules' = [rules EXCEPT ![s] = Nothing],
                    disturbed' = (disturbed \/ rules[s] # Nothing),
                    UNCHANGED <<msg, sent, backend, backends, on, wire, page>>
             PROVE  McpInv'
  BY DEF HandleDelete
<1>1. MessageTypes' /\ WireIsAwaited'
  BY DEF McpInv, MessageTypes, WireIsAwaited, MAt
<1>2. WireTypes' /\ disturbed' \in BOOLEAN
  <2>1. Nothing \in Holding
    BY DEF Nothing, Holding
  <2> HIDE DEF Holding
  <2> QED  BY <2>1 DEF McpInv, WireTypes
<1>3. WrittenIsHeld'
  <2> SUFFICES ASSUME disturbed' = FALSE  PROVE WrittenIsHeld'
    BY DEF WrittenIsHeld
  <2>1. disturbed = FALSE /\ rules[s] = Nothing
    BY DEF McpInv
  <2>2. rules' = rules
    BY <2>1 DEF McpInv, WireTypes
  <2> QED  BY <2>1, <2>2 DEF McpInv, WrittenIsHeld, Written
<1> QED  BY <1>1, <1>2, <1>3 DEF McpInv

\* A handler that sends the rules of its session holds what it sent, and awaits it.
LEMMA SendsInv ==
  ASSUME McpInv, NEW m \in Msgs, MAt(m, "begin"), NEW held \in Holding, Sends(m, held)
  PROVE  McpInv'
<1>1. msg[m] \in Message /\ msg[m].sess \in Clients /\ msg[m] # NoMsg
  BY NoMsgIsIdle DEF McpInv, MessageTypes, MAt, NoMsg, Message
<1>2. /\ rules' = [rules EXCEPT ![msg[m].sess] = held]
      /\ wire' = Append(wire, [by |-> m, to |-> on, held |-> held])
      /\ msg' = [msg EXCEPT ![m].at = "evaluate"]
      /\ UNCHANGED <<backend, backends, on, page, disturbed>>
  BY DEF Sends, Turns
<1>3. MessageTypes' /\ msg'[m].at = "evaluate" /\ \A n \in Msgs : n # m => msg'[n] = msg[n]
  BY <1>1, <1>2, TurnsTypes DEF McpInv, MessageTypes
<1> DEFINE w == [by |-> m, to |-> on, held |-> held]
<1>4. w \in Writes /\ w.by = m /\ w.to = on /\ w.held = held
  BY DEF McpInv, WireTypes, Writes
<1>5. /\ wire' \in Seq(Writes) /\ DOMAIN wire' = 1 .. Len(wire) + 1
      /\ Len(wire') = Len(wire) + 1 /\ Len(wire) \in Nat /\ wire' # <<>>
      /\ wire'[Len(wire) + 1] = w /\ \A i \in 1 .. Len(wire) : wire'[i] = wire[i]
      /\ DOMAIN wire = 1 .. Len(wire)
  <2>1. wire \in Seq(Writes) /\ wire' = Append(wire, w)
    BY <1>2 DEF McpInv, WireTypes
  <2> HIDE DEF w, Writes
  <2> QED  BY <1>4, <2>1
<1> HIDE DEF w
<1>6. WireTypes'
  BY <1>1, <1>2, <1>5 DEF McpInv, WireTypes
<1>7. WireIsAwaited'
  <2>1. \A i \in 1 .. Len(wire) : wire[i].by \in Msgs /\ MAt(wire[i].by, "evaluate")
      /\ wire[i].by # m
    BY <1>5, WireItem DEF McpInv, WireIsAwaited, MAt
  <2>2. \A i \in DOMAIN wire' : MAt(wire[i].by, "evaluate")' \/ i = Len(wire) + 1
    BY <1>3, <1>5, <2>1 DEF MAt
  <2>3. \A i \in DOMAIN wire' : msg'[wire'[i].by].at = "evaluate"
    BY <1>3, <1>4, <1>5, <2>1 DEF MAt
  <2>4. \A i, j \in DOMAIN wire' : wire'[i].by = wire'[j].by => i = j
    <3> TAKE i, j \in DOMAIN wire'
    <3>1. CASE i \in 1 .. Len(wire) /\ j \in 1 .. Len(wire)
      BY <3>1, <1>5 DEF McpInv, WireIsAwaited
    <3>2. CASE i = Len(wire) + 1 \/ j = Len(wire) + 1
      BY <3>2, <1>4, <1>5, <2>1
    <3> QED  BY <3>1, <3>2, <1>5
  <2> QED  BY <2>3, <2>4 DEF WireIsAwaited, MAt
<1>8. WrittenIsHeld'
  <2>1. Written' = held
    BY <1>4, <1>5 DEF Written
  <2>2. rules'[msg[m].sess] = held
    BY <1>1, <1>2 DEF McpInv, WireTypes
  <2>3. disturbed' = FALSE => \A i \in DOMAIN wire' : wire'[i].to = on'
    BY <1>2, <1>4, <1>5 DEF McpInv, WrittenIsHeld
  <2>4. disturbed' = FALSE => \A p \in Pages : p # on' => page'[p] = Nothing
    BY <1>2 DEF McpInv, WrittenIsHeld
  <2> QED  BY <2>1, <2>2, <2>3, <2>4, <1>1 DEF WrittenIsHeld
<1> QED  BY <1>2, <1>3, <1>6, <1>7, <1>8 DEF McpInv

\* A message that goes on without a write.
LEMMA QuietInv ==
  ASSUME McpInv, NEW m \in Msgs, msg[m].at \notin {"idle", "evaluate"},
         NEW at \in {"initialize", "tools/call", "begin", "list", "join", "handled"}, Turns(m, at),
         backend' \in Nat, backends' \in Nat, rules' = rules, wire' = wire, page' = page,
         disturbed' \in BOOLEAN, disturbed = TRUE => disturbed' = TRUE,
         on' \in Pages, disturbed' = TRUE \/ Unmoved
  PROVE  McpInv'
<1>1. msg[m] # NoMsg
  BY NoMsgIsIdle
<1>2. MessageTypes' /\ \A n \in Msgs : n # m => msg'[n] = msg[n]
  BY <1>1, TurnsTypes DEF Turns, McpInv
<1>3. \A n \in Msgs : MAt(n, "evaluate") => msg'[n].at = "evaluate"
  BY <1>2 DEF MAt
<1> QED  BY <1>2, <1>3, WireFrame

\* A message that is routed, or refused because nothing is connected, sends nothing.
LEMMA CallsInv ==
  ASSUME McpInv, NEW m \in Msgs, HandleInitialize(m) \/ HandleToolsCall(m) \/ NotConnected(m)
  PROVE  McpInv'
<1>1. CASE HandleInitialize(m)
  BY <1>1, QuietInv DEF HandleInitialize, MAt, Handled, pageVars, McpInv, MessageTypes,
     WireTypes, Unmoved
<1>2. CASE NotConnected(m)
  BY <1>2, QuietInv DEF NotConnected, Starts, MAt, Handled, pageVars, McpInv, MessageTypes,
     WireTypes, Unmoved
<1>3. CASE HandleToolsCall(m)
  <2>1. CASE Handled(m)
    BY <1>3, <2>1, QuietInv DEF HandleToolsCall, MAt, Handled, pageVars, McpInv, MessageTypes,
     WireTypes, Unmoved
  <2>2. ASSUME NEW t \in Tools, msg' = [msg EXCEPT ![m].at = "begin", ![m].tool = t]
        PROVE  McpInv'
    <3>1. msg[m] \in Message
      BY <1>3, NoMsgIsIdle DEF HandleToolsCall, MAt, McpInv, MessageTypes
    <3> DEFINE r == [msg[m] EXCEPT !.at = "begin", !.tool = t]
    <3>2. r \in Message
      BY <3>1 DEF Message
    <3>3. msg' = [msg EXCEPT ![m] = r]
      BY <2>2 DEF McpInv, MessageTypes
    <3> HIDE DEF r, Message
    <3>4. MessageTypes'
      BY <1>3, <3>2, <3>3 DEF HandleToolsCall, McpInv, MessageTypes
    <3>5. \A n \in Msgs : MAt(n, "evaluate") => msg'[n].at = "evaluate"
      BY <1>3, <3>3 DEF HandleToolsCall, MAt, McpInv, MessageTypes
    <3> QED  BY <1>3, <3>4, <3>5, WireFrame DEF HandleToolsCall, pageVars, McpInv, WireTypes, Unmoved
  <2> QED  BY <1>3, <2>1, <2>2 DEF HandleToolsCall
<1> QED  BY <1>1, <1>2, <1>3

\* The three handlers that change the rules send what they then hold.
LEMMA RulesInv ==
  ASSUME McpInv, NEW m \in Msgs, AddRule(m) \/ Disable(m) \/ SetOffline(m)
  PROVE  McpInv'
<1> DEFINE held == rules[msg[m].sess]
<1>0. MAt(m, "begin")
  BY DEF AddRule, Disable, SetOffline, Starts
<1>1. held \in Holding
  <2>1. msg[m].sess \in Clients
    BY <1>0, NoMsgIsIdle DEF McpInv, MessageTypes, MAt, Message
  <2> QED  BY <2>1 DEF McpInv, WireTypes
<1>2. /\ Nothing \in Holding
      /\ [held EXCEPT !.on = TRUE, !.rules = @ + 1] \in Holding
      /\ [held EXCEPT !.on = TRUE, !.offline = TRUE] \in Holding
      /\ [held EXCEPT !.offline = FALSE] \in Holding
  <2>1. held.rules + 1 \in Nat
    BY <1>1 DEF Holding
  <2> HIDE DEF held
  <2> QED  BY <1>1, <2>1 DEF Holding, Nothing
<1>3. CASE AddRule(m)
  BY <1>0, <1>2, <1>3, SendsInv DEF AddRule
<1>4. CASE Disable(m)
  BY <1>0, <1>2, <1>4, SendsInv DEF Disable
<1>5. CASE SetOffline(m)
  <2>1. CASE Handled(m) /\ UNCHANGED <<sessions, sent, backend, backends, rules, pageVars>>
    BY <1>0, <2>1, QuietInv DEF MAt, Handled, pageVars, McpInv, MessageTypes,
     WireTypes, Unmoved
  <2>2. ASSUME NEW h \in Holding, Sends(m, h)  PROVE McpInv'
    BY <1>0, <2>2, SendsInv
  <2> QED  BY <1>2, <1>5, <2>1, <2>2 DEF SetOffline
<1> QED  BY <1>3, <1>4, <1>5

\* Joining a page replaces the backend, and may disturb the pages.
LEMMA JoinsIs ==
  ASSUME McpInv, NEW c \in Nat, NEW p \in Pages, Joins(c, p)
  PROVE  /\ backend' \in Nat /\ disturbed' \in BOOLEAN /\ (disturbed = TRUE => disturbed' = TRUE)
         /\ on' \in Pages /\ (disturbed' = TRUE \/ Unmoved)
<1> DEFINE busy == wire # <<>> \/ \E s \in Clients : rules[s] # Nothing
           moved == <<c, p>> # <<backend, on>>
<1>1. busy \in BOOLEAN /\ moved \in BOOLEAN
  OBVIOUS
<1>2. disturbed' = (disturbed \/ (moved /\ busy)) /\ backend' = c /\ on' = p
  BY DEF Joins
<1>3. moved \/ on' = on
  BY <1>2
<1>4. busy \/ (wire = <<>> /\ \A s \in Clients : rules[s] = Nothing)
  OBVIOUS
<1> HIDE DEF busy, moved
<1> QED  BY <1>1, <1>2, <1>3, <1>4 DEF McpInv, Unmoved

\* Connecting to a client, on whatever page, does the same.
LEMMA ConnectsIs ==
  ASSUME McpInv, \E c \in Nat : Connects(c) \/ \E p \in Pages : Joins(c, p)
  PROVE  /\ backend' \in Nat /\ disturbed' \in BOOLEAN /\ (disturbed = TRUE => disturbed' = TRUE)
         /\ on' \in Pages /\ (disturbed' = TRUE \/ Unmoved)
BY JoinsIs DEF Connects

\* A change of context leaves the rules, the wire and what the pages hold alone.
LEMMA ContextInv ==
  ASSUME McpInv, NEW m \in Msgs, FindClient(m) \/ ActiveContext(m) \/ Webviews(m)
  PROVE  McpInv'
<1>1. CASE FindClient(m)
  <2>1. PICK c \in ({backend} \ {0}) \cup {c \in {backends + 1} : backend = 0} :
           /\ Connects(c) /\ backends' = IF c > backends THEN c ELSE backends
           /\ msg' = [msg EXCEPT ![m].at = "list", ![m].own = c, ![m].fresh = backend = 0]
    BY <1>1 DEF FindClient
  <2>2. c \in Nat /\ backends' \in Nat /\ MAt(m, "begin")
    <3>1. backend \in Nat /\ backends \in Nat /\ backends + 1 \in Nat
      BY DEF McpInv, MessageTypes
    <3>2. c \in Nat
      BY <3>1
    <3> QED  BY <1>1, <2>1, <3>1, <3>2 DEF FindClient, Starts
  <2>3. msg[m] \in Message
    BY <2>2, NoMsgIsIdle DEF MAt, McpInv, MessageTypes
  <2>4. (backend = 0) \in BOOLEAN
    OBVIOUS
  <2> DEFINE r == [msg[m] EXCEPT !.at = "list", !.own = c, !.fresh = backend = 0]
  <2>5. r \in Message
    BY <2>2, <2>3, <2>4 DEF Message
  <2>6. msg' = [msg EXCEPT ![m] = r]
    BY <2>1 DEF McpInv, MessageTypes
  <2>7. /\ backend' \in Nat /\ disturbed' \in BOOLEAN /\ (disturbed = TRUE => disturbed' = TRUE)
        /\ on' \in Pages /\ (disturbed' = TRUE \/ Unmoved)
    BY <2>1, <2>2, ConnectsIs
  <2> HIDE DEF r, Message
  <2>8. MessageTypes'
    BY <2>2, <2>5, <2>6, <2>7 DEF McpInv, MessageTypes
  <2>9. \A n \in Msgs : MAt(n, "evaluate") => msg'[n].at = "evaluate"
    BY <2>2, <2>6 DEF MAt, McpInv, MessageTypes
  <2> QED  BY <1>1, <2>7, <2>8, <2>9, WireFrame DEF FindClient
<1>2. CASE ActiveContext(m) \/ Webviews(m)
  <2>1. /\ MAt(m, "list") \/ MAt(m, "join")
        /\ \E at \in {"join", "handled"} : Turns(m, at)
        /\ UNCHANGED <<backends, rules, wire, page>>
    BY <1>2 DEF ActiveContext, Webviews, Handled
  <2>2. msg[m] \in Message
    BY <2>1, NoMsgIsIdle DEF MAt, McpInv, MessageTypes
  <2>3. backend \in Nat /\ msg[m].own \in Nat /\ backends' \in Nat
    BY <2>1, <2>2 DEF McpInv, MessageTypes, Message
  <2>4. \E c \in Nat : Connects(c) \/ \E p \in Pages : Joins(c, p)
    BY <1>2, <2>3 DEF ActiveContext, Webviews, Stays, McpInv, WireTypes
  <2>5. /\ backend' \in Nat /\ disturbed' \in BOOLEAN /\ (disturbed = TRUE => disturbed' = TRUE)
        /\ on' \in Pages /\ (disturbed' = TRUE \/ Unmoved)
    BY <2>4, ConnectsIs
  <2> QED  BY <2>1, <2>3, <2>5, QuietInv DEF MAt
<1> QED  BY <1>1, <1>2

\* A device that comes or goes leaves the rules alone, and may disturb the page.
LEMMA DeviceInv == McpInv /\ DeviceComesOrGoes => McpInv'
<1> SUFFICES ASSUME McpInv, DeviceComesOrGoes PROVE McpInv'
  OBVIOUS
<1>1. /\ backends' \in Nat /\ \E c \in Nat : Connects(c) \/ \E p \in Pages : Joins(c, p)
      /\ UNCHANGED <<msg, rules, wire, page>>
  <2>1. backend \in Nat /\ backends \in Nat /\ backends + 1 \in Nat /\ 0 \in Nat
    BY DEF McpInv, MessageTypes
  <2>2. backends' = backends \/ backends' = backends + 1
    BY DEF DeviceComesOrGoes
  <2>3. \E c \in {0, backends + 1} : Connects(c) \/ \E p \in Pages : Joins(backend, p)
    BY DEF DeviceComesOrGoes
  <2>4. UNCHANGED <<msg, rules, wire, page>>
    BY DEF DeviceComesOrGoes
  <2> QED  BY <2>1, <2>2, <2>3, <2>4
<1>2. /\ backend' \in Nat /\ disturbed' \in BOOLEAN /\ (disturbed = TRUE => disturbed' = TRUE)
      /\ on' \in Pages /\ (disturbed' = TRUE \/ Unmoved)
  BY <1>1, ConnectsIs
<1>3. MessageTypes' /\ \A n \in Msgs : MAt(n, "evaluate") => msg'[n].at = "evaluate"
  BY <1>1, <1>2 DEF McpInv, MessageTypes, MAt
<1> QED  BY <1>1, <1>2, <1>3, WireFrame

\* The page takes the rules at the head of the wire, and their message goes on.
LEMMA EvaluatedInv == McpInv /\ Evaluated => McpInv'
<1> SUFFICES ASSUME McpInv, Evaluated PROVE McpInv'
  OBVIOUS
<1> DEFINE m == Head(wire).by
<1>1. wire \in Seq(Writes) /\ wire # <<>>
  BY DEF Evaluated, McpInv, WireTypes
<1>2. /\ Head(wire) = wire[1] /\ Head(wire) \in Writes
      /\ Len(wire) \in Nat /\ Len(wire) >= 1 /\ DOMAIN wire = 1 .. Len(wire)
  <2>1. Len(wire) \in Nat /\ DOMAIN wire = 1 .. Len(wire) /\ Head(wire) = wire[1]
    BY <1>1
  <2>2. Len(wire) >= 1
    BY <1>1, EmptySeq, <2>1
  <2>3. 1 \in DOMAIN wire
    BY <2>1, <2>2
  <2>4. wire[1] \in Writes
    BY <1>1, <2>3, ItemOf
  <2> HIDE DEF Writes
  <2> QED  BY <2>1, <2>2, <2>4
<1>3. /\ wire' \in Seq(Writes) /\ Len(wire') = Len(wire) - 1
      /\ DOMAIN wire' = 1 .. Len(wire) - 1
      /\ \A i \in 1 .. Len(wire) - 1 : wire'[i] = wire[i + 1]
  <2>1. wire' = Tail(wire)
    BY DEF Evaluated
  <2> HIDE DEF Writes
  <2> QED  BY <1>1, <1>2, <2>1
<1>4. MAt(m, "evaluate") /\ m \in Msgs /\ Turns(m, "handled")
  <2>1. 1 \in DOMAIN wire /\ m = wire[1].by
    BY <1>2
  <2>2. wire[1].by \in Msgs
    BY <2>1, WireItem DEF McpInv
  <2> QED  BY <2>1, <2>2 DEF Evaluated, Handled, McpInv, WireIsAwaited
<1>5. MessageTypes' /\ \A n \in Msgs : n # m => msg'[n] = msg[n]
  <2>1. msg[m] # NoMsg
    BY <1>4, NoMsgIsIdle DEF MAt
  <2>2. backend' \in Nat /\ backends' \in Nat
    BY DEF Evaluated, McpInv, MessageTypes
  <2> HIDE DEF m
  <2> QED  BY <1>4, <2>1, <2>2, TurnsTypes DEF Turns, McpInv
<1>6. WireTypes' /\ disturbed' \in BOOLEAN
  <2>1. page \in [Pages -> Holding] /\ Head(wire).held \in Holding
    BY <1>2 DEF McpInv, WireTypes, Writes
  <2>2. /\ page' \in {page, [page EXCEPT ![Head(wire).to] = Head(wire).held]}
        /\ rules' = rules /\ on' = on /\ disturbed' \in {disturbed, TRUE}
    BY DEF Evaluated
  <2> HIDE DEF Holding
  <2>3. page' \in [Pages -> Holding]
    BY <2>1, <2>2
  <2> QED  BY <1>3, <2>2, <2>3 DEF McpInv, WireTypes
<1>7. WireIsAwaited'
  <2>1. \A i \in DOMAIN wire' : i + 1 \in DOMAIN wire /\ i + 1 # 1 /\ wire'[i] = wire[i + 1]
    BY <1>2, <1>3
  <2>2. \A i \in DOMAIN wire' : wire'[i].by # m /\ wire'[i].by \in Msgs
    <3>1. \A i \in DOMAIN wire : wire[i].by \in Msgs
      BY WireItem DEF McpInv
    <3>2. \A i \in DOMAIN wire : i # 1 => wire[i].by # m
      BY <1>2 DEF McpInv, WireIsAwaited
    <3> QED  BY <2>1, <3>1, <3>2
  <2>3. \A i \in DOMAIN wire' : msg'[wire'[i].by].at = "evaluate"
    BY <1>5, <2>1, <2>2 DEF McpInv, WireIsAwaited, MAt
  <2>4. \A i, j \in DOMAIN wire' : wire'[i].by = wire'[j].by => i = j
    <3> SUFFICES ASSUME NEW i \in DOMAIN wire', NEW j \in DOMAIN wire', wire'[i].by = wire'[j].by
                 PROVE  i = j
      OBVIOUS
    <3>1. i + 1 = j + 1
      BY <2>1 DEF McpInv, WireIsAwaited
    <3> QED  BY <3>1, <1>2, <1>3
  <2> QED  BY <2>3, <2>4 DEF WireIsAwaited, MAt
<1>8. WrittenIsHeld'
  <2> SUFFICES ASSUME disturbed' = FALSE  PROVE WrittenIsHeld'
    BY DEF WrittenIsHeld
  <2>1. /\ page' = [page EXCEPT ![Head(wire).to] = Head(wire).held]
        /\ disturbed = FALSE /\ rules' = rules /\ on' = on
    BY DEF Evaluated
  <2>0. Head(wire).to = on /\ page'[on] = Head(wire).held
    BY <1>2, <2>1 DEF McpInv, WrittenIsHeld, WireTypes
  <2>3. \A i \in DOMAIN wire' : wire'[i].to = on'
    <3>1. \A i \in DOMAIN wire' : i + 1 \in DOMAIN wire /\ wire'[i] = wire[i + 1]
      BY <1>2, <1>3
    <3> QED  BY <3>1, <2>1 DEF McpInv, WrittenIsHeld
  <2>4. \A p \in Pages : p # on' => page'[p] = Nothing
    BY <2>0, <2>1 DEF McpInv, WrittenIsHeld, WireTypes
  <2>2. Written' = Written
    <3>1. CASE Len(wire) = 1
      <4>1. wire' = <<>>
        BY <1>3, <3>1
      <4> QED  BY <1>1, <1>2, <2>0, <2>1, <3>1, <4>1 DEF Written
    <3>2. CASE Len(wire) > 1
      <4>1. wire' # <<>> /\ wire'[Len(wire')] = wire[Len(wire)]
        BY <1>2, <1>3, <3>2
      <4> QED  BY <1>1, <4>1 DEF Written
    <3> QED  BY <1>2, <3>1, <3>2
  <2> QED  BY <2>1, <2>2, <2>3, <2>4 DEF McpInv, WrittenIsHeld
<1> QED  BY <1>5, <1>6, <1>7, <1>8 DEF McpInv

\* A page that loads starts without rules: it is disturbed.
LEMMA PageLoadsInv == McpInv /\ PageLoads => McpInv'
<1> SUFFICES ASSUME McpInv, PageLoads PROVE McpInv'
  OBVIOUS
<1>1. Nothing \in Holding
  BY DEF Nothing, Holding
<1>2. MessageTypes' /\ WireIsAwaited' /\ disturbed' = TRUE
  BY DEF PageLoads, McpInv, MessageTypes, WireIsAwaited, MAt
<1>3. WireTypes'
  BY <1>1 DEF PageLoads, McpInv, WireTypes
<1> QED  BY <1>2, <1>3 DEF McpInv, WrittenIsHeld

\* Every step of the server keeps the strengthening.
LEMMA McpStepInv == McpInv /\ [McpNext]_mvars => McpInv'
<1>1. McpInv /\ McpNext => McpInv'
  BY HandlePostInv, RespondInv, HandleDeleteInv, CallsInv, RulesInv, ContextInv, DeviceInv,
     EvaluatedInv, PageLoadsInv DEF McpNext, Handle
<1>2. McpInv /\ UNCHANGED mvars => McpInv'
  BY DEF mvars, pageVars, McpInv, MessageTypes, WireTypes, WireIsAwaited, WrittenIsHeld, Written,
     MAt
<1> QED  BY <1>1, <1>2

\* With nothing on the wire, what was last written is what the page has.
LEMMA McpInvFollows == McpInv => PageFollowsRules
<1> SUFFICES ASSUME McpInv, \A m \in Msgs : MAt(m, "idle"), disturbed = FALSE
             PROVE  \E s \in Clients : page[on] = rules[s]
  BY DEF PageFollowsRules, McpInv
<1>1. wire = <<>>
  <2> SUFFICES ASSUME wire # <<>> PROVE FALSE
    OBVIOUS
  <2>1. wire \in Seq(Writes)
    BY DEF McpInv, WireTypes
  <2>2. 1 \in DOMAIN wire
    <3> HIDE DEF Writes
    <3> QED  BY <2>1
  <2>3. wire[1].by \in Msgs
    BY <2>2, WireItem DEF McpInv
  <2> QED  BY <2>2, <2>3 DEF McpInv, WireIsAwaited, MAt
<1> QED  BY <1>1 DEF McpInv, WrittenIsHeld, Written

-----------------------------------------------------------------------------
(* The tabs of a device. *)

Tabs == [target : Tabbers, link : Tabbers]
TabLabels == {"idle", "targets", "url", "poll", "connect", "open", "failed", "window", "disconnect",
              "sessions", "tabs", "done"}
TabCall == [at : TabLabels, pool : Pools \cup {0}, before : SUBSET Tabbers, took : SUBSET Tabbers,
            of : SUBSET Tabbers, shut : SUBSET Tabs, rest : SUBSET Tabbers,
            then : {"done", "sessions", "tabs"}]
TabTypes ==
  /\ safari \subseteq Tabbers /\ pool \in Pools \cup {0} /\ tabs \in [Pools -> SUBSET Tabs]
  /\ links \subseteq Tabbers /\ listed \subseteq Tabbers /\ tab \in [Tabbers -> TabCall]
\* How far a call is tells what it has.
TabStage(k) ==
  /\ k.at = "idle" => k.pool = 0 /\ k.took = {} /\ k.then = "done"
  /\ k.at = "sessions" => k.pool = 0 /\ k.took = {}
  /\ k.at \in {"targets", "url", "poll", "connect", "open", "tabs"} => k.pool # 0
  /\ k.at \in {"targets", "url", "poll"} => k.took = {}
  /\ k.at \in {"connect", "open"} => \E t \in Tabbers : k.took = {t}
  /\ k.took # {} => k.at \in {"connect", "open", "failed"}
  /\ k.shut # {} \/ k.of # {} => k.at \in {"window", "disconnect"}
  /\ k.then = "sessions" /\ k.at \in {"window", "disconnect"} => k.pool = 0
  /\ k.then = "tabs" => k.at \in {"tabs", "window", "disconnect", "done"} /\ k.of = {} /\ k.pool # 0
TabStages == \A c \in Tabbers : TabStage(tab[c])
\* What a pool knows, and what is being closed, is the tab that an open call took.
Opened(x) == tab[x.link].at = "open" /\ tab[x.link].took = {x.target}
TabsOpened ==
  /\ \A p \in Pools : \A x \in tabs[p] : Opened(x) /\ tab[x.link].pool = p
  /\ \A s \in links \cup listed : TabAt(s, "open")
  /\ \A c \in Tabbers : \A s \in tab[c].of : TabAt(s, "open")
  /\ \A c \in Tabbers : \A x \in tab[c].shut :
       /\ Opened(x)
       /\ IF tab[c].then = "tabs" THEN tab[x.link].pool = tab[c].pool
          ELSE \E s \in tab[c].of : x.target \in tab[s].took
\* A session that is being closed has left its pool.
ClosedLeft ==
  \A c \in Tabbers : \A s \in tab[c].of :
    ~Shares(s) => \A p \in Pools : \A x \in tabs[p] : x.link # s
LinksAreHeld ==
  \A s \in links : ~Shares(s) => Closing(s) \/ \E p \in Pools : \E x \in tabs[p] : x.link = s
ListedAreHeld ==
  \A s \in listed : ~Shares(s) =>
     \/ Closing(s)
     \/ tab[s].pool # pool \/ Emptied(pool)
     \/ s \in links /\ \E x \in tabs[pool] : x.link = s
PooledAreListed ==
  pool # 0 => \A x \in tabs[pool] : ~Shares(x.link) => x.link \in listed
TabInv == TabTypes /\ TabStages /\ TabsOpened /\ ClosedLeft /\ LinksAreHeld /\ ListedAreHeld
    /\ PooledAreListed

\* No pool is named by the number that says there is none.
LEMMA PoolsArePositive == 0 \notin Pools
  BY TabAssumption DEF Pools

\* No call has begun and no tab is open.
LEMMA TabInitInv == TabInit => TabInv
<1> SUFFICES ASSUME TabInit PROVE TabInv
  OBVIOUS
<1>1. NoTab \in TabCall
  BY DEF NoTab, TabCall, TabLabels
<1>2. TabTypes
  BY <1>1 DEF TabInit, TabTypes
<1>3. TabStages
  BY DEF TabInit, TabStages, TabStage, NoTab
<1>4. TabsOpened /\ ClosedLeft /\ LinksAreHeld /\ ListedAreHeld
  BY DEF TabInit, TabsOpened, ClosedLeft, LinksAreHeld, ListedAreHeld, NoTab
<1>5. PooledAreListed
  BY DEF TabInit, PooledAreListed
<1> QED  BY <1>2, <1>3, <1>4, <1>5 DEF TabInv

\* What a call took it keeps, and so shares.
LEMMA SharesGrow ==
  ASSUME \A d \in Tabbers : tab[d].took \subseteq tab'[d].took
  PROVE  \A s \in Tabbers : Shares(s) => Shares(s)'
  BY DEF Shares

\* A call that goes on, and has closed or opened nothing by it.
LEMMA TabGoesOn ==
  ASSUME TabInv, NEW c \in Tabbers, NEW k \in TabCall, tab' = [tab EXCEPT ![c] = k],
         UNCHANGED <<pool, tabs, links, listed>>, safari' \subseteq Tabbers,
         TabStage(k), tab[c].at # "open", tab[c].took \subseteq k.took,
         k.shut = tab[c].shut, k.of = tab[c].of, k.then = tab[c].then,
         k.pool = tab[c].pool \/ (tab[c].shut = {} /\ tab[c].at = "sessions"),
         tab[c].at = "tabs" => k.at = "tabs" \/ k.then = "tabs"
  PROVE  TabInv'
<1>1. tab'[c] = k /\ \A d \in Tabbers : d # c => tab'[d] = tab[d]
  BY DEF TabInv, TabTypes
<1>2. TabTypes'
  BY DEF TabInv, TabTypes
<1>3. TabStages'
  BY <1>1 DEF TabInv, TabStages
<1>4. /\ \A d \in Tabbers : tab[d].at = "open" => tab'[d] = tab[d]
      /\ \A d \in Tabbers : tab'[d].shut = tab[d].shut /\ tab'[d].of = tab[d].of
         /\ tab'[d].then = tab[d].then
      /\ \A d \in Tabbers : tab'[d].shut # {} => tab'[d].pool = tab[d].pool
  BY <1>1
<1>5. \A s \in Tabbers : Shares(s) => Shares(s)'
  BY <1>1, SharesGrow
<1>6. /\ \A p \in Pools : \A x \in tabs[p] : x.link \in Tabbers
      /\ \A d \in Tabbers : tab[d].of \subseteq Tabbers /\ \A x \in tab[d].shut : x.link \in Tabbers
      /\ links \subseteq Tabbers /\ listed \subseteq Tabbers /\ pool \in Pools \cup {0}
  BY DEF TabInv, TabTypes, TabCall, Tabs
<1>7. \A x : x.link \in Tabbers /\ Opened(x) => Opened(x)' /\ tab'[x.link] = tab[x.link]
  BY <1>4 DEF Opened
<1>8. TabsOpened'
  <2>1. \A p \in Pools : \A x \in tabs[p] : Opened(x)' /\ tab'[x.link].pool = p
    BY <1>6, <1>7 DEF TabInv, TabsOpened
  <2>2. \A s \in links \cup listed : TabAt(s, "open")'
    BY <1>4, <1>6 DEF TabInv, TabsOpened, TabAt
  <2>3. \A d \in Tabbers : \A s \in tab'[d].of : TabAt(s, "open")'
    BY <1>4, <1>6 DEF TabInv, TabsOpened, TabAt
  <2>4. \A d \in Tabbers : \A x \in tab'[d].shut :
         /\ Opened(x)'
         /\ IF tab'[d].then = "tabs" THEN tab'[x.link].pool = tab'[d].pool
            ELSE \E s \in tab'[d].of : x.target \in tab'[s].took
    BY <1>4, <1>6, <1>7 DEF TabInv, TabsOpened, TabAt
  <2> QED  BY <2>1, <2>2, <2>3, <2>4 DEF TabsOpened
<1>9. ClosedLeft'
  BY <1>4, <1>5, <1>6 DEF TabInv, ClosedLeft
<1>10. \A s \in Tabbers : Closing(s)' <=> Closing(s)
  BY <1>4 DEF Closing
<1>11. LinksAreHeld'
  BY <1>5, <1>6, <1>10 DEF TabInv, LinksAreHeld
<1>12. Emptied(pool) => Emptied(pool)'
  <2> SUFFICES ASSUME NEW d \in Tabbers, tab[d].pool = pool, TabAt(d, "tabs")
      \/ tab[d].then = "tabs"
               PROVE  Emptied(pool)'
    BY DEF Emptied
  <2>1. tab'[d].pool = pool /\ (tab'[d].at = "tabs" \/ tab'[d].then = "tabs")
    BY <1>1 DEF TabAt, TabInv, TabStages, TabStage
  <2> QED  BY <2>1 DEF Emptied, TabAt
<1>13. ListedAreHeld'
  <2> SUFFICES ASSUME NEW s \in listed, ~Shares(s)'
               PROVE  \/ Closing(s)' \/ tab'[s].pool # pool \/ Emptied(pool)'
                      \/ s \in links /\ \E x \in tabs[pool] : x.link = s
    BY DEF ListedAreHeld
  <2>1. tab'[s] = tab[s] /\ ~Shares(s)
    BY <1>4, <1>5, <1>6 DEF TabInv, TabsOpened, TabAt
  <2> QED  BY <2>1, <1>6, <1>10, <1>12 DEF TabInv, ListedAreHeld
<1>14. PooledAreListed'
  BY <1>5, <1>6 DEF TabInv, PooledAreListed
<1> QED  BY <1>2, <1>3, <1>8, <1>9, <1>11, <1>13, <1>14 DEF TabInv

\* The steps of a call that only go on: they open, pool and close nothing but windows.
LEMMA TabGoesInv ==
  ASSUME TabInv, NEW c \in Tabbers,
         \/ OpenTargets(c) \/ OpenUrl(c) \/ OpenPoll(c) \/ OpenFails(c)
         \/ CloseWindow(c) \/ Dispose(c) \/ CloseAll(c)
  PROVE  TabInv'
<1> DEFINE r == tab[c]
<1>0. /\ r \in TabCall /\ TabStage(r) /\ tab \in [Tabbers -> TabCall] /\ safari \subseteq Tabbers
      /\ listed \subseteq Tabbers /\ pool \in Pools \cup {0} /\ tabs \in [Pools -> SUBSET Tabs]
  BY DEF TabInv, TabTypes, TabStages
<1>1. CASE OpenTargets(c)
  <2> DEFINE k == [r EXCEPT !.at = "url", !.before = safari]
  <2>1. k \in TabCall /\ TabStage(k)
    BY <1>0, <1>1 DEF OpenTargets, TabAt, TabCall, TabLabels, TabStage
  <2>2. tab' = [tab EXCEPT ![c] = k]
    BY <1>0, <1>1 DEF OpenTargets
  <2>3. /\ r.took \subseteq k.took /\ k.shut = r.shut /\ k.of = r.of /\ k.then = r.then
           /\ k.pool = r.pool
        /\ r.at = "targets"
    BY <1>0, <1>1 DEF OpenTargets, TabAt, TabCall
  <2> HIDE DEF k
  <2> QED  BY <1>0, <1>1, <2>1, <2>2, <2>3, TabGoesOn DEF OpenTargets
<1>2. CASE OpenUrl(c)
  <2> DEFINE k == [r EXCEPT !.at = "poll"]
  <2>1. k \in TabCall /\ TabStage(k)
    BY <1>0, <1>2 DEF OpenUrl, TabAt, TabCall, TabLabels, TabStage
  <2>2. tab' = [tab EXCEPT ![c] = k]
    BY <1>0, <1>2 DEF OpenUrl, TabGoes
  <2>3. /\ r.took \subseteq k.took /\ k.shut = r.shut /\ k.of = r.of /\ k.then = r.then
           /\ k.pool = r.pool
        /\ r.at = "url"
    BY <1>0, <1>2 DEF OpenUrl, TabAt, TabCall
  <2> HIDE DEF k
  <2> QED  BY <1>0, <1>2, <2>1, <2>2, <2>3, TabGoesOn DEF OpenUrl
<1>3. CASE OpenPoll(c)
  <2> PICK t \in safari : tab' = [tab EXCEPT ![c].at = "connect", ![c].took = {t}]
    BY <1>3 DEF OpenPoll
  <2> DEFINE k == [r EXCEPT !.at = "connect", !.took = {t}]
  <2>1. k \in TabCall /\ TabStage(k)
    <3>1. t \in Tabbers /\ {t} \subseteq Tabbers /\ r.at = "poll"
      BY <1>0, <1>3 DEF OpenPoll, TabAt
    <3>2. k \in TabCall
      BY <1>0, <3>1 DEF TabCall, TabLabels
    <3>3. TabStage(k)
      BY <1>0, <3>1 DEF TabCall, TabLabels, TabStage
    <3> QED  BY <3>2, <3>3
  <2>2. tab' = [tab EXCEPT ![c] = k]
    BY <1>0
  <2>3. /\ r.took \subseteq k.took /\ k.shut = r.shut /\ k.of = r.of /\ k.then = r.then
           /\ k.pool = r.pool
        /\ r.at = "poll"
    BY <1>0, <1>3 DEF OpenPoll, TabAt, TabCall, TabStage
  <2> HIDE DEF k
  <2> QED  BY <1>0, <1>3, <2>1, <2>2, <2>3, TabGoesOn DEF OpenPoll
<1>4. CASE OpenFails(c)
  <2> DEFINE k == [r EXCEPT !.at = "failed"]
  <2>1. k \in TabCall /\ TabStage(k)
    BY <1>0, <1>4 DEF OpenFails, TabAt, TabCall, TabLabels, TabStage
  <2>2. tab' = [tab EXCEPT ![c] = k] /\ safari' \subseteq Tabbers
    BY <1>0, <1>4 DEF OpenFails, TabGoes
  <2>3. /\ r.took \subseteq k.took /\ k.shut = r.shut /\ k.of = r.of /\ k.then = r.then
           /\ k.pool = r.pool
        /\ r.at \in {"targets", "url", "poll", "connect"}
    BY <1>0, <1>4 DEF OpenFails, TabAt, TabCall
  <2> HIDE DEF k
  <2> QED  BY <1>0, <1>4, <2>1, <2>2, <2>3, TabGoesOn DEF OpenFails
<1>5. CASE CloseWindow(c)
  <2> DEFINE k == [r EXCEPT !.at = "disconnect"]
  <2>1. k \in TabCall /\ TabStage(k)
    BY <1>0, <1>5 DEF CloseWindow, TabAt, TabCall, TabLabels, TabStage
  <2>2. tab' = [tab EXCEPT ![c] = k] /\ safari' \subseteq Tabbers
    BY <1>0, <1>5 DEF CloseWindow, TabGoes
  <2>3. /\ r.took \subseteq k.took /\ k.shut = r.shut /\ k.of = r.of /\ k.then = r.then
           /\ k.pool = r.pool
        /\ r.at = "window"
    BY <1>0, <1>5 DEF CloseWindow, TabAt, TabCall
  <2> HIDE DEF k
  <2> QED  BY <1>0, <1>5, <2>1, <2>2, <2>3, TabGoesOn DEF CloseWindow
<1>6. CASE Dispose(c)
  <2> DEFINE k == [r EXCEPT !.at = "sessions", !.rest = listed]
  <2>1. k \in TabCall /\ TabStage(k)
    BY <1>0, <1>6 DEF Dispose, TabAt, TabCall, TabLabels, TabStage
  <2>2. tab' = [tab EXCEPT ![c] = k]
    BY <1>0, <1>6 DEF Dispose
  <2>3. /\ r.took \subseteq k.took /\ k.shut = r.shut /\ k.of = r.of /\ k.then = r.then
           /\ k.pool = r.pool
        /\ r.at = "idle"
    BY <1>0, <1>6 DEF Dispose, TabAt, TabCall
  <2> HIDE DEF k
  <2> QED  BY <1>0, <1>6, <2>1, <2>2, <2>3, TabGoesOn DEF Dispose
<1>7. CASE CloseAll(c)
  <2> DEFINE at == IF pool = 0 THEN "done" ELSE "tabs"
             rest == IF pool = 0 THEN {} ELSE {x.target : x \in tabs[pool]}
             k == [r EXCEPT !.at = at, !.pool = pool, !.rest = rest]
  <2>1. rest \subseteq Tabbers /\ at \in TabLabels /\ (at = "done" \/ (at = "tabs" /\ pool # 0))
    <3>1. pool # 0 => \A x \in tabs[pool] : x.target \in Tabbers
      BY <1>0 DEF Tabs
    <3>2. rest \subseteq Tabbers
      BY <3>1
    <3>3. at \in TabLabels /\ (at = "done" \/ (at = "tabs" /\ pool # 0))
      <4>1. CASE pool = 0
        BY <4>1 DEF TabLabels
      <4>2. CASE pool # 0
        BY <4>2 DEF TabLabels
      <4> QED  BY <4>1, <4>2
    <3> QED  BY <3>2, <3>3
  <2>2. tab' = [tab EXCEPT ![c] = k] /\ r.at = "sessions"
    BY <1>0, <1>7 DEF CloseAll, TabAt
  <2> HIDE DEF rest, at
  <2>3. k \in TabCall
    BY <1>0, <2>1 DEF TabCall
  <2>4. TabStage(k) /\ r.shut = {}
    BY <1>0, <2>1, <2>2 DEF TabStage, TabCall
  <2>5. r.took \subseteq k.took /\ k.shut = r.shut /\ k.of = r.of /\ k.then = r.then
    BY <1>0 DEF TabCall
  <2> HIDE DEF k
  <2> QED  BY <1>0, <1>7, <2>2, <2>3, <2>4, <2>5, TabGoesOn DEF CloseAll
<1> QED  BY <1>1, <1>2, <1>3, <1>4, <1>5, <1>6, <1>7

\* What a call's step does not touch, whatever becomes of the tabs.
LEMMA TabFrame ==
  ASSUME TabInv, NEW c \in Tabbers, NEW k \in TabCall, tab' = [tab EXCEPT ![c] = k],
         TabStage(k), tab[c].at # "open", tab[c].took \subseteq k.took
  PROVE  /\ tab' \in [Tabbers -> TabCall] /\ TabStages'
         /\ tab'[c] = k /\ \A d \in Tabbers : d # c => tab'[d] = tab[d]
         /\ \A s \in Tabbers : Shares(s) => Shares(s)'
         /\ \A x : x.link \in Tabbers /\ Opened(x) => Opened(x)' /\ tab'[x.link] = tab[x.link]
         /\ \A d \in Tabbers : tab[d].at = "open" => tab'[d] = tab[d]
<1>1. tab'[c] = k /\ \A d \in Tabbers : d # c => tab'[d] = tab[d]
  BY DEF TabInv, TabTypes
<1>2. tab' \in [Tabbers -> TabCall]
  BY DEF TabInv, TabTypes
<1>3. TabStages'
  BY <1>1 DEF TabInv, TabStages
<1>4. \A s \in Tabbers : Shares(s) => Shares(s)'
  BY <1>1, SharesGrow
<1>5. \A d \in Tabbers : tab[d].at = "open" => tab'[d] = tab[d]
  BY <1>1
<1>6. \A x : x.link \in Tabbers /\ Opened(x) => Opened(x)' /\ tab'[x.link] = tab[x.link]
  BY <1>5 DEF Opened
<1> QED  BY <1>1, <1>2, <1>3, <1>4, <1>5, <1>6

\* What the variables of the tabs range over.
LEMMA TabNames ==
  ASSUME TabInv
  PROVE  /\ \A p \in Pools : \A x \in tabs[p] : x.link \in Tabbers /\ x.target \in Tabbers
         /\ \A d \in Tabbers : tab[d].of \subseteq Tabbers
            /\ \A x \in tab[d].shut : x.link \in Tabbers
         /\ links \subseteq Tabbers /\ listed \subseteq Tabbers /\ pool \in Pools \cup {0}
         /\ safari \subseteq Tabbers /\ tabs \in [Pools -> SUBSET Tabs]
            /\ tab \in [Tabbers -> TabCall]
  BY DEF TabInv, TabTypes, TabCall, Tabs

\* A call that opens a tab remembers the targets there were.
LEMMA OpenBeginInv == ASSUME TabInv, NEW c \in Tabbers, OpenBegin(c)  PROVE TabInv'
<1> DEFINE new == {p \in Pools : tabs[p] = {} /\ \A d \in Tabbers : tab[d].pool # p}
           q == IF pool # 0 THEN pool ELSE CHOOSE x \in new : TRUE
           at == IF Cardinality(tabs[q]) >= MaxTabs THEN "failed" ELSE "targets"
           r == tab[c]
           k == [r EXCEPT !.pool = q, !.at = at]
<1>1. /\ r.at = "idle" /\ r \in TabCall /\ TabStage(r) /\ pool' = q
      /\ UNCHANGED <<safari, tabs, links, listed>>
      /\ tab' = [tab EXCEPT ![c] = k] /\ (pool # 0 \/ new # {})
  BY DEF OpenBegin, TabAt, TabInv, TabTypes, TabStages
<1>2. /\ q \in Pools /\ (pool # 0 => q = pool)
      /\ pool = 0 => tabs[q] = {} /\ \A d \in Tabbers : tab[d].pool # q
  BY <1>1, TabNames
<1> HIDE DEF q, new
<1>3. at \in {"failed", "targets"}
  OBVIOUS
<1> HIDE DEF at
<1>4. k \in TabCall /\ TabStage(k) /\ k.took = r.took /\ k.shut = r.shut /\ k.of = r.of
    /\ k.then = r.then
      /\ k.pool = q /\ r.shut = {} /\ r.of = {} /\ r.then = "done"
  <2>1. k \in TabCall /\ k.took = r.took /\ k.shut = r.shut /\ k.of = r.of /\ k.then = r.then
      /\ k.pool = q
    BY <1>1, <1>2, <1>3 DEF TabCall, TabLabels
  <2>2. TabStage(k) /\ r.shut = {} /\ r.of = {} /\ r.then = "done"
    BY <1>1, <1>2, <1>3, PoolsArePositive DEF TabCall, TabStage
  <2> QED  BY <2>1, <2>2
<1> HIDE DEF k
<1>5. /\ tab' \in [Tabbers -> TabCall] /\ TabStages'
      /\ tab'[c] = k /\ \A d \in Tabbers : d # c => tab'[d] = tab[d]
      /\ \A s \in Tabbers : Shares(s) => Shares(s)'
      /\ \A x : x.link \in Tabbers /\ Opened(x) => Opened(x)' /\ tab'[x.link] = tab[x.link]
      /\ \A d \in Tabbers : tab[d].at = "open" => tab'[d] = tab[d]
  BY <1>1, <1>4, TabFrame
<1>6. \A d \in Tabbers : tab'[d].shut = tab[d].shut /\ tab'[d].of = tab[d].of
    /\ tab'[d].then = tab[d].then
  BY <1>4, <1>5
<1>7. TabTypes'
  BY <1>1, <1>2, <1>5 DEF TabInv, TabTypes
<1>8. TabsOpened'
  <2>1. \A p \in Pools : \A x \in tabs[p] : Opened(x)' /\ tab'[x.link].pool = p
    BY <1>5, TabNames DEF TabInv, TabsOpened
  <2>2. \A s \in links \cup listed : TabAt(s, "open")'
    BY <1>5, TabNames DEF TabInv, TabsOpened, TabAt
  <2>3. \A d \in Tabbers : \A s \in tab'[d].of : TabAt(s, "open")'
    BY <1>5, <1>6, TabNames DEF TabInv, TabsOpened, TabAt
  <2>4. ASSUME NEW d \in Tabbers, NEW x \in tab'[d].shut
        PROVE  /\ Opened(x)'
               /\ IF tab'[d].then = "tabs" THEN tab'[x.link].pool = tab'[d].pool
                  ELSE \E s \in tab'[d].of : x.target \in tab'[s].took
    <3>1. d # c /\ tab'[d] = tab[d]
      BY <1>1, <1>4, <1>5, <2>4
    <3>2. \A s \in tab[d].of : tab'[s] = tab[s]
      BY <1>5, TabNames DEF TabInv, TabsOpened, TabAt
    <3> QED  BY <1>5, <2>4, <3>1, <3>2, TabNames DEF TabInv, TabsOpened
  <2> QED  BY <1>1, <2>1, <2>2, <2>3, <2>4 DEF TabsOpened
<1>9. ClosedLeft'
  BY <1>1, <1>5, <1>6, TabNames DEF TabInv, ClosedLeft
<1>10. \A s \in Tabbers : Closing(s)' <=> Closing(s)
  BY <1>6 DEF Closing
<1>11. LinksAreHeld'
  BY <1>1, <1>5, <1>10, TabNames DEF TabInv, LinksAreHeld
<1>12. ListedAreHeld'
  <2> SUFFICES ASSUME NEW s \in listed, ~Shares(s)'
               PROVE  \/ Closing(s)' \/ tab'[s].pool # pool' \/ Emptied(pool)'
                      \/ s \in links /\ \E x \in tabs[pool'] : x.link = s
    BY <1>1 DEF ListedAreHeld
  <2>1. tab'[s] = tab[s] /\ ~Shares(s) /\ s \in Tabbers
    BY <1>5, TabNames DEF TabInv, TabsOpened, TabAt
  <2>2. CASE pool = 0
    BY <1>1, <1>2, <2>1, <2>2
  <2>3. CASE pool # 0
    <3>1. pool' = pool
      BY <1>1, <1>2, <2>3
    <3>2. Emptied(pool) => Emptied(pool)'
      <4> SUFFICES ASSUME NEW d \in Tabbers, tab[d].pool = pool, TabAt(d, "tabs")
          \/ tab[d].then = "tabs"
                   PROVE  Emptied(pool)'
        BY DEF Emptied
      <4>1. d # c
        BY <1>1, <1>4 DEF TabAt
      <4>2. tab'[d] = tab[d]
        BY <1>5, <4>1
      <4> QED  BY <3>1, <4>2 DEF Emptied, TabAt
    <3> QED  BY <1>10, <2>1, <3>1, <3>2 DEF TabInv, ListedAreHeld
  <2> QED  BY <2>2, <2>3
<1>13. PooledAreListed'
  <2> SUFFICES ASSUME NEW x \in tabs[q], ~Shares(x.link)'  PROVE x.link \in listed
    BY <1>1 DEF PooledAreListed
  <2>1. pool # 0 /\ q = pool
    BY <1>2
  <2> QED  BY <1>2, <1>5, <2>1, TabNames DEF TabInv, PooledAreListed
<1> QED  BY <1>5, <1>7, <1>8, <1>9, <1>11, <1>12, <1>13 DEF TabInv

\* The tab a call took is connected, and put into the pool and the list if it is for them.
LEMMA OpenConnectInv == ASSUME TabInv, NEW c \in Tabbers, OpenConnect(c)  PROVE TabInv'
<1> DEFINE r == tab[c]
           k == [r EXCEPT !.at = "open"]
           p == r.pool
<1>1. /\ r.at = "connect" /\ r \in TabCall /\ TabStage(r)
      /\ UNCHANGED <<safari, pool>> /\ tab' = [tab EXCEPT ![c] = k]
      /\ links' = links \cup {c} /\ listed' = listed \cup {c}
      /\ tabs' = [tabs EXCEPT ![p] = {x \in @ : x.target \notin r.took} \cup [target : r.took,
         link : {c}]]
  BY DEF OpenConnect, TabGoes, TabAt, TabInv, TabTypes, TabStages
<1>2. PICK t \in Tabbers : r.took = {t}
  BY <1>1 DEF TabStage
<1> DEFINE entry == [target |-> t, link |-> c]
<1>3. entry \in Tabs /\ entry.link = c /\ entry.target = t
  BY DEF Tabs
<1>4. p \in Pools
  BY <1>1 DEF TabStage, TabCall
<1>5. /\ \A x \in tabs'[p] : x = entry \/ (x \in tabs[p] /\ x.target # t)
      /\ \A x \in tabs[p] : x.target # t => x \in tabs'[p]
      /\ entry \in tabs'[p]
      /\ \A o \in Pools : o # p => tabs'[o] = tabs[o]
      /\ tabs' \in [Pools -> SUBSET Tabs]
  <2>1. [target : r.took, link : {c}] = {entry}
    <3>1. ASSUME NEW x \in [target : {t}, link : {c}]  PROVE x = entry
      OBVIOUS
    <3>2. entry \in [target : {t}, link : {c}]
      OBVIOUS
    <3> HIDE DEF entry
    <3> QED  BY <1>2, <3>1, <3>2
  <2>2. tabs' = [tabs EXCEPT ![p] = {x \in tabs[p] : x.target \notin {t}} \cup {entry}]
    BY <1>1, <1>2, <2>1
  <2> HIDE DEF entry, p, k
  <2> QED  BY <1>3, <1>4, <2>2, TabNames
<1>6. k \in TabCall /\ TabStage(k) /\ k.took = {t} /\ k.shut = {} /\ r.shut = {} /\ k.of = {}
    /\ r.of = {}
      /\ k.then = r.then /\ k.pool = p /\ k.at = "open" /\ k.then # "tabs"
  <2>1. k \in TabCall /\ k.took = r.took /\ k.shut = r.shut /\ k.of = r.of /\ k.then = r.then
      /\ k.pool = p
        /\ k.at = "open"
    BY <1>1 DEF TabCall, TabLabels
  <2> HIDE DEF k
  <2> QED  BY <1>1, <1>2, <2>1 DEF TabStage
<1> HIDE DEF k, entry
<1>7. /\ tab' \in [Tabbers -> TabCall] /\ TabStages'
      /\ tab'[c] = k /\ \A d \in Tabbers : d # c => tab'[d] = tab[d]
      /\ \A s \in Tabbers : Shares(s) => Shares(s)'
      /\ \A x : x.link \in Tabbers /\ Opened(x) => Opened(x)' /\ tab'[x.link] = tab[x.link]
      /\ \A d \in Tabbers : tab[d].at = "open" => tab'[d] = tab[d]
  BY <1>1, <1>2, <1>6, TabFrame
<1>8. \A d \in Tabbers : tab'[d].shut = tab[d].shut /\ tab'[d].of = tab[d].of
    /\ tab'[d].then = tab[d].then
                         /\ tab'[d].pool = tab[d].pool
  BY <1>6, <1>7
<1>9. TabTypes'
  BY <1>1, <1>5, <1>7 DEF TabInv, TabTypes
\* An entry that was there is there, unless its tab is c's.
<1>10. ASSUME NEW o \in Pools, NEW x \in tabs[o]  PROVE x \in tabs'[o] \/ Shares(x.link)
  <2>1. x.link \in Tabbers /\ Opened(x) /\ tab[x.link].pool = o
    BY TabNames DEF TabInv, TabsOpened
  <2>2. CASE o = p /\ x.target = t
    <3>1. x.link # c /\ t \in tab[x.link].took /\ t \in r.took
      BY <1>1, <1>2, <2>1, <2>2 DEF Opened
    <3> QED  BY <2>1, <3>1 DEF Shares
  <2> QED  BY <1>5, <2>2
<1>11. \A o \in Pools : \A x \in tabs'[o] : x \in tabs[o] \/ (o = p /\ x = entry)
  BY <1>5
<1>12. TabsOpened'
  <2>1. \A o \in Pools : \A x \in tabs'[o] : Opened(x)' /\ tab'[x.link].pool = o
    <3>1. Opened(entry)' /\ tab'[entry.link].pool = p
      BY <1>3, <1>6, <1>7 DEF Opened
    <3> QED  BY <3>1, <1>7, <1>11, TabNames DEF TabInv, TabsOpened
  <2>2. \A s \in links' \cup listed' : TabAt(s, "open")'
    BY <1>1, <1>6, <1>7, TabNames DEF TabInv, TabsOpened, TabAt
  <2>3. \A d \in Tabbers : \A s \in tab'[d].of : TabAt(s, "open")'
    BY <1>7, <1>8, TabNames DEF TabInv, TabsOpened, TabAt
  <2>4. ASSUME NEW d \in Tabbers, NEW x \in tab'[d].shut
        PROVE  /\ Opened(x)'
               /\ IF tab'[d].then = "tabs" THEN tab'[x.link].pool = tab'[d].pool
                  ELSE \E s \in tab'[d].of : x.target \in tab'[s].took
    <3>1. d # c /\ tab'[d] = tab[d]
      BY <1>6, <1>7, <2>4
    <3>2. \A s \in tab[d].of : tab'[s] = tab[s]
      BY <1>7, TabNames DEF TabInv, TabsOpened, TabAt
    <3> QED  BY <1>7, <2>4, <3>1, <3>2, TabNames DEF TabInv, TabsOpened
  <2> QED  BY <2>1, <2>2, <2>3, <2>4 DEF TabsOpened
<1>13. ClosedLeft'
  <2> SUFFICES ASSUME NEW d \in Tabbers, NEW s \in tab'[d].of, ~Shares(s)', NEW o \in Pools,
      NEW x \in tabs'[o]
               PROVE  x.link # s
    BY DEF ClosedLeft
  <2>1. s \in Tabbers /\ TabAt(s, "open") /\ s \in tab[d].of
    BY <1>8, TabNames DEF TabInv, TabsOpened
  <2>2. s # c /\ ~Shares(s)
    BY <1>1, <1>7, <2>1 DEF TabAt
  <2> QED  BY <1>3, <1>11, <2>1, <2>2 DEF TabInv, ClosedLeft
<1>14. \A s \in Tabbers : Closing(s)' <=> Closing(s)
  BY <1>8 DEF Closing
<1>15. LinksAreHeld'
  <2> SUFFICES ASSUME NEW s \in links', ~Shares(s)'
               PROVE  Closing(s)' \/ \E o \in Pools : \E x \in tabs'[o] : x.link = s
    BY DEF LinksAreHeld
  <2>1. CASE s = c
    BY <1>3, <1>4, <1>5, <2>1
  <2>2. CASE s # c
    <3>1. s \in links /\ s \in Tabbers /\ ~Shares(s)
      BY <1>1, <1>7, <2>2, TabNames
    <3> QED  BY <1>10, <1>14, <3>1 DEF TabInv, LinksAreHeld
  <2> QED  BY <2>1, <2>2
<1>16. Emptied(pool) => Emptied(pool)'
  <2> SUFFICES ASSUME NEW d \in Tabbers, tab[d].pool = pool, TabAt(d, "tabs")
      \/ tab[d].then = "tabs"
               PROVE  Emptied(pool)'
    BY DEF Emptied
  <2>1. d # c
    BY <1>1, <1>6 DEF TabAt
  <2> QED  BY <1>1, <1>7, <2>1 DEF Emptied, TabAt
<1>17. ListedAreHeld'
  <2> SUFFICES ASSUME NEW s \in listed', ~Shares(s)'
               PROVE  \/ Closing(s)' \/ tab'[s].pool # pool \/ Emptied(pool)'
                      \/ s \in links' /\ \E x \in tabs'[pool] : x.link = s
    BY <1>1 DEF ListedAreHeld
  <2>1. CASE s = c
    BY <1>1, <1>3, <1>5, <1>6, <1>7, <2>1
  <2>2. CASE s # c
    <3>1. s \in listed /\ s \in Tabbers /\ ~Shares(s) /\ tab'[s] = tab[s]
      BY <1>1, <1>7, <2>2, TabNames
    <3>2. tab[s].pool # 0
      BY <3>1 DEF TabInv, TabsOpened, TabAt, TabStages, TabStage
    <3>3. CASE pool = 0
      BY <3>1, <3>2, <3>3
    <3>4. CASE pool # 0
      <4>1. pool \in Pools
        BY <3>4, TabNames
      <4> QED  BY <1>1, <1>10, <1>14, <1>16, <3>1, <4>1 DEF TabInv, ListedAreHeld
    <3> QED  BY <3>3, <3>4
  <2> QED  BY <2>1, <2>2
<1>18. PooledAreListed'
  <2> SUFFICES ASSUME pool # 0, NEW x \in tabs'[pool], ~Shares(x.link)'  PROVE x.link \in listed'
    BY <1>1 DEF PooledAreListed
  <2>1. pool \in Pools
    BY TabNames
  <2>2. CASE x = entry
    BY <1>1, <1>3, <2>2
  <2>3. CASE x \in tabs[pool]
    BY <1>1, <1>7, <2>1, <2>3, TabNames DEF TabInv, PooledAreListed
  <2> QED  BY <1>11, <2>1, <2>2, <2>3
<1> QED  BY <1>7, <1>9, <1>12, <1>13, <1>15, <1>17, <1>18 DEF TabInv

\* A session that is closed, by a call that is idle or between two sessions.
LEMMA CloseSessionInv ==
  ASSUME TabInv, NEW c \in Tabbers, NEW s \in Tabbers, NEW then \in {"done", "sessions"},
         NEW rest \in SUBSET Tabbers, tab[c].at \in {"idle", "sessions"},
         then = "sessions" => tab[c].at = "sessions", CloseSession(c, s, then, rest)
  PROVE  TabInv'
<1> DEFINE r == tab[c]
           mine == IF pool = 0 THEN {} ELSE {x \in tabs[pool] : x.target \in tab[s].took}
<1>0. r \in TabCall /\ TabStage(r) /\ UNCHANGED <<safari, pool, links>>
  BY DEF TabInv, TabTypes, TabStages, CloseSession
<1>1. r.shut = {} /\ r.of = {} /\ r.took = {} /\ r.pool = 0 /\ r.then # "tabs" /\ r.at # "open"
  BY <1>0 DEF TabStage
<1>2. CASE s \in listed /\ mine # {}
  <2> DEFINE k == [r EXCEPT !.at = "window", !.of = {s}, !.shut = mine, !.then = then,
                   !.rest = rest]
  <2>1. /\ tabs' = [tabs EXCEPT ![pool] = @ \ mine] /\ listed' = listed
        /\ tab' = [tab EXCEPT ![c] = k]
    BY <1>2, TabNames DEF CloseSession
  <2>2. pool \in Pools /\ pool # 0 /\ mine \subseteq tabs[pool] /\ mine \subseteq Tabs
        /\ \A x \in mine : x.target \in tab[s].took
    BY <1>2, TabNames
  <2>3. \A x \in tabs[pool] : x.target \in tab[s].took => x \in mine
    BY <2>2
  <2> HIDE DEF mine
  <2>4. k \in TabCall /\ k.at = "window" /\ k.of = {s} /\ k.shut = mine /\ k.then = then
      /\ k.took = {}
        /\ k.pool = 0
    BY <1>0, <1>1, <2>2 DEF TabCall, TabLabels
  <2> HIDE DEF k
  <2>5. TabStage(k)
    BY <2>4 DEF TabStage
  <2>6. /\ tab' \in [Tabbers -> TabCall] /\ TabStages'
        /\ tab'[c] = k /\ \A d \in Tabbers : d # c => tab'[d] = tab[d]
        /\ \A a \in Tabbers : Shares(a) => Shares(a)'
        /\ \A x : x.link \in Tabbers /\ Opened(x) => Opened(x)' /\ tab'[x.link] = tab[x.link]
        /\ \A d \in Tabbers : tab[d].at = "open" => tab'[d] = tab[d]
    BY <1>1, <2>1, <2>4, <2>5, TabFrame
  <2>7. /\ tabs'[pool] = tabs[pool] \ mine /\ \A p \in Pools : tabs'[p] \subseteq tabs[p]
        /\ \A p \in Pools : p # pool => tabs'[p] = tabs[p]
    BY <2>1, <2>2, TabNames
  <2>8. TabTypes'
    BY <1>0, <2>1, <2>2, <2>6, TabNames DEF TabTypes
  <2>9. tab[s].at = "open" /\ tab'[s] = tab[s]
    BY <1>2, <2>6 DEF TabInv, TabsOpened, TabAt
  <2>10. TabsOpened'
    <3>1. \A p \in Pools : \A x \in tabs'[p] : Opened(x)' /\ tab'[x.link].pool = p
      BY <2>6, <2>7, TabNames DEF TabInv, TabsOpened
    <3>2. \A a \in links' \cup listed' : TabAt(a, "open")'
      BY <1>0, <2>1, <2>6, TabNames DEF TabInv, TabsOpened, TabAt
    <3>3. \A d \in Tabbers : \A a \in tab'[d].of : TabAt(a, "open")'
      <4> TAKE d \in Tabbers
      <4>1. CASE d = c
        BY <2>4, <2>6, <2>9, <4>1 DEF TabAt
      <4>2. CASE d # c
        BY <2>6, <4>2, TabNames DEF TabInv, TabsOpened, TabAt
      <4> QED  BY <4>1, <4>2
    <3>4. ASSUME NEW d \in Tabbers, NEW x \in tab'[d].shut
          PROVE  /\ Opened(x)'
                 /\ IF tab'[d].then = "tabs" THEN tab'[x.link].pool = tab'[d].pool
                    ELSE \E a \in tab'[d].of : x.target \in tab'[a].took
      <4>1. CASE d = c
        <5>1. x \in mine /\ tab'[d].then # "tabs" /\ s \in tab'[d].of
          BY <2>4, <2>6, <3>4, <4>1
        <5>2. Opened(x)' /\ x.target \in tab'[s].took
          BY <2>2, <2>6, <2>9, <5>1, TabNames DEF TabInv, TabsOpened
        <5> QED  BY <5>1, <5>2
      <4>2. CASE d # c
        <5>1. tab'[d] = tab[d]
          BY <2>6, <4>2
        <5>2. \A a \in tab[d].of : tab'[a] = tab[a]
          BY <2>6, TabNames DEF TabInv, TabsOpened, TabAt
        <5> QED  BY <2>6, <3>4, <5>1, <5>2, TabNames DEF TabInv, TabsOpened
      <4> QED  BY <4>1, <4>2
    <3> QED  BY <3>1, <3>2, <3>3, <3>4 DEF TabsOpened
  <2>11. ClosedLeft'
    <3> SUFFICES ASSUME NEW d \in Tabbers, NEW a \in tab'[d].of, ~Shares(a)', NEW p \in Pools,
                        NEW x \in tabs'[p], x.link = a
                 PROVE  FALSE
      BY DEF ClosedLeft
    <3>1. x \in tabs[p] /\ Opened(x) /\ tab[a].pool = p /\ a \in Tabbers /\ ~Shares(a)
      BY <2>6, <2>7, TabNames DEF TabInv, TabsOpened
    <3>2. CASE d # c
      BY <2>6, <3>1, <3>2 DEF TabInv, ClosedLeft
    <3>3. CASE d = c
      <4>1. a = s
        BY <2>4, <2>6, <3>3
      <4>2. PICK y \in tabs[pool] : y.target \in tab[s].took
        BY <1>2, <2>2
      <4>3. Opened(y) /\ y.link \in Tabbers /\ tab[y.link].pool = pool
        BY <2>2, TabNames DEF TabInv, TabsOpened
      <4>4. y.link = s
        BY <3>1, <4>1, <4>2, <4>3 DEF Shares, Opened
      <4>5. p = pool /\ x.target \in tab[s].took
        BY <3>1, <4>1, <4>3, <4>4 DEF Opened
      <4> QED  BY <2>3, <2>7, <3>1, <4>5
    <3> QED  BY <3>2, <3>3
  <2>12. /\ \A a \in Tabbers : Closing(a) => Closing(a)'
         /\ \A x \in mine : Closing(x.link)'
    <3>1. \A d \in Tabbers : tab[d].shut \subseteq tab'[d].shut
      BY <1>1, <2>6
    <3>2. tab'[c].shut = mine
      BY <2>4, <2>6
    <3> QED  BY <3>1, <3>2 DEF Closing
  <2>13. LinksAreHeld'
    <3> SUFFICES ASSUME NEW a \in links, ~Shares(a)'
                 PROVE  Closing(a)' \/ \E p \in Pools : \E x \in tabs'[p] : x.link = a
      BY <1>0 DEF LinksAreHeld
    <3>1. a \in Tabbers /\ ~Shares(a)
      BY <2>6, TabNames
    <3>2. CASE Closing(a)
      BY <2>12, <3>1, <3>2
    <3>3. CASE ~Closing(a)
      <4>1. PICK p \in Pools : \E x \in tabs[p] : x.link = a
        BY <3>1, <3>3 DEF TabInv, LinksAreHeld
      <4> QED  BY <2>7, <2>12, <4>1
    <3> QED  BY <3>2, <3>3
  <2>14. Emptied(pool) => Emptied(pool)'
    <3> SUFFICES ASSUME NEW d \in Tabbers, tab[d].pool = pool, TabAt(d, "tabs")
        \/ tab[d].then = "tabs"
                 PROVE  Emptied(pool)'
      BY DEF Emptied
    <3>1. d # c
      BY <1>1, <2>2
    <3> QED  BY <1>0, <2>6, <3>1 DEF Emptied, TabAt
  <2>15. ListedAreHeld'
    <3> SUFFICES ASSUME NEW a \in listed, ~Shares(a)'
                 PROVE  \/ Closing(a)' \/ tab'[a].pool # pool \/ Emptied(pool)'
                        \/ a \in links /\ \E x \in tabs'[pool] : x.link = a
      BY <1>0, <2>1 DEF ListedAreHeld
    <3>1. a \in Tabbers /\ ~Shares(a) /\ tab'[a] = tab[a]
      BY <2>6, TabNames DEF TabInv, TabsOpened, TabAt
    <3>2. CASE Closing(a)
      BY <2>12, <3>1, <3>2
    <3>3. CASE ~Closing(a) /\ tab[a].pool = pool /\ ~Emptied(pool)
      <4>1. a \in links /\ \E x \in tabs[pool] : x.link = a
        BY <3>1, <3>3 DEF TabInv, ListedAreHeld
      <4> QED  BY <2>7, <2>12, <4>1
    <3> QED  BY <2>14, <3>1, <3>2, <3>3
  <2>16. PooledAreListed'
    BY <1>0, <2>1, <2>2, <2>6, <2>7, TabNames DEF TabInv, PooledAreListed
  <2> QED  BY <2>6, <2>8, <2>10, <2>11, <2>13, <2>15, <2>16 DEF TabInv
<1>3. CASE ~(s \in listed /\ mine # {})
  <2> DEFINE k == [r EXCEPT !.at = then, !.rest = rest]
  <2>1. /\ tabs' = tabs /\ listed' = listed \ {s} /\ tab' = [tab EXCEPT ![c] = k]
    BY <1>3, TabNames DEF CloseSession
  <2>2. k \in TabCall /\ k.of = {} /\ k.shut = {} /\ k.then = r.then /\ k.took = {} /\ k.pool = 0
      /\ k.at = then
    BY <1>0, <1>1 DEF TabCall, TabLabels
  <2> HIDE DEF k
  <2>3. TabStage(k)
    BY <1>1, <2>2 DEF TabStage
  <2>4. /\ tab' \in [Tabbers -> TabCall] /\ TabStages'
        /\ tab'[c] = k /\ \A d \in Tabbers : d # c => tab'[d] = tab[d]
        /\ \A a \in Tabbers : Shares(a) => Shares(a)'
        /\ \A x : x.link \in Tabbers /\ Opened(x) => Opened(x)' /\ tab'[x.link] = tab[x.link]
        /\ \A d \in Tabbers : tab[d].at = "open" => tab'[d] = tab[d]
    BY <1>1, <2>1, <2>2, <2>3, TabFrame
  <2>5. \A d \in Tabbers : tab'[d].shut = tab[d].shut /\ tab'[d].of = tab[d].of
      /\ tab'[d].then = tab[d].then
                           /\ tab'[d].pool = tab[d].pool
    BY <1>1, <2>2, <2>4
  <2>6. TabTypes'
    BY <1>0, <2>1, <2>4, TabNames DEF TabTypes
  <2>7. TabsOpened'
    <3>1. \A p \in Pools : \A x \in tabs'[p] : Opened(x)' /\ tab'[x.link].pool = p
      BY <2>1, <2>4, TabNames DEF TabInv, TabsOpened
    <3>2. \A a \in links' \cup listed' : TabAt(a, "open")'
      BY <1>0, <2>1, <2>4, TabNames DEF TabInv, TabsOpened, TabAt
    <3>3. \A d \in Tabbers : \A a \in tab'[d].of : TabAt(a, "open")'
      BY <2>4, <2>5, TabNames DEF TabInv, TabsOpened, TabAt
    <3>4. ASSUME NEW d \in Tabbers, NEW x \in tab'[d].shut
          PROVE  /\ Opened(x)'
                 /\ IF tab'[d].then = "tabs" THEN tab'[x.link].pool = tab'[d].pool
                    ELSE \E a \in tab'[d].of : x.target \in tab'[a].took
      <4>1. \A a \in tab[d].of : tab'[a] = tab[a]
        BY <2>4, TabNames DEF TabInv, TabsOpened, TabAt
      <4> QED  BY <2>4, <2>5, <3>4, <4>1, TabNames DEF TabInv, TabsOpened
    <3> QED  BY <3>1, <3>2, <3>3, <3>4 DEF TabsOpened
  <2>8. ClosedLeft'
    BY <2>1, <2>4, <2>5, TabNames DEF TabInv, ClosedLeft
  <2>9. \A a \in Tabbers : Closing(a)' <=> Closing(a)
    BY <2>5 DEF Closing
  <2>10. LinksAreHeld'
    BY <1>0, <2>1, <2>4, <2>9, TabNames DEF TabInv, LinksAreHeld
  <2>11. Emptied(pool) => Emptied(pool)'
    <3> SUFFICES ASSUME NEW d \in Tabbers, tab[d].pool = pool, TabAt(d, "tabs")
        \/ tab[d].then = "tabs"
                 PROVE  Emptied(pool)'
      BY DEF Emptied
    <3>1. CASE d # c
      BY <1>0, <2>4, <3>1 DEF Emptied, TabAt
    <3>2. CASE d = c
      BY <1>1, <3>2 DEF TabAt
    <3> QED  BY <3>1, <3>2
  <2>12. ListedAreHeld'
    <3> SUFFICES ASSUME NEW a \in listed, ~Shares(a)'
                 PROVE  \/ Closing(a)' \/ tab'[a].pool # pool \/ Emptied(pool)'
                        \/ a \in links /\ \E x \in tabs[pool] : x.link = a
      BY <1>0, <2>1 DEF ListedAreHeld
    <3>1. a \in Tabbers /\ ~Shares(a) /\ tab'[a].pool = tab[a].pool
      BY <2>4, <2>5, TabNames
    <3> QED  BY <2>9, <2>11, <3>1 DEF TabInv, ListedAreHeld
  <2>13. PooledAreListed'
    <3> SUFFICES ASSUME pool # 0, NEW x \in tabs[pool], ~Shares(x.link)'  PROVE x.link \in listed'
      BY <1>0, <2>1 DEF PooledAreListed
    <3>1. x.link \in Tabbers /\ pool \in Pools /\ Opened(x) /\ ~Shares(x.link)
      BY <2>4, TabNames DEF TabInv, TabsOpened
    <3>2. x.link \in listed
      BY <3>1 DEF TabInv, PooledAreListed
    <3>3. x.link = s => x \in mine
      BY <3>1 DEF Opened
    <3> QED  BY <1>3, <2>1, <3>2, <3>3
  <2> QED  BY <2>4, <2>6, <2>7, <2>8, <2>10, <2>12, <2>13 DEF TabInv
<1> QED  BY <1>2, <1>3

\* A QA session that ends takes the pool away, whole.
LEMMA SessionsInv ==
  ASSUME TabInv, NEW c \in Tabbers, DestroySession(c) \/ DisposeSession(c)  PROVE TabInv'
<1>1. CASE DestroySession(c)
  BY <1>1, CloseSessionInv DEF DestroySession, TabAt
<1>2. CASE DisposeSession(c)
  <2> PICK s \in tab[c].rest : CloseSession(c, s, "sessions", tab[c].rest \ {s})
    BY <1>2 DEF DisposeSession
  <2>1. tab[c].rest \subseteq Tabbers
    BY TabNames DEF TabCall
  <2> QED  BY <1>2, <2>1, CloseSessionInv DEF DisposeSession, TabAt
<1> QED  BY <1>1, <1>2

\* The links of the tabs that were closed are dropped.
LEMMA CloseTabInv == ASSUME TabInv, NEW c \in Tabbers, CloseTab(c)  PROVE TabInv'
<1> DEFINE r == tab[c]
           k == [r EXCEPT !.at = r.then, !.of = {}, !.shut = {}]
<1>1. /\ r.at = "disconnect" /\ r \in TabCall /\ TabStage(r) /\ UNCHANGED <<safari, pool, tabs>>
      /\ links' = links \ {x.link : x \in r.shut} /\ listed' = listed \ r.of
      /\ tab' = [tab EXCEPT ![c] = k]
  BY DEF CloseTab, TabAt, TabInv, TabTypes, TabStages
<1>2. k \in TabCall /\ k.of = {} /\ k.shut = {} /\ k.then = r.then /\ k.took = r.took
    /\ k.pool = r.pool
      /\ k.at = r.then
  BY <1>1 DEF TabCall, TabLabels
<1> HIDE DEF k
<1>3. TabStage(k)
  <2>1. r.then \in {"done", "sessions", "tabs"} /\ r.took = {}
    BY <1>1 DEF TabCall, TabStage
  <2> QED  BY <1>1, <1>2, <2>1 DEF TabStage
<1>4. /\ tab' \in [Tabbers -> TabCall] /\ TabStages'
      /\ tab'[c] = k /\ \A d \in Tabbers : d # c => tab'[d] = tab[d]
      /\ \A a \in Tabbers : Shares(a) => Shares(a)'
      /\ \A x : x.link \in Tabbers /\ Opened(x) => Opened(x)' /\ tab'[x.link] = tab[x.link]
      /\ \A d \in Tabbers : tab[d].at = "open" => tab'[d] = tab[d]
  BY <1>1, <1>2, <1>3, TabFrame
<1>5. \A d \in Tabbers : tab'[d].then = tab[d].then /\ tab'[d].pool = tab[d].pool
  BY <1>2, <1>4
<1>6. TabTypes'
  BY <1>1, <1>4, TabNames DEF TabTypes
<1>7. TabsOpened'
  <2>1. \A p \in Pools : \A x \in tabs'[p] : Opened(x)' /\ tab'[x.link].pool = p
    BY <1>1, <1>4, TabNames DEF TabInv, TabsOpened
  <2>2. \A a \in links' \cup listed' : TabAt(a, "open")'
    BY <1>1, <1>4, TabNames DEF TabInv, TabsOpened, TabAt
  <2>3. \A d \in Tabbers : \A a \in tab'[d].of : TabAt(a, "open")'
    BY <1>2, <1>4, TabNames DEF TabInv, TabsOpened, TabAt
  <2>4. ASSUME NEW d \in Tabbers, NEW x \in tab'[d].shut
        PROVE  /\ Opened(x)'
               /\ IF tab'[d].then = "tabs" THEN tab'[x.link].pool = tab'[d].pool
                  ELSE \E a \in tab'[d].of : x.target \in tab'[a].took
    <3>1. d # c /\ tab'[d] = tab[d]
      BY <1>2, <1>4, <2>4
    <3>2. \A a \in tab[d].of : tab'[a] = tab[a]
      BY <1>4, TabNames DEF TabInv, TabsOpened, TabAt
    <3> QED  BY <1>4, <2>4, <3>1, <3>2, TabNames DEF TabInv, TabsOpened
  <2> QED  BY <2>1, <2>2, <2>3, <2>4 DEF TabsOpened
<1>8. ClosedLeft'
  BY <1>1, <1>2, <1>4, TabNames DEF TabInv, ClosedLeft
\* What is being closed still is, unless c has just closed it.
<1>9. ASSUME NEW a \in Tabbers, Closing(a)  PROVE Closing(a)' \/ \E x \in r.shut : x.link = a
  <2> PICK d \in Tabbers : \E x \in tab[d].shut : x.link = a
    BY <1>9 DEF Closing
  <2>1. CASE d = c
    BY <2>1
  <2>2. CASE d # c
    BY <1>4, <2>2 DEF Closing
  <2> QED  BY <2>1, <2>2
<1>10. LinksAreHeld'
  <2> SUFFICES ASSUME NEW a \in links', ~Shares(a)'
               PROVE  Closing(a)' \/ \E p \in Pools : \E x \in tabs[p] : x.link = a
    BY <1>1 DEF LinksAreHeld
  <2>1. a \in Tabbers /\ a \in links /\ ~Shares(a) /\ ~\E x \in r.shut : x.link = a
    BY <1>1, <1>4, TabNames
  <2> QED  BY <1>9, <2>1 DEF TabInv, LinksAreHeld
<1>11. Emptied(pool) => Emptied(pool)'
  <2> SUFFICES ASSUME NEW d \in Tabbers, tab[d].pool = pool, TabAt(d, "tabs")
      \/ tab[d].then = "tabs"
               PROVE  Emptied(pool)'
    BY DEF Emptied
  <2>1. CASE d # c
    BY <1>1, <1>4, <2>1 DEF Emptied, TabAt
  <2>2. CASE d = c
    <3>1. tab'[d].then = "tabs" /\ tab'[d].pool = pool'
      BY <1>1, <1>5, <2>2 DEF TabAt
    <3> QED  BY <3>1 DEF Emptied
  <2> QED  BY <2>1, <2>2
<1>12. ListedAreHeld'
  <2> SUFFICES ASSUME NEW a \in listed', ~Shares(a)'
               PROVE  \/ Closing(a)' \/ tab'[a].pool # pool \/ Emptied(pool)'
                      \/ a \in links' /\ \E x \in tabs[pool] : x.link = a
    BY <1>1 DEF ListedAreHeld
  <2>1. a \in Tabbers /\ ~Shares(a) /\ tab'[a] = tab[a] /\ a \in listed /\ a \notin r.of
    BY <1>1, <1>4, TabNames DEF TabInv, TabsOpened, TabAt
  <2>2. CASE \E x \in r.shut : x.link = a
    <3>1. PICK x \in r.shut : x.link = a
      BY <2>2
    <3>2. Opened(x) /\ IF r.then = "tabs" THEN tab[x.link].pool = r.pool
                       ELSE \E s \in r.of : x.target \in tab[s].took
      BY DEF TabInv, TabsOpened
    <3>3. CASE r.then = "tabs"
      <4>1. tab'[a].pool = tab'[c].pool /\ tab'[c].then = "tabs"
        BY <1>5, <2>1, <3>1, <3>2, <3>3
      <4> QED  BY <1>1, <4>1 DEF Emptied
    <3>4. CASE r.then # "tabs"
      <4>1. PICK s \in r.of : x.target \in tab[s].took
        BY <3>2, <3>4
      <4>2. s \in Tabbers /\ s # a /\ x.target \in tab[a].took
        BY <2>1, <3>1, <3>2, TabNames DEF Opened
      <4> QED  BY <2>1, <4>1, <4>2 DEF Shares
    <3> QED  BY <3>3, <3>4
  <2>3. CASE ~\E x \in r.shut : x.link = a
    BY <1>1, <1>9, <1>11, <2>1, <2>3 DEF TabInv, ListedAreHeld
  <2> QED  BY <2>2, <2>3
<1>13. PooledAreListed'
  <2> SUFFICES ASSUME pool # 0, NEW x \in tabs[pool], ~Shares(x.link)'  PROVE x.link \in listed'
    BY <1>1 DEF PooledAreListed
  <2>1. x.link \in Tabbers /\ pool \in Pools /\ ~Shares(x.link)
    BY <1>4, TabNames
  <2>2. x.link \in listed /\ x.link \notin r.of
    BY <2>1 DEF TabInv, PooledAreListed, ClosedLeft
  <2> QED  BY <1>1, <2>2
<1> QED  BY <1>4, <1>6, <1>7, <1>8, <1>10, <1>12, <1>13 DEF TabInv

\* The next tab of a session is closed, or there is none left.
LEMMA CloseNextInv == ASSUME TabInv, NEW c \in Tabbers, CloseNext(c)  PROVE TabInv'
<1> DEFINE r == tab[c]
           p == r.pool
<1>1. /\ r.at = "tabs" /\ r \in TabCall /\ TabStage(r) /\ UNCHANGED <<safari, links, listed>>
      /\ p \in Pools /\ r.shut = {} /\ r.of = {} /\ r.took = {} /\ r.rest \subseteq Tabbers
  BY DEF CloseNext, TabAt, TabInv, TabTypes, TabStages, TabStage, TabCall
<1>2. ASSUME NEW t \in r.rest,
             tabs' = [tabs EXCEPT ![p] = @ \ {x \in tabs[p] : x.target = t}], pool' = pool,
             tab' = [tab EXCEPT ![c].rest = @ \ {t}, ![c].shut = {x \in tabs[p] : x.target = t},
                                ![c].then = "tabs",
                                ![c].at = IF {x \in tabs[p] : x.target = t} = {} THEN "tabs"
                                    ELSE "window"]
      PROVE  TabInv'
  <2> DEFINE mine == {x \in tabs[p] : x.target = t}
             at == IF mine = {} THEN "tabs" ELSE "window"
             k == [r EXCEPT !.at = at, !.shut = mine, !.then = "tabs", !.rest = @ \ {t}]
  <2>1. tab' = [tab EXCEPT ![c] = k]
    BY <1>2
  <2>2. mine \subseteq tabs[p] /\ mine \subseteq Tabs /\ tabs' = [tabs EXCEPT ![p] = @ \ mine]
    BY <1>1, <1>2, TabNames
  <2>3. at \in {"tabs", "window"} /\ (mine # {} => at = "window")
    OBVIOUS
  <2> HIDE DEF mine, at
  <2>4. k \in TabCall /\ k.at = at /\ k.shut = mine /\ k.then = "tabs" /\ k.of = {} /\ k.took = {}
      /\ k.pool = p
    BY <1>1, <2>2, <2>3 DEF TabCall, TabLabels
  <2> HIDE DEF k
  <2>5. TabStage(k)
    BY <1>1, <2>3, <2>4, PoolsArePositive DEF TabStage
  <2>6. /\ tab' \in [Tabbers -> TabCall] /\ TabStages'
        /\ tab'[c] = k /\ \A d \in Tabbers : d # c => tab'[d] = tab[d]
        /\ \A a \in Tabbers : Shares(a) => Shares(a)'
        /\ \A x : x.link \in Tabbers /\ Opened(x) => Opened(x)' /\ tab'[x.link] = tab[x.link]
        /\ \A d \in Tabbers : tab[d].at = "open" => tab'[d] = tab[d]
    BY <1>1, <2>1, <2>4, <2>5, TabFrame
  <2>7. /\ tabs'[p] = tabs[p] \ mine /\ \A o \in Pools : tabs'[o] \subseteq tabs[o]
        /\ \A o \in Pools : o # p => tabs'[o] = tabs[o]
    BY <1>1, <2>2, TabNames
  <2>8. TabTypes'
    <3>1. tabs' \in [Pools -> SUBSET Tabs]
      BY <1>1, <2>2, TabNames
    <3> QED  BY <1>1, <1>2, <2>6, <3>1, TabNames DEF TabTypes
  <2>9. \A d \in Tabbers : tab'[d].of = tab[d].of /\ tab'[d].pool = tab[d].pool
    BY <1>1, <2>4, <2>6
  <2>10. TabsOpened'
    <3>1. \A o \in Pools : \A x \in tabs'[o] : Opened(x)' /\ tab'[x.link].pool = o
      BY <2>6, <2>7, TabNames DEF TabInv, TabsOpened
    <3>2. \A a \in links' \cup listed' : TabAt(a, "open")'
      BY <1>1, <2>6, TabNames DEF TabInv, TabsOpened, TabAt
    <3>3. \A d \in Tabbers : \A a \in tab'[d].of : TabAt(a, "open")'
      BY <2>6, <2>9, TabNames DEF TabInv, TabsOpened, TabAt
    <3>4. ASSUME NEW d \in Tabbers, NEW x \in tab'[d].shut
          PROVE  /\ Opened(x)'
                 /\ IF tab'[d].then = "tabs" THEN tab'[x.link].pool = tab'[d].pool
                    ELSE \E a \in tab'[d].of : x.target \in tab'[a].took
      <4>1. CASE d = c
        <5>1. x \in tabs[p] /\ x.link \in Tabbers
          BY <1>1, <2>2, <2>4, <2>6, <3>4, <4>1, TabNames
        <5>2. Opened(x)' /\ tab'[x.link].pool = p
          BY <1>1, <2>6, <5>1 DEF TabInv, TabsOpened
        <5> QED  BY <2>4, <2>6, <4>1, <5>2
      <4>2. CASE d # c
        <5>1. tab'[d] = tab[d]
          BY <2>6, <4>2
        <5>2. \A a \in tab[d].of : tab'[a] = tab[a]
          BY <2>6, TabNames DEF TabInv, TabsOpened, TabAt
        <5> QED  BY <2>6, <3>4, <5>1, <5>2, TabNames DEF TabInv, TabsOpened
      <4> QED  BY <4>1, <4>2
    <3> QED  BY <3>1, <3>2, <3>3, <3>4 DEF TabsOpened
  <2>11. ClosedLeft'
    BY <2>6, <2>7, <2>9, TabNames DEF TabInv, ClosedLeft
  <2>12. /\ \A a \in Tabbers : Closing(a) => Closing(a)'
         /\ \A x \in mine : Closing(x.link)'
    <3>1. \A d \in Tabbers : tab[d].shut \subseteq tab'[d].shut
      BY <1>1, <2>6
    <3>2. tab'[c].shut = mine
      BY <2>4, <2>6
    <3> QED  BY <3>1, <3>2 DEF Closing
  <2>13. LinksAreHeld'
    <3> SUFFICES ASSUME NEW a \in links, ~Shares(a)'
                 PROVE  Closing(a)' \/ \E o \in Pools : \E x \in tabs'[o] : x.link = a
      BY <1>1 DEF LinksAreHeld
    <3>1. a \in Tabbers /\ ~Shares(a)
      BY <2>6, TabNames
    <3>2. CASE Closing(a)
      BY <2>12, <3>1, <3>2
    <3>3. CASE ~Closing(a)
      <4>1. PICK o \in Pools : \E x \in tabs[o] : x.link = a
        BY <3>1, <3>3 DEF TabInv, LinksAreHeld
      <4> QED  BY <2>7, <2>12, <4>1
    <3> QED  BY <3>2, <3>3
  <2>14. Emptied(pool) => Emptied(pool)'
    <3> SUFFICES ASSUME NEW d \in Tabbers, tab[d].pool = pool, TabAt(d, "tabs")
        \/ tab[d].then = "tabs"
                 PROVE  Emptied(pool)'
      BY DEF Emptied
    <3>1. CASE d # c
      BY <1>2, <2>6, <3>1 DEF Emptied, TabAt
    <3>2. CASE d = c
      <4>1. tab'[d].then = "tabs" /\ tab'[d].pool = pool'
        BY <1>2, <2>4, <2>6, <3>2
      <4> QED  BY <4>1 DEF Emptied
    <3> QED  BY <3>1, <3>2
  <2>15. ListedAreHeld'
    <3> SUFFICES ASSUME NEW a \in listed, ~Shares(a)'
                 PROVE  \/ Closing(a)' \/ tab'[a].pool # pool \/ Emptied(pool)'
                        \/ a \in links /\ \E x \in tabs'[pool] : x.link = a
      BY <1>1, <1>2 DEF ListedAreHeld
    <3>1. a \in Tabbers /\ ~Shares(a) /\ tab'[a] = tab[a]
      BY <2>6, TabNames DEF TabInv, TabsOpened, TabAt
    <3>2. CASE Closing(a)
      BY <2>12, <3>1, <3>2
    <3>3. CASE ~Closing(a) /\ tab[a].pool = pool /\ ~Emptied(pool)
      <4>1. a \in links /\ \E x \in tabs[pool] : x.link = a
        BY <3>1, <3>3 DEF TabInv, ListedAreHeld
      <4>2. pool \in Pools
        BY <3>1, <3>3, TabNames DEF TabInv, TabsOpened, TabAt, TabStages, TabStage
      <4>3. CASE pool = p
        BY <2>7, <2>12, <4>1, <4>3
      <4>4. CASE pool # p
        BY <2>7, <4>1, <4>2, <4>4
      <4> QED  BY <4>3, <4>4
    <3> QED  BY <2>14, <3>1, <3>2, <3>3
  <2>16. PooledAreListed'
    BY <1>1, <1>2, <2>6, <2>7, TabNames DEF TabInv, PooledAreListed
  <2> QED  BY <2>6, <2>8, <2>10, <2>11, <2>13, <2>15, <2>16 DEF TabInv
<1>3. ASSUME tabs' = tabs, pool' = 0, TabGoes(c, "done")
      PROVE  TabInv'
  <2> DEFINE k == [r EXCEPT !.at = "done"]
  <2>1. tab' = [tab EXCEPT ![c] = k]
    BY <1>1, <1>3 DEF TabGoes
  <2>2. k \in TabCall /\ k.of = {} /\ k.shut = {} /\ k.then = r.then /\ k.took = {} /\ k.pool = p
      /\ k.at = "done"
    BY <1>1 DEF TabCall, TabLabels
  <2> HIDE DEF k
  <2>3. TabStage(k)
    BY <1>1, <2>2 DEF TabStage
  <2>4. /\ tab' \in [Tabbers -> TabCall] /\ TabStages'
        /\ tab'[c] = k /\ \A d \in Tabbers : d # c => tab'[d] = tab[d]
        /\ \A a \in Tabbers : Shares(a) => Shares(a)'
        /\ \A x : x.link \in Tabbers /\ Opened(x) => Opened(x)' /\ tab'[x.link] = tab[x.link]
        /\ \A d \in Tabbers : tab[d].at = "open" => tab'[d] = tab[d]
    BY <1>1, <2>1, <2>2, <2>3, TabFrame
  <2>5. \A d \in Tabbers : tab'[d].shut = tab[d].shut /\ tab'[d].of = tab[d].of
      /\ tab'[d].then = tab[d].then
                           /\ tab'[d].pool = tab[d].pool
    BY <1>1, <2>2, <2>4
  <2>6. TabTypes'
    BY <1>1, <1>3, <2>4, TabNames DEF TabTypes
  <2>7. TabsOpened'
    <3>1. \A o \in Pools : \A x \in tabs'[o] : Opened(x)' /\ tab'[x.link].pool = o
      BY <1>3, <2>4, TabNames DEF TabInv, TabsOpened
    <3>2. \A a \in links' \cup listed' : TabAt(a, "open")'
      BY <1>1, <2>4, TabNames DEF TabInv, TabsOpened, TabAt
    <3>3. \A d \in Tabbers : \A a \in tab'[d].of : TabAt(a, "open")'
      BY <2>4, <2>5, TabNames DEF TabInv, TabsOpened, TabAt
    <3>4. ASSUME NEW d \in Tabbers, NEW x \in tab'[d].shut
          PROVE  /\ Opened(x)'
                 /\ IF tab'[d].then = "tabs" THEN tab'[x.link].pool = tab'[d].pool
                    ELSE \E a \in tab'[d].of : x.target \in tab'[a].took
      <4>1. \A a \in tab[d].of : tab'[a] = tab[a]
        BY <2>4, TabNames DEF TabInv, TabsOpened, TabAt
      <4> QED  BY <2>4, <2>5, <3>4, <4>1, TabNames DEF TabInv, TabsOpened
    <3> QED  BY <3>1, <3>2, <3>3, <3>4 DEF TabsOpened
  <2>8. ClosedLeft'
    BY <1>3, <2>4, <2>5, TabNames DEF TabInv, ClosedLeft
  <2>9. \A a \in Tabbers : Closing(a)' <=> Closing(a)
    BY <2>5 DEF Closing
  <2>10. LinksAreHeld'
    BY <1>1, <1>3, <2>4, <2>9, TabNames DEF TabInv, LinksAreHeld
  <2>11. ListedAreHeld'
    <3> SUFFICES ASSUME NEW a \in listed  PROVE tab'[a].pool # 0
      BY <1>1, <1>3 DEF ListedAreHeld
    <3> QED  BY <2>4, TabNames DEF TabInv, TabsOpened, TabAt, TabStages, TabStage
  <2>12. PooledAreListed'
    BY <1>3 DEF PooledAreListed
  <2> QED  BY <2>4, <2>6, <2>7, <2>8, <2>10, <2>11, <2>12 DEF TabInv
<1> QED  BY <1>2, <1>3 DEF CloseNext

\* Every step on the tabs keeps the strengthening.
LEMMA TabStepInv == TabInv /\ [TabNext]_tabvars => TabInv'
<1> SUFFICES ASSUME TabInv, [TabNext]_tabvars  PROVE TabInv'
  OBVIOUS
<1>1. CASE UNCHANGED tabvars
  <2>1. UNCHANGED <<safari, pool, tabs, links, listed, tab>>
    BY <1>1 DEF tabvars
  <2>2. TabTypes' /\ TabStages'
    BY <2>1 DEF TabInv, TabTypes, TabStages
  <2>3. TabsOpened'
    BY <2>1 DEF TabInv, TabsOpened, Opened, TabAt
  <2>4. ClosedLeft' /\ LinksAreHeld' /\ PooledAreListed'
    BY <2>1 DEF TabInv, ClosedLeft, LinksAreHeld, PooledAreListed, Shares, Closing
  <2>5. ListedAreHeld'
    BY <2>1 DEF TabInv, ListedAreHeld, Shares, Closing, Emptied, TabAt
  <2> QED  BY <2>2, <2>3, <2>4, <2>5 DEF TabInv
<1>2. ASSUME NEW c \in Tabbers,
             \/ OpenBegin(c) \/ OpenTargets(c) \/ OpenUrl(c) \/ OpenPoll(c) \/ OpenConnect(c)
                \/ OpenFails(c)
             \/ DestroySession(c) \/ CloseWindow(c) \/ CloseTab(c)
             \/ Dispose(c) \/ DisposeSession(c) \/ CloseAll(c) \/ CloseNext(c)
      PROVE  TabInv'
  BY <1>2, OpenBeginInv, TabGoesInv, OpenConnectInv, SessionsInv, CloseTabInv, CloseNextInv
<1> QED  BY <1>1, <1>2 DEF TabNext

\* The tabs of a pool are connected and listed, as the strengthening says.
LEMMA TabInvHeld == TabInv => TabsAreHeld
<1> SUFFICES ASSUME TabInv, NEW s \in Tabbers, ~Shares(s)
             PROVE  /\ s \in links => Closing(s) \/ \E p \in Pools : \E x \in tabs[p] : x.link = s
                    /\ s \in listed =>
                         \/ Closing(s)
                         \/ tab[s].pool # pool \/ Emptied(pool)
                         \/ s \in links /\ [target |-> CHOOSE t \in tab[s].took : TRUE,
                                            link |-> s] \in tabs[pool]
                    /\ pool # 0 /\ (\E x \in tabs[pool] : x.link = s) => s \in listed
  BY DEF TabsAreHeld
<1>1. s \in links => Closing(s) \/ \E p \in Pools : \E x \in tabs[p] : x.link = s
  BY DEF TabInv, LinksAreHeld
<1>2. ASSUME s \in listed, ~Closing(s), tab[s].pool = pool, ~Emptied(pool)
      PROVE  s \in links /\ [target |-> CHOOSE t \in tab[s].took : TRUE, link |-> s] \in tabs[pool]
  <2>1. s \in links
    BY <1>2 DEF TabInv, ListedAreHeld
  <2>2. PICK x \in tabs[pool] : x.link = s
    BY <1>2 DEF TabInv, ListedAreHeld
  <2>3. pool \in Pools
    BY <1>2, TabNames DEF TabInv, TabsOpened, TabAt, TabStages, TabStage
  <2>4. x \in Tabs /\ tab[s].took = {x.target}
    BY <2>2, <2>3, TabNames DEF TabInv, TabsOpened, Opened
  <2>5. x = [target |-> x.target, link |-> s]
    BY <2>2, <2>4 DEF Tabs
  <2>6. (CHOOSE t \in tab[s].took : TRUE) = x.target
    BY <2>4
  <2> QED  BY <2>1, <2>2, <2>5, <2>6
<1>3. pool # 0 /\ (\E x \in tabs[pool] : x.link = s) => s \in listed
  BY DEF TabInv, PooledAreListed
<1> QED  BY <1>1, <1>2, <1>3

-----------------------------------------------------------------------------
(* The rule that blocks the host's network. *)

\* One call at a time is in flight, from its first step to its answer.
OneAtATime == \A c, d \in Callers : calls[c] # Idle /\ calls[d] # Idle => c = d

NetLabels == {"resolve", "probe", "flushStale", "decide", "revert", "flush", "flushed", "unflushed",
              "reverted", "apply", "load", "loaded", "applied", "done"}
NetCall == [at : NetLabels, dev : Sims, want : {"online", "offline", "get"},
            by : {"auto", "pfctl", "nlc"}, was : {"online", "offline"}]
KnownTypes ==
  /\ rule \in BOOLEAN /\ pf \in BOOLEAN /\ reconciled \in BOOLEAN
  /\ mode \in [Sims -> {"online", "offline"}] /\ host \in {"none", "auto", "pfctl", "nlc"}
NetTypes ==
  /\ KnownTypes /\ calls \in [Callers -> {Idle} \cup NetCall]
  /\ server \in {"up", "draining", "exiting", "down"}
\* No flush that was reported as failed took effect; no rule was left behind.
Held == <<"flush", TRUE>> \notin lapses
Swept == lapses \cap LeftBehind = {}
\* What the call in flight k has found or done by the point it is at.
Found(k) ==
  /\ k.at \in {"probe", "flushStale"} =>
       pf = FALSE /\ host = "none" /\ Offline = {} /\ reconciled = TRUE
  /\ k.at \in {"revert", "flush", "flushed", "unflushed"} =>
       pf = TRUE /\ Offline = {} /\ host # "none" /\ k.was = "offline"
  /\ k.at = "flushed" => rule = FALSE
  /\ k.at = "reverted" => pf = FALSE /\ Offline = {}
  /\ k.at \in {"load", "loaded"} => pf = FALSE
  /\ k.at = "loaded" => rule = TRUE
  /\ k.at = "applied" => pf = TRUE
  /\ k.at \in {"decide", "apply", "load", "loaded", "applied"} => reconciled = TRUE
\* What the process believes of the rule is so, but for what the call k is about to put right.
Believed(k) ==
  /\ reconciled = FALSE => pf = FALSE /\ host = "none" /\ Offline = {}
  /\ Offline # {} => pf = TRUE /\ host # "none"
  /\ pf = TRUE /\ Held => rule = TRUE \/ k.at = "flushed"
  /\ pf = TRUE => Offline # {} \/ k.at \in {"applied", "revert", "flush", "flushed", "unflushed"}
  /\ Swept /\ rule = TRUE /\ reconciled = TRUE =>
       pf = TRUE \/ k.at \in {"probe", "flushStale", "loaded"}
NetUp ==
  server = "up" =>
    /\ \A c \in Callers : calls[c] # Idle => Found(calls[c]) /\ Believed(calls[c])
    /\ (\A c \in Callers : calls[c] = Idle) => Believed(Idle)
NetDown ==
  server = "down" =>
    /\ \A c \in Callers : calls[c] = Idle
    /\ pf = FALSE /\ reconciled = FALSE /\ host = "none" /\ Offline = {}
NetInv == NetTypes /\ NetUp /\ NetDown

\* The host has no rule of ours, and no call has begun.
LEMMA NetInitInv == NetworkInit => NetInv
<1> SUFFICES ASSUME NetworkInit  PROVE NetInv
  OBVIOUS
<1>1. NetTypes
  BY DEF NetworkInit, NetTypes, KnownTypes
<1>2. Offline = {}
  BY DEF NetworkInit, Offline
<1>3. Believed(Idle)
  BY <1>2 DEF NetworkInit, Believed, Idle
<1>4. NetUp /\ NetDown
  BY <1>3 DEF NetworkInit, NetUp, NetDown
<1> QED  BY <1>1, <1>4 DEF NetInv

\* The call in flight goes on, or ends.
LEMMA NetGoes ==
  ASSUME NetInv, OneAtATime, NEW c \in Callers, calls[c] # Idle, NEW k \in {Idle} \cup NetCall,
         calls' = [calls EXCEPT ![c] = k], server' = server,
         KnownTypes', server = "up" => Found(k)' /\ Believed(k)'
  PROVE  NetInv'
<1>1. calls'[c] = k /\ \A d \in Callers : d # c => calls'[d] = Idle
  BY DEF NetInv, NetTypes, KnownTypes, OneAtATime
<1>2. NetTypes'
  BY DEF NetInv, NetTypes, KnownTypes
<1>3. NetUp'
  BY <1>1 DEF NetUp
<1>4. server # "down"
  BY DEF NetInv, NetDown
<1>5. NetDown'
  BY <1>4 DEF NetDown
<1> QED  BY <1>2, <1>3, <1>5 DEF NetInv

\* What a call in flight is, and what holds of it.
LEMMA InFlight ==
  ASSUME NetInv, NEW c \in Callers, calls[c].at # "idle"
  PROVE  /\ calls[c] \in NetCall /\ calls[c] # Idle
         /\ server = "up" => Found(calls[c]) /\ Believed(calls[c])
  BY DEF NetInv, NetTypes, KnownTypes, NetUp, Idle

\* A call that goes on to a label keeps what it was asked.
LEMMA NetMoves ==
  ASSUME NEW r \in NetCall, NEW at \in NetLabels
  PROVE  /\ [r EXCEPT !.at = at] \in NetCall /\ [r EXCEPT !.at = at].at = at
         /\ [r EXCEPT !.at = at].was = r.was
  BY DEF NetCall

\* A call's step that touches the rule or nothing, and goes on to a label.
LEMMA NetRuns ==
  ASSUME NetInv, OneAtATime, NEW c \in Callers, NEW at \in NetLabels, calls[c].at # "idle",
         Moves(c, at), server' = server, KnownTypes',
         server = "up" /\ Found(calls[c]) /\ Believed(calls[c]) =>
           \A k \in NetCall : k.at = at /\ k.was = calls[c].was => Found(k)' /\ Believed(k)'
  PROVE  NetInv'
<1>1. calls[c] \in NetCall /\ calls[c] # Idle
    /\ (server = "up" => Found(calls[c]) /\ Believed(calls[c]))
  BY InFlight
<1>2. PICK k \in NetCall : k = [calls[c] EXCEPT !.at = at] /\ k.at = at /\ k.was = calls[c].was
  BY <1>1, NetMoves
<1>3. calls' = [calls EXCEPT ![c] = k]
  BY <1>2 DEF Moves
<1>4. server = "up" => Found(k)' /\ Believed(k)'
  BY <1>1, <1>2
<1> QED  BY <1>1, <1>3, <1>4, NetGoes

\* The types of what is known, after a step that leaves the state of the server alone.
LEMMA StateSame ==
  ASSUME NetInv, UNCHANGED state, rule' \in BOOLEAN
  PROVE  KnownTypes'
  BY DEF state, NetInv, NetTypes, KnownTypes

\* What failing commands have left, after a step in which none fails.
LEMMA LapsesSame == lapses' = lapses => Held' = Held /\ Swept' = Swept
  BY DEF Held, Swept, LeftBehind

\* ... and after one in which the command of the await from failed.
LEMMA LapsesAfter ==
  ASSUME NEW from, NEW took \in BOOLEAN, lapses' = lapses \cup {<<from, took>>}
  PROVE  /\ Held' => Held /\ (from = "flush" => took = FALSE)
         /\ Swept' => /\ Swept /\ (from = "probe" => took = TRUE)
                      /\ from = "flushStale" => took = TRUE
                      /\ from = "load" => took = FALSE
<1>1. Held' => Held /\ (from = "flush" => took = FALSE)
  BY DEF Held
<1>2. <<from, took>> \in lapses'
  OBVIOUS
<1>3. Swept' => <<from, took>> \notin LeftBehind
  BY <1>2 DEF Swept, LeftBehind
<1>4. Swept' => Swept
  BY DEF Swept, LeftBehind
<1> QED  BY <1>1, <1>3, <1>4 DEF LeftBehind

\* The devices said to be offline, after a step that leaves the state of the server alone.
LEMMA OfflineSame == UNCHANGED state => Offline' = Offline
  BY DEF state, Offline

\* The steps of a call that only read.
LEMMA NetAsksInv ==
  ASSUME NetInv, OneAtATime, NEW c \in Callers, NEW from \in NetLabels, NEW to \in NetLabels,
         Asks(c, from, to),
         server = "up" /\ calls[c].at = from /\ Found(calls[c]) /\ Believed(calls[c]) =>
           \A k \in NetCall : k.at = to /\ k.was = calls[c].was => Found(k) /\ Believed(k)
  PROVE  NetInv'
<1>1. calls[c].at = from /\ Moves(c, to) /\ UNCHANGED state /\ server' = server
    /\ UNCHANGED <<rule, lapses>>
  BY DEF Asks, NAt, Outside, Quiet
<1>2. from # "idle"
  BY DEF NetLabels
<1>3. rule' \in BOOLEAN
  BY <1>1 DEF NetInv, NetTypes, KnownTypes
<1>4. ASSUME NEW k, Found(k) /\ Believed(k)  PROVE Found(k)' /\ Believed(k)'
  BY <1>1, <1>4, OfflineSame, LapsesSame DEF Found, Believed, state
<1> QED  BY <1>1, <1>2, <1>3, <1>4, StateSame, NetRuns

\* A command that fails is followed by a decision without it or by the error.
LEMMA NetAskFailsInv ==
  ASSUME NetInv, OneAtATime, NEW c \in Callers, NEW from \in NetLabels, NEW to \in NetLabels,
         AskFails(c, from, to), to \in {"decide", "done"}, from \in {"probe", "apply"},
         to = "decide" => from = "probe"
  PROVE  NetInv'
<1>1. /\ calls[c].at = from /\ from # "idle" /\ Moves(c, to) /\ UNCHANGED state /\ server' = server
      /\ UNCHANGED rule /\ lapses' = lapses \cup {<<from, FALSE>>}
  BY DEF AskFails, NAt, Outside, NetLabels
<1>2. rule' \in BOOLEAN /\ (Held' => Held) /\ (Swept' => Swept /\ from # "probe")
  BY <1>1, LapsesAfter DEF NetInv, NetTypes, KnownTypes
<1>3. ASSUME Found(calls[c]), Believed(calls[c]), NEW k \in NetCall, k.at = to
  PROVE Found(k)' /\ Believed(k)'
  <2>1. /\ pf' = pf /\ host' = host /\ reconciled' = reconciled /\ Offline' = Offline
        /\ rule' = rule
    BY <1>1, OfflineSame DEF state
  <2> QED  BY <1>1, <1>2, <1>3, <2>1 DEF Found, Believed
<1> QED  BY <1>1, <1>2, <1>3, StateSame, NetRuns

\* The steps that run a command on the rule.
LEMMA NetRunsInv ==
  ASSUME NetInv, OneAtATime, NEW c \in Callers, NEW from \in NetLabels, NEW effect \in BOOLEAN,
         NEW ok \in NetLabels, NEW failed \in NetLabels, Runs(c, from, effect, ok, failed),
         \/ from = "flushStale" /\ effect = FALSE /\ ok = "decide" /\ failed = "decide"
         \/ from = "flush" /\ effect = FALSE /\ ok = "flushed" /\ failed = "unflushed"
         \/ from = "load" /\ effect = TRUE /\ ok = "loaded" /\ failed = "done"
  PROVE  NetInv'
<1>1. calls[c].at = from /\ from # "idle" /\ UNCHANGED state /\ server' = server
  BY DEF Runs, NAt, Outside, NetLabels
<1>2. pf' = pf /\ host' = host /\ reconciled' = reconciled /\ Offline' = Offline
  BY <1>1, OfflineSame DEF state
<1>3. CASE rule' = effect /\ Moves(c, ok) /\ UNCHANGED <<faults, lapses>>
  <2>1. rule' \in BOOLEAN /\ Held' = Held /\ Swept' = Swept
    BY <1>3, LapsesSame
  <2>2. ASSUME Found(calls[c]), Believed(calls[c]), NEW k \in NetCall, k.at = ok,
      k.was = calls[c].was
        PROVE  Found(k)' /\ Believed(k)'
    BY <1>1, <1>2, <1>3, <2>1, <2>2 DEF Found, Believed
  <2> QED  BY <1>1, <1>3, <2>1, <2>2, StateSame, NetRuns
<1>4. CASE /\ faults' = faults + 1 /\ Moves(c, failed)
           /\ rule' \in {rule, effect} /\ lapses' = lapses \cup {<<from, rule' # rule>>}
  <2>1. rule \in BOOLEAN /\ rule' \in BOOLEAN
    BY <1>4 DEF NetInv, NetTypes, KnownTypes
  <2>2. /\ Held' => Held /\ (from = "flush" => rule' = rule)
        /\ Swept' => /\ Swept
                     /\ from = "flushStale" => rule' = FALSE
                     /\ from = "load" => rule' = rule
    <3>1. PICK took \in BOOLEAN : took = (rule' # rule)
      OBVIOUS
    <3>2. lapses' = lapses \cup {<<from, took>>}
      BY <1>4, <3>1
    <3> QED  BY <1>4, <2>1, <3>1, <3>2, LapsesAfter
  <2>3. ASSUME Found(calls[c]), Believed(calls[c]), NEW k \in NetCall, k.at = failed,
      k.was = calls[c].was
        PROVE  Found(k)' /\ Believed(k)'
    BY <1>1, <1>2, <2>1, <2>2, <2>3 DEF Found, Believed
  <2> QED  BY <1>1, <1>4, <2>1, <2>3, StateSame, NetRuns
<1> QED  BY <1>3, <1>4 DEF Runs

\* What an earlier server left behind is flushed, once.
LEMMA ReconcileInv == ASSUME NetInv, OneAtATime, NEW c \in Callers, Reconcile(c)  PROVE NetInv'
<1> USE DEF NetLabels
<1>1. CASE ~rule /\ Asks(c, "probe", "decide")
  <2>1. rule = FALSE
    BY <1>1 DEF NetInv, NetTypes, KnownTypes
  <2> QED  BY <1>1, <2>1, NetAsksInv DEF Found, Believed
<1>2. CASE rule /\ Asks(c, "probe", "flushStale")
  BY <1>2, NetAsksInv DEF Found, Believed
<1>3. CASE AskFails(c, "probe", "decide")
  BY <1>3, NetAskFailsInv
<1>4. CASE Runs(c, "flushStale", FALSE, "decide", "decide")
  BY <1>4, NetRunsInv
<1> QED  BY <1>1, <1>2, <1>3, <1>4 DEF Reconcile

\* A device that is to be offline is blocked, unless it is already or another one is.
LEMMA DecideOfflineInv == ASSUME NetInv, OneAtATime, NEW c \in Callers, DecideOffline(c)
  PROVE NetInv'
<1> USE DEF NetLabels
<1>1. CASE Asks(c, "decide", "done")
  BY <1>1, NetAsksInv DEF Found, Believed
<1>2. CASE Asks(c, "decide", "apply")
  BY <1>2, NetAsksInv DEF Found, Believed
<1> QED  BY <1>1, <1>2 DEF DecideOffline

\* A call that ends leaves what is known of the host as it is.
LEMMA AnswerInv ==
  ASSUME NetInv, OneAtATime, NEW c \in Callers, calls[c].at \in {"done", "resolve"},
         Ends(c), Outside, Quiet, UNCHANGED state
  PROVE  NetInv'
<1>1. calls[c] # Idle /\ (server = "up" => Found(calls[c]) /\ Believed(calls[c]))
  BY InFlight
<1>2. KnownTypes'
  BY DEF Quiet, state, NetInv, NetTypes, KnownTypes
<1>3. server' = server
  BY DEF Outside
<1>4. PICK k : k = Idle
  OBVIOUS
<1>5. k.at = "idle"
  BY <1>4 DEF Idle
<1>6. ASSUME Found(calls[c]), Believed(calls[c])  PROVE Found(k)' /\ Believed(k)'
  BY <1>5, <1>6, OfflineSame, LapsesSame DEF Found, Believed, Quiet, state
<1>7. calls' = [calls EXCEPT ![c] = k]
  BY <1>4 DEF Ends
<1> QED  BY <1>1, <1>2, <1>3, <1>4, <1>6, <1>7, NetGoes

\* The call finds its device, or is told that there is none.
LEMMA ResolveInv == ASSUME NetInv, OneAtATime, NEW c \in Callers, ResolveDevice(c)  PROVE NetInv'
<1>1. CASE /\ NAt(c, "resolve") /\ Ends(c) /\ Outside /\ Quiet /\ UNCHANGED state
  BY <1>1, AnswerInv DEF NAt
<1>2. CASE /\ NAt(c, "resolve")
           /\ Moves(c, IF reconciled THEN "decide" ELSE "probe")
           /\ reconciled' = TRUE /\ UNCHANGED <<mode, host, pf, handler>> /\ Outside /\ Quiet
  <2> PICK at \in {"decide", "probe"} : at = (IF reconciled THEN "decide" ELSE "probe")
    OBVIOUS
  <2>1. (at = "probe" => reconciled = FALSE) /\ Moves(c, at) /\ at \in NetLabels
      /\ calls[c].at = "resolve"
    BY <1>2 DEF NetInv, NetTypes, KnownTypes, NetLabels, NAt
  <2>2. Offline' = Offline /\ pf' = pf /\ host' = host /\ rule' = rule
        /\ Held' = Held /\ Swept' = Swept /\ server' = server /\ reconciled' = TRUE
    BY <1>2, LapsesSame DEF Offline, Quiet, Outside
  <2>3. ASSUME Found(calls[c]), Believed(calls[c]), NEW k \in NetCall, k.at = at
        PROVE  Found(k)' /\ Believed(k)'
    BY <2>1, <2>2, <2>3 DEF Found, Believed
  <2>4. KnownTypes'
    BY <1>2, <2>2 DEF NetInv, NetTypes, KnownTypes
  <2> QED  BY <2>1, <2>2, <2>3, <2>4, NetRuns
<1> QED  BY <1>1, <1>2 DEF ResolveDevice

\* The devices said to be offline, after one is said to be in a mode.
LEMMA ModeSet ==
  ASSUME NetInv, NEW d \in Sims, NEW m \in {"online", "offline"}, mode' = [mode EXCEPT ![d] = m]
  PROVE  /\ mode' \in [Sims -> {"online", "offline"}]
         /\ Offline' = IF m = "offline" THEN Offline \cup {d} ELSE Offline \ {d}
  BY DEF NetInv, NetTypes, KnownTypes, Offline

\* The rule is lifted with the last device that is offline.
LEMMA DecideOnlineInv == ASSUME NetInv, OneAtATime, NEW c \in Callers, DecideOnline(c)
  PROVE NetInv'
<1> PICK d \in Sims : d = calls[c].dev
  <2>1. calls[c] \in NetCall
    BY InFlight DEF DecideOnline, NAt
  <2> QED  BY <2>1 DEF NetCall
<1> PICK at \in {"revert", "done"} :
      at = IF mode[d] = "offline" /\ Offline = {d} /\ host # "none" THEN "revert" ELSE "done"
  OBVIOUS
<1> PICK was \in {"online", "offline"} : was = mode[d]
  BY DEF NetInv, NetTypes, KnownTypes
<1>1. /\ calls[c].at = "decide" /\ UNCHANGED <<host, pf, reconciled>> /\ server' = server
      /\ UNCHANGED <<rule, lapses>> /\ mode' = [mode EXCEPT ![d] = "online"]
      /\ calls' = [calls EXCEPT ![c].at = at, ![c].was = was]
  <2>1. calls' = [calls EXCEPT ![c].at = at, ![c].was = was]
    BY DEF DecideOnline
  <2> QED  BY <2>1 DEF DecideOnline, NAt, Outside, Quiet
<1>2. /\ mode' \in [Sims -> {"online", "offline"}] /\ Offline' = Offline \ {d}
      /\ Held' = Held /\ Swept' = Swept
  BY <1>1, ModeSet, LapsesSame
<1>3. /\ at = "revert" => was = "offline" /\ Offline = {d} /\ host # "none"
      /\ at = "done" => ~(was = "offline" /\ Offline = {d} /\ host # "none")
      /\ was = "offline" => d \in Offline
      /\ was = "online" => d \notin Offline
  BY DEF Offline
<1>4. ASSUME Found(calls[c]), Believed(calls[c]), NEW k \in NetCall, k.at = at, k.was = was
      PROVE  Found(k)' /\ Believed(k)'
  <2>1. CASE at = "revert"
    BY <1>1, <1>2, <1>3, <1>4, <2>1 DEF Found, Believed
  <2>2. CASE at = "done"
    <3>1. Offline # {} => Offline' # {}
      BY <1>1, <1>2, <1>3, <1>4, <2>2 DEF Believed
    <3>2. Offline = {} => Offline' = {}
      BY <1>2
    <3> QED  BY <1>1, <1>2, <1>4, <2>2, <3>1, <3>2 DEF Found, Believed
  <2> QED  BY <2>1, <2>2
<1>5. KnownTypes'
  BY <1>1, <1>2 DEF NetInv, NetTypes, KnownTypes
<1>6. /\ calls[c] \in NetCall /\ calls[c] # Idle
      /\ server = "up" => Found(calls[c]) /\ Believed(calls[c])
  BY <1>1, InFlight
<1>7. PICK k \in NetCall : k = [calls[c] EXCEPT !.at = at, !.was = was] /\ k.at = at /\ k.was = was
  <2> DEFINE k == [calls[c] EXCEPT !.at = at, !.was = was]
  <2>1. k \in NetCall /\ k.at = at /\ k.was = was
    BY <1>6 DEF NetCall, NetLabels
  <2>2. k = [calls[c] EXCEPT !.at = at, !.was = was]
    OBVIOUS
  <2> HIDE DEF k
  <2> QED  BY <2>1, <2>2
<1>8. calls' = [calls EXCEPT ![c] = k]
  BY <1>1, <1>7
<1>9. server = "up" => Found(k)' /\ Believed(k)'
  BY <1>4, <1>6, <1>7
<1> QED  BY <1>1, <1>5, <1>6, <1>8, <1>9, NetGoes

\* The rule is lifted for a call that sets a device online.
LEMMA RevertInv == ASSUME NetInv, OneAtATime, NEW c \in Callers, Revert(c)  PROVE NetInv'
<1> USE DEF NetLabels
<1>1. CASE pf /\ Asks(c, "revert", "flush")
  BY <1>1, NetAsksInv DEF Found, Believed
<1>2. CASE ~pf /\ Asks(c, "revert", "reverted")
  BY <1>2, NetAsksInv DEF Found, Believed
<1>3. CASE Runs(c, "flush", FALSE, "flushed", "unflushed")
  BY <1>3, NetRunsInv
<1>4. CASE /\ NAt(c, "flushed") /\ Moves(c, "reverted")
           /\ pf' = FALSE /\ UNCHANGED <<mode, host, reconciled>> /\ Outside /\ Quiet
  <2>1. calls[c].at = "flushed" /\ KnownTypes'
    BY <1>4 DEF NAt, Quiet, NetInv, NetTypes, KnownTypes
  <2>2. /\ pf' = FALSE /\ Offline' = Offline /\ host' = host /\ reconciled' = reconciled
           /\ rule' = rule
        /\ Held' = Held /\ Swept' = Swept /\ server' = server
    BY <1>4, LapsesSame DEF Offline, Quiet, Outside
  <2>3. ASSUME Found(calls[c]), Believed(calls[c]), NEW k \in NetCall, k.at = "reverted"
        PROVE  Found(k)' /\ Believed(k)'
    BY <2>1, <2>2, <2>3 DEF Found, Believed
  <2> QED  BY <1>4, <2>1, <2>2, <2>3, NetRuns
<1>5. CASE /\ NAt(c, "unflushed") /\ Moves(c, "done")
           /\ mode' = [mode EXCEPT ![calls[c].dev] = calls[c].was]
           /\ UNCHANGED <<host, pf, reconciled>> /\ Outside /\ Quiet
  <2>1. calls[c].at = "unflushed" /\ calls[c].dev \in Sims /\ calls[c].was \in {"online", "offline"}
    BY <1>5, InFlight DEF NAt, NetCall
  <2>2. mode' \in [Sims -> {"online", "offline"}] /\ (calls[c].was = "offline" => Offline' # {})
    BY <1>5, <2>1, ModeSet
  <2>3. /\ pf' = pf /\ host' = host /\ reconciled' = reconciled /\ rule' = rule
        /\ Held' = Held /\ Swept' = Swept /\ server' = server
    BY <1>5, LapsesSame DEF Quiet, Outside
  <2>4. KnownTypes'
    BY <2>2, <2>3 DEF NetInv, NetTypes, KnownTypes
  <2>5. ASSUME Found(calls[c]), Believed(calls[c]), NEW k \in NetCall, k.at = "done"
        PROVE  Found(k)' /\ Believed(k)'
    BY <2>1, <2>2, <2>3, <2>5 DEF Found, Believed
  <2> QED  BY <1>5, <2>1, <2>3, <2>4, <2>5, NetRuns
<1>6. CASE /\ NAt(c, "reverted") /\ Moves(c, "done") /\ host' = "none"
           /\ UNCHANGED <<mode, pf, reconciled>> /\ Outside /\ Quiet
  <2>1. calls[c].at = "reverted" /\ KnownTypes'
    BY <1>6 DEF NAt, Quiet, NetInv, NetTypes, KnownTypes
  <2>2. /\ pf' = pf /\ Offline' = Offline /\ host' = "none" /\ reconciled' = reconciled
           /\ rule' = rule
        /\ Held' = Held /\ Swept' = Swept /\ server' = server
    BY <1>6, LapsesSame DEF Offline, Quiet, Outside
  <2>3. ASSUME Found(calls[c]), Believed(calls[c]), NEW k \in NetCall, k.at = "done"
        PROVE  Found(k)' /\ Believed(k)'
    BY <2>1, <2>2, <2>3 DEF Found, Believed
  <2> QED  BY <1>6, <2>1, <2>2, <2>3, NetRuns
<1> QED  BY <1>1, <1>2, <1>3, <1>4, <1>5, <1>6 DEF Revert

\* The rule is applied, and the device is said to be offline.
LEMMA ApplyInv == ASSUME NetInv, OneAtATime, NEW c \in Callers, Apply(c)  PROVE NetInv'
<1> USE DEF NetLabels
<1>1. CASE AskFails(c, "apply", "done")
  BY <1>1, NetAskFailsInv
<1>2. CASE pf /\ Asks(c, "apply", "applied")
  <2>1. pf = TRUE
    BY <1>2 DEF NetInv, NetTypes, KnownTypes
  <2> QED  BY <1>2, <2>1, NetAsksInv DEF Found, Believed
<1>3. CASE ~pf /\ Asks(c, "apply", "load")
  <2>1. pf = FALSE
    BY <1>3 DEF NetInv, NetTypes, KnownTypes
  <2> QED  BY <1>3, <2>1, NetAsksInv DEF Found, Believed
<1>4. CASE Runs(c, "load", TRUE, "loaded", "done")
  BY <1>4, NetRunsInv
<1>5. CASE /\ NAt(c, "loaded") /\ Moves(c, "applied")
           /\ pf' = TRUE /\ UNCHANGED <<mode, host, reconciled>> /\ Outside /\ Quiet
  <2>1. calls[c].at = "loaded" /\ KnownTypes'
    BY <1>5 DEF NAt, Quiet, NetInv, NetTypes, KnownTypes
  <2>2. /\ pf' = TRUE /\ Offline' = Offline /\ host' = host /\ reconciled' = reconciled
           /\ rule' = rule
        /\ Held' = Held /\ Swept' = Swept /\ server' = server
    BY <1>5, LapsesSame DEF Offline, Quiet, Outside
  <2>3. ASSUME Found(calls[c]), Believed(calls[c]), NEW k \in NetCall, k.at = "applied"
        PROVE  Found(k)' /\ Believed(k)'
    BY <2>1, <2>2, <2>3 DEF Found, Believed
  <2> QED  BY <1>5, <2>1, <2>2, <2>3, NetRuns
<1>6. CASE /\ NAt(c, "applied") /\ Moves(c, "done")
           /\ host' = calls[c].by /\ mode' = [mode EXCEPT ![calls[c].dev] = "offline"]
           /\ UNCHANGED <<pf, reconciled>> /\ Outside /\ Quiet
  <2>1. calls[c].at = "applied" /\ calls[c].dev \in Sims /\ calls[c].by \in {"auto", "pfctl", "nlc"}
    BY <1>6, InFlight DEF NAt, NetCall
  <2>2. mode' \in [Sims -> {"online", "offline"}] /\ Offline' # {}
    BY <1>6, <2>1, ModeSet
  <2>3. /\ pf' = pf /\ host' \in {"auto", "pfctl", "nlc"} /\ reconciled' = reconciled
           /\ rule' = rule
        /\ Held' = Held /\ Swept' = Swept /\ server' = server
    BY <1>6, <2>1, LapsesSame DEF Quiet, Outside
  <2>4. KnownTypes'
    BY <2>2, <2>3 DEF NetInv, NetTypes, KnownTypes
  <2>5. ASSUME Found(calls[c]), Believed(calls[c]), NEW k \in NetCall, k.at = "done"
        PROVE  Found(k)' /\ Believed(k)'
    <3>1. pf = TRUE /\ reconciled = TRUE
      BY <2>1, <2>5 DEF Found
    <3>2. host' # "none"
      BY <2>3
    <3> QED  BY <2>1, <2>2, <2>3, <2>5, <3>1, <3>2 DEF Found, Believed
  <2> QED  BY <1>6, <2>1, <2>3, <2>4, <2>5, NetRuns
<1> QED  BY <1>1, <1>2, <1>3, <1>4, <1>5, <1>6 DEF Apply

\* A call begins when no other is under way.
LEMMA NetBeginInv == ASSUME NetInv, OneAtATime', NEW c \in Callers, Begin(c)  PROVE NetInv'
<1> PICK d \in Sims, want \in {"online", "offline", "get"}, by \in {"auto", "pfctl", "nlc"} :
      calls' = [calls EXCEPT ![c] = [at |-> "resolve", dev |-> d, want |-> want, by |-> by,
                                     was |-> mode[d]]]
  BY DEF Begin
<1> PICK k : k = [at |-> "resolve", dev |-> d, want |-> want, by |-> by, was |-> mode[d]]
  OBVIOUS
<1>1. k \in NetCall /\ k.at = "resolve" /\ k # Idle
  <2>1. mode[d] \in {"online", "offline"}
    BY DEF NetInv, NetTypes, KnownTypes
  <2>2. k \in NetCall /\ k.at = "resolve"
    BY <2>1 DEF NetCall, NetLabels
  <2> QED  BY <2>2 DEF Idle
<1>2. /\ calls' = [calls EXCEPT ![c] = k] /\ calls[c] = Idle /\ server = "up" /\ server' = server
      /\ UNCHANGED <<rule, lapses>> /\ UNCHANGED state
  BY DEF Begin, Quiet
<1>3. calls'[c] = k /\ \A e \in Callers : e # c => calls'[e] = Idle /\ calls[e] = Idle
  BY <1>1, <1>2 DEF OneAtATime, NetInv, NetTypes, KnownTypes
<1>4. Believed(Idle)
  BY <1>2, <1>3 DEF NetInv, NetUp
<1>5. Found(k)' /\ Believed(k)'
  <2>1. /\ pf' = pf /\ host' = host /\ reconciled' = reconciled /\ Offline' = Offline
          /\ Held' = Held /\ Swept' = Swept
    BY <1>2, OfflineSame, LapsesSame DEF state
  <2>2. Idle.at = "idle"
    BY DEF Idle
  <2> QED  BY <1>1, <1>2, <1>4, <2>1, <2>2 DEF Found, Believed
<1>6. NetTypes'
  BY <1>1, <1>2 DEF NetInv, NetTypes, KnownTypes, state
<1>7. NetUp' /\ NetDown'
  BY <1>1, <1>2, <1>3, <1>5 DEF NetUp, NetDown
<1> QED  BY <1>6, <1>7 DEF NetInv

\* A server that is gone knows nothing, and the calls it had are gone with it.
LEMMA GoneInv == ASSUME NetInv, Gone  PROVE NetInv'
<1>1. Offline' = {}
  BY DEF Gone, Offline
<1>2. rule' \in BOOLEAN
  BY DEF Gone, NetInv, NetTypes, KnownTypes
<1>3. NetTypes'
  BY <1>2 DEF Gone, NetInv, NetTypes, KnownTypes
<1>4. NetUp' /\ NetDown'
  BY <1>1 DEF Gone, NetUp, NetDown
<1> QED  BY <1>3, <1>4 DEF NetInv

\* What becomes of the server and the devices from outside.
LEMMA ServerInv ==
  ASSUME NetInv, Signal \/ Drain \/ Exit \/ Kill \/ Restart
  PROVE  NetInv'
<1>1. CASE Signal
  <2>1. NetTypes'
    BY <1>1 DEF Signal, Quiet, state, NetInv, NetTypes, KnownTypes
  <2> QED  BY <1>1, <2>1 DEF Signal, NetInv, NetUp, NetDown
<1>2. CASE Drain
  <2>1. NetTypes'
    BY <1>2 DEF Drain, state, NetInv, NetTypes, KnownTypes
  <2> QED  BY <1>2, <2>1 DEF Drain, NetInv, NetUp, NetDown
<1>3. CASE Exit \/ Kill
  BY <1>3, GoneInv DEF Exit, Kill
<1>4. CASE Restart
  <2>1. NetTypes'
    BY <1>4 DEF Restart, Quiet, state, NetInv, NetTypes, KnownTypes
  <2>2. /\ pf' = FALSE /\ host' = "none" /\ reconciled' = FALSE /\ Offline' = {}
        /\ \A c \in Callers : calls'[c] = Idle
    BY <1>4, OfflineSame DEF Restart, state, NetInv, NetDown
  <2>3. Believed(Idle)'
    BY <2>2 DEF Believed
  <2> QED  BY <1>4, <2>1, <2>2, <2>3 DEF Restart, NetInv, NetUp, NetDown
<1> QED  BY <1>1, <1>2, <1>3, <1>4

\* Every step keeps the strengthening, while calls come one at a time.
LEMMA NetStepInv == NetInv /\ OneAtATime /\ OneAtATime' /\ [NetworkNext]_nvars => NetInv'
<1> SUFFICES ASSUME NetInv, OneAtATime, OneAtATime', [NetworkNext]_nvars  PROVE NetInv'
  OBVIOUS
<1>1. CASE UNCHANGED nvars
  <2>1. UNCHANGED <<rule, mode, host, pf, reconciled, server, calls, lapses>>
    BY <1>1 DEF nvars
  <2> QED  BY <2>1 DEF NetInv, NetTypes, KnownTypes, NetUp, NetDown, Found, Believed, Offline,
                 Held, Swept, LeftBehind
<1>2. ASSUME NEW c \in Callers, Begin(c) \/ DeviceNetworkSet(c)  PROVE NetInv'
  <2>1. CASE Answer(c)
    BY <2>1, AnswerInv DEF Answer, NAt
  <2> QED  BY <1>2, <2>1, NetBeginInv, ResolveInv, ReconcileInv, DecideOnlineInv, RevertInv,
      DecideOfflineInv,
              ApplyInv DEF DeviceNetworkSet
<1> QED  BY <1>1, <1>2, ServerInv DEF NetworkNext

\* What the strengthening says of a host with no call under way.
LEMMA NetInvTold == NetInv => OfflineIsBlocked /\ BlockHasAReason
<1> SUFFICES ASSUME NetInv, Settled  PROVE /\ Offline # {} /\ Held => rule
                                           /\ reconciled /\ rule /\ Swept => Offline # {}
  BY DEF OfflineIsBlocked, BlockHasAReason, Held, Swept
<1>1. Believed(Idle) /\ Idle.at = "idle"
  BY DEF NetInv, NetUp, Settled, Idle
<1> QED  BY <1>1 DEF Believed, NetInv, NetTypes, KnownTypes

-----------------------------------------------------------------------------
(* The parts of the host together. *)

\* The pages' rules are those of their interceptor once nothing is under way.
THEOREM PagesFollowTheirRules == McpSpec => []PageFollowsRules
BY McpInitInv, McpStepInv, McpInvFollows, PTL DEF McpSpec

\* When calls that set or read the network come one at a time, the host is blocked while a device
\* is recorded as offline, whatever fails but a flush that took effect all the same.
THEOREM OfflineBlocks == NetworkSpec /\ []OneAtATime => []OfflineIsBlocked
<1>1. NetInv => OfflineIsBlocked
  BY NetInvTold
<1> QED BY <1>1, NetInitInv, NetStepInv, PTL DEF NetworkSpec

\* ... and between calls it is blocked for no other reason, whatever fails and whenever the
\* server ends, unless this server's own reconciliation failed or a load took effect although
\* it was reported as failed.
THEOREM BlocksForAReason == NetworkSpec /\ []OneAtATime => []BlockHasAReason
<1>1. NetInv => BlockHasAReason
  BY NetInvTold
<1> QED BY <1>1, NetInitInv, NetStepInv, PTL DEF NetworkSpec

\* The strengthenings of the parts that keep something of a page.
PagesInv == McpInv /\ TabInv /\ LogInv /\ HarInv /\ FilmInv

hostVars == <<part, vars, nvars, mvars, ivars, tabvars, capvars>>

\* A step is one of a part, and leaves the others as they are.
LEMMA HostStepInv == PagesInv /\ [HostNext]_hostVars => PagesInv'
<1> SUFFICES ASSUME PagesInv, [HostNext]_hostVars PROVE PagesInv'
  OBVIOUS
<1>1. [McpNext]_mvars
  BY DEF HostNext, hostVars
<1>2. [TabNext]_tabvars
  BY DEF HostNext, hostVars
<1>3. [LogNext]_log /\ [HarNext]_har /\ [FilmNext]_film
  BY DEF HostNext, hostVars, capvars
<1>4. McpInv'
  BY <1>1, McpStepInv DEF PagesInv
<1>5. TabInv'
  BY <1>2, TabStepInv DEF PagesInv
<1>6. LogInv' /\ HarInv' /\ FilmInv'
  BY <1>3, LogStepInv, HarStepInv, FilmStepInv DEF PagesInv
<1> QED BY <1>4, <1>5, <1>6 DEF PagesInv

\* The parts start, and go on, with their strengthenings.
LEMMA HostInvHolds == HostSpec => []PagesInv
<1>1. HostInit => PagesInv
  BY McpInitInv, TabInitInv, LogInitInv, HarInitInv, FilmInitInv DEF HostInit, PagesInv
<1> QED BY <1>1, HostStepInv, PTL DEF HostSpec, hostVars

\* No tab of a device is lost, for any number of calls, tabs and pools.
THEOREM TabsKept == HostSpec => []TabsAreHeld
<1>1. PagesInv => TabsAreHeld
  BY TabInvHeld DEF PagesInv
<1> QED BY <1>1, HostInvHolds, PTL

\* Whoever was told that a log is collected hears it, for any sessions and buffers.
THEOREM LogsHeard == HostSpec => []LogsHear
<1>1. PagesInv => LogsHear
  BY LogInvHears DEF PagesInv
<1> QED BY <1>1, HostInvHolds, PTL

\* A HAR capture has what its page did, for any captures and entries.
THEOREM HarTold == HostSpec => []HarIsTrue
<1>1. PagesInv => HarIsTrue
  BY HarInvTrue DEF PagesInv
<1> QED BY <1>1, HostInvHolds, PTL

\* Every recording that runs can be stopped, for any calls and recordings.
THEOREM FilmsOwned == HostSpec => []FilmsAreOwned
<1>1. PagesInv => FilmsAreOwned
  BY FilmInvOwned DEF PagesInv
<1> QED BY <1>1, HostInvHolds, PTL

=============================================================================
