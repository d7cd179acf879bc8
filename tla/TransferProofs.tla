---------------------------- MODULE TransferProofs ----------------------------
(***************************************************************************)
(* What registrations and transfers leave behind is in order: the history  *)
(* of a chart tells every state that was sent for it, the stored results   *)
(* add up, the slots are ranked, the next body is not refused for the      *)
(* histories' keys, and what is left can be exported and comes back from   *)
(* a file as it was.  For any charts, bodies, times and limits.            *)
(***************************************************************************)
EXTENDS Transfer, FiniteSetTheorems, WellFoundedInduction, TLAPS

-----------------------------------------------------------------------------
(* The invariant, over the rows of one player or of one file *)

\* Rows in the order of their times.
Ordered(e, n, rows) ==
  /\ e \in [1 .. n -> rows]
  /\ \A h \in rows : \E k \in 1 .. n : e[k] = h
  /\ \A j, k \in 1 .. n : j < k => e[j].at < e[k].at

StateOK(state) == state \in State /\ ValidState(state)

RowOK(row, upTo) ==
  /\ row = [state |-> row.state, slot |-> row.slot, order |-> row.order, at |-> row.at]
  /\ StateOK(row.state) /\ row.slot \in Slot /\ row.at \in Seconds /\ row.at <= upTo

\* What a chart's record was is older than it, strictly while no second had two bodies.
PastOK(row, past, busy) ==
  \A h \in past :
    /\ h = [state |-> h.state, at |-> h.at]
    /\ StateOK(h.state) /\ h.at \in Seconds /\ h.at <= row.at /\ (~busy => h.at < row.at)

\* The states that were sent are the history's in the order of their times, and the record's.
Tells(told, row, past) ==
  \E n \in 0 .. MaxHistory : \E e \in [1 .. n -> past] :
    Ordered(e, n, past) /\ told = Append([k \in 1 .. n |-> e[k].state], row.state)

ToldOK(c, row, past, told) ==
  /\ told \in Seq(State) /\ Len(told) \in 1 .. MaxHistory + 1 /\ told[Len(told)] = row.state
  /\ c \in HasHistory => Tells(told, row, past)

PastOf(hist, c) == IF c \in DOMAIN hist THEN hist[c] ELSE {}

ChartsOK(p, rows, hist, told, busy) ==
  /\ DOMAIN rows \subseteq Chart /\ DOMAIN hist \subseteq HasHistory \cap DOMAIN rows
  /\ DOMAIN told = DOMAIN rows
  /\ \A c \in DOMAIN rows :
       /\ RowOK(rows[c], p.collected) /\ PastOK(rows[c], PastOf(hist, c), busy)
       /\ ToldOK(c, rows[c], PastOf(hist, c), told[c])

\* No two records of a slot have one rank, and those of no slot have none.
SlotsOK(rows) ==
  /\ \A c \in DOMAIN rows :
       /\ rows[c].slot = "none" => rows[c].order = Absent
       /\ rows[c].slot # "none" =>
            rows[c].order # Absent /\ rows[c].order \in 1 .. SlotLimit[rows[c].slot]
  /\ \A c, d \in DOMAIN rows :
       rows[c].slot = rows[d].slot /\ rows[c].slot # "none" /\ rows[c].order = rows[d].order
         => c = d

\* The main slots have no gap.
MainOK(rows) ==
  \A slot \in {"best", "new"} :
    {rows[c].order : c \in InSlot(rows, slot)} = 1 .. Cardinality(InSlot(rows, slot))

MetricsOK(p, busy) ==
  /\ p.collected \in Seconds /\ ValidMetrics(p.metrics)
  /\ IsFiniteSet(p.past) /\ Cardinality(p.past) <= MaxMetrics /\ AtOnce(p.past)
  /\ \A m \in p.past :
       /\ m = [metrics |-> m.metrics, at |-> m.at] /\ ValidMetrics(m.metrics)
       /\ m.at \in Seconds /\ m.at <= p.collected /\ (~busy => m.at < p.collected)

\* The player and its records are as a body says.
Reflected(b, p, rows) ==
  /\ p.metrics = Metrics(b)
  /\ \A c \in DOMAIN Upserts(b) :
       c \in DOMAIN rows /\ rows[c].state = StateOf(Upserts(b)[c])

Naming(p, c) == {u \in p.updates : c \in DOMAIN u.result.charts}
After(p, c, u) == {v \in Naming(p, c) : v.at > u.at}
AddUp(p, rows) ==
  \A c \in DOMAIN rows : \A u \in Naming(p, c) :
    \/ After(p, c, u) = {} /\ rows[c].state = u.result.charts[c].after
    \/ \E v \in After(p, c, u) :
         /\ v.result.charts[c].before = u.result.charts[c].after
         /\ \A w \in After(p, c, u) : v.at <= w.at

\* Updates are told apart by their times; that of the last second is what there is now.
UpdatesOK(p, rows, busy) ==
  /\ IsFiniteSet(p.updates) /\ Cardinality(p.updates) <= MaxUpdates /\ AtOnce(p.updates)
  /\ \A u \in p.updates :
       /\ u.at \in CollectTime /\ u.body \in Body /\ RoundedSecond(u.at) <= p.collected
       /\ DOMAIN u.result.charts \subseteq DOMAIN rows
       /\ ~busy /\ RoundedSecond(u.at) = p.collected => Reflected(u.body, p, rows)
  /\ ~busy => AddUp(p, rows)
  /\ p.updates # {} => MainOK(rows)

PlayerOK(p, rows, hist, told, busy) ==
  /\ ChartsOK(p, rows, hist, told, busy) /\ SlotsOK(rows)
  /\ MetricsOK(p, busy) /\ UpdatesOK(p, rows, busy)

PlayerInv(p, rows, hist, told, busy) ==
  IF p = Playerless THEN rows = <<>> /\ hist = <<>> /\ told = <<>> /\ busy = FALSE
  ELSE PlayerOK(p, rows, hist, told, busy)

CoursesOK(results) ==
  /\ DOMAIN results \subseteq Course
  /\ \A k \in DOMAIN results :
       results[k] = [state |-> results[k].state, at |-> results[k].at] /\ ValidCourse(results[k].state)

\* A file is what an export makes of a player.
FileOK(f) ==
  /\ f = [collected |-> f.collected, metrics |-> f.metrics, past |-> f.past,
          records |-> f.records, histories |-> f.histories, courses |-> f.courses,
          about |-> [sent |-> f.about.sent, crowded |-> f.about.crowded]]
  /\ f.about.crowded \in BOOLEAN
  /\ f.about.sent = [c \in DOMAIN f.about.sent |-> f.about.sent[c]]
  /\ \A e \in f.records :
       e = [chart |-> e.chart, state |-> e.state, slot |-> e.slot, order |-> e.order, at |-> e.at]
  /\ \A e \in f.histories : e = [chart |-> e.chart, state |-> e.state, at |-> e.at]
  /\ \A e \in f.courses : e = [course |-> e.course, state |-> e.state, at |-> e.at]
  /\ ChartsOnce(f.records) /\ \A e, g \in f.courses : e.course = g.course => e = g
  /\ PlayerOK(ImportedPlayer(f), RecordRows(f), HistoryRows(f), f.about.sent, f.about.crowded)
  /\ CoursesOK(CourseRows(f))

\* The rows of the player are those of the file.
From(f) ==
  /\ player = ImportedPlayer(f) /\ records = RecordRows(f) /\ histories = HistoryRows(f)
  /\ courses = CourseRows(f) /\ sent = f.about.sent /\ crowded = f.about.crowded

TransferInv ==
  /\ PlayerInv(player, records, histories, sent, crowded)
  /\ CoursesOK(courses) /\ liveCourses \subseteq Course /\ crowded \in BOOLEAN
  /\ deleted \subseteq Deletable /\ files \in 0 .. MaxFiles
  /\ \A f \in {file, origin} : f # NoFile => FileOK(f)
  /\ Imported => origin # NoFile /\ From(origin)

-----------------------------------------------------------------------------
(* Whole seconds *)

LEMMA SecondsAreNat ==
  /\ \A t \in CollectTime : RoundedSecond(t) \in Seconds
  /\ Seconds \subseteq Nat
<1>1. TicksPerSecond \in Nat \ {0} /\ CollectTime \subseteq Nat
  BY RegistrationAssumption
<1>2. \A a \in Nat : \A k \in Nat \ {0} : a \div k \in Nat
  BY SMT
<1>3. TicksPerSecond \div 2 \in Nat
  BY <1>1, <1>2
<1>4. \A t \in CollectTime : (t + TicksPerSecond \div 2) \div TicksPerSecond \in Nat
  <2> TAKE t \in CollectTime
  <2>1. t + TicksPerSecond \div 2 \in Nat
    BY <1>1, <1>3
  <2> QED
    BY <1>1, <1>2, <2>1
<1> QED
  BY <1>4 DEF Seconds, RoundedSecond

LEMMA RoundsUp ==
  ASSUME NEW t \in CollectTime, NEW s \in Int, s * TicksPerSecond <= t
  PROVE  s <= RoundedSecond(t)
<1>1. TicksPerSecond \in Nat \ {0} /\ t \in Nat
  BY RegistrationAssumption
<1>2. PICK h \in Nat : h = TicksPerSecond \div 2
  BY <1>1, SMT
<1>3. \A a \in Nat : \A k \in Nat \ {0} : \A z \in Int : z * k <= a => z <= a \div k
  BY SMT
<1>4. t + h \in Nat /\ s * TicksPerSecond <= t + h
  BY <1>1, <1>2
<1>5. s <= (t + h) \div TicksPerSecond
  BY <1>1, <1>3, <1>4
<1> QED
  BY <1>2, <1>5 DEF RoundedSecond

LEMMA RoundsInOrder ==
  ASSUME NEW t \in CollectTime, NEW u \in CollectTime, RoundedSecond(u) < RoundedSecond(t)
  PROVE  u < t
<1>1. TicksPerSecond \in Nat \ {0} /\ t \in Nat /\ u \in Nat
  BY RegistrationAssumption
<1>2. PICK h \in Nat : h = TicksPerSecond \div 2
  BY <1>1, SMT
<1>3. \A a \in Nat, z \in Nat : \A k \in Nat \ {0} : a <= z => a \div k <= z \div k
  BY SMT
<1>4. RoundedSecond(u) \in Nat /\ RoundedSecond(t) \in Nat
  BY SecondsAreNat
<1>5. SUFFICES ASSUME t <= u PROVE FALSE
  BY <1>1
<1>6. t + h \in Nat /\ u + h \in Nat /\ t + h <= u + h
  BY <1>1, <1>2, <1>5
<1>7. (t + h) \div TicksPerSecond <= (u + h) \div TicksPerSecond
  BY <1>1, <1>3, <1>6
<1> QED
  BY <1>2, <1>4, <1>7 DEF RoundedSecond

-----------------------------------------------------------------------------
(* Rows in the order of their times *)

Older(rows, at) == {h \in rows : h.at < at}
Newer(rows, at) == {h \in rows : h.at > at}

LEMMA OrderedCounts ==
  ASSUME NEW n \in Nat, NEW rows, NEW e, Ordered(e, n, rows), \A h \in rows : h.at \in Int
  PROVE  /\ IsFiniteSet(rows) /\ Cardinality(rows) = n /\ AtOnce(rows)
         /\ \A k \in 1 .. n : /\ Cardinality(Older(rows, e[k].at)) = k - 1
                              /\ Cardinality(Newer(rows, e[k].at)) = n - k
<1>1. /\ e \in [1 .. n -> rows]
      /\ \A h \in rows : \E k \in 1 .. n : e[k] = h
      /\ \A j, k \in 1 .. n : j < k => e[j].at < e[k].at
  BY DEF Ordered
<1>2. \A j, k \in 1 .. n : e[j].at = e[k].at => j = k
  BY <1>1
<1>3. e \in Bijection(1 .. n, rows)
  BY <1>1, <1>2 DEF Bijection, Injection, Surjection, IsInjective
<1>4. IsFiniteSet(1 .. n) /\ Cardinality(1 .. n) = n
  BY FS_Interval
<1>5. IsFiniteSet(rows) /\ Cardinality(rows) = n
  BY <1>3, <1>4, FS_Bijection DEF ExistsBijection
<1>6. AtOnce(rows)
  <2> SUFFICES ASSUME NEW g \in rows, NEW h \in rows, g.at = h.at PROVE g = h
    BY DEF AtOnce
  <2>1. PICK j \in 1 .. n : e[j] = g
    BY <1>1
  <2>2. PICK k \in 1 .. n : e[k] = h
    BY <1>1
  <2> QED
    BY <1>2, <2>1, <2>2
<1>7. ASSUME NEW k \in 1 .. n
      PROVE  /\ Cardinality(Older(rows, e[k].at)) = k - 1
             /\ Cardinality(Newer(rows, e[k].at)) = n - k
  <2> DEFINE below == {h \in rows : h.at < e[k].at}
             above == {h \in rows : h.at > e[k].at}
             f == [j \in 1 .. k - 1 |-> e[j]]
             g == [j \in 1 .. n - k |-> e[j + k]]
  <2>1. \A j \in 1 .. n : e[j] \in rows /\ e[j].at \in Int
    BY <1>1
  <2>2. \A j \in 1 .. n : e[j].at < e[k].at <=> j < k
    BY <1>1, <1>2, <2>1
  <2>3. \A j \in 1 .. n : e[j].at > e[k].at <=> j > k
    BY <1>1, <1>2, <2>1
  <2>4. f \in Bijection(1 .. k - 1, below)
    <3>1. \A j \in 1 .. k - 1 : j \in 1 .. n /\ j < k
      OBVIOUS
    <3>2. f \in [1 .. k - 1 -> below]
      BY <2>1, <2>2, <3>1
    <3>3. \A i, j \in 1 .. k - 1 : f[i] = f[j] => i = j
      BY <1>2, <3>1
    <3>4. \A h \in below : \E j \in 1 .. k - 1 : f[j] = h
      <4> TAKE h \in below
      <4>1. PICK j \in 1 .. n : e[j] = h
        BY <1>1
      <4>2. j \in 1 .. k - 1
        BY <2>2, <4>1
      <4> QED
        BY <4>1, <4>2
    <3> HIDE DEF f, below
    <3> QED
      BY <3>2, <3>3, <3>4 DEF Bijection, Injection, Surjection, IsInjective
  <2>5. g \in Bijection(1 .. n - k, above)
    <3>1. \A j \in 1 .. n - k : j + k \in 1 .. n /\ j + k > k
      OBVIOUS
    <3>2. g \in [1 .. n - k -> above]
      BY <2>1, <2>3, <3>1
    <3>3. \A i, j \in 1 .. n - k : g[i] = g[j] => i = j
      BY <1>2, <3>1
    <3>4. \A h \in above : \E j \in 1 .. n - k : g[j] = h
      <4> TAKE h \in above
      <4>1. PICK j \in 1 .. n : e[j] = h
        BY <1>1
      <4>2. j - k \in 1 .. n - k /\ (j - k) + k = j
        BY <2>3, <4>1
      <4> QED
        BY <4>1, <4>2
    <3> HIDE DEF g, above
    <3> QED
      BY <3>2, <3>3, <3>4 DEF Bijection, Injection, Surjection, IsInjective
  <2>6. k - 1 \in Nat /\ n - k \in Nat
    OBVIOUS
  <2> HIDE DEF f, g, below, above
  <2>7. Cardinality(below) = k - 1 /\ Cardinality(above) = n - k
    BY <2>4, <2>5, <2>6, FS_CountingElements DEF ExistsBijection
  <2> QED
    BY <2>7 DEF below, above, Older, Newer
<1> QED
  BY <1>5, <1>6, <1>7

\* The timeline is the history in the order of its times, and the record.
LEMMA TimelineInOrder ==
  ASSUME NEW c, NEW n \in Nat, NEW e, Ordered(e, n, History(c)),
         \A h \in History(c) : h.at \in Int
  PROVE  Timeline(c) = Append([k \in 1 .. n |-> e[k].state], records[c].state)
<1> DEFINE past == History(c)
           rank(h) == Cardinality(Older(past, h.at)) + 1
           place(k) == CHOOSE h \in past : rank(h) = k
<1>1. Cardinality(past) = n /\ \A k \in 1 .. n : Cardinality(Older(past, e[k].at)) = k - 1
  BY OrderedCounts
<1>2. \A k \in 1 .. n : e[k] \in past /\ rank(e[k]) = k
  BY <1>1 DEF Ordered
<1>3. \A h \in past : \E k \in 1 .. n : e[k] = h
  BY DEF Ordered
<1> HIDE DEF rank, past
<1>4. \A k \in 1 .. n : place(k) = e[k]
  BY <1>2, <1>3
<1>5. [k \in 1 .. Cardinality(past) |-> place(k).state] = [k \in 1 .. n |-> e[k].state]
  <2>1. 1 .. Cardinality(past) = 1 .. n
    BY <1>1
  <2> HIDE DEF place
  <2>2. \A k \in 1 .. n : place(k).state = e[k].state
    BY <1>4
  <2> QED
    BY <2>1, <2>2
<1>6. Timeline(c) = Append([k \in 1 .. Cardinality(past) |-> place(k).state], records[c].state)
  BY DEF Timeline, rank, past, Older
<1> QED
  BY <1>5, <1>6

\* A row that is newer than all comes last.
LEMMA NewestLast ==
  ASSUME NEW n \in Nat, NEW rows, NEW e, Ordered(e, n, rows),
         NEW new, new.at \in Int, \A h \in rows : h.at \in Int /\ h.at < new.at
  PROVE  Ordered([k \in 1 .. n + 1 |-> IF k = n + 1 THEN new ELSE e[k]], n + 1, rows \cup {new})
<1> DEFINE all == rows \cup {new}
           e1 == [k \in 1 .. n + 1 |-> IF k = n + 1 THEN new ELSE e[k]]
<1>1. /\ e \in [1 .. n -> rows]
      /\ \A h \in rows : \E k \in 1 .. n : e[k] = h
      /\ \A j, k \in 1 .. n : j < k => e[j].at < e[k].at
  BY DEF Ordered
<1>2. \A k \in 1 .. n : e1[k] = e[k] /\ e[k] \in rows
  BY <1>1
<1>3. e1[n + 1] = new /\ \A k \in 1 .. n + 1 : k \in 1 .. n \/ k = n + 1
  OBVIOUS
<1>4. e1 \in [1 .. n + 1 -> all]
  BY <1>2, <1>3
<1>5. \A h \in all : \E k \in 1 .. n + 1 : e1[k] = h
  <2> TAKE h \in all
  <2>1. CASE h = new
    BY <2>1, <1>3
  <2>2. CASE h \in rows
    <3>1. PICK k \in 1 .. n : e[k] = h
      BY <1>1, <2>2
    <3>2. k \in 1 .. n + 1 /\ e1[k] = h
      BY <1>2, <3>1
    <3> QED
      BY <3>2
  <2> QED
    BY <2>1, <2>2
<1>6. \A j, k \in 1 .. n + 1 : j < k => e1[j].at < e1[k].at
  BY <1>1, <1>2, <1>3
<1> QED
  BY <1>4, <1>5, <1>6 DEF Ordered

\* Of one row too many the first goes.
LEMMA NewestOrdered ==
  ASSUME NEW z \in Nat, NEW m \in Nat \ {0}, NEW all, NEW e, Ordered(e, z, all),
         \A h \in all : h.at \in Int
  PROVE  /\ z <= m => Newest(all, m) = all
         /\ z = m + 1 => Ordered([k \in 1 .. m |-> e[k + 1]], m, Newest(all, m))
<1>1. /\ e \in [1 .. z -> all]
      /\ \A h \in all : \E k \in 1 .. z : e[k] = h
      /\ \A j, k \in 1 .. z : j < k => e[j].at < e[k].at
  BY DEF Ordered
<1>2. \A k \in 1 .. z : Cardinality(Newer(all, e[k].at)) = z - k
  BY OrderedCounts
<1>3. Newest(all, m) = {h \in all : Cardinality(Newer(all, h.at)) < m}
  BY DEF Newest, Newer
<1>4. \A k \in 1 .. z : e[k] \in Newest(all, m) <=> z - k < m
  BY <1>1, <1>2, <1>3
<1>5. Newest(all, m) \subseteq all
  BY <1>3
<1>6. ASSUME z <= m PROVE Newest(all, m) = all
  BY <1>1, <1>4, <1>5, <1>6
<1>7. ASSUME z = m + 1
      PROVE  Ordered([k \in 1 .. m |-> e[k + 1]], m, Newest(all, m))
  <2> DEFINE f == [k \in 1 .. m |-> e[k + 1]]
             kept == Newest(all, m)
  <2>1. \A k \in 1 .. m : k + 1 \in 1 .. z /\ z - (k + 1) < m
    BY <1>7
  <2>2. \A k \in 1 .. m : f[k] = e[k + 1] /\ f[k] \in kept
    BY <1>4, <2>1
  <2>3. \A h \in kept : \E k \in 1 .. m : f[k] = h
    <3> TAKE h \in kept
    <3>1. PICK k \in 1 .. z : h = e[k] /\ z - k < m
      BY <1>1, <1>4, <1>5
    <3>2. k - 1 \in 1 .. m /\ (k - 1) + 1 = k
      BY <1>7, <3>1
    <3> QED
      BY <2>2, <3>1, <3>2
  <2>4. \A j, k \in 1 .. m : j < k => f[j].at < f[k].at
    BY <1>1, <2>1, <2>2
  <2>5. f \in [1 .. m -> kept]
    BY <2>2
  <2> HIDE DEF f, kept
  <2>6. Ordered(f, m, kept)
    BY <2>3, <2>4, <2>5 DEF Ordered
  <2> QED
    BY <2>6 DEF f, kept
<1> QED
  BY <1>6, <1>7

\* The states that are sent, with one that is new.
SentOn(told, state) ==
  LET all == Append(told, state)
  IN IF Len(all) > MaxHistory + 1 THEN Tail(all) ELSE all

LEMMA TellsOn ==
  ASSUME NEW row, NEW past, NEW told \in Seq(State), Tells(told, row, past),
         row.at \in Int, \A h \in past : h.at \in Int /\ h.at < row.at,
         NEW next, next.state \in State
  PROVE  Tells(SentOn(told, next.state), next,
               Newest(past \cup {[state |-> row.state, at |-> row.at]}, MaxHistory))
<1>0. MaxHistory \in Nat \ {0}
  BY RegistrationAssumption
<1>1. PICK n \in 0 .. MaxHistory : \E e \in [1 .. n -> past] :
        Ordered(e, n, past) /\ told = Append([k \in 1 .. n |-> e[k].state], row.state)
  BY DEF Tells
<1>2. PICK e \in [1 .. n -> past] :
        Ordered(e, n, past) /\ told = Append([k \in 1 .. n |-> e[k].state], row.state)
  BY <1>1
<1>3. n \in Nat /\ n <= MaxHistory
  BY <1>0
<1> DEFINE new == [state |-> row.state, at |-> row.at]
           f == [k \in 1 .. n + 1 |-> IF k = n + 1 THEN new ELSE e[k]]
           all == past \cup {new}
           g == [k \in 1 .. MaxHistory |-> f[k + 1]]
           s == next.state
<1>4. Ordered(f, n + 1, all)
  <2>1. new.at \in Int /\ \A h \in past : h.at \in Int /\ h.at < new.at
    OBVIOUS
  <2> HIDE DEF new
  <2> QED
    BY <1>2, <1>3, <2>1, NewestLast
<1>5. \A h \in all : h.at \in Int
  OBVIOUS
<1>6. Len(told) = n + 1 /\ told = [k \in 1 .. n + 1 |-> f[k].state]
  <2>1. told = Append([k \in 1 .. n |-> e[k].state], row.state)
    BY <1>2
  <2>2. DOMAIN [k \in 1 .. n |-> e[k].state] = 1 .. n
    OBVIOUS
  <2> QED
    BY <1>3, <2>1
<1> HIDE DEF f, g, s, all, new
<1>7. s \in State /\ Len(Append(told, s)) = n + 2
  BY <1>3, <1>6 DEF s
<1>8. CASE n < MaxHistory
  <2>1. SentOn(told, s) = Append([k \in 1 .. n + 1 |-> f[k].state], s)
    BY <1>0, <1>3, <1>6, <1>7, <1>8 DEF SentOn
  <2>2. PICK z \in 0 .. MaxHistory : z = n + 1
    BY <1>0, <1>3, <1>8
  <2>3. Ordered(f, z, all) /\ z \in Nat /\ z <= MaxHistory
    BY <1>0, <1>4, <2>2
  <2>4. Newest(all, MaxHistory) = all
    BY <1>0, <1>5, <2>3, NewestOrdered
  <2>5. f \in [1 .. z -> all] /\ SentOn(told, s) = Append([k \in 1 .. z |-> f[k].state], s)
    BY <2>1, <2>2, <2>3 DEF Ordered
  <2>6. Tells(SentOn(told, s), next, Newest(all, MaxHistory))
    BY <2>2, <2>3, <2>4, <2>5 DEF Tells, s
  <2> QED
    BY <2>6 DEF s, all, new
<1>9. CASE n = MaxHistory
  <2> DEFINE told2 == SentOn(told, s)
             states == [k \in 1 .. MaxHistory |-> g[k].state]
  <2>1. told2 = Tail(Append(told, s))
    BY <1>0, <1>3, <1>7, <1>9 DEF SentOn
  <2>2. PICK z \in Nat : z = n + 1
    BY <1>3
  <2>3. Ordered(f, z, all) /\ z = MaxHistory + 1
    BY <1>4, <1>9, <2>2
  <2>4. Ordered(g, MaxHistory, Newest(all, MaxHistory))
    BY <1>0, <1>5, <2>3, NewestOrdered DEF g
  <2>5. told2 = Append(states, s)
    <3>1. \A k \in 1 .. MaxHistory : states[k] = f[k + 1].state
      BY DEF g
    <3>2. \A k \in 1 .. n + 1 : told[k] = f[k].state
      BY <1>6
    <3>3. DOMAIN states = 1 .. MaxHistory
      OBVIOUS
    <3> HIDE DEF states
    <3>4. told = [k \in 1 .. MaxHistory + 1 |-> f[k].state]
      BY <1>6, <1>9
    <3> QED
      BY <1>0, <1>7, <1>9, <2>1, <3>1, <3>2, <3>3, <3>4
  <2>6. g \in [1 .. MaxHistory -> Newest(all, MaxHistory)]
    BY <2>4 DEF Ordered
  <2>7. MaxHistory \in 0 .. MaxHistory
    BY <1>0
  <2> HIDE DEF told2
  <2>8. Tells(told2, next, Newest(all, MaxHistory))
    BY <2>4, <2>5, <2>6, <2>7 DEF Tells, s
  <2> QED
    BY <2>8 DEF told2, s, all, new
<1> QED
  BY <1>0, <1>3, <1>8, <1>9

LEMMA SentOnIsLast ==
  ASSUME NEW told \in Seq(State), NEW state \in State, Len(told) \in 1 .. MaxHistory + 1
  PROVE  /\ SentOn(told, state) \in Seq(State)
         /\ Len(SentOn(told, state)) \in 1 .. MaxHistory + 1
         /\ SentOn(told, state)[Len(SentOn(told, state))] = state
<1> DEFINE all == Append(told, state)
<1>1. /\ all \in Seq(State) /\ Len(all) = Len(told) + 1 /\ all[Len(told) + 1] = state
      /\ Len(told) \in Nat
  OBVIOUS
<1>2. MaxHistory \in Nat \ {0}
  BY RegistrationAssumption
<1> HIDE DEF all
<1>3. CASE Len(all) > MaxHistory + 1
  <2>1. SentOn(told, state) = Tail(all)
    BY <1>3 DEF SentOn, all
  <2>2. Len(told) > 1
    BY <1>1, <1>2, <1>3
  <2>3. /\ Tail(all) \in Seq(State) /\ Len(Tail(all)) = Len(told)
        /\ Tail(all)[Len(told)] = all[Len(told) + 1]
    BY <1>1, <2>2
  <2> QED
    BY <1>1, <1>2, <2>1, <2>2, <2>3
<1>4. CASE ~(Len(all) > MaxHistory + 1)
  BY <1>1, <1>2, <1>4 DEF SentOn, all
<1> QED
  BY <1>3, <1>4

-----------------------------------------------------------------------------
(* The newest of rows that are told apart by their times *)

LEMMA Least ==
  ASSUME NEW B \in SUBSET Nat, B # {}
  PROVE  \E n \in B : \A m \in B : n <= m
<1>1. IsWellFoundedOn(OpToRel(<, Nat), Nat)
  BY NatLessThanWellFounded
<1>2. PICK n \in B : \A m \in B : ~(<<m, n>> \in OpToRel(<, Nat))
  BY <1>1, WFMin
<1>3. n \in Nat /\ \A m \in B : m \in Nat /\ ~(m < n)
  BY <1>2 DEF OpToRel
<1> QED
  BY <1>3

LEMMA NewestIsSubset ==
  ASSUME NEW rows, NEW m
  PROVE  Newest(rows, m) \subseteq rows
BY DEF Newest

\* What is newer than a row that is kept is kept.
LEMMA NewestKeepsNewer ==
  ASSUME NEW rows, IsFiniteSet(rows), NEW m \in Nat, \A r \in rows : r.at \in Int,
         NEW u \in Newest(rows, m), NEW v \in rows, v.at > u.at
  PROVE  v \in Newest(rows, m)
<1>1. Newest(rows, m) = {h \in rows : Cardinality(Newer(rows, h.at)) < m}
  BY DEF Newest, Newer
<1>2. u \in rows /\ Cardinality(Newer(rows, u.at)) < m
  BY <1>1
<1>3. Newer(rows, v.at) \subseteq Newer(rows, u.at) /\ Newer(rows, u.at) \subseteq rows
  BY <1>2 DEF Newer
<1>4. IsFiniteSet(Newer(rows, u.at))
  BY <1>3, FS_Subset
<1>5. IsFiniteSet(Newer(rows, v.at)) /\ Cardinality(Newer(rows, v.at)) <= Cardinality(Newer(rows, u.at))
  BY <1>3, <1>4, FS_Subset
<1>6. Cardinality(Newer(rows, v.at)) \in Nat /\ Cardinality(Newer(rows, u.at)) \in Nat
  BY <1>4, <1>5, FS_CardinalityType
<1> QED
  BY <1>1, <1>2, <1>5, <1>6

\* The newest one is kept.
LEMMA NewestKeepsLast ==
  ASSUME NEW rows, NEW m \in Nat \ {0}, NEW u \in rows, \A r \in rows : ~(r.at > u.at)
  PROVE  u \in Newest(rows, m)
<1>1. Newer(rows, u.at) = {}
  BY DEF Newer
<1>2. Cardinality(Newer(rows, u.at)) = 0
  BY <1>1, FS_EmptySet
<1>3. Newest(rows, m) = {h \in rows : Cardinality(Newer(rows, h.at)) < m}
  BY DEF Newest, Newer
<1> QED
  BY <1>2, <1>3

LEMMA NewestBounded ==
  ASSUME NEW rows, IsFiniteSet(rows), NEW m \in Nat \ {0}, Cardinality(rows) <= m,
         \A r \in rows : r.at \in Nat, AtOnce(rows),
         NEW new, new.at \in Nat, \A r \in rows : r.at # new.at
  PROVE  /\ IsFiniteSet(Newest(rows \cup {new}, m)) /\ AtOnce(Newest(rows \cup {new}, m))
         /\ Cardinality(Newest(rows \cup {new}, m)) <= m
<1> DEFINE all == rows \cup {new}
<1>1. IsFiniteSet(all) /\ Cardinality(all) <= Cardinality(rows) + 1
  <2>1. Cardinality(rows) \in Nat
    BY FS_CardinalityType
  <2>2. /\ IsFiniteSet(all)
        /\ Cardinality(all) = IF new \in rows THEN Cardinality(rows) ELSE Cardinality(rows) + 1
    BY FS_AddElement
  <2> HIDE DEF all
  <2> QED
    BY <2>1, <2>2
<1>2. Cardinality(rows) \in Nat /\ Cardinality(all) \in Nat
  BY <1>1, FS_CardinalityType
<1>3. AtOnce(all)
  BY DEF AtOnce
<1>4. \A r \in all : r.at \in Nat
  OBVIOUS
<1>5. all # {}
  OBVIOUS
<1> HIDE DEF all
<1>6. PICK first \in all : \A r \in all : first.at <= r.at
  <2> DEFINE times == {r.at : r \in all}
  <2>1. times \in SUBSET Nat /\ times # {}
    BY <1>4, <1>5
  <2> HIDE DEF times
  <2>2. PICK n \in times : \A z \in times : n <= z
    BY <2>1, Least
  <2> QED
    BY <2>2 DEF times
<1>7. Newer(all, first.at) = all \ {first}
  BY <1>3, <1>4, <1>6 DEF Newer, AtOnce
<1>8. /\ IsFiniteSet(all \ {first}) /\ Cardinality(all \ {first}) = Cardinality(all) - 1
  BY <1>1, FS_RemoveElement
<1>9. Newest(all, m) = {h \in all : Cardinality(Newer(all, h.at)) < m}
  BY DEF Newest, Newer
<1>10. Newest(all, m) \subseteq all
  BY <1>9
<1>11. IsFiniteSet(Newest(all, m)) /\ AtOnce(Newest(all, m))
  BY <1>1, <1>3, <1>10, FS_Subset DEF AtOnce
<1>12. Cardinality(Newest(all, m)) <= m
  <2>1. CASE Cardinality(all) <= m
    <3>1. Cardinality(Newest(all, m)) <= Cardinality(all)
      BY <1>1, <1>10, FS_Subset
    <3> QED
      BY <1>2, <1>11, <2>1, <3>1, FS_CardinalityType
  <2>2. CASE Cardinality(all) = m + 1
    <3>1. Newest(all, m) \subseteq all \ {first}
      <4>1. Cardinality(Newer(all, first.at)) = m
        BY <1>7, <1>8, <2>2
      <4>2. first \notin Newest(all, m)
        BY <1>9, <4>1
      <4> QED
        BY <1>10, <4>2
    <3>2. Cardinality(Newest(all, m)) <= Cardinality(all \ {first})
      BY <1>8, <3>1, FS_Subset
    <3> QED
      BY <1>8, <2>2, <3>2
  <2> QED
    BY <1>1, <1>2, <2>1, <2>2
<1> QED
  BY <1>11, <1>12 DEF all

-----------------------------------------------------------------------------
(* Entries *)

\* Of the entries at some places, every chart has the last.
LEMMA LastOne ==
  ASSUME NEW entries, NEW n \in Nat, NEW places \in SUBSET (1 .. n),
         NEW c \in DOMAIN LastOfEach(entries, places)
  PROVE  \E k \in places :
           entries[k].chart = c /\ LastOfEach(entries, places)[c] = entries[k]
<1> DEFINE mine == {k \in places : entries[k].chart = c}
           left == {n - k : k \in mine}
           Last(k) == entries[k].chart = c /\ \A j \in places : j > k => entries[j].chart # c
<1>0. \A k \in places : k \in Int /\ 1 <= k /\ k <= n
  OBVIOUS
<1>1. c \in {entries[k].chart : k \in places}
  BY DEF LastOfEach
<1>2. mine # {}
  BY <1>1
<1>3. left \in SUBSET Nat /\ left # {}
  <2>1. \A k \in mine : n - k \in Nat /\ n - k \in left
    BY <1>0
  <2> QED
    BY <1>2, <2>1
<1>4. PICK z \in left : \A y \in left : z <= y
  <2> HIDE DEF left
  <2> QED
    BY <1>3, Least
<1>5. PICK k \in mine : z = n - k
  OBVIOUS
<1>6. k \in places /\ Last(k)
  <2>1. ASSUME NEW j \in places, j > k, entries[j].chart = c PROVE FALSE
    <3>1. n - j \in left
      BY <2>1
    <3>2. n - k <= n - j
      BY <1>4, <1>5, <3>1
    <3>3. j \in Int /\ k \in Int
      BY <1>0, <1>5
    <3> QED
      BY <2>1, <3>2, <3>3
  <2> QED
    BY <1>5, <2>1
<1>7. Last(CHOOSE j \in places : Last(j)) /\ (CHOOSE j \in places : Last(j)) \in places
  <2> HIDE DEF Last
  <2> QED
    BY <1>6
<1>8. LastOfEach(entries, places)[c] = entries[CHOOSE j \in places : Last(j)]
  BY <1>1 DEF LastOfEach
<1> QED
  BY <1>7, <1>8

LEMMA UpsertsAreEntries ==
  ASSUME NEW b \in Body, NEW c \in DOMAIN Upserts(b)
  PROVE  /\ Resolves(Upserts(b)[c]) /\ Upserts(b)[c].chart = c
         /\ Upserts(b)[c] \in Range(b.standard) \cup Range(b.worldsend)
<1> DEFINE X == Range(b.standard) \cup Range(b.worldsend)
<1>1. b.standard \in Seq(Range(b.standard)) /\ b.worldsend \in Seq(Range(b.worldsend))
  BY RegistrationAssumption
<1>2. b.standard \in Seq(X) /\ b.worldsend \in Seq(X)
  BY <1>1
<1> HIDE DEF X
<1>3. Entries(b) \in Seq(X)
  BY <1>2 DEF Entries
<1>4. PICK n \in Nat : n = Len(Entries(b))
  BY <1>3
<1>5. Resolved(Entries(b)) \in SUBSET (1 .. n)
  BY <1>3, <1>4 DEF Resolved
<1>6. c \in DOMAIN LastOfEach(Entries(b), Resolved(Entries(b)))
  BY DEF Upserts
<1>7. PICK k \in Resolved(Entries(b)) :
        Entries(b)[k].chart = c /\ Upserts(b)[c] = Entries(b)[k]
  BY <1>5, <1>6, LastOne DEF Upserts
<1>8. Resolves(Entries(b)[k]) /\ Entries(b)[k] \in X
  BY <1>3, <1>4, <1>5, <1>7 DEF Resolved
<1> QED
  BY <1>7, <1>8 DEF X

-----------------------------------------------------------------------------
(* One chart *)

LEMMA UpsertStates ==
  ASSUME NEW b \in Body, Valid(b), NEW c \in DOMAIN Upserts(b)
  PROVE  /\ c \in Chart /\ StateOK(StateOf(Upserts(b)[c]))
         /\ Default(Upserts(b)[c].slot, "none") \in Slot
<1> DEFINE e == Upserts(b)[c]
<1>1. Resolves(e) /\ e.chart = c /\ e \in Range(b.standard) \cup Range(b.worldsend)
  BY UpsertsAreEntries
<1>2. ValidScore(e)
  BY <1>1 DEF Valid
<1> HIDE DEF e
<1>3. StateOf(e) \in State /\ c \in Chart /\ Default(e.slot, "none") \in Slot
  BY <1>1 DEF Resolves
<1>4. /\ StateOf(e).score = e.score /\ StateOf(e).combo = Default(e.combo, 1)
      /\ StateOf(e).chain = Default(e.chain, 1)
  BY DEF StateOf
<1>5. StateOf(e).combo \in 1 .. 3 /\ StateOf(e).chain \in 1 .. 3
  BY <1>3 DEF State
<1>6. StateOf(e).combo # 1 => StateOf(e).combo = e.combo
  BY <1>4 DEF Default
<1>7. StateOf(e).chain # 1 => StateOf(e).chain = e.chain
  BY <1>4 DEF Default
<1>8. StateOf(e).combo = 3 => e.score >= 1000000
  BY <1>2, <1>6, SMT DEF ValidScore
<1>9. e.combo \in {2, 3} => StateOf(e).combo = e.combo
  BY <1>4, RegistrationAssumption DEF Default
<1>10. StateOf(e).chain # 1 => e.combo \in {2, 3}
  BY <1>2, <1>5, <1>7, SMT DEF ValidScore
<1>11. e.combo = 3 => e.combo \in {2, 3}
  OBVIOUS
<1>12. StateOf(e).score = 1010000 => StateOf(e).combo = 3
  BY <1>2, <1>4, <1>9, <1>11, SMT DEF ValidScore
<1>13. ValidState(StateOf(e))
  BY <1>4, <1>8, <1>9, <1>10, <1>12, SMT DEF ValidState
<1> QED
  BY <1>3, <1>13 DEF StateOK, e

\* A row that keeps its state and its time may change its slot.
LEMMA ChartMoved ==
  ASSUME NEW c, NEW row, NEW past, NEW told, NEW upTo \in Int, NEW busy,
         RowOK(row, upTo), PastOK(row, past, busy), ToldOK(c, row, past, told),
         NEW next, next.state = row.state, next.at = row.at, next.slot \in Slot,
         next = [state |-> next.state, slot |-> next.slot, order |-> next.order, at |-> next.at],
         NEW sec \in Int, upTo <= sec, NEW late, ~late => ~busy
  PROVE  RowOK(next, sec) /\ PastOK(next, past, late) /\ ToldOK(c, next, past, told)
<1>1. row.at \in Seconds /\ row.at <= upTo /\ StateOK(row.state)
  BY DEF RowOK
<1>2. row.at \in Int
  BY <1>1, SecondsAreNat
<1>3. RowOK(next, sec)
  BY <1>1, <1>2 DEF RowOK
<1>4. PastOK(next, past, late)
  BY DEF PastOK
<1>5. ToldOK(c, next, past, told)
  BY DEF ToldOK, Tells
<1> QED
  BY <1>3, <1>4, <1>5

LEMMA ChartChanged ==
  ASSUME NEW c, NEW row, NEW past, NEW told, NEW upTo \in Int, NEW busy,
         RowOK(row, upTo), PastOK(row, past, busy), ToldOK(c, row, past, told),
         c \in HasHistory => \A h \in past : h.at # row.at,
         c \notin HasHistory => past = {},
         NEW next, StateOK(next.state), next.slot \in Slot, next.at \in Seconds,
         next = [state |-> next.state, slot |-> next.slot, order |-> next.order, at |-> next.at],
         upTo <= next.at, NEW late, ~late => ~busy /\ upTo < next.at,
         NEW then, then = IF c \in HasHistory
                          THEN Newest(past \cup {[state |-> row.state, at |-> row.at]}, MaxHistory)
                          ELSE past
  PROVE  /\ RowOK(next, next.at) /\ PastOK(next, then, late)
         /\ ToldOK(c, next, then, SentOn(told, next.state))
<1>1. row.at \in Seconds /\ row.at <= upTo /\ StateOK(row.state)
  BY DEF RowOK
<1>2. row.at \in Int /\ next.at \in Int /\ row.at <= next.at
  BY <1>1, SecondsAreNat
<1>3. RowOK(next, next.at)
  BY <1>2 DEF RowOK
<1>4. told \in Seq(State) /\ next.state \in State
  BY DEF ToldOK, StateOK
<1>5. /\ SentOn(told, next.state) \in Seq(State)
      /\ Len(SentOn(told, next.state)) \in 1 .. MaxHistory + 1
      /\ SentOn(told, next.state)[Len(SentOn(told, next.state))] = next.state
  BY <1>4, SentOnIsLast DEF ToldOK
<1>0. \A x \in Seconds : x \in Int
  BY SecondsAreNat
<1>6. CASE c \notin HasHistory
  BY <1>3, <1>5, <1>6 DEF PastOK, ToldOK
<1>7. CASE c \in HasHistory
  <2> DEFINE new == [state |-> row.state, at |-> row.at]
  <2>1. then \subseteq past \cup {new}
    BY <1>7, NewestIsSubset
  <2>2. \A h \in past : h.at \in Int /\ h.at < row.at
    BY <1>2, <1>7, SecondsAreNat DEF PastOK
  <2>3. \A h \in past \cup {new} :
          /\ h = [state |-> h.state, at |-> h.at] /\ StateOK(h.state) /\ h.at \in Seconds
          /\ h.at <= row.at
    <3>1. new = [state |-> new.state, at |-> new.at] /\ new.state = row.state /\ new.at = row.at
      OBVIOUS
    <3> HIDE DEF new
    <3>2. /\ new = [state |-> new.state, at |-> new.at] /\ StateOK(new.state)
          /\ new.at \in Seconds /\ new.at <= row.at
      BY <1>1, <1>2, <3>1
    <3> QED
      BY <3>2 DEF PastOK
  <2>4. \A h \in then : /\ h = [state |-> h.state, at |-> h.at] /\ StateOK(h.state)
                        /\ h.at \in Seconds /\ h.at <= row.at
    BY <2>1, <2>3
  <2>5. \A h \in then : h.at <= next.at /\ (~late => h.at < next.at)
    <3> TAKE h \in then
    <3>1. h.at \in Int /\ h.at <= row.at
      BY <1>0, <2>4
    <3> QED
      BY <1>1, <1>2, <3>1
  <2>6. PastOK(next, then, late)
    BY <2>4, <2>5 DEF PastOK
  <2>7. Tells(told, row, past)
    BY <1>7 DEF ToldOK
  <2>8. Tells(SentOn(told, next.state), next, then)
    BY <1>2, <1>4, <1>7, <2>2, <2>7, TellsOn
  <2> QED
    BY <1>3, <1>5, <2>6, <2>8 DEF ToldOK
<1> QED
  BY <1>6, <1>7

LEMMA ChartIsNew ==
  ASSUME NEW c, NEW next, StateOK(next.state), next.slot \in Slot, next.at \in Seconds,
         next = [state |-> next.state, slot |-> next.slot, order |-> next.order, at |-> next.at],
         NEW late
  PROVE  RowOK(next, next.at) /\ PastOK(next, {}, late) /\ ToldOK(c, next, {}, <<next.state>>)
<1>1. RowOK(next, next.at)
  BY SecondsAreNat DEF RowOK
<1>2. <<next.state>> \in Seq(State) /\ 1 \in 1 .. MaxHistory + 1
  BY RegistrationAssumption DEF StateOK
<1>3. PICK e : e = [k \in 1 .. 0 |-> 0]
  OBVIOUS
<1>4. Ordered(e, 0, {}) /\ e \in [1 .. 0 -> {}]
  BY <1>3 DEF Ordered
<1>5. <<next.state>> = Append([k \in 1 .. 0 |-> e[k].state], next.state)
  OBVIOUS
<1>6. 0 \in 0 .. MaxHistory
  BY RegistrationAssumption
<1>7. Tells(<<next.state>>, next, {})
  BY <1>4, <1>5, <1>6 DEF Tells
<1> QED
  BY <1>1, <1>2, <1>7 DEF PastOK, ToldOK

-----------------------------------------------------------------------------
(* What a registration leaves: the charts *)

LEMMA PlayerBefore ==
  ASSUME PlayerInv(player, records, histories, sent, crowded)
  PROVE  /\ ChartsOK(player, records, histories, sent, crowded) /\ SlotsOK(records)
         /\ UpdatesOK(player, records, crowded) /\ player.collected \in Int
         /\ IF player = Playerless THEN DOMAIN records = {} /\ player.past = {} /\ player.updates = {}
            ELSE MetricsOK(player, crowded)
<1>1. CASE player = Playerless
  <2>1. /\ DOMAIN records = {} /\ DOMAIN histories = {} /\ DOMAIN sent = {}
        /\ player.past = {} /\ player.updates = {} /\ player.collected = -1
    BY <1>1 DEF PlayerInv, Playerless
  <2>2. ChartsOK(player, records, histories, sent, crowded) /\ SlotsOK(records)
    BY <2>1 DEF ChartsOK, SlotsOK
  <2>3. IsFiniteSet({}) /\ Cardinality({}) <= MaxUpdates
    BY FS_EmptySet, RegistrationAssumption
  <2>4. UpdatesOK(player, records, crowded)
    BY <2>1, <2>3 DEF UpdatesOK, AtOnce, AddUp
  <2> QED
    BY <1>1, <2>1, <2>2, <2>4
<1>2. CASE player # Playerless
  <2>1. PlayerOK(player, records, histories, sent, crowded)
    BY <1>2 DEF PlayerInv
  <2>2. player.collected \in Int
    BY <2>1, SecondsAreNat DEF PlayerOK, MetricsOK
  <2> QED
    BY <1>2, <2>1, <2>2 DEF PlayerOK
<1> QED
  BY <1>1, <1>2

\* The body is of a later second than the player, or the player and its records are as it
\* says, or the second is crowded.
LEMMA RegisterTimes ==
  ASSUME PlayerInv(player, records, histories, sent, crowded),
         NEW b \in Body, NEW t \in CollectTime, Register(b, t)
  PROVE  /\ RoundedSecond(t) \in Seconds /\ player.collected <= RoundedSecond(t)
         /\ ~crowded' => /\ ~crowded
                         /\ \/ player.collected < RoundedSecond(t)
                            \/ /\ player.collected = RoundedSecond(t)
                               /\ \E u \in player.updates : u.at = t
                               /\ Reflected(b, player, records)
<1>1. RoundedSecond(t) \in Seconds /\ RoundedSecond(t) \in Int
  <2>1. RoundedSecond(t) \in Seconds /\ Seconds \subseteq Nat
    BY SecondsAreNat
  <2>2. RoundedSecond(t) \in Nat
    BY <2>1
  <2> QED
    BY <2>1, <2>2
<1>2. player.collected * TicksPerSecond <= t
  BY DEF Register, CollectedInOrder
<1>3. player.collected \in Int /\ UpdatesOK(player, records, crowded)
  BY PlayerBefore
<1>4. player.collected <= RoundedSecond(t)
  BY <1>2, <1>3, RoundsUp
<1>5. ASSUME ~crowded', player.collected = RoundedSecond(t)
      PROVE  /\ \E u \in player.updates : u.at = t
             /\ Reflected(b, player, records)
  <2>1. PICK u \in player.updates : u.at = t
    BY <1>5 DEF Register
  <2>2. u.body = b
    BY <2>1 DEF Register, SameBody
  <2>3. ~crowded
    BY <1>5 DEF Register
  <2>4. Reflected(u.body, player, records)
    BY <1>3, <1>5, <2>1, <2>3 DEF UpdatesOK
  <2> QED
    BY <2>1, <2>2, <2>4
<1>6. crowded => crowded'
  BY DEF Register
<1> QED
  BY <1>1, <1>3, <1>4, <1>5, <1>6

LEMMA Unranked ==
  ASSUME NEW row,
         row = [state |-> row.state, slot |-> row.slot, order |-> row.order, at |-> row.at]
  PROVE  [row EXCEPT !.slot = "none", !.order = Absent]
           = [state |-> row.state, slot |-> "none", order |-> Absent, at |-> row.at]
<1>1. PICK s, l, o, a : s = row.state /\ l = row.slot /\ o = row.order /\ a = row.at
  OBVIOUS
<1>2. row = [state |-> s, slot |-> l, order |-> o, at |-> a]
  BY <1>1
<1>3. PICK none, z : none = "none" /\ z = [row EXCEPT !.slot = none, !.order = Absent]
  OBVIOUS
<1>4. z = [state |-> s, slot |-> none, order |-> Absent, at |-> a]
  BY <1>2, <1>3
<1> QED
  BY <1>1, <1>3, <1>4

\* The row of a chart that a body names.
NamedRow(b, t, c) ==
  [state |-> StateOf(Upserts(b)[c]), slot |-> Default(Upserts(b)[c].slot, "none"),
   order |-> Upserts(b)[c].order,
   at |-> IF c \in DOMAIN records /\ records[c].state = StateOf(Upserts(b)[c])
          THEN records[c].at ELSE RoundedSecond(t)]
UnnamedRow(c) ==
  [state |-> records[c].state, slot |-> "none", order |-> Absent, at |-> records[c].at]

LEMMA RecordsAfter ==
  ASSUME PlayerInv(player, records, histories, sent, crowded),
         NEW b \in Body, NEW t \in CollectTime, Register(b, t)
  PROVE  /\ DOMAIN records' = (DOMAIN records) \cup DOMAIN Upserts(b)
         /\ \A c \in DOMAIN records' :
              records'[c] = IF c \in DOMAIN Upserts(b) THEN NamedRow(b, t, c) ELSE UnnamedRow(c)
<1> DEFINE up == Upserts(b)
           rows == Unslotted(records)
<1>1. records' = Saved(rows, up, t)
  BY DEF Register
<1>2. DOMAIN rows = DOMAIN records
  BY DEF Unslotted
<1>3. ASSUME NEW c \in DOMAIN records PROVE rows[c] = UnnamedRow(c)
  <2>1. rows[c] = [records[c] EXCEPT !.slot = "none", !.order = Absent]
    BY DEF Unslotted
  <2>2. RowOK(records[c], player.collected)
    BY PlayerBefore DEF ChartsOK
  <2> QED
    BY <2>1, <2>2, Unranked DEF RowOK, UnnamedRow
<1> HIDE DEF up, rows
<1>4. DOMAIN records' = (DOMAIN records) \cup DOMAIN up
  BY <1>1, <1>2 DEF Saved
<1>5. ASSUME NEW c \in DOMAIN up
      PROVE  records'[c] = [state |-> StateOf(up[c]), slot |-> Default(up[c].slot, "none"),
                            order |-> up[c].order, at |-> WrittenAt(c, up[c], t)]
  BY <1>1, <1>5 DEF Saved
<1>6. ASSUME NEW c \in DOMAIN up
      PROVE  WrittenAt(c, up[c], t) = IF c \in DOMAIN records /\ records[c].state = StateOf(up[c])
                                      THEN records[c].at ELSE RoundedSecond(t)
  BY DEF WrittenAt, Differs
<1>7. ASSUME NEW c \in DOMAIN records, c \notin DOMAIN up PROVE records'[c] = rows[c]
  BY <1>1, <1>2, <1>7 DEF Saved
<1> QED
  BY <1>3, <1>4, <1>5, <1>6, <1>7 DEF NamedRow, up

\* Charts whose record goes into its history.
Overwrites(b, c) ==
  /\ c \in HasHistory /\ c \in DOMAIN records /\ c \in DOMAIN Upserts(b)
  /\ records[c].state # StateOf(Upserts(b)[c])

LEMMA HistoryAfter ==
  ASSUME NEW b \in Body, NEW t \in CollectTime, Register(b, t)
  PROVE  /\ DOMAIN histories' \subseteq DOMAIN histories \cup (HasHistory \cap DOMAIN records)
         /\ \A c : PastOf(histories', c) =
              IF Overwrites(b, c)
              THEN Newest(PastOf(histories, c)
                            \cup {[state |-> records[c].state, at |-> records[c].at]}, MaxHistory)
              ELSE PastOf(histories, c)
<1>1. histories' = HistoriesAfter(b)
  BY DEF Register
<1>2. \A c : c \in Overwritten(b) <=> Overwrites(b, c)
  BY DEF Overwritten, Overwrites, Differs
<1>3. \A c : History(c) = PastOf(histories, c)
  BY DEF History, PastOf
<1>4. DOMAIN histories' = (DOMAIN histories) \cup Overwritten(b)
  BY <1>1 DEF HistoriesAfter
<1>5. ASSUME NEW c, c \in Overwritten(b)
      PROVE  PastOf(histories', c) =
               Newest(History(c) \cup {[state |-> records[c].state, at |-> records[c].at]},
                      MaxHistory)
  BY <1>1, <1>4, <1>5 DEF HistoriesAfter, PastOf
<1>6. ASSUME NEW c, c \notin Overwritten(b) PROVE PastOf(histories', c) = PastOf(histories, c)
  BY <1>1, <1>4, <1>6 DEF HistoriesAfter, PastOf
<1>7. Overwritten(b) \subseteq HasHistory \cap DOMAIN records
  BY DEF Overwritten
<1> QED
  BY <1>2, <1>3, <1>4, <1>5, <1>6, <1>7

LEMMA SentAfter ==
  ASSUME PlayerInv(player, records, histories, sent, crowded),
         NEW b \in Body, NEW t \in CollectTime, Register(b, t)
  PROVE  /\ DOMAIN sent' = (DOMAIN records) \cup DOMAIN Upserts(b)
         /\ \A c \in DOMAIN sent' :
              LET s == StateOf(Upserts(b)[c])
              IN sent'[c] = IF c \notin DOMAIN records THEN <<s>>
                            ELSE IF c \notin DOMAIN Upserts(b) \/ records[c].state = s THEN sent[c]
                            ELSE SentOn(sent[c], s)
<1>0. MaxHistory \in Nat \ {0}
  BY RegistrationAssumption
<1>1. ChartsOK(player, records, histories, sent, crowded)
  BY PlayerBefore
<1>2. sent' = [c \in DOMAIN sent \cup DOMAIN Upserts(b) |->
                 IF c \in DOMAIN Upserts(b) THEN Sent(c, StateOf(Upserts(b)[c])) ELSE sent[c]]
  BY DEF Register
<1>3. DOMAIN sent = DOMAIN records
  BY <1>1 DEF ChartsOK
<1>4. ASSUME NEW c \in DOMAIN records
      PROVE  /\ sent[c] \in Seq(State) /\ Len(sent[c]) \in 1 .. MaxHistory + 1
             /\ sent[c][Len(sent[c])] = records[c].state
  BY <1>1 DEF ChartsOK, ToldOK
<1>5. ASSUME NEW c \in DOMAIN records, NEW s
      PROVE  Sent(c, s) = IF records[c].state = s THEN sent[c] ELSE SentOn(sent[c], s)
  <2> DEFINE before == sent[c]
  <2>1. before # <<>> /\ before[Len(before)] = records[c].state
    BY <1>4
  <2>2. ~(Len(before) > MaxHistory + 1)
    BY <1>0, <1>4
  <2>3. Sent(c, s) =
          LET all == IF before # <<>> /\ before[Len(before)] = s THEN before
                     ELSE Append(before, s)
          IN IF Len(all) > MaxHistory + 1 THEN Tail(all) ELSE all
    BY <1>3 DEF Sent
  <2> QED
    BY <2>1, <2>2, <2>3 DEF SentOn
<1>6. ASSUME NEW c, c \notin DOMAIN records, NEW s PROVE Sent(c, s) = <<s>>
  <2>1. Sent(c, s) =
          LET all == Append(<<>>, s) IN IF Len(all) > MaxHistory + 1 THEN Tail(all) ELSE all
    BY <1>3, <1>6 DEF Sent
  <2>2. Append(<<>>, s) = <<s>> /\ Len(<<s>>) = 1
    OBVIOUS
  <2> QED
    BY <1>0, <2>1, <2>2
<1> QED
  BY <1>2, <1>3, <1>5, <1>6

\* What the chart c has after a registration, by where it comes from.
LEMMA RegisterChart ==
  ASSUME PlayerInv(player, records, histories, sent, crowded),
         NEW b \in Body, NEW t \in CollectTime, Register(b, t), NEW c \in DOMAIN records'
  PROVE  /\ c \in Chart /\ RowOK(records'[c], RoundedSecond(t))
         /\ PastOK(records'[c], PastOf(histories', c), crowded')
         /\ ToldOK(c, records'[c], PastOf(histories', c), sent'[c])
<1> DEFINE up == Upserts(b)
           s == StateOf(Upserts(b)[c])
           sec == RoundedSecond(t)
           past == PastOf(histories, c)
<1>1. /\ ChartsOK(player, records, histories, sent, crowded) /\ player.collected \in Int
  BY PlayerBefore
<1>2. /\ sec \in Seconds /\ player.collected <= sec
      /\ ~crowded' => /\ ~crowded
                      /\ \/ player.collected < sec
                         \/ Reflected(b, player, records)
  BY RegisterTimes
<1>3. sec \in Int
  <2>1. sec \in Seconds /\ Seconds \subseteq Nat
    BY <1>2, SecondsAreNat
  <2> HIDE DEF sec
  <2>2. sec \in Nat
    BY <2>1
  <2> QED
    BY <2>2
<1>4. /\ c \in (DOMAIN records) \cup DOMAIN up
      /\ records'[c] = IF c \in DOMAIN up THEN NamedRow(b, t, c) ELSE UnnamedRow(c)
  BY RecordsAfter
<1>5. PastOf(histories', c) =
        IF Overwrites(b, c)
        THEN Newest(past \cup {[state |-> records[c].state, at |-> records[c].at]}, MaxHistory)
        ELSE past
  BY HistoryAfter
<1>6. sent'[c] = IF c \notin DOMAIN records THEN <<s>>
                 ELSE IF c \notin DOMAIN up \/ records[c].state = s THEN sent[c]
                 ELSE SentOn(sent[c], s)
  BY <1>4, SentAfter
<1>7. Valid(b)
  BY DEF Register, Acceptable
<1>8. c \in DOMAIN up => /\ c \in Chart /\ StateOK(s)
                         /\ Default(Upserts(b)[c].slot, "none") \in Slot
  BY <1>7, UpsertStates
<1>9. c \in DOMAIN records =>
        /\ c \in Chart /\ RowOK(records[c], player.collected)
        /\ PastOK(records[c], past, crowded) /\ ToldOK(c, records[c], past, sent[c])
        /\ c \notin HasHistory => past = {}
  BY <1>1 DEF ChartsOK, PastOf
<1>10. c \notin DOMAIN records => past = {}
  BY <1>1 DEF ChartsOK, PastOf
<1> PICK row, next, then, told, late :
      /\ row = records[c] /\ next = records'[c] /\ then = PastOf(histories', c)
      /\ told = sent'[c] /\ late = crowded'
  OBVIOUS
<1> HIDE DEF up, s, sec, past
<1>11. CASE c \in DOMAIN records /\ (c \notin DOMAIN up \/ records[c].state = s)
  <2>1. next = IF c \in DOMAIN up THEN NamedRow(b, t, c) ELSE UnnamedRow(c)
    BY <1>4
  <2>2. /\ next.state = row.state /\ next.at = row.at /\ next.slot \in Slot
        /\ next = [state |-> next.state, slot |-> next.slot, order |-> next.order, at |-> next.at]
    <3>1. CASE c \in DOMAIN up
      BY <1>8, <1>11, <2>1, <3>1 DEF NamedRow, s, up
    <3>2. CASE c \notin DOMAIN up
      BY <2>1, <3>2 DEF UnnamedRow, Slot
    <3> QED
      BY <3>1, <3>2
  <2>3. then = past /\ told = sent[c]
    BY <1>5, <1>6, <1>11 DEF Overwrites, s, up
  <2>4. RowOK(next, sec) /\ PastOK(next, past, late) /\ ToldOK(c, next, past, sent[c])
    BY <1>1, <1>2, <1>3, <1>9, <1>11, <2>2, ChartMoved
  <2> QED
    BY <1>9, <1>11, <2>3, <2>4 DEF sec
<1>12. CASE c \in DOMAIN records /\ c \in DOMAIN up /\ records[c].state # s
  <2>1. next = NamedRow(b, t, c)
    BY <1>4, <1>12
  <2>2. /\ next.state = s /\ next.at = sec /\ next.slot \in Slot
        /\ next = [state |-> next.state, slot |-> next.slot, order |-> next.order, at |-> next.at]
    BY <1>8, <1>12, <2>1 DEF NamedRow, s, up, sec
  <2>3. then = IF c \in HasHistory
               THEN Newest(past \cup {[state |-> row.state, at |-> row.at]}, MaxHistory)
               ELSE past
    BY <1>5, <1>12 DEF Overwrites, s, up
  <2>4. told = SentOn(sent[c], s)
    BY <1>6, <1>12
  <2>5. c \in HasHistory => \A h \in past : h.at # row.at
    <3> SUFFICES ASSUME c \in HasHistory PROVE \A h \in past : h.at # row.at
      OBVIOUS
    <3>1. c \in Overwritten(b)
      BY <1>12 DEF Overwritten, Differs, s, up
    <3>2. ~HistoryConflict(b)
      BY DEF Register
    <3>3. History(c) = past
      BY DEF History, PastOf, past
    <3> QED
      BY <3>1, <3>2, <3>3 DEF HistoryConflict
  <2>6. ~late => ~crowded /\ player.collected < next.at
    <3>1. ~Reflected(b, player, records)
      BY <1>12 DEF Reflected, s, up
    <3> QED
      BY <1>2, <2>2, <3>1
  <2>7. /\ RowOK(row, player.collected) /\ PastOK(row, past, crowded)
        /\ ToldOK(c, row, past, sent[c]) /\ (c \notin HasHistory => past = {})
    BY <1>9, <1>12
  <2>8. /\ StateOK(next.state) /\ next.at \in Seconds /\ player.collected <= next.at
    BY <1>2, <1>8, <1>12, <2>2
  <2>9. /\ RowOK(next, next.at) /\ PastOK(next, then, late)
        /\ ToldOK(c, next, then, SentOn(sent[c], next.state))
    BY <1>1, <2>2, <2>3, <2>5, <2>6, <2>7, <2>8, ChartChanged
  <2> QED
    BY <1>9, <1>12, <2>2, <2>4, <2>9 DEF sec
<1>13. CASE c \notin DOMAIN records
  <2>1. c \in DOMAIN up /\ next = NamedRow(b, t, c)
    BY <1>4, <1>13
  <2>2. /\ next.state = s /\ next.at = sec /\ next.slot \in Slot
        /\ next = [state |-> next.state, slot |-> next.slot, order |-> next.order, at |-> next.at]
    BY <1>8, <1>13, <2>1 DEF NamedRow, s, up, sec
  <2>3. then = {} /\ told = <<next.state>>
    BY <1>5, <1>6, <1>10, <1>13, <2>2 DEF Overwrites
  <2>4. StateOK(next.state) /\ next.at \in Seconds
    BY <1>2, <1>8, <2>1, <2>2
  <2>5. RowOK(next, next.at) /\ PastOK(next, {}, late) /\ ToldOK(c, next, {}, <<next.state>>)
    BY <2>2, <2>4, ChartIsNew
  <2> QED
    BY <1>8, <2>1, <2>2, <2>3, <2>5 DEF sec
<1> QED
  BY <1>11, <1>12, <1>13

LEMMA RegisterCharts ==
  ASSUME PlayerInv(player, records, histories, sent, crowded),
         NEW b \in Body, NEW t \in CollectTime, Register(b, t)
  PROVE  ChartsOK(player', records', histories', sent', crowded')
<1>1. ChartsOK(player, records, histories, sent, crowded)
  BY PlayerBefore
<1>2. player'.collected = RoundedSecond(t)
  BY DEF Register, NewPlayer
<1>3. DOMAIN sent' = DOMAIN records' /\ DOMAIN records \subseteq DOMAIN records'
  BY RecordsAfter, SentAfter
<1>4. DOMAIN histories' \subseteq HasHistory \cap DOMAIN records'
  BY <1>1, <1>3, HistoryAfter DEF ChartsOK
<1>5. \A c \in DOMAIN records' :
         /\ c \in Chart /\ RowOK(records'[c], player'.collected)
         /\ PastOK(records'[c], PastOf(histories', c), crowded')
         /\ ToldOK(c, records'[c], PastOf(histories', c), sent'[c])
  BY <1>2, RegisterChart
<1> QED
  BY <1>3, <1>4, <1>5 DEF ChartsOK

-----------------------------------------------------------------------------
(* What a registration leaves: the slots and the metrics *)

LEMMA RowFields ==
  ASSUME NEW b, NEW t, NEW c
  PROVE  /\ NamedRow(b, t, c).slot = Default(Upserts(b)[c].slot, "none")
         /\ NamedRow(b, t, c).order = Upserts(b)[c].order
         /\ NamedRow(b, t, c).state = StateOf(Upserts(b)[c])
         /\ UnnamedRow(c).slot = "none" /\ UnnamedRow(c).order = Absent
         /\ UnnamedRow(c).state = records[c].state
<1> PICK s, l, o, a : /\ s = StateOf(Upserts(b)[c]) /\ l = Default(Upserts(b)[c].slot, "none")
                      /\ o = Upserts(b)[c].order
                      /\ a = IF c \in DOMAIN records /\ records[c].state = StateOf(Upserts(b)[c])
                            THEN records[c].at ELSE RoundedSecond(t)
  OBVIOUS
<1>1. NamedRow(b, t, c) = [state |-> s, slot |-> l, order |-> o, at |-> a]
  BY DEF NamedRow
<1>2. UnnamedRow(c).slot = "none" /\ UnnamedRow(c).order = Absent
      /\ UnnamedRow(c).state = records[c].state
  BY DEF UnnamedRow
<1> QED
  BY <1>1, <1>2

LEMMA RegisterInSlot ==
  ASSUME PlayerInv(player, records, histories, sent, crowded),
         NEW b \in Body, NEW t \in CollectTime, Register(b, t),
         NEW slot \in Slot \ {"none"}
  PROVE  /\ InSlot(records', slot) = InSlot(Upserts(b), slot)
         /\ \A c \in InSlot(Upserts(b), slot) : records'[c].order = Upserts(b)[c].order
<1> DEFINE up == Upserts(b)
<1>1. /\ DOMAIN records' = (DOMAIN records) \cup DOMAIN up
      /\ \A c \in DOMAIN records' :
           records'[c] = IF c \in DOMAIN up THEN NamedRow(b, t, c) ELSE UnnamedRow(c)
  BY RecordsAfter
<1>2. \A c \in DOMAIN up :
        /\ c \in DOMAIN records' /\ records'[c].slot = Default(up[c].slot, "none")
        /\ records'[c].order = up[c].order
  BY <1>1, RowFields
<1>3. \A c \in DOMAIN records' : c \notin DOMAIN up => records'[c].slot = "none"
  BY <1>1, RowFields
<1>4. \A x : Default(Default(x, "none"), "none") = Default(x, "none")
  BY DEF Default
<1>5. Default("none", "none") = "none"
  BY DEF Default
<1> HIDE DEF up
<1>6. InSlot(up, slot) \subseteq DOMAIN up
  BY DEF InSlot
<1>7. \A c : c \in InSlot(records', slot) <=> c \in InSlot(up, slot)
  BY <1>1, <1>2, <1>3, <1>4, <1>5 DEF InSlot
<1> QED
  BY <1>2, <1>6, <1>7 DEF up

LEMMA RegisterSlots ==
  ASSUME PlayerInv(player, records, histories, sent, crowded),
         NEW b \in Body, NEW t \in CollectTime, Register(b, t)
  PROVE  SlotsOK(records') /\ MainOK(records')
<1> DEFINE up == Upserts(b)
<1>1. /\ DOMAIN records' = (DOMAIN records) \cup DOMAIN up
      /\ \A c \in DOMAIN records' :
           records'[c] = IF c \in DOMAIN up THEN NamedRow(b, t, c) ELSE UnnamedRow(c)
  BY RecordsAfter
<1>2. ValidSlots(up)
  BY DEF Register, Acceptable
<1>3. \A slot \in Slot \ {"none"} :
        /\ InSlot(records', slot) = InSlot(up, slot)
        /\ \A c \in InSlot(up, slot) : records'[c].order = up[c].order
  BY RegisterInSlot
<1>4. ASSUME NEW c \in DOMAIN records'
      PROVE  /\ records'[c].slot \in Slot
             /\ records'[c].slot = "none" => records'[c].order = Absent
             /\ records'[c].slot # "none" => c \in InSlot(up, records'[c].slot)
  <2>1. CASE c \in DOMAIN up
    <3>1. records'[c].slot = Default(up[c].slot, "none") /\ records'[c].order = up[c].order
      BY <1>1, <2>1, RowFields
    <3>2. records'[c].slot \in Slot
      BY <2>1, <3>1, UpsertStates DEF Register, Acceptable
    <3>3. c \in InSlot(up, records'[c].slot)
      BY <2>1, <3>1 DEF InSlot
    <3> QED
      BY <1>2, <3>1, <3>2, <3>3 DEF ValidSlots
  <2>2. CASE c \notin DOMAIN up
    BY <1>1, <2>2, RowFields DEF Slot
  <2> QED
    BY <2>1, <2>2
<1> HIDE DEF up
<1>5. \A slot \in Slot \ {"none"} :
        /\ \A c \in InSlot(up, slot) : up[c].order # Absent /\ up[c].order \in 1 .. SlotLimit[slot]
        /\ \A c, d \in InSlot(up, slot) : up[c].order = up[d].order => c = d
  BY <1>2 DEF ValidSlots
<1>6. \A slot \in {"best", "new"} :
        {up[c].order : c \in InSlot(up, slot)} = 1 .. Cardinality(InSlot(up, slot))
  BY <1>2 DEF ValidSlots, InMainSlot, Slot
<1>7. SlotsOK(records')
  BY <1>3, <1>4, <1>5 DEF SlotsOK
<1>8. MainOK(records')
  <2> SUFFICES ASSUME NEW slot \in {"best", "new"}
               PROVE {records'[c].order : c \in InSlot(records', slot)}
                       = 1 .. Cardinality(InSlot(records', slot))
    BY DEF MainOK
  <2>1. slot \in Slot \ {"none"}
    BY DEF Slot
  <2>2. InSlot(records', slot) = InSlot(up, slot)
    BY <1>3, <2>1
  <2>3. {records'[c].order : c \in InSlot(up, slot)} = {up[c].order : c \in InSlot(up, slot)}
    BY <1>3, <2>1
  <2> QED
    BY <1>6, <2>2, <2>3
<1> QED
  BY <1>7, <1>8

\* A body changes the metrics in a later second only, unless its second is crowded.
LEMMA RegisterMetrics ==
  ASSUME PlayerInv(player, records, histories, sent, crowded),
         NEW b \in Body, NEW t \in CollectTime, Register(b, t)
  PROVE  MetricsOK(player', crowded')
<1> DEFINE sec == RoundedSecond(t)
           new == [metrics |-> player.metrics, at |-> player.collected]
<1>0. MaxMetrics \in Nat \ {0}
  BY RegistrationAssumption
<1>1. /\ sec \in Seconds /\ player.collected <= sec
      /\ ~crowded' => /\ ~crowded
                      /\ \/ player.collected < sec
                         \/ /\ player.collected = sec
                            /\ Reflected(b, player, records)
  BY RegisterTimes
<1>2. /\ player'.collected = sec /\ player'.metrics = Metrics(b)
      /\ player'.past = IF MetricsChange(b) THEN Newest(player.past \cup {new}, MaxMetrics)
                        ELSE player.past
  BY DEF Register, NewPlayer
<1>3. ValidMetrics(Metrics(b))
  BY DEF Register, Acceptable, Valid, ValidMetrics, Metrics
<1>4. /\ IF player = Playerless THEN player.past = {} ELSE MetricsOK(player, crowded)
      /\ player.collected \in Int
  BY PlayerBefore
<1>5. \A x \in Seconds : x \in Nat
  BY SecondsAreNat
<1>6. sec \in Nat
  BY <1>1, <1>5
<1> PICK past, later, busy, late :
      past = player.past /\ later = player'.past /\ busy = crowded /\ late = crowded'
  OBVIOUS
<1>7. /\ IsFiniteSet(past) /\ Cardinality(past) <= MaxMetrics /\ AtOnce(past)
      /\ \A m \in past :
           /\ m = [metrics |-> m.metrics, at |-> m.at] /\ ValidMetrics(m.metrics)
           /\ m.at \in Seconds /\ m.at <= player.collected /\ (~busy => m.at < player.collected)
  <2>1. CASE player = Playerless
    <3>1. past = {} /\ IsFiniteSet({}) /\ Cardinality({}) = 0
      BY <1>4, <2>1, FS_EmptySet
    <3> QED
      BY <1>0, <3>1 DEF AtOnce
  <2>2. CASE player # Playerless
    BY <1>4, <2>2 DEF MetricsOK
  <2> QED
    BY <2>1, <2>2
<1> HIDE DEF sec, new
<1>8. CASE ~MetricsChange(b)
  <2>1. later = past
    BY <1>2, <1>8
  <2>2. \A m \in past :
           /\ m = [metrics |-> m.metrics, at |-> m.at] /\ ValidMetrics(m.metrics)
           /\ m.at \in Seconds /\ m.at <= sec /\ (~late => m.at < sec)
    <3> TAKE m \in past
    <3>1. m.at \in Nat /\ m.at <= player.collected /\ (~busy => m.at < player.collected)
      BY <1>5, <1>7
    <3>2. m.at <= sec /\ (~late => m.at < sec)
      BY <1>1, <1>4, <1>6, <3>1
    <3> QED
      BY <1>7, <3>2
  <2>3. ValidMetrics(player'.metrics) /\ player'.collected \in Seconds
    BY <1>1, <1>2, <1>3
  <2> QED
    BY <1>2, <1>7, <2>1, <2>2, <2>3 DEF MetricsOK
<1>9. CASE MetricsChange(b)
  <2>1. player # Playerless /\ player.metrics # Metrics(b)
    BY <1>9 DEF MetricsChange
  <2>2. player.collected \in Seconds /\ ValidMetrics(player.metrics)
    BY <1>4, <2>1 DEF MetricsOK
  <2>3. \A m \in past : m.at # player.collected
    BY <1>9 DEF Register, HistoryConflict
  <2>4. ~late => ~busy /\ player.collected < sec
    BY <1>1, <2>1 DEF Reflected
  <2>5. new.at = player.collected /\ new = [metrics |-> new.metrics, at |-> new.at]
        /\ new.metrics = player.metrics
    BY DEF new
  <2>6. new.at \in Nat /\ \A r \in past : r.at \in Nat /\ r.at # new.at
    BY <1>5, <1>7, <2>2, <2>3, <2>5
  <2>7. later = Newest(past \cup {new}, MaxMetrics)
    BY <1>2, <1>9
  <2>8. /\ IsFiniteSet(later) /\ AtOnce(later) /\ Cardinality(later) <= MaxMetrics
    BY <1>0, <1>7, <2>6, <2>7, NewestBounded
  <2>9. later \subseteq past \cup {new}
    BY <2>7, NewestIsSubset
  <2>10. \A m \in later :
           /\ m = [metrics |-> m.metrics, at |-> m.at] /\ ValidMetrics(m.metrics)
           /\ m.at \in Seconds /\ m.at <= sec /\ (~late => m.at < sec)
    <3> TAKE m \in later
    <3>1. /\ m = [metrics |-> m.metrics, at |-> m.at] /\ ValidMetrics(m.metrics)
          /\ m.at \in Seconds /\ m.at <= player.collected
      <4>1. CASE m = new
        BY <1>4, <2>2, <2>5, <4>1
      <4>2. CASE m \in past
        BY <1>7, <4>2
      <4> QED
        BY <2>9, <4>1, <4>2
    <3>2. m.at \in Nat
      BY <1>5, <3>1
    <3>3. m.at <= sec /\ (~late => m.at < sec)
      BY <1>1, <1>4, <1>6, <2>4, <3>1, <3>2
    <3> QED
      BY <3>1, <3>3
  <2>11. ValidMetrics(player'.metrics) /\ player'.collected \in Seconds
    BY <1>1, <1>2, <1>3
  <2> QED
    BY <1>2, <2>8, <2>10, <2>11 DEF MetricsOK
<1> QED
  BY <1>8, <1>9

-----------------------------------------------------------------------------
(* What a registration leaves: the updates *)

LEMMA RoundedIsInt ==
  ASSUME NEW t \in CollectTime
  PROVE  RoundedSecond(t) \in Int
<1>1. RoundedSecond(t) \in Seconds /\ \A x \in Seconds : x \in Int
  BY SecondsAreNat
<1> QED
  BY <1>1

\* What a result says of a chart.
LEMMA ResultTells ==
  ASSUME NEW b, NEW c
  PROVE  /\ c \in DOMAIN Result(b).charts =>
              /\ c \in DOMAIN Upserts(b)
              /\ Result(b).charts[c].after = StateOf(Upserts(b)[c])
              /\ c \in DOMAIN records => Result(b).charts[c].before = records[c].state
         /\ c \in DOMAIN records =>
              (c \in DOMAIN Result(b).charts <=>
                 c \in DOMAIN Upserts(b) /\ records[c].state # StateOf(Upserts(b)[c]))
<1> DEFINE states == [d \in DOMAIN Upserts(b) |-> StateOf(Upserts(b)[d])]
           before(d) == IF d \in DOMAIN records THEN records[d].state ELSE Absent
           news == {d \in DOMAIN states : before(d) # states[d]}
<1>1. Result(b).charts = News(records, states)
  BY DEF Result
<1>2. News(records, states) = [d \in news |-> [before |-> before(d), after |-> states[d]]]
  BY DEF News
<1>3. DOMAIN states = DOMAIN Upserts(b) /\ \A d \in DOMAIN states : states[d] = StateOf(Upserts(b)[d])
  OBVIOUS
<1> HIDE DEF states
<1>4. c \in DOMAIN Result(b).charts <=> c \in DOMAIN states /\ before(c) # states[c]
  BY <1>1, <1>2
<1>5. c \in DOMAIN Result(b).charts =>
        /\ Result(b).charts[c].before = before(c) /\ Result(b).charts[c].after = states[c]
  <2> HIDE DEF before
  <2> QED
    BY <1>1, <1>2
<1> QED
  BY <1>3, <1>4, <1>5

\* The states after a body.
LEMMA StatesAfter ==
  ASSUME PlayerInv(player, records, histories, sent, crowded),
         NEW b \in Body, NEW t \in CollectTime, Register(b, t)
  PROVE  /\ DOMAIN records' = (DOMAIN records) \cup DOMAIN Upserts(b)
         /\ \A c \in DOMAIN records' :
              records'[c].state = IF c \in DOMAIN Upserts(b) THEN StateOf(Upserts(b)[c])
                                  ELSE records[c].state
<1>1. /\ DOMAIN records' = (DOMAIN records) \cup DOMAIN Upserts(b)
      /\ \A c \in DOMAIN records' :
           records'[c] = IF c \in DOMAIN Upserts(b) THEN NamedRow(b, t, c) ELSE UnnamedRow(c)
  BY RecordsAfter
<1>2. ASSUME NEW c \in DOMAIN records'
      PROVE  records'[c].state = IF c \in DOMAIN Upserts(b) THEN StateOf(Upserts(b)[c])
                                 ELSE records[c].state
  <2>1. /\ NamedRow(b, t, c).state = StateOf(Upserts(b)[c])
        /\ UnnamedRow(c).state = records[c].state
    BY RowFields
  <2> QED
    BY <1>1, <2>1
<1> QED
  BY <1>1, <1>2

\* A result tells what changes.
Changes(rows, result, next) ==
  /\ \A c \in DOMAIN result.charts :
       /\ c \in DOMAIN next /\ next[c].state = result.charts[c].after
       /\ c \in DOMAIN rows => result.charts[c].before = rows[c].state
  /\ \A c \in DOMAIN rows :
       c \notin DOMAIN result.charts => c \in DOMAIN next /\ next[c].state = rows[c].state

\* An update that is the newest joins those that add up.
LEMMA AddsUp ==
  ASSUME NEW p, NEW q, NEW rows, NEW next, NEW update, AddUp(p, rows),
         IsFiniteSet(p.updates), \A u \in p.updates : u.at \in Nat /\ u.at < update.at,
         \A u \in p.updates : DOMAIN u.result.charts \subseteq DOMAIN rows,
         update.at \in Nat, q.updates = Newest(p.updates \cup {update}, MaxUpdates),
         Changes(rows, update.result, next)
  PROVE  AddUp(q, next)
<1> DEFINE all == p.updates \cup {update}
<1>0. MaxUpdates \in Nat \ {0} /\ MaxUpdates \in Nat
  BY RegistrationAssumption
<1>1. IsFiniteSet(all) /\ \A u \in all : u.at \in Nat
  BY FS_AddElement
<1>2. \A u \in all : u.at \in Int
  BY <1>1
<1> USE DEF Changes
<1>3. update \in all /\ \A u \in all : ~(u.at > update.at)
  BY <1>1
<1> HIDE DEF all
<1>4. update \in q.updates
  BY <1>0, <1>3, NewestKeepsLast DEF all
<1>5. \A u \in q.updates, v \in all : v.at > u.at => v \in q.updates
  <2> TAKE u \in q.updates, v \in all
  <2> HAVE v.at > u.at
  <2>1. u \in Newest(all, MaxUpdates)
    BY DEF all
  <2>2. v \in Newest(all, MaxUpdates)
    BY <1>0, <1>1, <1>2, <2>1, NewestKeepsNewer
  <2> QED
    BY <2>2 DEF all
<1>6. q.updates \subseteq all
  BY NewestIsSubset DEF all
<1> SUFFICES ASSUME NEW c \in DOMAIN next, NEW u \in Naming(q, c)
             PROVE  \/ After(q, c, u) = {} /\ next[c].state = u.result.charts[c].after
                    \/ \E v \in After(q, c, u) :
                         /\ v.result.charts[c].before = u.result.charts[c].after
                         /\ \A w \in After(q, c, u) : v.at <= w.at
  BY DEF AddUp
<1>7. u \in q.updates /\ u \in all /\ c \in DOMAIN u.result.charts
  BY <1>6 DEF Naming
<1>8. CASE u = update
  <2>1. After(q, c, u) = {}
    BY <1>3, <1>6, <1>8 DEF After, Naming
  <2> QED
    BY <1>7, <1>8, <2>1
<1>9. CASE u \in p.updates
  <2>1. c \in DOMAIN rows /\ u \in Naming(p, c) /\ u.at < update.at
    BY <1>7, <1>9 DEF Naming
  <2>2. After(q, c, u) \subseteq After(p, c, u) \cup {update}
    BY <1>6 DEF After, Naming, all
  <2>3. \/ After(p, c, u) = {} /\ rows[c].state = u.result.charts[c].after
        \/ \E v \in After(p, c, u) :
             /\ v.result.charts[c].before = u.result.charts[c].after
             /\ \A w \in After(p, c, u) : v.at <= w.at
    BY <2>1 DEF AddUp
  <2>4. CASE /\ After(p, c, u) = {} /\ rows[c].state = u.result.charts[c].after
             /\ c \in DOMAIN update.result.charts
    <3>1. update \in After(q, c, u)
      BY <1>1, <1>4, <1>7, <2>1, <2>4 DEF After, Naming
    <3>2. update.result.charts[c].before = u.result.charts[c].after
      BY <2>1, <2>4
    <3>3. \A w \in After(q, c, u) : update.at <= w.at
      BY <2>2, <2>4
    <3> QED
      BY <3>1, <3>2, <3>3
  <2>5. CASE /\ After(p, c, u) = {} /\ rows[c].state = u.result.charts[c].after
             /\ c \notin DOMAIN update.result.charts
    <3>1. update \notin After(q, c, u)
      BY <2>5 DEF After, Naming
    <3>2. After(q, c, u) = {}
      BY <2>2, <2>5, <3>1
    <3> QED
      BY <2>1, <2>5, <3>2
  <2>6. CASE \E v \in After(p, c, u) :
               /\ v.result.charts[c].before = u.result.charts[c].after
               /\ \A w \in After(p, c, u) : v.at <= w.at
    <3>1. PICK v \in After(p, c, u) :
            /\ v.result.charts[c].before = u.result.charts[c].after
            /\ \A w \in After(p, c, u) : v.at <= w.at
      BY <2>6
    <3>2. v \in p.updates /\ c \in DOMAIN v.result.charts /\ v.at > u.at
      BY <3>1 DEF After, Naming
    <3>3. v \in q.updates
      BY <1>5, <1>7, <3>2 DEF all
    <3>4. v \in After(q, c, u)
      BY <3>2, <3>3 DEF After, Naming
    <3>5. v.at <= update.at
      BY <3>2
    <3> QED
      BY <2>2, <3>1, <3>4, <3>5
  <2> QED
    BY <2>3, <2>4, <2>5, <2>6
<1> QED
  BY <1>7, <1>8, <1>9 DEF all

\* A body that has its update: nothing that the updates tell of changes.
LEMMA UpdatesOfOldBody ==
  ASSUME PlayerInv(player, records, histories, sent, crowded),
         NEW b \in Body, NEW t \in CollectTime, Register(b, t),
         \E u \in player.updates : u.at = t
  PROVE  UpdatesOK(player', records', crowded')
<1> DEFINE sec == RoundedSecond(t)
<1>1. UpdatesOK(player, records, crowded) /\ player.collected \in Int
  BY PlayerBefore
<1>2. /\ sec \in Seconds /\ player.collected <= sec
      /\ ~crowded' => ~crowded /\ (player.collected < sec \/ Reflected(b, player, records))
  BY RegisterTimes
<1>3. /\ player'.updates = player.updates /\ player'.collected = sec
      /\ player'.metrics = Metrics(b)
  BY DEF Register, NewPlayer, Kept
<1>4. \A u \in CollectTime : RoundedSecond(u) \in Int
  BY RoundedIsInt
<1>5. player.collected = sec
  <2>1. PICK u \in player.updates : u.at = t
    OBVIOUS
  <2>2. RoundedSecond(u.at) <= player.collected
    BY <1>1 DEF UpdatesOK
  <2> QED
    BY <1>1, <1>2, <1>4, <2>1, <2>2
<1>6. /\ DOMAIN records' = (DOMAIN records) \cup DOMAIN Upserts(b)
      /\ \A c \in DOMAIN records' :
           records'[c].state = IF c \in DOMAIN Upserts(b) THEN StateOf(Upserts(b)[c])
                               ELSE records[c].state
  BY StatesAfter
<1> PICK p, q, rows, next, busy, late :
      /\ p = player /\ q = player' /\ rows = records /\ next = records'
      /\ busy = crowded /\ late = crowded'
  OBVIOUS
<1>7. ASSUME ~late
      PROVE  /\ ~busy /\ q.metrics = p.metrics /\ DOMAIN next = DOMAIN rows
             /\ \A c \in DOMAIN rows : next[c].state = rows[c].state
  <2>1. ~busy /\ Reflected(b, p, rows)
    BY <1>1, <1>2, <1>5, <1>7
  <2> QED
    BY <1>3, <1>6, <2>1 DEF Reflected
<1> HIDE DEF sec
<1>8. ASSUME NEW u \in q.updates
      PROVE  /\ u.at \in CollectTime /\ u.body \in Body /\ RoundedSecond(u.at) <= q.collected
             /\ DOMAIN u.result.charts \subseteq DOMAIN next
             /\ ~late /\ RoundedSecond(u.at) = q.collected => Reflected(u.body, q, next)
  <2>1. /\ u.at \in CollectTime /\ u.body \in Body /\ RoundedSecond(u.at) <= p.collected
        /\ DOMAIN u.result.charts \subseteq DOMAIN rows
        /\ ~busy /\ RoundedSecond(u.at) = p.collected => Reflected(u.body, p, rows)
    BY <1>1, <1>3 DEF UpdatesOK
  <2>2. DOMAIN u.result.charts \subseteq DOMAIN next
    BY <1>6, <2>1
  <2>3. ASSUME ~late, RoundedSecond(u.at) = q.collected PROVE Reflected(u.body, q, next)
    <3>1. Reflected(u.body, p, rows)
      BY <1>3, <1>5, <1>7, <2>1, <2>3
    <3> QED
      BY <1>7, <2>3, <3>1 DEF Reflected
  <2> QED
    BY <1>3, <1>5, <2>1, <2>2, <2>3
<1>9. ASSUME ~late PROVE AddUp(q, next)
  <2>1. AddUp(p, rows)
    BY <1>1, <1>7, <1>9 DEF UpdatesOK
  <2>2. \A c : Naming(q, c) = Naming(p, c)
    BY <1>3 DEF Naming
  <2>3. \A c, u : After(q, c, u) = After(p, c, u)
    BY <2>2 DEF After
  <2> QED
    BY <1>7, <1>9, <2>1, <2>2, <2>3 DEF AddUp
<1>10. MainOK(next)
  BY RegisterSlots
<1>11. IsFiniteSet(q.updates) /\ Cardinality(q.updates) <= MaxUpdates /\ AtOnce(q.updates)
  BY <1>1, <1>3 DEF UpdatesOK
<1> QED
  BY <1>8, <1>9, <1>10, <1>11 DEF UpdatesOK

LEMMA UpdatesOfNewBody ==
  ASSUME PlayerInv(player, records, histories, sent, crowded),
         NEW b \in Body, NEW t \in CollectTime, Register(b, t),
         \A u \in player.updates : u.at # t
  PROVE  UpdatesOK(player', records', crowded')
<1> DEFINE sec == RoundedSecond(t)
           update == [at |-> t, body |-> b, result |-> Result(b)]
<1>0. /\ MaxUpdates \in Nat \ {0} /\ CollectTime \subseteq Nat
  BY RegistrationAssumption
<1>1. UpdatesOK(player, records, crowded) /\ player.collected \in Int
  BY PlayerBefore
<1>2. /\ sec \in Seconds /\ player.collected <= sec
      /\ ~crowded' => ~crowded /\ player.collected < sec
  BY RegisterTimes
<1>3. sec \in Int /\ \A u \in CollectTime : RoundedSecond(u) \in Int
  BY RoundedIsInt
<1>4. /\ player'.updates = Newest(player.updates \cup {update}, MaxUpdates)
      /\ player'.collected = sec /\ player'.metrics = Metrics(b)
  BY DEF Register, NewPlayer, Kept
<1>5. /\ DOMAIN records' = (DOMAIN records) \cup DOMAIN Upserts(b)
      /\ \A c \in DOMAIN records' :
           records'[c].state = IF c \in DOMAIN Upserts(b) THEN StateOf(Upserts(b)[c])
                               ELSE records[c].state
  BY StatesAfter
<1>6. \A c \in DOMAIN Result(b).charts :
        /\ c \in DOMAIN Upserts(b)
        /\ Result(b).charts[c].after = StateOf(Upserts(b)[c])
        /\ c \in DOMAIN records => Result(b).charts[c].before = records[c].state
  BY ResultTells
<1>7. \A c \in DOMAIN records :
        c \in DOMAIN Result(b).charts <=>
          c \in DOMAIN Upserts(b) /\ records[c].state # StateOf(Upserts(b)[c])
  BY ResultTells
<1> PICK p, q, rows, next, busy, late, new :
      /\ p = player /\ q = player' /\ rows = records /\ next = records'
      /\ busy = crowded /\ late = crowded' /\ new = update
  OBVIOUS
<1>8. new.at = t /\ new.body = b /\ new.result = Result(b)
  OBVIOUS
<1> HIDE DEF sec, update
<1>9. /\ IsFiniteSet(p.updates) /\ Cardinality(p.updates) <= MaxUpdates /\ AtOnce(p.updates)
      /\ \A u \in p.updates :
           /\ u.at \in CollectTime /\ u.body \in Body /\ RoundedSecond(u.at) <= p.collected
           /\ DOMAIN u.result.charts \subseteq DOMAIN rows
  BY <1>1 DEF UpdatesOK
<1>10. \A u \in p.updates : u.at \in Nat /\ u.at # new.at
  BY <1>0, <1>8, <1>9
<1>11. new.at \in Nat
  BY <1>0, <1>8
<1>12. q.updates = Newest(p.updates \cup {new}, MaxUpdates)
  BY <1>4
<1>13. /\ IsFiniteSet(q.updates) /\ AtOnce(q.updates) /\ Cardinality(q.updates) <= MaxUpdates
  BY <1>0, <1>9, <1>10, <1>11, <1>12, NewestBounded
<1>14. q.updates \subseteq p.updates \cup {new}
  BY <1>12, NewestIsSubset
<1>15. ASSUME NEW u \in q.updates
       PROVE  /\ u.at \in CollectTime /\ u.body \in Body /\ RoundedSecond(u.at) <= q.collected
              /\ DOMAIN u.result.charts \subseteq DOMAIN next
              /\ ~late /\ RoundedSecond(u.at) = q.collected => Reflected(u.body, q, next)
  <2>1. CASE u = new
    <3>1. RoundedSecond(u.at) = sec /\ u.at \in CollectTime /\ u.body \in Body
      BY <1>8, <2>1 DEF sec
    <3>2. DOMAIN u.result.charts \subseteq DOMAIN next
      BY <1>5, <1>6, <1>8, <2>1
    <3>3. Reflected(u.body, q, next)
      BY <1>4, <1>5, <1>8, <2>1 DEF Reflected
    <3> QED
      BY <1>3, <1>4, <3>1, <3>2, <3>3
  <2>2. CASE u \in p.updates
    <3>1. /\ u.at \in CollectTime /\ u.body \in Body /\ RoundedSecond(u.at) <= p.collected
          /\ DOMAIN u.result.charts \subseteq DOMAIN next
      BY <1>5, <1>9, <2>2
    <3>2. RoundedSecond(u.at) \in Int
      BY <1>3, <3>1
    <3>3. RoundedSecond(u.at) <= sec /\ (~late => RoundedSecond(u.at) < sec)
      BY <1>1, <1>2, <1>3, <3>1, <3>2
    <3> QED
      BY <1>3, <1>4, <3>1, <3>2, <3>3
  <2> QED
    BY <1>14, <2>1, <2>2
<1>16. ASSUME ~late PROVE AddUp(q, next)
  <2>1. AddUp(p, rows) /\ p.collected < sec
    BY <1>1, <1>2, <1>16 DEF UpdatesOK
  <2>2. \A u \in p.updates : u.at \in Nat /\ u.at < new.at
    <3> TAKE u \in p.updates
    <3>1. u.at \in CollectTime /\ RoundedSecond(u.at) <= p.collected
      BY <1>9
    <3>2. RoundedSecond(u.at) \in Int
      BY <1>3, <3>1
    <3>3. RoundedSecond(u.at) < RoundedSecond(t)
      BY <1>1, <1>3, <2>1, <3>1, <3>2 DEF sec
    <3>4. u.at < t
      BY <3>1, <3>3, RoundsInOrder
    <3> QED
      BY <1>8, <1>10, <3>4
  <2>3. Changes(rows, new.result, next)
    BY <1>5, <1>6, <1>7, <1>8 DEF Changes
  <2>5. IsFiniteSet(p.updates) /\ \A u \in p.updates : DOMAIN u.result.charts \subseteq DOMAIN rows
    BY <1>9
  <2> QED
    BY <1>11, <1>12, <2>1, <2>2, <2>3, <2>5, AddsUp
<1>17. MainOK(next)
  BY RegisterSlots
<1> QED
  BY <1>13, <1>15, <1>16, <1>17 DEF UpdatesOK

\* There is a newest row.
LEMMA NewestThereIs ==
  ASSUME NEW rows, IsFiniteSet(rows), rows # {}, \A r \in rows : r.at \in Nat
  PROVE  \E last \in rows : \A r \in rows : ~(r.at > last.at)
<1> DEFINE sizes == {Cardinality(Newer(rows, r.at)) : r \in rows}
<1>1. \A r \in rows : IsFiniteSet(Newer(rows, r.at))
  <2> TAKE r \in rows
  <2>1. Newer(rows, r.at) \subseteq rows
    BY DEF Newer
  <2> QED
    BY <2>1, FS_Subset
<1>2. \A r \in rows : Cardinality(Newer(rows, r.at)) \in Nat
  BY <1>1, FS_CardinalityType
<1>3. sizes \in SUBSET Nat /\ sizes # {}
  BY <1>2
<1> HIDE DEF sizes
<1>4. PICK n \in sizes : \A z \in sizes : n <= z
  BY <1>3, Least
<1>5. PICK last \in rows : n = Cardinality(Newer(rows, last.at))
  BY DEF sizes
<1>6. ASSUME NEW r \in rows, r.at > last.at PROVE FALSE
  <2>1. Newer(rows, r.at) \subseteq Newer(rows, last.at) \ {r} /\ r \in Newer(rows, last.at)
    BY <1>6 DEF Newer
  <2>2. /\ IsFiniteSet(Newer(rows, last.at) \ {r})
        /\ Cardinality(Newer(rows, last.at) \ {r}) = Cardinality(Newer(rows, last.at)) - 1
    BY <1>1, <2>1, FS_RemoveElement
  <2>3. Cardinality(Newer(rows, r.at)) <= Cardinality(Newer(rows, last.at) \ {r})
    BY <2>1, <2>2, FS_Subset
  <2>4. n <= Cardinality(Newer(rows, r.at))
    BY <1>4 DEF sizes
  <2> QED
    BY <1>2, <1>5, <2>2, <2>3, <2>4
<1> QED
  BY <1>6

\* A registration keeps the player in order, and leaves an update.
LEMMA RegisterPlayer ==
  ASSUME PlayerInv(player, records, histories, sent, crowded),
         NEW b \in Body, NEW t \in CollectTime, Register(b, t)
  PROVE  /\ PlayerInv(player', records', histories', sent', crowded')
         /\ player' # Playerless /\ player'.updates # {}
<1>1. UpdatesOK(player', records', crowded')
  BY UpdatesOfOldBody, UpdatesOfNewBody
<1>2. PlayerOK(player', records', histories', sent', crowded')
  BY <1>1, RegisterCharts, RegisterSlots, RegisterMetrics DEF PlayerOK
<1>3. player'.collected = RoundedSecond(t)
  BY DEF Register, NewPlayer
<1>4. player' # Playerless
  <2>1. RoundedSecond(t) \in Seconds /\ \A x \in Seconds : x \in Nat
    BY SecondsAreNat
  <2>2. Playerless.collected = -1
    BY DEF Playerless
  <2> QED
    BY <1>3, <2>1, <2>2
<1>5. player'.updates # {}
  <2>1. CASE \E u \in player.updates : u.at = t
    BY <2>1 DEF Register, NewPlayer, Kept
  <2>2. CASE \A u \in player.updates : u.at # t
    <3> DEFINE update == [at |-> t, body |-> b, result |-> Result(b)]
               all == player.updates \cup {update}
    <3>1. player'.updates = Newest(all, MaxUpdates)
      BY <2>2 DEF Register, NewPlayer, Kept
    <3>2. UpdatesOK(player, records, crowded) /\ MaxUpdates \in Nat \ {0}
      BY PlayerBefore, RegistrationAssumption
    <3>3. IsFiniteSet(all) /\ all # {} /\ \A u \in all : u.at \in Nat
      <4>1. IsFiniteSet(player.updates) /\ \A u \in player.updates : u.at \in Nat
        BY <3>2, RegistrationAssumption DEF UpdatesOK
      <4>2. update.at = t /\ t \in Nat
        BY RegistrationAssumption
      <4> HIDE DEF update
      <4> QED
        BY <4>1, <4>2, FS_AddElement
    <3> HIDE DEF all
    <3>4. \E last \in all : \A u \in all : ~(u.at > last.at)
      BY <3>3, NewestThereIs
    <3> QED
      BY <3>1, <3>2, <3>4, NewestKeepsLast
  <2> QED
    BY <2>1, <2>2
<1> QED
  BY <1>2, <1>4, <1>5 DEF PlayerInv

-----------------------------------------------------------------------------
(* Courses *)

LEMMA ResultsAreValid ==
  ASSUME NEW b \in Body, Valid(b), NEW k \in DOMAIN Results(b)
  PROVE  k \in liveCourses /\ ValidCourse(Results(b)[k])
<1> DEFINE X == Range(b.course)
           places == {j \in DOMAIN b.course : b.course[j].chart \in liveCourses}
           last == LastOfEach(b.course, places)
<1>1. b.course \in Seq(X)
  BY RegistrationAssumption
<1>2. PICK n \in Nat : n = Len(b.course)
  BY <1>1
<1>3. places \in SUBSET (1 .. n)
  BY <1>1, <1>2
<1>4. DOMAIN Results(b) = DOMAIN last
  BY DEF Results
<1>5. Results(b)[k] = [score |-> last[k].score, clear |-> last[k].clear, combo |-> last[k].combo]
  BY <1>4 DEF Results
<1>6. PICK j \in places : b.course[j].chart = k /\ last[k] = b.course[j]
  <2>1. PICK entries, some : entries = b.course /\ some = places
    OBVIOUS
  <2>2. some \in SUBSET (1 .. n) /\ k \in DOMAIN LastOfEach(entries, some)
    BY <1>3, <1>4, <2>1
  <2>3. \E j \in some : entries[j].chart = k /\ LastOfEach(entries, some)[k] = entries[j]
    BY <2>2, LastOne
  <2> QED
    BY <2>1, <2>3
<1>7. last[k] \in X /\ k \in liveCourses
  BY <1>1, <1>6
<1>8. ValidCourse(last[k])
  BY <1>7 DEF Valid
<1> PICK e, r : e = last[k] /\ r = Results(b)[k]
  OBVIOUS
<1> HIDE DEF last
<1>9. r.score = e.score /\ r.clear = e.clear /\ r.combo = e.combo /\ ValidCourse(e)
  BY <1>5, <1>8
<1>10. ValidCourse(r)
  BY <1>9, SMT DEF ValidCourse
<1> QED
  BY <1>7, <1>10

LEMMA RegisterCourses ==
  ASSUME CoursesOK(courses), liveCourses \subseteq Course,
         NEW b \in Body, NEW t \in CollectTime, Register(b, t)
  PROVE  CoursesOK(courses')
<1>1. courses' = CoursesAfter(b, t) /\ Valid(b)
  BY DEF Register, Acceptable
<1>2. DOMAIN courses' = (DOMAIN courses) \cup DOMAIN Results(b)
  BY <1>1 DEF CoursesAfter
<1>3. DOMAIN courses' \subseteq Course
  BY <1>1, <1>2, ResultsAreValid DEF CoursesOK
<1>4. ASSUME NEW k \in DOMAIN courses'
      PROVE  /\ courses'[k] = [state |-> courses'[k].state, at |-> courses'[k].at]
             /\ ValidCourse(courses'[k].state)
  <2>1. CASE k \notin DOMAIN Results(b)
    <3>1. courses'[k] = courses[k] /\ k \in DOMAIN courses
      BY <1>1, <1>2, <2>1 DEF CoursesAfter
    <3>2. courses[k] = [state |-> courses[k].state, at |-> courses[k].at] /\ ValidCourse(courses[k].state)
      BY <3>1 DEF CoursesOK
    <3> QED
      BY <3>1, <3>2
  <2>2. CASE k \in DOMAIN Results(b)
    <3>1. PICK at : courses'[k] = [state |-> Results(b)[k], at |-> at]
      BY <1>1, <1>2, <2>2 DEF CoursesAfter
    <3>2. ValidCourse(Results(b)[k])
      BY <1>1, <2>2, ResultsAreValid
    <3>3. courses'[k].state = Results(b)[k] /\ courses'[k].at = at
      BY <3>1
    <3> QED
      BY <3>1, <3>2, <3>3
  <2> QED
    BY <2>1, <2>2
<1> QED
  BY <1>3, <1>4 DEF CoursesOK
-----------------------------------------------------------------------------
(* What an export makes of a player *)

LEMMA SnapshotRecords ==
  ASSUME ChartsOK(player, records, histories, sent, crowded)
  PROVE  /\ ChartsOnce(Snapshot.records)
         /\ \A e \in Snapshot.records :
              e = [chart |-> e.chart, state |-> e.state, slot |-> e.slot, order |-> e.order,
                   at |-> e.at]
         /\ RecordRows(Snapshot) = [c \in DOMAIN records \ deleted |-> records[c]]
<1> DEFINE Entry(c) == [chart |-> c, state |-> records[c].state, slot |-> records[c].slot,
                        order |-> records[c].order, at |-> records[c].at]
           live == DOMAIN records \ deleted
           entries == {Entry(c) : c \in live}
<1>1. Snapshot.records = entries
  BY DEF Snapshot, RecordEntries
<1>2. ASSUME NEW c
      PROVE  /\ Entry(c).chart = c /\ Entry(c).state = records[c].state
             /\ Entry(c).slot = records[c].slot /\ Entry(c).order = records[c].order
             /\ Entry(c).at = records[c].at
             /\ Entry(c) = [chart |-> Entry(c).chart, state |-> Entry(c).state,
                            slot |-> Entry(c).slot, order |-> Entry(c).order, at |-> Entry(c).at]
  OBVIOUS
<1> HIDE DEF Entry
<1>3. ChartsOnce(entries)
  BY <1>2 DEF ChartsOnce
<1>4. {e.chart : e \in entries} = live
  BY <1>2
<1>5. ASSUME NEW c \in live PROVE Where(entries, c) = Entry(c)
  BY <1>2 DEF Where
<1>6. ASSUME NEW c \in live
      PROVE  records[c] = [state |-> records[c].state, slot |-> records[c].slot,
                           order |-> records[c].order, at |-> records[c].at]
  BY DEF ChartsOK, RowOK
<1>7. RecordRows(Snapshot) =
        [c \in live |->
           LET e == Where(entries, c)
           IN [state |-> e.state, slot |-> e.slot, order |-> e.order, at |-> e.at]]
  <2> HIDE DEF entries
  <2>1. \A s : s.records = entries => 
          RecordRows(s) =
            [c \in live |->
               LET e == Where(entries, c)
               IN [state |-> e.state, slot |-> e.slot, order |-> e.order, at |-> e.at]]
    BY <1>4 DEF RecordRows
  <2> QED
    BY <1>1, <2>1
<1>8. \A c \in live :
        LET e == Where(entries, c)
        IN [state |-> e.state, slot |-> e.slot, order |-> e.order, at |-> e.at] = records[c]
  BY <1>2, <1>5, <1>6
<1>9. RecordRows(Snapshot) = [c \in live |-> records[c]]
  <2> HIDE DEF entries, live
  <2> QED
    BY <1>7, <1>8
<1>10. \A e \in entries :
         e = [chart |-> e.chart, state |-> e.state, slot |-> e.slot, order |-> e.order, at |-> e.at]
  BY <1>2
<1> QED
  BY <1>1, <1>3, <1>9, <1>10

LEMMA SnapshotHistories ==
  ASSUME ChartsOK(player, records, histories, sent, crowded)
  PROVE  /\ \A e \in Snapshot.histories : e = [chart |-> e.chart, state |-> e.state, at |-> e.at]
         /\ DOMAIN HistoryRows(Snapshot) \subseteq DOMAIN histories \ deleted
         /\ \A c : c \notin deleted => PastOf(HistoryRows(Snapshot), c) = PastOf(histories, c)
<1> DEFINE Entry(c, h) == [chart |-> c, state |-> h.state, at |-> h.at]
           live == DOMAIN histories \ deleted
           entries == UNION {{Entry(c, h) : h \in histories[c]} : c \in live}
<1>1. Snapshot.histories = entries
  BY DEF Snapshot, HistoryEntries
<1>2. \A c, h : /\ Entry(c, h).chart = c /\ Entry(c, h).state = h.state /\ Entry(c, h).at = h.at
                /\ Entry(c, h) = [chart |-> Entry(c, h).chart, state |-> Entry(c, h).state,
                                  at |-> Entry(c, h).at]
  OBVIOUS
<1> HIDE DEF Entry
<1>3. \A e \in entries : \E c \in live : \E h \in histories[c] : e = Entry(c, h)
  OBVIOUS
<1>4. \A c \in live : \A h \in histories[c] : Entry(c, h) \in entries
  OBVIOUS
<1> HIDE DEF entries
<1>5. \A e \in entries : e = [chart |-> e.chart, state |-> e.state, at |-> e.at]
  BY <1>2, <1>3
<1>6. \A e \in entries : e.chart \in live
  BY <1>2, <1>3
<1>7. \A s : s.histories = entries =>
        /\ DOMAIN HistoryRows(s) = {e.chart : e \in entries}
        /\ \A c \in {e.chart : e \in entries} :
             HistoryRows(s)[c] =
               {[state |-> e.state, at |-> e.at] : e \in {f \in entries : f.chart = c}}
  BY DEF HistoryRows
<1> PICK rows : rows = HistoryRows(Snapshot)
  OBVIOUS
<1>8. /\ DOMAIN rows = {e.chart : e \in entries}
      /\ \A c \in {e.chart : e \in entries} :
           rows[c] = {[state |-> e.state, at |-> e.at] : e \in {f \in entries : f.chart = c}}
  BY <1>1, <1>7
<1>9. DOMAIN rows \subseteq live
  BY <1>6, <1>8
<1>10. ASSUME NEW c \in live, NEW h \in histories[c] PROVE h = [state |-> h.state, at |-> h.at]
  <2>1. c \in DOMAIN records /\ h \in PastOf(histories, c)
    BY DEF ChartsOK, PastOf
  <2> QED
    BY <2>1 DEF ChartsOK, PastOK
<1>11. ASSUME NEW c \in DOMAIN rows PROVE rows[c] = histories[c]
  <2>1. rows[c] = {[state |-> e.state, at |-> e.at] : e \in {f \in entries : f.chart = c}}
    BY <1>8
  <2>2. c \in live
    BY <1>9
  <2>3. ASSUME NEW x \in rows[c] PROVE x \in histories[c]
    <3>1. PICK e \in entries : e.chart = c /\ x = [state |-> e.state, at |-> e.at]
      BY <2>1
    <3>2. PICK d \in live : \E h \in histories[d] : e = Entry(d, h)
      BY <1>3
    <3>0. PICK h \in histories[d] : e = Entry(d, h)
      BY <3>2
    <3>3. d = c /\ e.state = h.state /\ e.at = h.at
      BY <1>2, <3>0, <3>1
    <3>4. x = h
      BY <1>10, <3>1, <3>3
    <3> QED
      BY <3>3, <3>4
  <2>4. ASSUME NEW h \in histories[c] PROVE h \in rows[c]
    <3>1. Entry(c, h) \in entries /\ Entry(c, h).chart = c
      BY <1>2, <1>4, <2>2
    <3>2. [state |-> Entry(c, h).state, at |-> Entry(c, h).at] \in rows[c]
      BY <2>1, <3>1
    <3>3. Entry(c, h).state = h.state /\ Entry(c, h).at = h.at
      BY <1>2
    <3> QED
      BY <1>10, <2>2, <3>2, <3>3
  <2> QED
    BY <2>3, <2>4
<1>12. ASSUME NEW c \in live, c \notin DOMAIN rows PROVE histories[c] = {}
  <2>1. \A h \in histories[c] : Entry(c, h) \in entries /\ Entry(c, h).chart = c
    BY <1>2, <1>4
  <2> QED
    BY <1>8, <1>12, <2>1
<1>13. ASSUME NEW c, c \notin deleted PROVE PastOf(rows, c) = PastOf(histories, c)
  BY <1>9, <1>11, <1>12, <1>13 DEF PastOf
<1> QED
  BY <1>1, <1>5, <1>9, <1>13

LEMMA SnapshotCourses ==
  ASSUME CoursesOK(courses)
  PROVE  /\ \A e, g \in Snapshot.courses : e.course = g.course => e = g
         /\ \A e \in Snapshot.courses : e = [course |-> e.course, state |-> e.state, at |-> e.at]
         /\ CoursesOK(CourseRows(Snapshot))
         /\ \A e \in Snapshot.courses : ValidCourse(e.state)
<1> DEFINE Entry(k) == [course |-> k, state |-> courses[k].state, at |-> courses[k].at]
           live == DOMAIN courses \cap liveCourses
           entries == {Entry(k) : k \in live}
<1>1. Snapshot.courses = entries
  BY DEF Snapshot, CourseEntries
<1>2. \A k : /\ Entry(k).course = k /\ Entry(k).state = courses[k].state
             /\ Entry(k) = [course |-> Entry(k).course, state |-> Entry(k).state, at |-> Entry(k).at]
  OBVIOUS
<1> HIDE DEF Entry
<1>3. \A e \in entries : \E k \in live : e = Entry(k)
  OBVIOUS
<1>4. \A k \in live : Entry(k) \in entries
  OBVIOUS
<1> HIDE DEF entries
<1>5. \A e, g \in entries : e.course = g.course => e = g
  BY <1>2, <1>3
<1>6. \A e \in entries : e = [course |-> e.course, state |-> e.state, at |-> e.at]
  BY <1>2, <1>3
<1>7. \A e \in entries : e.course \in live /\ ValidCourse(e.state)
  <2> TAKE e \in entries
  <2>1. PICK k \in live : e = Entry(k)
    BY <1>3
  <2>2. ValidCourse(courses[k].state)
    BY DEF CoursesOK
  <2> QED
    BY <1>2, <2>1, <2>2
<1>8. \A s : s.courses = entries =>
        /\ DOMAIN CourseRows(s) = {e.course : e \in entries}
        /\ \A k \in {e.course : e \in entries} :
             CourseRows(s)[k] =
               LET e == CHOOSE f \in entries : f.course = k IN [state |-> e.state, at |-> e.at]
  BY DEF CourseRows
<1> PICK rows : rows = CourseRows(Snapshot)
  OBVIOUS
<1>9. /\ DOMAIN rows = {e.course : e \in entries}
      /\ \A k \in {e.course : e \in entries} :
           rows[k] =
             LET e == CHOOSE f \in entries : f.course = k IN [state |-> e.state, at |-> e.at]
  BY <1>1, <1>8
<1>10. DOMAIN rows \subseteq Course
  BY <1>7, <1>9 DEF CoursesOK
<1>11. ASSUME NEW k \in DOMAIN rows
       PROVE  rows[k] = [state |-> rows[k].state, at |-> rows[k].at] /\ ValidCourse(rows[k].state)
  <2>1. PICK e \in entries : e.course = k
    BY <1>9
  <2>2. (CHOOSE f \in entries : f.course = k) = e
    BY <1>5, <2>1
  <2>3. rows[k] = [state |-> e.state, at |-> e.at]
    BY <1>9, <2>2
  <2>4. rows[k].state = e.state /\ rows[k].at = e.at
    BY <2>3
  <2> QED
    BY <1>7, <2>3, <2>4
<1>12. CoursesOK(rows)
  BY <1>10, <1>11 DEF CoursesOK
<1> QED
  BY <1>1, <1>5, <1>6, <1>7, <1>12

\* What is left of a player in order, without some charts.
LEMMA LessIsOK ==
  ASSUME NEW p, NEW rows, NEW hist, NEW told, NEW busy, PlayerOK(p, rows, hist, told, busy),
         NEW p2, NEW rows2, NEW hist2, NEW told2, NEW live,
         live \subseteq DOMAIN rows, rows2 = [c \in live |-> rows[c]],
         told2 = [c \in live |-> told[c]],
         DOMAIN hist2 \subseteq DOMAIN hist \cap live,
         \A c \in live : PastOf(hist2, c) = PastOf(hist, c),
         p2 = [collected |-> p.collected, metrics |-> p.metrics, past |-> p.past, updates |-> {}]
  PROVE  PlayerOK(p2, rows2, hist2, told2, busy)
<1>1. /\ p2.collected = p.collected /\ p2.metrics = p.metrics /\ p2.past = p.past
      /\ p2.updates = {}
  OBVIOUS
<1>2. DOMAIN rows2 = live /\ DOMAIN told2 = live
  OBVIOUS
<1>3. \A c \in live : c \in DOMAIN rows /\ rows2[c] = rows[c] /\ told2[c] = told[c]
  OBVIOUS
<1>4. ChartsOK(p2, rows2, hist2, told2, busy)
  <2>1. ChartsOK(p, rows, hist, told, busy)
    BY DEF PlayerOK
  <2>2. \A c \in live :
          /\ RowOK(rows2[c], p2.collected) /\ PastOK(rows2[c], PastOf(hist2, c), busy)
          /\ ToldOK(c, rows2[c], PastOf(hist2, c), told2[c])
    BY <1>1, <1>3, <2>1 DEF ChartsOK
  <2>3. DOMAIN rows2 \subseteq Chart /\ DOMAIN hist2 \subseteq HasHistory \cap DOMAIN rows2
    BY <1>2, <2>1 DEF ChartsOK
  <2> QED
    BY <1>2, <2>2, <2>3 DEF ChartsOK
<1>5. SlotsOK(rows2)
  BY <1>2, <1>3 DEF PlayerOK, SlotsOK
<1>6. MetricsOK(p2, busy)
  BY <1>1 DEF PlayerOK, MetricsOK
<1>7. UpdatesOK(p2, rows2, busy)
  <2>1. IsFiniteSet({}) /\ Cardinality({}) <= MaxUpdates
    BY FS_EmptySet, RegistrationAssumption
  <2> QED
    BY <1>1, <2>1 DEF UpdatesOK, AtOnce, AddUp, Naming
<1> QED
  BY <1>4, <1>5, <1>6, <1>7 DEF PlayerOK

\* An export makes a file in order.
LEMMA SnapshotOK ==
  ASSUME PlayerInv(player, records, histories, sent, crowded), player # Playerless,
         CoursesOK(courses), crowded \in BOOLEAN
  PROVE  FileOK(Snapshot)
<1>1. PlayerOK(player, records, histories, sent, crowded)
  BY DEF PlayerInv
<1>2. ChartsOK(player, records, histories, sent, crowded)
  BY <1>1 DEF PlayerOK
<1>3. DOMAIN sent = DOMAIN records /\ DOMAIN histories \subseteq DOMAIN records
  BY <1>2 DEF ChartsOK
<1> PICK s, about, told, entries, past, results :
      /\ s = Snapshot /\ about = [sent |-> told, crowded |-> crowded]
      /\ told = [c \in DOMAIN sent \ deleted |-> sent[c]]
      /\ entries = RecordEntries /\ past = HistoryEntries /\ results = CourseEntries
  OBVIOUS
<1>4. s = [collected |-> player.collected, metrics |-> player.metrics, past |-> player.past,
           records |-> entries, histories |-> past, courses |-> results, about |-> about]
  BY DEF Snapshot
<1>5. /\ s.collected = player.collected /\ s.metrics = player.metrics /\ s.past = player.past
      /\ s.records = entries /\ s.histories = past /\ s.courses = results /\ s.about = about
      /\ about.sent = told /\ about.crowded = crowded
  BY <1>4
<1>6. s = [collected |-> s.collected, metrics |-> s.metrics, past |-> s.past,
           records |-> s.records, histories |-> s.histories, courses |-> s.courses,
           about |-> [sent |-> s.about.sent, crowded |-> s.about.crowded]]
  BY <1>4, <1>5
<1>7. told = [c \in DOMAIN told |-> told[c]]
  OBVIOUS
<1>8. /\ ChartsOnce(s.records) /\ RecordRows(s) = [c \in DOMAIN records \ deleted |-> records[c]]
      /\ \A e \in s.records :
           e = [chart |-> e.chart, state |-> e.state, slot |-> e.slot, order |-> e.order,
                at |-> e.at]
  BY <1>2, SnapshotRecords
<1>9. /\ \A e \in s.histories : e = [chart |-> e.chart, state |-> e.state, at |-> e.at]
      /\ DOMAIN HistoryRows(s) \subseteq DOMAIN histories \ deleted
      /\ \A c : c \notin deleted => PastOf(HistoryRows(s), c) = PastOf(histories, c)
  BY <1>2, SnapshotHistories
<1>10. /\ \A e, g \in s.courses : e.course = g.course => e = g
       /\ \A e \in s.courses : e = [course |-> e.course, state |-> e.state, at |-> e.at]
       /\ CoursesOK(CourseRows(s))
  BY SnapshotCourses
<1> PICK live : live = DOMAIN records \ deleted
  OBVIOUS
<1> PICK p2, rows2, hist2 :
      p2 = ImportedPlayer(s) /\ rows2 = RecordRows(s) /\ hist2 = HistoryRows(s)
  OBVIOUS
<1>11. p2 = [collected |-> player.collected, metrics |-> player.metrics, past |-> player.past,
             updates |-> {}]
  BY <1>5 DEF ImportedPlayer
<1>12. /\ rows2 = [c \in live |-> records[c]] /\ told = [c \in live |-> sent[c]]
       /\ live \subseteq DOMAIN records /\ DOMAIN hist2 \subseteq DOMAIN histories \cap live
       /\ \A c \in live : PastOf(hist2, c) = PastOf(histories, c)
  BY <1>3, <1>8, <1>9
<1>13. PlayerOK(p2, rows2, hist2, told, crowded)
  BY <1>1, <1>11, <1>12, LessIsOK
<1> QED
  BY <1>5, <1>6, <1>7, <1>8, <1>9, <1>10, <1>13 DEF FileOK

\* What a player from a file exports is what the file still has.
LEMMA StillRecords ==
  ASSUME NEW f, FileOK(f), records = RecordRows(f)
  PROVE  RecordEntries = {e \in f.records : e.chart \notin deleted}
<1> DEFINE Entry(c) == [chart |-> c, state |-> records[c].state, slot |-> records[c].slot,
                        order |-> records[c].order, at |-> records[c].at]
<1>1. \A e, g \in f.records : e.chart = g.chart => e = g
  BY DEF FileOK, ChartsOnce
<1>2. DOMAIN records = {e.chart : e \in f.records}
  BY DEF RecordRows
<1>3. ASSUME NEW e \in f.records PROVE Entry(e.chart) = e
  <2>1. Where(f.records, e.chart) = e
    BY <1>1 DEF Where
  <2>2. records[e.chart] = [state |-> e.state, slot |-> e.slot, order |-> e.order, at |-> e.at]
    BY <2>1 DEF RecordRows
  <2>3. e = [chart |-> e.chart, state |-> e.state, slot |-> e.slot, order |-> e.order, at |-> e.at]
    BY DEF FileOK
  <2>4. /\ records[e.chart].state = e.state /\ records[e.chart].slot = e.slot
        /\ records[e.chart].order = e.order /\ records[e.chart].at = e.at
    BY <2>2
  <2> QED
    BY <2>3, <2>4
<1>4. RecordEntries = {Entry(c) : c \in DOMAIN records \ deleted}
  BY DEF RecordEntries
<1> HIDE DEF Entry
<1>5. ASSUME NEW x \in RecordEntries PROVE x \in f.records /\ x.chart \notin deleted
  <2>1. PICK c \in DOMAIN records \ deleted : x = Entry(c)
    BY <1>4
  <2>2. PICK e \in f.records : e.chart = c
    BY <1>2, <2>1
  <2> QED
    BY <1>3, <2>1, <2>2
<1>6. ASSUME NEW e \in f.records, e.chart \notin deleted PROVE e \in RecordEntries
  BY <1>2, <1>3, <1>4, <1>6
<1> QED
  BY <1>5, <1>6

LEMMA StillHistories ==
  ASSUME NEW f, FileOK(f), histories = HistoryRows(f)
  PROVE  HistoryEntries = {e \in f.histories : e.chart \notin deleted}
<1> DEFINE Entry(c, h) == [chart |-> c, state |-> h.state, at |-> h.at]
           Row(e) == [state |-> e.state, at |-> e.at]
<1>1. DOMAIN histories = {e.chart : e \in f.histories}
  BY DEF HistoryRows
<1>2. \A c \in DOMAIN histories :
        histories[c] = {[state |-> e.state, at |-> e.at] : e \in {g \in f.histories : g.chart = c}}
  BY DEF HistoryRows
<1>3. \A c \in DOMAIN histories :
        /\ \A h \in histories[c] : \E e \in f.histories : e.chart = c /\ h = Row(e)
        /\ \A e \in f.histories : e.chart = c => Row(e) \in histories[c]
  BY <1>2
<1>4. \A e \in f.histories : Entry(e.chart, Row(e)) = e
  <2> TAKE e \in f.histories
  <2>1. e = [chart |-> e.chart, state |-> e.state, at |-> e.at]
    BY DEF FileOK
  <2>2. Row(e).state = e.state /\ Row(e).at = e.at
    OBVIOUS
  <2> HIDE DEF Row
  <2> QED
    BY <2>1, <2>2
<1>5. HistoryEntries = UNION {{Entry(c, h) : h \in histories[c]} : c \in DOMAIN histories \ deleted}
  BY DEF HistoryEntries
<1> HIDE DEF Entry, Row
<1>6. ASSUME NEW x \in HistoryEntries PROVE x \in f.histories /\ x.chart \notin deleted
  <2>1. PICK c \in DOMAIN histories \ deleted : \E h \in histories[c] : x = Entry(c, h)
    BY <1>5
  <2>2. PICK h \in histories[c] : x = Entry(c, h)
    BY <2>1
  <2>3. PICK e \in f.histories : e.chart = c /\ h = Row(e)
    BY <1>3, <2>1
  <2> QED
    BY <1>4, <2>1, <2>2, <2>3
<1>7. ASSUME NEW e \in f.histories, e.chart \notin deleted PROVE e \in HistoryEntries
  <2>1. e.chart \in DOMAIN histories \ deleted
    BY <1>1, <1>7
  <2>2. Row(e) \in histories[e.chart] /\ e = Entry(e.chart, Row(e))
    BY <1>3, <1>4, <2>1
  <2> QED
    BY <1>5, <2>1, <2>2
<1> QED
  BY <1>6, <1>7

LEMMA StillCourses ==
  ASSUME NEW f, FileOK(f), courses = CourseRows(f)
  PROVE  CourseEntries = {e \in f.courses : e.course \in liveCourses}
<1> DEFINE Entry(k) == [course |-> k, state |-> courses[k].state, at |-> courses[k].at]
<1>1. \A e, g \in f.courses : e.course = g.course => e = g
  BY DEF FileOK
<1>2. DOMAIN courses = {e.course : e \in f.courses}
  BY DEF CourseRows
<1>3. ASSUME NEW e \in f.courses PROVE Entry(e.course) = e
  <2>1. (CHOOSE g \in f.courses : g.course = e.course) = e
    BY <1>1
  <2>2. courses[e.course] = [state |-> e.state, at |-> e.at]
    BY <2>1 DEF CourseRows
  <2>3. e = [course |-> e.course, state |-> e.state, at |-> e.at]
    BY DEF FileOK
  <2>4. courses[e.course].state = e.state /\ courses[e.course].at = e.at
    BY <2>2
  <2> QED
    BY <2>3, <2>4
<1>4. CourseEntries = {Entry(k) : k \in DOMAIN courses \cap liveCourses}
  BY DEF CourseEntries
<1> HIDE DEF Entry
<1>5. ASSUME NEW x \in CourseEntries PROVE x \in f.courses /\ x.course \in liveCourses
  <2>1. PICK k \in DOMAIN courses \cap liveCourses : x = Entry(k)
    BY <1>4
  <2>2. PICK e \in f.courses : e.course = k
    BY <1>2, <2>1
  <2> QED
    BY <1>3, <2>1, <2>2
<1>6. ASSUME NEW e \in f.courses, e.course \in liveCourses PROVE e \in CourseEntries
  BY <1>2, <1>3, <1>4, <1>6
<1> QED
  BY <1>5, <1>6

LEMMA ImportedIsStill ==
  ASSUME NEW f, FileOK(f), From(f)
  PROVE  Snapshot = Still(f)
<1>1. /\ player = ImportedPlayer(f) /\ records = RecordRows(f) /\ histories = HistoryRows(f)
      /\ courses = CourseRows(f) /\ sent = f.about.sent /\ crowded = f.about.crowded
  BY DEF From
<1>2. /\ player.collected = f.collected /\ player.metrics = f.metrics /\ player.past = f.past
  BY <1>1 DEF ImportedPlayer
<1> PICK co, me, pa, re, hi, cs, se, cr :
      /\ co = f.collected /\ me = f.metrics /\ pa = f.past /\ re = f.records
      /\ hi = f.histories /\ cs = f.courses /\ se = f.about.sent /\ cr = f.about.crowded
  OBVIOUS
<1> PICK re2, hi2, cs2, se2 :
      /\ re2 = {e \in re : e.chart \notin deleted} /\ hi2 = {e \in hi : e.chart \notin deleted}
      /\ cs2 = {e \in cs : e.course \in liveCourses}
      /\ se2 = [c \in DOMAIN se \ deleted |-> se[c]]
  OBVIOUS
<1>3. Snapshot = [collected |-> co, metrics |-> me, past |-> pa, records |-> re2,
                  histories |-> hi2, courses |-> cs2, about |-> [sent |-> se2, crowded |-> cr]]
  <2>1. RecordEntries = re2 /\ HistoryEntries = hi2 /\ CourseEntries = cs2
    BY <1>1, StillRecords, StillHistories, StillCourses
  <2>2. [c \in DOMAIN sent \ deleted |-> sent[c]] = se2
    BY <1>1
  <2> QED
    BY <1>1, <1>2, <2>1, <2>2 DEF Snapshot
<1>4. f = [collected |-> co, metrics |-> me, past |-> pa, records |-> re,
           histories |-> hi, courses |-> cs, about |-> [sent |-> se, crowded |-> cr]]
  BY DEF FileOK
<1>5. f.about = [sent |-> se, crowded |-> cr]
  BY <1>4
<1>6. Still(f) = [f EXCEPT !.records = re2, !.histories = hi2, !.courses = cs2,
                           !.about.sent = se2]
  BY <1>4 DEF Still
<1> PICK about : about = [sent |-> se, crowded |-> cr]
  OBVIOUS
<1> PICK about2 : about2 = [about EXCEPT !.sent = se2]
  OBVIOUS
<1>7. about2 = [sent |-> se2, crowded |-> cr]
  OBVIOUS
<1>8. Still(f) = [f EXCEPT !.records = re2, !.histories = hi2, !.courses = cs2,
                           !.about = about2]
  BY <1>5, <1>6
<1>9. [f EXCEPT !.records = re2, !.histories = hi2, !.courses = cs2, !.about = about2]
        = [collected |-> co, metrics |-> me, past |-> pa, records |-> re2,
           histories |-> hi2, courses |-> cs2, about |-> about2]
  <2>1. f = [collected |-> co, metrics |-> me, past |-> pa, records |-> re,
             histories |-> hi, courses |-> cs, about |-> about]
    BY <1>4
  <2>2. PICK z : z = [f EXCEPT !.records = re2, !.histories = hi2, !.courses = cs2, !.about = about2]
    OBVIOUS
  <2>3. DOMAIN f = {"collected", "metrics", "past", "records", "histories", "courses", "about"}
    BY <2>1
  <2>4. /\ DOMAIN z = DOMAIN f /\ z = [x \in DOMAIN z |-> z[x]]
    BY <2>2
  <2>5. /\ z.collected = f.collected /\ z.metrics = f.metrics /\ z.past = f.past
    BY <2>2, <2>3
  <2>6. /\ z.records = re2 /\ z.histories = hi2 /\ z.courses = cs2 /\ z.about = about2
    BY <2>2, <2>3
  <2>7. z = [collected |-> z.collected, metrics |-> z.metrics, past |-> z.past,
             records |-> z.records, histories |-> z.histories, courses |-> z.courses,
             about |-> z.about]
    BY <2>3, <2>4
  <2> QED
    BY <2>2, <2>5, <2>6, <2>7
<1> QED
  BY <1>3, <1>7, <1>8, <1>9

-----------------------------------------------------------------------------
(* The invariant *)

\* A body comes whenever it likes: without the bound of RegisterNext, and the file stays
\* or is forgotten.
RegisterAnyTime ==
  /\ \E b \in Body, t \in CollectTime : Register(b, t)
  /\ origin' = NoFile /\ file' \in {file, NoFile} /\ UNCHANGED <<deleted, files>>

AnyTimeSpec ==
  TransferInit /\ [][TransferNext \/ RegisterAnyTime]_<<registrationVars, transferVars>>

LEMMA TransferStarts ==
  ASSUME TransferInit PROVE TransferInv
<1>1. /\ player = Playerless /\ records = <<>> /\ histories = <<>> /\ courses = <<>> /\ sent = <<>>
      /\ crowded = FALSE /\ liveCourses = Course
      /\ deleted = {} /\ file = NoFile /\ files = 0 /\ origin = NoFile
  BY DEF TransferInit, RegistrationInit, NoPlayer
<1>2. PlayerInv(player, records, histories, sent, crowded)
  BY <1>1 DEF PlayerInv
<1>3. DOMAIN courses = {}
  BY <1>1
<1>4. files \in 0 .. MaxFiles
  BY <1>1, TransferAssumption
<1> QED
  BY <1>1, <1>2, <1>3, <1>4 DEF TransferInv, CoursesOK, Imported

LEMMA RegisterStep ==
  ASSUME TransferInv, RegisterAnyTime PROVE TransferInv'
<1>1. PICK b \in Body, t \in CollectTime : Register(b, t)
  BY DEF RegisterAnyTime
<1>2. PlayerInv(player', records', histories', sent', crowded') /\ player'.updates # {}
  BY <1>1, RegisterPlayer DEF TransferInv
<1>3. CoursesOK(courses')
  BY <1>1, RegisterCourses DEF TransferInv
<1>4. liveCourses' = liveCourses /\ crowded' \in BOOLEAN
  <2>1. crowded' = (crowded \/ (player.collected = RoundedSecond(t) /\ \A u \in player.updates : u.at # t))
    BY <1>1 DEF Register
  <2> QED
    BY <1>1, <2>1 DEF Register, TransferInv
<1>5. file' \in {file, NoFile} /\ origin' = NoFile /\ deleted' = deleted /\ files' = files
  BY DEF RegisterAnyTime
<1>6. \A f \in {file', origin'} : f # NoFile => FileOK(f)
  BY <1>5 DEF TransferInv
<1> QED
  BY <1>6, <1>2, <1>3, <1>4, <1>5 DEF TransferInv, Imported

LEMMA UnregisterStep ==
  ASSUME TransferInv, Unregister, origin' = NoFile, UNCHANGED <<deleted, file, files>>
  PROVE  TransferInv'
<1>1. /\ player' = Playerless /\ records' = <<>> /\ histories' = <<>> /\ courses' = <<>> /\ sent' = <<>>
      /\ crowded' = FALSE /\ liveCourses' = liveCourses
  BY DEF Unregister
<1>2. PlayerInv(player', records', histories', sent', crowded')
  BY <1>1 DEF PlayerInv
<1>3. DOMAIN courses' = {}
  BY <1>1
<1>4. CoursesOK(courses')
  BY <1>3 DEF CoursesOK
<1> QED
  BY <1>1, <1>2, <1>4 DEF TransferInv, Imported

LEMMA ExportStep ==
  ASSUME TransferInv, Export PROVE TransferInv'
<1>1. /\ files < MaxFiles /\ player # Playerless /\ Encoded(Snapshot) # NoFile
      /\ file' = Encoded(Snapshot) /\ files' = files + 1
      /\ deleted' = deleted /\ origin' = origin /\ registrationVars' = registrationVars
  BY DEF Export
<1>2. file' = Snapshot
  BY <1>1 DEF Encoded
<1>3. FileOK(file')
  BY <1>1, <1>2, SnapshotOK DEF TransferInv
<1>4. files' \in 0 .. MaxFiles
  BY <1>1, TransferAssumption DEF TransferInv
<1>5. UNCHANGED <<player, records, histories, courses, liveCourses, sent, crowded>>
  BY <1>1 DEF registrationVars
<1>6. origin # NoFile => FileOK(origin)
  BY DEF TransferInv
<1> QED
  BY <1>1, <1>3, <1>4, <1>5, <1>6 DEF TransferInv, Imported, From

LEMMA ImportStep ==
  ASSUME TransferInv, Import PROVE TransferInv'
<1>1. Decoded(file) # NoFile
  BY DEF Import
<1>2. file # NoFile /\ Decoded(file) = file
  BY <1>1 DEF Decoded
<1>3. /\ player' = ImportedPlayer(file) /\ records' = RecordRows(file)
      /\ histories' = HistoryRows(file) /\ courses' = CourseRows(file)
      /\ sent' = file.about.sent /\ crowded' = file.about.crowded
      /\ origin' = file /\ liveCourses' = liveCourses /\ deleted' = deleted /\ file' = file
      /\ files' = files
  BY <1>2 DEF Import
<1>4. FileOK(file)
  BY <1>2 DEF TransferInv
<1>5. PlayerOK(player', records', histories', sent', crowded') /\ CoursesOK(courses')
  BY <1>3, <1>4 DEF FileOK
<1>6. player' # Playerless
  <2>1. player'.collected \in Seconds /\ \A x \in Seconds : x \in Nat
    BY <1>5, SecondsAreNat DEF PlayerOK, MetricsOK
  <2>2. Playerless.collected = -1
    BY DEF Playerless
  <2> QED
    BY <2>1, <2>2
<1>7. PlayerInv(player', records', histories', sent', crowded')
  BY <1>5, <1>6 DEF PlayerInv
<1>8. crowded' \in BOOLEAN
  BY <1>3, <1>4 DEF FileOK
<1>9. From(origin)'
  BY <1>3 DEF From
<1> QED
  BY <1>2, <1>3, <1>4, <1>5, <1>7, <1>8, <1>9 DEF TransferInv

LEMMA DeletionStep ==
  ASSUME TransferInv,
         \/ SetCourseDeleted /\ UNCHANGED transferVars
         \/ SetSongDeleted
         \/ UNCHANGED <<registrationVars, transferVars>>
  PROVE  TransferInv'
<1>1. /\ UNCHANGED <<player, records, histories, courses, sent, crowded>>
      /\ UNCHANGED <<file, files, origin>>
  BY DEF SetCourseDeleted, SetSongDeleted, registrationVars, transferVars
<1>2. liveCourses' \subseteq Course /\ deleted' \subseteq Deletable
  <2>1. CASE SetCourseDeleted /\ UNCHANGED transferVars
    BY <2>1 DEF SetCourseDeleted, transferVars, TransferInv
  <2>2. CASE SetSongDeleted
    BY <2>2 DEF SetSongDeleted, registrationVars, TransferInv
  <2>3. CASE UNCHANGED <<registrationVars, transferVars>>
    BY <2>3 DEF registrationVars, transferVars, TransferInv
  <2> QED
    BY <2>1, <2>2, <2>3
<1>3. origin # NoFile /\ From(origin) => (origin # NoFile /\ From(origin))'
  BY <1>1 DEF From
<1>4. Imported' => Imported
  BY <1>1 DEF Imported
<1> QED
  BY <1>1, <1>2, <1>3, <1>4 DEF TransferInv

\* The bound on when bodies come takes behaviors away and adds none.
LEMMA TransferIsAnyTime == TransferSpec => AnyTimeSpec
BY PTL DEF TransferSpec, AnyTimeSpec

\* Whatever bodies come, and whenever players are deleted, exported and imported: rows are
\* valid and no newer than the player, a chart's history is older than its record and is what
\* was sent for it, ranks are distinct, updates add up, and a file is a player in order
\* (SavePlayerDataFull, exportSnapshot, importSnapshot).
THEOREM TransferStaysInOrder == AnyTimeSpec => []TransferInv
<1>1. TransferInit => TransferInv
  BY TransferStarts
<1>2. TransferInv /\ [TransferNext \/ RegisterAnyTime]_<<registrationVars, transferVars>>
        => TransferInv'
  <2> SUFFICES ASSUME TransferInv,
                      [TransferNext \/ RegisterAnyTime]_<<registrationVars, transferVars>>
               PROVE  TransferInv'
    OBVIOUS
  <2>1. CASE RegisterNext \/ RegisterAnyTime
    <3>1. RegisterAnyTime
      BY <2>1 DEF RegisterNext, RegisterAnyTime
    <3> QED
      BY <3>1, RegisterStep
  <2>2. CASE Unregister /\ origin' = NoFile /\ UNCHANGED <<deleted, file, files>>
    BY <2>2, UnregisterStep
  <2>3. CASE SetCourseDeleted /\ UNCHANGED transferVars
    BY <2>3, DeletionStep
  <2>4. CASE Export
    BY <2>4, ExportStep
  <2>5. CASE Import
    BY <2>5, ImportStep
  <2>6. CASE SetSongDeleted
    BY <2>6, DeletionStep
  <2>7. CASE UNCHANGED <<registrationVars, transferVars>>
    BY <2>7, DeletionStep
  <2> QED
    BY <2>1, <2>2, <2>3, <2>4, <2>5, <2>6, <2>7 DEF TransferNext
<1> QED
  BY <1>1, <1>2, PTL DEF AnyTimeSpec

-----------------------------------------------------------------------------
(* What the invariant says *)

\* Rows with different ranks up to a limit.
LEMMA RankedApart ==
  ASSUME NEW S, NEW limit \in Nat, NEW r \in [S -> 1 .. limit],
         \A x, y \in S : r[x] = r[y] => x = y
  PROVE  /\ IsFiniteSet(S) /\ Cardinality(S) <= limit
         /\ Cardinality({r[x] : x \in S}) = Cardinality(S)
<1> DEFINE T == {r[x] : x \in S}
<1>1. IsFiniteSet(1 .. limit) /\ Cardinality(1 .. limit) = limit
  BY FS_Interval
<1>2. r \in Injection(S, 1 .. limit)
  BY DEF Injection, IsInjective
<1>3. IsFiniteSet(S) /\ Cardinality(S) <= limit
  BY <1>1, <1>2, FS_Injection
<1>4. r \in [S -> T] /\ \A y \in T : \E x \in S : r[x] = y
  OBVIOUS
<1> HIDE DEF T
<1>5. r \in Bijection(S, T)
  BY <1>4 DEF Bijection, Injection, Surjection, IsInjective
<1>6. Cardinality(T) = Cardinality(S)
  BY <1>3, <1>5, FS_Bijection DEF ExistsBijection
<1> QED
  BY <1>3, <1>6 DEF T

\* The history of a chart is finite and told apart by its times.
LEMMA HistoryBounded ==
  ASSUME PlayerInv(player, records, histories, sent, crowded), NEW c \in DOMAIN histories
  PROVE  /\ c \in DOMAIN records /\ c \in HasHistory
         /\ IsFiniteSet(histories[c]) /\ Cardinality(histories[c]) <= MaxHistory
         /\ AtOnce(histories[c])
         /\ \A h \in histories[c] : StateOK(h.state) /\ h.at \in Seconds /\ h.at \in Int
<1>1. ChartsOK(player, records, histories, sent, crowded)
  BY PlayerBefore
<1>2. c \in DOMAIN records /\ c \in HasHistory /\ PastOf(histories, c) = histories[c]
  BY <1>1 DEF ChartsOK, PastOf
<1> PICK past : past = histories[c]
  OBVIOUS
<1>3. PastOK(records[c], past, crowded) /\ Tells(sent[c], records[c], past)
  BY <1>1, <1>2 DEF ChartsOK, ToldOK
<1>4. \A h \in past : StateOK(h.state) /\ h.at \in Seconds
  BY <1>3 DEF PastOK
<1>5. \A h \in past : h.at \in Int
  <2>1. \A x \in Seconds : x \in Int
    BY SecondsAreNat
  <2> QED
    BY <1>4, <2>1
<1>6. PICK n \in 0 .. MaxHistory : \E e \in [1 .. n -> past] : Ordered(e, n, past)
  BY <1>3 DEF Tells
<1>7. PICK e \in [1 .. n -> past] : Ordered(e, n, past)
  BY <1>6
<1>8. MaxHistory \in Nat /\ n \in Nat /\ n <= MaxHistory
  BY RegistrationAssumption
<1>9. IsFiniteSet(past) /\ Cardinality(past) = n /\ AtOnce(past)
  BY <1>5, <1>7, <1>8, OrderedCounts
<1> QED
  BY <1>2, <1>4, <1>5, <1>8, <1>9

\* The record is the last state that was sent, and the history has those before it.
LEMMA HistoryIsTold ==
  ASSUME PlayerInv(player, records, histories, sent, crowded)
  PROVE  HistoryTellsAll
<1>1. ChartsOK(player, records, histories, sent, crowded)
  BY PlayerBefore
<1>2. DOMAIN sent = DOMAIN records
  BY <1>1 DEF ChartsOK
<1>3. ASSUME NEW c \in DOMAIN records, c \in HasHistory PROVE Timeline(c) = sent[c]
  <2>1. History(c) = PastOf(histories, c)
    BY DEF History, PastOf
  <2> PICK past : past = History(c)
    OBVIOUS
  <2>2. PastOK(records[c], past, crowded) /\ Tells(sent[c], records[c], past)
    BY <1>1, <1>3, <2>1 DEF ChartsOK, ToldOK
  <2>3. \A h \in past : h.at \in Int
    BY <2>2, SecondsAreNat DEF PastOK
  <2>4. PICK n \in 0 .. MaxHistory : \E e \in [1 .. n -> past] :
          Ordered(e, n, past) /\ sent[c] = Append([k \in 1 .. n |-> e[k].state], records[c].state)
    BY <2>2 DEF Tells
  <2>5. PICK e \in [1 .. n -> past] :
          Ordered(e, n, past) /\ sent[c] = Append([k \in 1 .. n |-> e[k].state], records[c].state)
    BY <2>4
  <2>6. n \in Nat
    BY RegistrationAssumption
  <2>7. Timeline(c) = Append([k \in 1 .. n |-> e[k].state], records[c].state)
    BY <2>3, <2>5, <2>6, TimelineInOrder
  <2> QED
    BY <2>5, <2>7
<1>4. ASSUME NEW c \in DOMAIN records, c \notin HasHistory
      PROVE  c \notin DOMAIN histories /\ records[c].state = sent[c][Len(sent[c])]
  BY <1>1, <1>4 DEF ChartsOK, ToldOK
<1> QED
  BY <1>2, <1>3, <1>4 DEF HistoryTellsAll

LEMMA ResultsDoAddUp ==
  ASSUME PlayerInv(player, records, histories, sent, crowded)
  PROVE  ResultsAddUp
<1>1. UpdatesOK(player, records, crowded)
  BY PlayerBefore
<1>2. ~crowded => AddUp(player, records)
  BY <1>1 DEF UpdatesOK
<1> QED
  BY <1>2 DEF ResultsAddUp, AddUp, Naming, After

LEMMA SlotsAreRanked ==
  ASSUME PlayerInv(player, records, histories, sent, crowded)
  PROVE  SlotsRanked
<1>1. SlotsOK(records) /\ UpdatesOK(player, records, crowded)
  BY PlayerBefore
<1> SUFFICES ASSUME NEW slot \in {"best", "new"}
             PROVE  LET cs == InSlot(records, slot)
                        ranks == {records[c].order : c \in cs}
                    IN /\ Cardinality(cs) <= SlotLimit[slot]
                       /\ Cardinality(ranks) = Cardinality(cs)
                       /\ ranks \subseteq 1 .. SlotLimit[slot]
                       /\ cs # {} /\ player.updates # {} => ranks = 1 .. Cardinality(cs)
  BY DEF SlotsRanked
<1> PICK cs, limit, r : /\ cs = InSlot(records, slot) /\ limit = SlotLimit[slot]
                        /\ r = [c \in cs |-> records[c].order]
  OBVIOUS
<1>2. limit \in Nat
  BY RegistrationAssumption DEF Slot
<1>3. \A c \in cs : c \in DOMAIN records /\ records[c].slot = slot
  BY DEF InSlot, Default
<1>4. r \in [cs -> 1 .. limit]
  BY <1>1, <1>3 DEF SlotsOK
<1>5. \A c, d \in cs : r[c] = r[d] => c = d
  BY <1>1, <1>3 DEF SlotsOK
<1>6. {records[c].order : c \in cs} = {r[c] : c \in cs}
  OBVIOUS
<1>7. Cardinality(cs) <= limit /\ Cardinality({r[c] : c \in cs}) = Cardinality(cs)
  BY <1>2, <1>4, <1>5, RankedApart
<1>8. {r[c] : c \in cs} \subseteq 1 .. limit
  BY <1>4
<1>9. player.updates # {} => {records[c].order : c \in cs} = 1 .. Cardinality(cs)
  BY <1>1 DEF UpdatesOK, MainOK
<1> QED
  BY <1>6, <1>7, <1>8, <1>9

LEMMA NothingConflicts ==
  ASSUME PlayerInv(player, records, histories, sent, crowded)
  PROVE  LaterIsAccepted
<1> SUFFICES ASSUME ~crowded, NEW b \in Body PROVE ~HistoryConflict(b)
  BY DEF LaterIsAccepted
<1>1. ChartsOK(player, records, histories, sent, crowded) /\ player.collected \in Int
  BY PlayerBefore
<1>2. ASSUME MetricsChange(b), NEW m \in player.past, m.at = player.collected PROVE FALSE
  <2>1. MetricsOK(player, crowded)
    BY <1>2, PlayerBefore DEF MetricsChange
  <2>2. m.at < player.collected
    BY <2>1 DEF MetricsOK
  <2> QED
    BY <1>1, <1>2, <2>2
<1>3. ASSUME NEW c \in Overwritten(b), NEW h \in History(c), h.at = records[c].at PROVE FALSE
  <2>1. c \in DOMAIN records /\ History(c) = PastOf(histories, c)
    BY DEF Overwritten, History, PastOf
  <2>2. RowOK(records[c], player.collected) /\ PastOK(records[c], History(c), crowded)
    BY <1>1, <2>1 DEF ChartsOK
  <2>3. h.at < records[c].at /\ records[c].at \in Seconds
    BY <2>2 DEF PastOK, RowOK
  <2>4. records[c].at \in Int
    <3>1. \A x \in Seconds : x \in Int
      BY SecondsAreNat
    <3> QED
      BY <2>3, <3>1
  <2> QED
    BY <1>3, <2>3, <2>4
<1> QED
  BY <1>2, <1>3 DEF HistoryConflict

\* For every player, at any time: a chart's timeline tells the states that were sent for it,
\* each once and in order, and the stored results of its updates add up to its record
\* (buildStandardHistories, pruneHistories, computeRecordChanges, SaveLatestUpdate).
THEOREM TransferToldTruly ==
  /\ AnyTimeSpec => []ToldTruly
  /\ TransferSpec => []ToldTruly
<1>1. TransferInv => ToldTruly
  BY HistoryIsTold, ResultsDoAddUp DEF TransferInv, ToldTruly
<1> QED
  BY <1>1, TransferStaysInOrder, TransferIsAnyTime, PTL

\* The main slots are ranked within their limits, without a gap once a body came, and no
\* body is refused because a second of the histories is taken, unless a second was crowded
\* (ClearRankedSlots, validateFullRecordSlots, ErrScoreHistoryTimestampConflict).
THEOREM TransferReadyForNext ==
  /\ AnyTimeSpec => []ReadyForNext
  /\ TransferSpec => []ReadyForNext
<1>1. TransferInv => ReadyForNext
  BY SlotsAreRanked, NothingConflicts DEF TransferInv, ReadyForNext
<1> QED
  BY <1>1, TransferStaysInOrder, TransferIsAnyTime, PTL

LEMMA SnapshotOfRecords ==
  ASSUME PlayerInv(player, records, histories, sent, crowded)
  PROVE  ValidRecords(Snapshot.records)
<1>1. ChartsOK(player, records, histories, sent, crowded) /\ SlotsOK(records)
  BY PlayerBefore
<1> PICK entries : entries = Snapshot.records
  OBVIOUS
<1>2. ChartsOnce(entries)
  BY <1>1, SnapshotRecords
<1>3. entries = {[chart |-> c, state |-> records[c].state, slot |-> records[c].slot,
                  order |-> records[c].order, at |-> records[c].at] :
                 c \in DOMAIN records \ deleted}
  BY DEF Snapshot, RecordEntries
<1>4. ASSUME NEW e \in entries
      PROVE  /\ e.chart \in DOMAIN records /\ e.state = records[e.chart].state
             /\ e.slot = records[e.chart].slot /\ e.order = records[e.chart].order
  <2>1. PICK c \in DOMAIN records \ deleted :
          e = [chart |-> c, state |-> records[c].state, slot |-> records[c].slot,
               order |-> records[c].order, at |-> records[c].at]
    BY <1>3
  <2>2. e.chart = c
    BY <2>1
  <2> QED
    BY <2>1, <2>2
<1>5. \A e \in entries : ValidState(e.state) /\ (e.slot = "none" => e.order = Absent)
  BY <1>1, <1>4 DEF ChartsOK, RowOK, StateOK, SlotsOK
<1>6. ASSUME NEW slot \in Slot \ {"none"}
      PROVE  ValidRanks({e \in entries : e.slot = slot}, slot)
  <2>0. PICK mine, limit, r : /\ mine = {e \in entries : e.slot = slot} /\ limit = SlotLimit[slot]
                            /\ r = [e \in mine |-> e.order]
    OBVIOUS
  <2>1. limit \in Nat
    BY <2>0, RegistrationAssumption
  <2>2. \A e \in mine : e.order # Absent /\ e.order \in 1 .. limit
    BY <2>0, <1>1, <1>4 DEF SlotsOK
  <2>3. \A e, f \in mine : e.order = f.order => e = f
    <3> SUFFICES ASSUME NEW e \in mine, NEW f \in mine, e.order = f.order PROVE e = f
      OBVIOUS
    <3>1. /\ e.chart \in DOMAIN records /\ f.chart \in DOMAIN records
          /\ records[e.chart].slot = slot /\ records[f.chart].slot = slot
          /\ records[e.chart].order = records[f.chart].order
      BY <2>0, <1>4
    <3>2. e.chart = f.chart
      BY <1>1, <3>1 DEF SlotsOK
    <3> QED
      BY <1>2, <2>0, <3>2 DEF ChartsOnce
  <2>4. r \in [mine -> 1 .. limit] /\ \A e, f \in mine : r[e] = r[f] => e = f
    BY <2>0, <2>2, <2>3
  <2>5. Cardinality(mine) <= limit
    BY <2>1, <2>4, RankedApart
  <2> QED
    BY <2>0, <2>2, <2>3, <2>5 DEF ValidRanks
<1> QED
  BY <1>2, <1>5, <1>6 DEF ValidRecords

LEMMA SnapshotOfHistories ==
  ASSUME PlayerInv(player, records, histories, sent, crowded)
  PROVE  ValidHistories(Snapshot.histories)
<1> DEFINE Entry(c, h) == [chart |-> c, state |-> h.state, at |-> h.at]
<1> PICK entries : entries = Snapshot.histories
  OBVIOUS
<1>1. entries = UNION {{Entry(c, h) : h \in histories[c]} : c \in DOMAIN histories \ deleted}
  BY DEF Snapshot, HistoryEntries
<1>2. \A c, h : Entry(c, h).chart = c /\ Entry(c, h).state = h.state /\ Entry(c, h).at = h.at
  OBVIOUS
<1> HIDE DEF Entry
<1>3. ASSUME NEW e \in entries
      PROVE  /\ e.chart \in DOMAIN histories
             /\ \E h \in histories[e.chart] : e = Entry(e.chart, h)
  <2>1. PICK c \in DOMAIN histories : \E h \in histories[c] : e = Entry(c, h)
    BY <1>1
  <2> QED
    BY <1>2, <2>1
<1>4. \A e \in entries : ValidState(e.state)
  <2> TAKE e \in entries
  <2>1. PICK h \in histories[e.chart] : e = Entry(e.chart, h)
    BY <1>3
  <2>2. StateOK(h.state)
    BY <1>3, HistoryBounded
  <2> QED
    BY <1>2, <2>1, <2>2 DEF StateOK
<1>5. ASSUME NEW c \in {e.chart : e \in entries}
      PROVE  LET past == {e \in entries : e.chart = c}
             IN Cardinality(past) <= MaxHistory /\ AtOnce(past)
  <2> PICK past : past = {e \in entries : e.chart = c}
    OBVIOUS
  <2> PICK rows : rows = histories[c]
    OBVIOUS
  <2>1. c \in DOMAIN histories
    BY <1>3
  <2>2. /\ IsFiniteSet(rows) /\ Cardinality(rows) <= MaxHistory /\ AtOnce(rows)
    BY <2>1, HistoryBounded
  <2>3. \A e \in past : \E h \in rows : e = Entry(c, h)
    BY <1>3
  <2>4. AtOnce(past)
    BY <1>2, <2>2, <2>3 DEF AtOnce
  <2>0. PICK back : back = [e \in past |-> CHOOSE h \in rows : e = Entry(c, h)]
    OBVIOUS
  <2>5. \A e \in past : back[e] \in rows /\ e = Entry(c, back[e])
    BY <2>0, <2>3
  <2>6. back \in [past -> rows]
    BY <2>0, <2>5
  <2>11. \A e, f \in past : back[e] = back[f] => e = f
    BY <2>5
  <2>7. back \in Injection(past, rows)
    BY <2>6, <2>11 DEF Injection, IsInjective
  <2>8. IsFiniteSet(past) /\ Cardinality(past) <= Cardinality(rows)
    BY <2>2, <2>7, FS_Injection
  <2>9. Cardinality(past) \in Nat /\ Cardinality(rows) \in Nat /\ MaxHistory \in Nat
    BY <2>2, <2>8, FS_CardinalityType, RegistrationAssumption
  <2>10. Cardinality(past) <= MaxHistory
    BY <2>2, <2>8, <2>9
  <2> QED
    BY <2>4, <2>10
<1> QED
  BY <1>4, <1>5 DEF ValidHistories

LEMMA SnapshotIsValid ==
  ASSUME TransferInv, player # Playerless, ~crowded
  PROVE  ValidSnapshot(Snapshot)
<1>1. PlayerInv(player, records, histories, sent, crowded) /\ CoursesOK(courses)
  BY DEF TransferInv
<1>2. MetricsOK(player, crowded)
  BY <1>1, PlayerBefore
<1>3. /\ Snapshot.metrics = player.metrics /\ Snapshot.past = player.past
      /\ Snapshot.collected = player.collected
  BY DEF Snapshot
<1>4. ValidMetrics(Snapshot.metrics) /\ \A m \in Snapshot.past : ValidMetrics(m.metrics)
  BY <1>2, <1>3 DEF MetricsOK
<1>5. ValidPast(Snapshot.past, Snapshot.collected)
  BY <1>2, <1>3 DEF MetricsOK, ValidPast
<1>6. ValidResults(Snapshot.courses)
  BY <1>1, SnapshotCourses DEF ValidResults
<1> QED
  BY <1>1, <1>4, <1>5, <1>6, SnapshotOfRecords, SnapshotOfHistories DEF ValidSnapshot

\* A player that registrations or an import left can be exported, whatever was deleted since,
\* and what is imported is exported again as it was, without what has been deleted meanwhile
\* (Validate in Export, exportSnapshot, importSnapshot).
THEOREM TransferIsSound ==
  /\ AnyTimeSpec => []TransferSound
  /\ TransferSpec => []TransferSound
<1>1. TransferInv => TransferSound
  <2> SUFFICES ASSUME TransferInv, player # Playerless
               PROVE  /\ ~crowded => ValidSnapshot(Snapshot)
                      /\ Imported => Snapshot = Still(origin)
    BY DEF TransferSound
  <2>1. ~crowded => ValidSnapshot(Snapshot)
    BY SnapshotIsValid
  <2>2. ASSUME Imported PROVE Snapshot = Still(origin)
    <3>1. origin # NoFile /\ From(origin) /\ FileOK(origin)
      BY <2>2 DEF TransferInv
    <3> QED
      BY <3>1, ImportedIsStill
  <2> QED
    BY <2>1, <2>2
<1> QED
  BY <1>1, TransferStaysInOrder, TransferIsAnyTime, PTL

\* The rows have their types: the histories and the updates are pruned to their limits, and
\* only charts with records have histories (RegistrationTypeOK, pruneHistories).
THEOREM TransferTypes ==
  /\ AnyTimeSpec => []TransferTypeOK
  /\ TransferSpec => []TransferTypeOK
<1>1. TransferInv => TransferTypeOK
  <2> SUFFICES ASSUME TransferInv PROVE TransferTypeOK
    OBVIOUS
  <2>1. PlayerInv(player, records, histories, sent, crowded) /\ CoursesOK(courses)
        /\ liveCourses \subseteq Course /\ crowded \in BOOLEAN
        /\ deleted \subseteq Deletable /\ files \in 0 .. MaxFiles
        /\ \A f \in {file, origin} : f # NoFile => FileOK(f)
    BY DEF TransferInv
  <2>2. /\ ChartsOK(player, records, histories, sent, crowded)
        /\ UpdatesOK(player, records, crowded)
        /\ IF player = Playerless THEN player.past = {} ELSE MetricsOK(player, crowded)
    BY <2>1, PlayerBefore
  <2>3. player = Playerless \/ player.collected \in Seconds
    BY <2>2 DEF MetricsOK
  <2>4. DOMAIN records \subseteq Chart /\ DOMAIN histories \subseteq HasHistory
    BY <2>2 DEF ChartsOK
  <2>5. \A c \in DOMAIN records :
          records[c].state \in State /\ records[c].at \in Seconds /\ records[c].slot \in Slot
    BY <2>2 DEF ChartsOK, RowOK, StateOK
  <2>6. \A c \in DOMAIN histories :
          /\ c \in DOMAIN records /\ Cardinality(histories[c]) <= MaxHistory
          /\ \A h \in histories[c] : h.state \in State /\ h.at \in Seconds
    BY <2>1, HistoryBounded DEF StateOK
  <2>7. Cardinality(player.updates) <= MaxUpdates
    BY <2>2 DEF UpdatesOK
  <2>8. Cardinality(player.past) <= MaxMetrics
    <3>1. Cardinality({}) <= MaxMetrics
      BY FS_EmptySet, RegistrationAssumption
    <3> QED
      BY <2>2, <3>1 DEF MetricsOK
  <2>9. DOMAIN courses \subseteq Course
    BY <2>1 DEF CoursesOK
  <2>10. \A f \in {file, origin} : f # NoFile => f.collected \in Seconds
    <3>1. \A f : FileOK(f) => ImportedPlayer(f).collected \in Seconds
      BY DEF FileOK, PlayerOK, MetricsOK
    <3>2. \A f : ImportedPlayer(f).collected = f.collected
      BY DEF ImportedPlayer
    <3> QED
      BY <2>1, <3>1, <3>2
  <2> QED
    BY <2>1, <2>3, <2>4, <2>5, <2>6, <2>7, <2>8, <2>9, <2>10
    DEF TransferTypeOK, RegistrationTypeOK
<1> QED
  BY <1>1, TransferStaysInOrder, TransferIsAnyTime, PTL
===============================================================================
