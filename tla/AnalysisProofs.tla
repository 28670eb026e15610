--------------------------- MODULE AnalysisProofs ---------------------------
(* Analysis for any graph, requests and number of readers, with a user's     *)
(* Compact and Reset beside them: the feed and the histories are exact, and  *)
(* an answer, from the calculator, the backend or the cache, is that of one  *)
(* graph.                                                                    *)
EXTENDS Analysis, ChangeFeedProofs

-----------------------------------------------------------------------------
(* The views of the versions. *)

(* The bases a version has had are graphs, and the engine's is one of them.  *)
Remembered ==
    /\ DOMAIN bases = 1 .. Current
    /\ \A v \in 1 .. Current : bases[v] \subseteq Graphs /\ base \in bases[v]

(* No version is changed, and no view of one is lost. *)
Extends ==
    /\ Current \in Nat /\ Current' \in Nat /\ Current <= Current'
    /\ \A v \in 1 .. Current : versions'[v] = versions[v] /\ bases[v] \subseteq bases'[v]

LEMMA StandStill ==
    ASSUME Shape, UNCHANGED <<versions, bases>>
    PROVE  Extends
BY OverlayTypes DEF Extends, Current

(* The worker and the calls store a version or leave them all. *)
LEMMA NextVersion ==
    ASSUME WorkerInv, FeedNext \/ CallNext
    PROVE  UNCHANGED versions \/ \E v \in Graphs : versions' = Append(versions, v)
<1>1. Overlay \in Graphs /\ NoEdges \in Graphs
  BY OverlayTypes, NoEdgesGraph DEF WorkerInv
<1>2. ASSUME NEW p \in Edges, NEW w \in Weights, Process(p, w)
      PROVE  \E v \in Graphs : versions' = Append(versions, v)
  BY <1>1, <1>2, EventGraph DEF Process
<1>3. CASE SwapOverlay
  BY <1>1, <1>3 DEF SwapOverlay
<1>4. CASE MergeBase \/ Announce \/ ExamineSource \/ ExamineTarget
  BY <1>4 DEF MergeBase, Announce, ExamineSource, ExamineTarget, Examine
<1>5. CASE CallNext
  BY <1>1, <1>5, CallWorker
<1> QED BY <1>2, <1>3, <1>4, <1>5 DEF FeedNext

LEMMA WriteViews ==
    ASSUME FeedInv, Remembered, Write
    PROVE  FeedInv' /\ Remembered' /\ Extends
<1>1. WorkerInv /\ Shape /\ FeedInv' /\ Shape' /\ Current \in Nat
  BY StepFeed, OverlayTypes DEF Write, FeedInv, WorkerInv
<1>2. DOMAIN versions = 1 .. Current /\ DOMAIN versions' = 1 .. Current' /\ base' \in Graphs
  BY <1>1 DEF Shape, Current
<1>3. /\ Current' \in Nat /\ Current <= Current'
      /\ \A v \in 1 .. Current : versions'[v] = versions[v]
  <2>1. CASE UNCHANGED versions
    BY <1>1, <2>1 DEF Current
  <2>2. ASSUME NEW v \in Graphs, versions' = Append(versions, v)
        PROVE  /\ Current' \in Nat /\ Current <= Current'
               /\ \A k \in 1 .. Current : versions'[k] = versions[k]
    <3>1. Current' = Current + 1 /\ \A k \in 1 .. Current : versions'[k] = versions[k]
      BY <1>1, <2>2, MoreVersions
    <3> QED BY <1>1, <3>1
  <2> QED BY <1>1, <2>1, <2>2, NextVersion DEF Write
<1>4. /\ DOMAIN bases' = 1 .. Current'
      /\ \A v \in 1 .. Current' :
            bases'[v] = {base'} \cup IF v \in 1 .. Current THEN bases[v] ELSE {}
  BY <1>2 DEF Write
<1>5. Remembered'
  BY <1>2, <1>4 DEF Remembered
<1>6. \A v \in 1 .. Current : v \in 1 .. Current'
  BY <1>1, <1>3
<1> QED BY <1>1, <1>3, <1>4, <1>5, <1>6 DEF Extends

LEMMA ViewGraphs ==
    ASSUME Remembered, Shape, NEW v \in 1 .. Current
    PROVE  bases[v] \subseteq Graphs /\ Views(v) \subseteq Graphs
<1>1. bases[v] \subseteq Graphs /\ versions[v] \in Graphs
  BY OverlayTypes DEF Remembered
<1> QED BY <1>1, MergeGraphs DEF Views

-----------------------------------------------------------------------------
(* The readers, the cache and the backend. *)

Fields == {"at", "version", "base", "request", "by", "todo", "tension", "answer"}
Queries == Requests \cup {NoRequest}

(* What the backend makes of view g when it has h serialized.                *)
Kernel(h) == ComputeAllTensions(SerializeCSR(h), SerializeCSC(h))
Backed(h, g) == [n \in Ends(g) |-> IF n \in DOMAIN Kernel(h) THEN Kernel(h)[n] ELSE 0]

(* The tensions by whoever computed them are right for a request of a        *)
(* snapshot of the version: what AnswersExact says of an answer.             *)
Right(version, q, by, tension) ==
    IF by = "cpu"
    THEN \E h \in Views(version) : tension = [n \in About(q, h) |-> Calculate(h, n)]
    ELSE \E g \in Views(version), v \in DOMAIN versions : \E h \in Views(v) :
            SameCounts(g, h) /\ tension = Backed(h, g)

(* A reader's record: what it has loaded, computed and been answered. *)
Good(x) ==
    /\ DOMAIN x = Fields
    /\ x.version \in 1 .. Current
    /\ x.request \in Queries
    /\ x.at \in {"out", "acquired"} => x.answer = NoAnswer
    /\ x.at \notin {"out", "acquired"} => x.base \in bases[x.version]
    /\ x.at \in {"route", "dispatch"} => x.request.kind = "full"
    /\ x.at = "visit" => Right(x.version, x.request, x.by, x.tension)
    /\ x.at = "open" /\ x.answer # NoAnswer =>
          Right(x.version, x.request, x.answer.by, x.answer.tension)

Reading == DOMAIN reader = Readers /\ \A r \in Readers : \A x : x = reader[r] => Good(x)

(* An entry of the cache: it is right for a request that has its key. *)
Entry(key, a) ==
    \E q \in Queries, v \in 1 .. Current : key = CacheKey(v, q) /\ Right(v, q, a.by, a.tension)

Cached == \A key \in DOMAIN cache : \A a : a = cache[key] => Entry(key, a)

(* What the backend has serialized: nothing, or some view. *)
SerialOf(h) ==
    [nodes |-> Cardinality(Ends(h)), edges |-> Cardinality(DOMAIN h),
     csr |-> SerializeCSR(h), csc |-> SerializeCSC(h)]

Held(s) ==
    s = SerialOf(NoEdges) \/ \E v \in 1 .. Current : \E h \in Views(v) : s = SerialOf(h)

Serialized == DOMAIN gpu = {"closed", "serialized"} /\ \A s : s = gpu.serialized => Held(s)

AnalysisInv == FeedInv /\ Remembered /\ Reading /\ Cached /\ Serialized

(* What was right stays so: no view is ever lost. *)
LEMMA ViewsStay ==
    ASSUME Extends, NEW v \in 1 .. Current
    PROVE  v \in 1 .. Current' /\ Views(v) \subseteq Views(v)'
<1>1. Current \in Nat /\ Current' \in Nat /\ Current <= Current'
  BY DEF Extends
<1>2. versions'[v] = versions[v] /\ bases[v] \subseteq bases'[v]
  BY DEF Extends
<1> QED BY <1>1, <1>2 DEF Views

LEMMA RightStays ==
    ASSUME Shape, Shape', Extends, NEW v \in 1 .. Current, NEW q, NEW by, NEW tension,
           Right(v, q, by, tension)
    PROVE  Right(v, q, by, tension)'
<1>1. CASE by = "cpu"
  BY <1>1, ViewsStay DEF Right
<1>2. CASE by # "cpu"
  <2>1. PICK g \in Views(v), u \in DOMAIN versions : \E h \in Views(u) :
            SameCounts(g, h) /\ tension = Backed(h, g)
    BY <1>2 DEF Right
  <2>2. u \in 1 .. Current /\ \A k \in 1 .. Current' : k \in DOMAIN versions'
    BY DEF Shape, Current
  <2>3. g \in Views(v)' /\ u \in DOMAIN versions' /\ Views(u) \subseteq Views(u)'
    BY <2>2, ViewsStay
  <2>4. PICK h \in Views(u) : SameCounts(g, h) /\ tension = Backed(h, g)
    BY <2>1
  <2>5. h \in Views(u)'
    BY <2>3
  <2> QED BY <1>2, <2>3, <2>4, <2>5 DEF Right
<1> QED BY <1>1, <1>2

LEMMA GoodStays ==
    ASSUME Shape, Shape', Extends, NEW x, Good(x)
    PROVE  Good(x)'
<1>1. x.version \in 1 .. Current /\ x.version \in 1 .. Current'
  BY ViewsStay DEF Good
<1>2. bases[x.version] \subseteq bases'[x.version]
  BY <1>1 DEF Extends
<1>3. \A q, by, tension :
         Right(x.version, q, by, tension) => Right(x.version, q, by, tension)'
  BY <1>1, RightStays
<1> QED BY <1>1, <1>2, <1>3 DEF Good

LEMMA EntryStays ==
    ASSUME Shape, Shape', Extends, NEW key, NEW a, Entry(key, a)
    PROVE  Entry(key, a)'
<1>1. PICK q \in Queries, v \in 1 .. Current :
         key = CacheKey(v, q) /\ Right(v, q, a.by, a.tension)
  BY DEF Entry
<1>2. v \in 1 .. Current' /\ Right(v, q, a.by, a.tension)'
  BY <1>1, ViewsStay, RightStays
<1> QED BY <1>1, <1>2 DEF Entry

LEMMA HeldStays ==
    ASSUME Extends, NEW s, Held(s)
    PROVE  Held(s)'
<1>1. CASE s = SerialOf(NoEdges)
  BY <1>1 DEF Held
<1>2. ASSUME NEW v \in 1 .. Current, NEW h \in Views(v), s = SerialOf(h)
      PROVE  Held(s)'
  <2>1. v \in 1 .. Current' /\ h \in Views(v)'
    BY ViewsStay
  <2> QED BY <1>2, <2>1 DEF Held
<1> QED BY <1>1, <1>2 DEF Held

(* A step of one reader's, to a good record, and a step of nobody's. *)
LEMMA ReaderMoves ==
    ASSUME Shape, Shape', Extends, Reading, NEW r \in Readers,
           DOMAIN reader' = Readers, \A u \in Readers : u # r => reader'[u] = reader[u],
           NEW y, y = reader'[r], Good(y)
    PROVE  Reading'
<1> SUFFICES ASSUME NEW u \in Readers, NEW x, x = reader'[u]
             PROVE  Good(x)'
  BY DEF Reading
<1>1. Good(x)
  <2>1. CASE u = r
    BY <2>1
  <2>2. CASE u # r
    BY <2>2 DEF Reading
  <2> QED BY <2>1, <2>2
<1> QED BY <1>1, GoodStays

LEMMA ReadersStay ==
    ASSUME Shape, Shape', Extends, Reading, reader' = reader
    PROVE  Reading'
<1> SUFFICES ASSUME NEW u \in Readers, NEW x, x = reader'[u]
             PROVE  Good(x)'
  BY DEF Reading
<1> QED BY GoodStays DEF Reading

LEMMA CacheStays ==
    ASSUME Shape, Shape', Extends, Cached,
           DOMAIN cache' \subseteq DOMAIN cache, \A k \in DOMAIN cache' : cache'[k] = cache[k]
    PROVE  Cached'
<1> SUFFICES ASSUME NEW key \in DOMAIN cache', NEW a, a = cache'[key]
             PROVE  Entry(key, a)'
  BY DEF Cached
<1>1. Entry(key, a)
  BY DEF Cached
<1> QED BY <1>1, EntryStays

LEMMA SerializationStays ==
    ASSUME Extends, Serialized, gpu' = gpu
    PROVE  Serialized'
BY HeldStays DEF Serialized

-----------------------------------------------------------------------------
(* The steps. *)

LEMMA NothingSerialized == NoSerialization = SerialOf(NoEdges)
<1>1. Ends(NoEdges) = {} /\ Cardinality({}) = 0
  BY NoEdgesGraph, FS_EmptySet DEF Ends
<1> QED BY <1>1, NoEdgesGraph DEF NoSerialization, SerialOf

LEMMA InitAnalysis == Init => AnalysisInv
<1> SUFFICES ASSUME Init PROVE AnalysisInv
  OBVIOUS
<1>1. FeedInv
  BY InitFeed DEF Init
<1>2. base = NoEdges /\ Current = 1 /\ bases = <<{NoEdges}>>
  BY DEF Init, FeedInit, Current
<1>3. Remembered
  BY <1>2, NoEdgesGraph DEF Remembered
<1>4. ASSUME NEW r \in Readers PROVE Good(reader[r])
  BY <1>2 DEF Init, Good, NoReader, Fields, Queries
<1>5. Reading
  BY <1>4 DEF Init, Reading
<1>6. Cached
  BY DEF Init, Cached
<1>7. gpu.serialized = SerialOf(NoEdges) /\ DOMAIN gpu = {"closed", "serialized"}
  BY NothingSerialized DEF Init
<1>8. Serialized
  BY <1>7 DEF Serialized, Held
<1> QED BY <1>1, <1>3, <1>5, <1>6, <1>8 DEF AnalysisInv

(* Steps that are not the worker's. *)
LEMMA FeedApart ==
    ASSUME FeedInv, Remembered, UNCHANGED <<base, versions, worker, history, lastTrend, feed, samples, caller, bases>>
    PROVE  Shape /\ Shape' /\ FeedInv' /\ Remembered' /\ Extends
<1>1. FeedInv' /\ Shape /\ Shape'
  BY FeedStays DEF FeedInv, WorkerInv
<1>2. Extends
  BY <1>1, StandStill
<1>3. Remembered'
  BY DEF Remembered, Current
<1> QED BY <1>1, <1>2, <1>3

(* The view of an open snapshot is one of its version's. *)
LEMMA OpenView ==
    ASSUME Shape, Remembered, Reading, NEW r \in Readers, reader[r].at \notin {"out", "acquired"}
    PROVE  /\ reader[r].version \in 1 .. Current
           /\ GraphView(r) \in Views(reader[r].version) /\ GraphView(r) \in Graphs
           /\ IsFiniteSet(Ends(GraphView(r)))
<1>1. Good(reader[r])
  BY DEF Reading
<1>2. reader[r].version \in 1 .. Current /\ reader[r].base \in bases[reader[r].version]
  BY <1>1 DEF Good
<1>3. GraphView(r) \in Views(reader[r].version) /\ GraphView(r) \in Graphs
  BY <1>2, ViewGraphs DEF GraphView, Views
<1> QED BY <1>2, <1>3, FiniteNodes, EndsAreNodes, FS_Subset

(* Equal keys are of requests about the same nodes. *)
LEMMA SameKeys ==
    ASSUME NEW v, NEW q \in Queries, NEW u, NEW p \in Queries, CacheKey(v, q) = CacheKey(u, p)
    PROVE  u = v /\ \A g : About(p, g) = About(q, g)
<1>1. u = v /\ p.kind = q.kind /\ ToBag(p.ids) = ToBag(q.ids)
  BY DEF CacheKey, QueryArgs
<1>2. Range(p.ids) = Range(q.ids)
  <2>1. \A ids : DOMAIN ToBag(ids) = Range(ids)
    BY DEF ToBag
  <2> QED BY <1>1, <2>1
<1> QED BY <1>1, <1>2 DEF About

LEMMA SnapshotSteps ==
    ASSUME AnalysisInv, NEW r \in Readers, Acquire(r) \/ LoadBase(r) \/ Close(r)
    PROVE  AnalysisInv'
<1>1. /\ FeedInv /\ Remembered /\ Reading /\ Cached /\ Serialized
      /\ UNCHANGED <<base, versions, worker, history, lastTrend, feed, samples, caller, bases,
                     cache, gpu>>
  BY DEF AnalysisInv, Acquire, LoadBase, Close, engineVars, feedVars
<1>2. Shape /\ Shape' /\ FeedInv' /\ Remembered' /\ Extends
  BY <1>1, FeedApart
<1>3. Good(reader[r]) /\ DOMAIN reader[r] = Fields /\ DOMAIN reader = Readers
  BY <1>1 DEF Reading, Good
<1>4. DOMAIN reader' = Readers /\ \A u \in Readers : u # r => reader'[u] = reader[u]
  BY <1>3 DEF Acquire, LoadBase, Close
<1>5. PICK y : y = reader'[r]
  OBVIOUS
<1>6. Current \in Nat /\ Current >= 1
  BY <1>2, OverlayTypes
<1>7. CASE Acquire(r)
  <2>1. /\ DOMAIN y = Fields /\ y.at = "acquired" /\ y.version = Current
        /\ y.request = reader[r].request /\ y.answer = reader[r].answer
        /\ reader[r].at = "out"
    BY <1>3, <1>5, <1>7 DEF Acquire, Fields
  <2>2. Good(y)
    BY <1>3, <1>6, <2>1 DEF Good
  <2> QED BY <1>1, <1>2, <1>4, <1>5, <2>2, ReaderMoves, CacheStays, SerializationStays
          DEF AnalysisInv
<1>8. CASE LoadBase(r)
  <2>1. /\ DOMAIN y = Fields /\ y.at = "open" /\ y.version = reader[r].version
        /\ y.request = reader[r].request /\ y.answer = reader[r].answer /\ y.base = base
        /\ reader[r].at = "acquired"
    BY <1>3, <1>5, <1>8 DEF LoadBase, Fields
  <2>2. base \in bases[y.version]
    BY <1>1, <1>3, <2>1 DEF Good, Remembered
  <2>3. Good(y)
    BY <1>3, <2>1, <2>2 DEF Good
  <2> QED BY <1>1, <1>2, <1>4, <1>5, <2>3, ReaderMoves, CacheStays, SerializationStays
          DEF AnalysisInv
<1>9. CASE Close(r)
  <2>1. y = NoReader
    BY <1>3, <1>5, <1>9 DEF Close
  <2>2. Good(y)
    BY <1>6, <2>1 DEF Good, NoReader, Fields, Queries
  <2> QED BY <1>1, <1>2, <1>4, <1>5, <2>2, ReaderMoves, CacheStays, SerializationStays
          DEF AnalysisInv
<1> QED BY <1>7, <1>8, <1>9

LEMMA AskSteps ==
    ASSUME AnalysisInv, NEW r \in Readers, NEW request \in Requests, Ask(r, request)
    PROVE  AnalysisInv'
<1> DEFINE key == CacheKey(reader[r].version, request)
<1>1. /\ FeedInv /\ Remembered /\ Reading /\ Cached /\ Serialized
      /\ UNCHANGED <<base, versions, worker, history, lastTrend, feed, samples, caller, bases,
                     cache, gpu>>
  BY DEF AnalysisInv, Ask, engineVars, feedVars
<1>2. Shape /\ Shape' /\ FeedInv' /\ Remembered' /\ Extends
  BY <1>1, FeedApart
<1>3. Good(reader[r]) /\ DOMAIN reader[r] = Fields /\ DOMAIN reader = Readers
      /\ reader[r].at = "open"
  BY <1>1 DEF Reading, Good, Ask
<1>4. DOMAIN reader' = Readers /\ \A u \in Readers : u # r => reader'[u] = reader[u]
  BY <1>3 DEF Ask
<1>5. PICK y : y = reader'[r]
  OBVIOUS
<1>6. /\ DOMAIN y = Fields /\ y.version = reader[r].version /\ y.base = reader[r].base
      /\ y.request = request /\ y.answer = IF key \in DOMAIN cache THEN cache[key] ELSE NoAnswer
      /\ y.at \in {"open", "route", "calculate"} /\ (y.at = "route" => request.kind = "full")
      /\ (key \in DOMAIN cache => y.at = "open")
  <2> DEFINE missing == request.kind = "node" /\ request.ids[1] \notin Ends(GraphView(r))
  <2>1. reader' = [reader EXCEPT
             ![r].request = request,
             ![r].answer = IF key \in DOMAIN cache THEN cache[key] ELSE NoAnswer,
             ![r].at = IF key \in DOMAIN cache \/ missing THEN "open"
                       ELSE IF request.kind = "full" THEN "route" ELSE "calculate"]
    BY DEF Ask
  <2> HIDE DEF key, missing
  <2> QED BY <1>3, <1>5, <2>1 DEF Fields
<1> HIDE DEF key
<1>7. ASSUME key \in DOMAIN cache
      PROVE  Right(y.version, request, cache[key].by, cache[key].tension)
  <2>1. Entry(key, cache[key])
    BY <1>1, <1>7 DEF Cached
  <2>2. PICK q \in Queries, v \in 1 .. Current :
           key = CacheKey(v, q) /\ Right(v, q, cache[key].by, cache[key].tension)
    BY <2>1 DEF Entry
  <2>3. request \in Queries
    BY DEF Queries
  <2>4. v = y.version /\ \A g : About(q, g) = About(request, g)
    BY <1>6, <2>2, <2>3, SameKeys DEF key
  <2> QED BY <2>2, <2>4 DEF Right
<1>8. Good(y)
  <2>1. y.answer # NoAnswer => Right(y.version, y.request, y.answer.by, y.answer.tension)
    BY <1>6, <1>7
  <2>2. y.request \in Queries
    BY <1>6 DEF Queries
  <2>3. y.version \in 1 .. Current /\ y.base \in bases[y.version]
    BY <1>3, <1>6 DEF Good
  <2> QED BY <1>6, <2>1, <2>2, <2>3 DEF Good
<1> QED BY <1>1, <1>2, <1>4, <1>5, <1>8, ReaderMoves, CacheStays, SerializationStays
       DEF AnalysisInv

LEMMA RouteSteps ==
    ASSUME AnalysisInv, NEW r \in Readers, Route(r)
    PROVE  AnalysisInv'
<1>1. /\ FeedInv /\ Remembered /\ Reading /\ Cached /\ Serialized
      /\ UNCHANGED <<base, versions, worker, history, lastTrend, feed, samples, caller, bases,
                     cache, gpu>>
  BY DEF AnalysisInv, Route, engineVars, feedVars
<1>2. Shape /\ Shape' /\ FeedInv' /\ Remembered' /\ Extends
  BY <1>1, FeedApart
<1>3. Good(reader[r]) /\ DOMAIN reader[r] = Fields /\ DOMAIN reader = Readers
      /\ reader[r].at = "route"
  BY <1>1 DEF Reading, Good, Route
<1>4. DOMAIN reader' = Readers /\ \A u \in Readers : u # r => reader'[u] = reader[u]
  BY <1>3 DEF Route
<1>5. PICK y : y = reader'[r]
  OBVIOUS
<1>6. /\ DOMAIN y = Fields /\ y.version = reader[r].version /\ y.base = reader[r].base
      /\ y.request = reader[r].request /\ y.at \in {"dispatch", "calculate"}
  BY <1>3, <1>5 DEF Route, Fields
<1>7. Good(y)
  BY <1>3, <1>6 DEF Good
<1> QED BY <1>1, <1>2, <1>4, <1>5, <1>7, ReaderMoves, CacheStays, SerializationStays
       DEF AnalysisInv

(* What is visited is what the request is about, in some order. *)
LEMMA Visited ==
    ASSUME Shape, Remembered, Reading, NEW r \in Readers, reader[r].at \notin {"out", "acquired"},
           NEW todo \in Visits(r)
    PROVE  Range(todo) \cap Ends(GraphView(r)) = About(reader[r].request, GraphView(r))
<1>1. IsFiniteSet(Ends(GraphView(r)))
  BY OpenView
<1>2. CASE reader[r].request.kind = "full"
  <2>1. Range(todo) = Ends(GraphView(r))
    BY <1>1, <1>2, AnyEnumeration DEF Visits
  <2> QED BY <1>2, <2>1 DEF About
<1>3. CASE reader[r].request.kind # "full"
  BY <1>3 DEF Visits, About
<1> QED BY <1>2, <1>3

LEMMA ComputedRecord ==
    ASSUME Shape, Remembered, Reading, NEW r \in Readers, reader[r].at \notin {"out", "acquired"},
           NEW tensions, NEW by, Computed(r, tensions, by),
           LET g == GraphView(r)
           IN  Right(reader[r].version, reader[r].request, by,
                     [n \in About(reader[r].request, g) |->
                         IF n \in DOMAIN tensions THEN tensions[n] ELSE 0])
    PROVE  /\ DOMAIN reader' = Readers /\ \A u \in Readers : u # r => reader'[u] = reader[u]
           /\ \A y : y = reader'[r] => Good(y)
<1> DEFINE f == [n \in About(reader[r].request, GraphView(r)) |->
                    IF n \in DOMAIN tensions THEN tensions[n] ELSE 0]
<1>1. PICK todo \in Visits(r) :
        reader' = [reader EXCEPT
            ![r].at = "visit", ![r].by = by, ![r].todo = todo,
            ![r].tension = [n \in Range(todo) \cap Ends(GraphView(r)) |->
                                IF n \in DOMAIN tensions THEN tensions[n] ELSE 0]]
  BY DEF Computed
<1>2. Range(todo) \cap Ends(GraphView(r)) = About(reader[r].request, GraphView(r))
  BY Visited
<1>3. reader' = [reader EXCEPT ![r].at = "visit", ![r].by = by, ![r].todo = todo,
                               ![r].tension = f]
  BY <1>1, <1>2
<1> HIDE DEF f
<1>4. Good(reader[r]) /\ DOMAIN reader[r] = Fields /\ DOMAIN reader = Readers
  BY DEF Reading, Good
<1>5. DOMAIN reader' = Readers /\ \A u \in Readers : u # r => reader'[u] = reader[u]
  BY <1>3, <1>4
<1>6. ASSUME NEW y, y = reader'[r] PROVE Good(y)
  <2>1. /\ DOMAIN y = Fields /\ y.version = reader[r].version /\ y.base = reader[r].base
        /\ y.request = reader[r].request /\ y.at = "visit" /\ y.by = by /\ y.tension = f
    BY <1>3, <1>4, <1>6 DEF Fields
  <2>2. Right(y.version, y.request, y.by, y.tension)
    BY <2>1 DEF f
  <2> QED BY <1>4, <2>1, <2>2 DEF Good
<1> QED BY <1>5, <1>6

LEMMA CalculateSteps ==
    ASSUME AnalysisInv, NEW r \in Readers, CalculateTensions(r)
    PROVE  AnalysisInv'
<1> DEFINE g == GraphView(r)
           q == reader[r].request
           tensions == IF q.kind = "full" THEN CalculateAllParallel(g)
                       ELSE [n \in Ends(g) \cap Range(q.ids) |-> Calculate(g, n)]
<1>1. /\ FeedInv /\ Remembered /\ Reading /\ Cached /\ Serialized
      /\ UNCHANGED <<base, versions, worker, history, lastTrend, feed, samples, caller, bases,
                     cache, gpu>>
  BY DEF AnalysisInv, CalculateTensions, engineVars, feedVars
<1>2. Shape /\ Shape' /\ FeedInv' /\ Remembered' /\ Extends
  BY <1>1, FeedApart
<1>3. reader[r].at \notin {"out", "acquired"} /\ Computed(r, tensions, "cpu")
  BY DEF CalculateTensions
<1>4. g \in Views(reader[r].version) /\ g \in Graphs
  BY <1>1, <1>2, <1>3, OpenView
<1>5. tensions = [n \in About(q, g) |-> Calculate(g, n)]
  BY <1>4, FeedGraphs, CalculateAll DEF About
<1> HIDE DEF g, tensions
<1>6. [n \in About(q, g) |-> IF n \in DOMAIN tensions THEN tensions[n] ELSE 0]
         = [n \in About(q, g) |-> Calculate(g, n)]
  BY <1>5
<1>7. Right(reader[r].version, q, "cpu",
            [n \in About(q, g) |-> IF n \in DOMAIN tensions THEN tensions[n] ELSE 0])
  BY <1>4, <1>6 DEF Right
<1>8. /\ DOMAIN reader' = Readers /\ \A u \in Readers : u # r => reader'[u] = reader[u]
      /\ \A y : y = reader'[r] => Good(y)
  BY <1>1, <1>2, <1>3, <1>7, ComputedRecord DEF g
<1> QED BY <1>1, <1>2, <1>8, ReaderMoves, CacheStays, SerializationStays DEF AnalysisInv

(* A graph without edges is NoEdges. *)
LEMMA NoEdgesOnly ==
    ASSUME NEW g \in Graphs, DOMAIN g = {}
    PROVE  g = NoEdges
<1>1. PICK D \in SUBSET Edges : g \in [D -> Nat]
  BY DEF Graphs
<1> QED BY <1>1 DEF NoEdges

(* What the backend runs on is one graph, as large as the view.              *)
LEMMA SerializedGraph ==
    ASSUME Shape, Remembered, Serialized, NEW v \in 1 .. Current, NEW g \in Views(v)
    PROVE  \E u \in 1 .. Current : \E h \in Views(u) :
             SameCounts(g, h) /\ Serialization(g) = SerialOf(h)
<1> DEFINE s == gpu.serialized
<1>1. Held(s)
  BY DEF Serialized
<1>2. CASE ~SameFingerprint(s, g)
  BY <1>2 DEF Serialization, SerialOf, SameCounts
<1>3. CASE SameFingerprint(s, g) /\ s = SerialOf(NoEdges)
  <2>1. g \in Graphs /\ IsFiniteSet(DOMAIN g)
    BY ViewGraphs, GraphWeights, FiniteNodes, FS_Subset
  <2>2. Cardinality(DOMAIN g) = 0
    BY <1>3, NoEdgesGraph, FS_EmptySet DEF SameFingerprint, SerialOf
  <2>3. g = NoEdges
    BY <2>1, <2>2, FS_EmptySet, NoEdgesOnly
  <2> QED BY <1>3, <2>3 DEF Serialization, SameCounts
<1>4. ASSUME SameFingerprint(s, g), NEW u \in 1 .. Current, NEW h \in Views(u), s = SerialOf(h)
      PROVE  SameCounts(g, h) /\ Serialization(g) = SerialOf(h)
  BY <1>4 DEF SameFingerprint, SerialOf, Serialization, SameCounts
<1> QED BY <1>1, <1>2, <1>3, <1>4 DEF Held

LEMMA DispatchSteps ==
    ASSUME AnalysisInv, NEW r \in Readers, Dispatch(r)
    PROVE  AnalysisInv'
<1> DEFINE g == GraphView(r)
           q == reader[r].request
           s == Serialization(g)
           tensions == ComputeAllTensions(s.csr, s.csc)
<1>1. /\ FeedInv /\ Remembered /\ Reading /\ Cached /\ Serialized
      /\ UNCHANGED <<base, versions, worker, history, lastTrend, feed, samples, caller, bases, cache>>
  BY DEF AnalysisInv, Dispatch, engineVars, feedVars
<1>2. Shape /\ Shape' /\ FeedInv' /\ Remembered' /\ Extends
  BY <1>1, FeedApart
<1>3. Good(reader[r]) /\ DOMAIN reader[r] = Fields /\ DOMAIN reader = Readers
      /\ reader[r].at = "dispatch" /\ q.kind = "full"
  BY <1>1 DEF Reading, Good, Dispatch
<1>4. CASE gpu.closed
  <2>1. /\ reader' = [reader EXCEPT ![r].at = "calculate"] /\ gpu' = gpu
    BY <1>4 DEF Dispatch
  <2>2. DOMAIN reader' = Readers /\ \A u \in Readers : u # r => reader'[u] = reader[u]
    BY <1>3, <2>1
  <2>3. PICK y : y = reader'[r]
    OBVIOUS
  <2>4. /\ DOMAIN y = Fields /\ y.version = reader[r].version /\ y.base = reader[r].base
        /\ y.request = reader[r].request /\ y.at = "calculate"
    BY <1>3, <2>1, <2>3 DEF Fields
  <2>5. Good(y)
    BY <1>3, <2>4 DEF Good
  <2> QED BY <1>1, <1>2, <2>1, <2>2, <2>3, <2>5, ReaderMoves, CacheStays, SerializationStays
          DEF AnalysisInv
<1>5. CASE ~gpu.closed
  <2>1. gpu' = [gpu EXCEPT !.serialized = s] /\ Computed(r, tensions, "gpu")
    BY <1>5 DEF Dispatch
  <2>2. reader[r].version \in 1 .. Current /\ g \in Views(reader[r].version) /\ g \in Graphs
    BY <1>1, <1>2, <1>3, OpenView
  <2>3. PICK u \in 1 .. Current : \E h \in Views(u) : SameCounts(g, h) /\ s = SerialOf(h)
    BY <1>1, <1>2, <2>2, SerializedGraph
  <2>4. PICK h \in Views(u) : SameCounts(g, h) /\ s = SerialOf(h)
    BY <2>3
  <2> HIDE DEF g, s
  <2>5. tensions = Kernel(h)
    BY <2>4 DEF SerialOf, Kernel
  <2>6. About(q, g) = Ends(g)
    BY <1>3 DEF About
  <2> HIDE DEF tensions
  <2>7. [n \in About(q, g) |-> IF n \in DOMAIN tensions THEN tensions[n] ELSE 0] = Backed(h, g)
    BY <2>5, <2>6 DEF Backed
  <2>8. u \in DOMAIN versions
    BY <1>2 DEF Shape, Current
  <2>9. Right(reader[r].version, q, "gpu",
              [n \in About(q, g) |-> IF n \in DOMAIN tensions THEN tensions[n] ELSE 0])
    BY <2>2, <2>4, <2>7, <2>8 DEF Right
  <2>10. /\ DOMAIN reader' = Readers /\ \A k \in Readers : k # r => reader'[k] = reader[k]
         /\ \A y : y = reader'[r] => Good(y)
    BY <1>1, <1>2, <1>3, <2>1, <2>9, ComputedRecord DEF g
  <2>11. Serialized'
    <3>1. Held(s)
      BY <2>4 DEF Held
    <3>2. DOMAIN gpu' = {"closed", "serialized"} /\ gpu'.serialized = s
      BY <1>1, <2>1 DEF Serialized
    <3>3. \A k : k = s => Held(k)'
      BY <1>2, <3>1, HeldStays
    <3> QED BY <3>2, <3>3 DEF Serialized
  <2> QED BY <1>1, <1>2, <2>10, <2>11, ReaderMoves, CacheStays DEF AnalysisInv
<1> QED BY <1>4, <1>5

LEMMA VisitSteps ==
    ASSUME AnalysisInv, NEW r \in Readers, Visit(r)
    PROVE  AnalysisInv'
<1>1. /\ FeedInv /\ Remembered /\ Reading /\ Cached /\ Serialized
      /\ UNCHANGED <<base, versions, worker, history, lastTrend, feed, samples, caller, bases,
                     cache, gpu>>
  BY DEF AnalysisInv, Visit
<1>2. Shape /\ Shape' /\ FeedInv' /\ Remembered' /\ Extends
  BY <1>1, FeedApart
<1>3. Good(reader[r]) /\ DOMAIN reader[r] = Fields /\ DOMAIN reader = Readers
      /\ reader[r].at = "visit" /\ reader' = [reader EXCEPT ![r].todo = Tail(@)]
  BY <1>1 DEF Reading, Good, Visit
<1>4. DOMAIN reader' = Readers /\ \A u \in Readers : u # r => reader'[u] = reader[u]
  BY <1>3
<1>5. PICK y : y = reader'[r]
  OBVIOUS
<1>6. /\ DOMAIN y = Fields /\ y.version = reader[r].version /\ y.base = reader[r].base
      /\ y.request = reader[r].request /\ y.at = "visit"
      /\ y.by = reader[r].by /\ y.tension = reader[r].tension
  BY <1>3, <1>5 DEF Fields
<1>7. Good(y)
  BY <1>3, <1>6 DEF Good
<1> QED BY <1>1, <1>2, <1>4, <1>5, <1>7, ReaderMoves, CacheStays, SerializationStays
       DEF AnalysisInv

LEMMA AnswerSteps ==
    ASSUME AnalysisInv, NEW r \in Readers, Answer(r)
    PROVE  AnalysisInv'
<1> DEFINE x == reader[r]
           answer == [by |-> x.by, tension |-> x.tension]
           key == CacheKey(x.version, x.request)
<1>1. /\ FeedInv /\ Remembered /\ Reading /\ Cached /\ Serialized
      /\ UNCHANGED <<base, versions, worker, history, lastTrend, feed, samples, caller, bases, gpu>>
  BY DEF AnalysisInv, Answer, engineVars, feedVars
<1>2. Shape /\ Shape' /\ FeedInv' /\ Remembered' /\ Extends
  BY <1>1, FeedApart
<1>3. Good(x) /\ DOMAIN x = Fields /\ DOMAIN reader = Readers /\ x.at = "visit"
  BY <1>1 DEF Reading, Good, Answer
<1>4. /\ cache' = [k \in DOMAIN cache \cup {key} |-> IF k = key THEN answer ELSE cache[k]]
      /\ reader' = [reader EXCEPT ![r].at = "open", ![r].by = "nobody",
                                  ![r].tension = NoEdges, ![r].answer = answer]
  BY DEF Answer
<1>5. answer.by = x.by /\ answer.tension = x.tension
  OBVIOUS
<1> HIDE DEF answer, key
<1>6. DOMAIN reader' = Readers /\ \A u \in Readers : u # r => reader'[u] = reader[u]
  BY <1>3, <1>4
<1>7. x.version \in 1 .. Current /\ x.request \in Queries
      /\ Right(x.version, x.request, answer.by, answer.tension)
  BY <1>3, <1>5 DEF Good
<1>8. PICK y : y = reader'[r]
  OBVIOUS
<1>9. /\ DOMAIN y = Fields /\ y.version = x.version /\ y.base = x.base
      /\ y.request = x.request /\ y.at = "open" /\ y.answer = answer
  BY <1>3, <1>4, <1>8 DEF Fields
<1>10. Good(y)
  BY <1>3, <1>7, <1>9 DEF Good
<1>11. Cached'
  <2> SUFFICES ASSUME NEW k \in DOMAIN cache', NEW a, a = cache'[k]
               PROVE  Entry(k, a)'
    BY DEF Cached
  <2>1. Entry(k, a)
    <3>1. CASE k = key
      <4>1. a = answer
        BY <1>4, <3>1
      <4>2. Entry(key, answer)
        BY <1>7 DEF Entry, key
      <4> QED BY <3>1, <4>1, <4>2
    <3>2. CASE k # key
      <4>1. k \in DOMAIN cache /\ a = cache[k]
        BY <1>4, <3>2
      <4> QED BY <1>1, <4>1 DEF Cached
    <3> QED BY <3>1, <3>2
  <2> QED BY <1>2, <2>1, EntryStays
<1> QED BY <1>1, <1>2, <1>6, <1>8, <1>10, <1>11, ReaderMoves, SerializationStays
       DEF AnalysisInv

LEMMA OtherSteps ==
    ASSUME AnalysisInv, Expire \/ CloseBackend
    PROVE  AnalysisInv'
<1>1. /\ FeedInv /\ Remembered /\ Reading /\ Cached /\ Serialized
      /\ UNCHANGED <<base, versions, worker, history, lastTrend, feed, samples, caller, bases, reader>>
  BY DEF AnalysisInv, Expire, CloseBackend, engineVars, feedVars
<1>2. Shape /\ Shape' /\ FeedInv' /\ Remembered' /\ Extends
  BY <1>1, FeedApart
<1>3. Reading'
  BY <1>1, <1>2, ReadersStay
<1>4. CASE Expire
  <2>1. DOMAIN cache' \subseteq DOMAIN cache /\ \A k \in DOMAIN cache' : cache'[k] = cache[k]
    BY <1>4 DEF Expire
  <2>2. gpu' = gpu
    BY <1>4 DEF Expire
  <2> QED BY <1>1, <1>2, <1>3, <2>1, <2>2, CacheStays, SerializationStays DEF AnalysisInv
<1>5. CASE CloseBackend
  <2>1. cache' = cache /\ gpu' = [closed |-> TRUE, serialized |-> NoSerialization]
    BY <1>5 DEF CloseBackend
  <2>2. Serialized'
    BY <2>1, NothingSerialized DEF Serialized, Held
  <2> QED BY <1>1, <1>2, <1>3, <2>1, <2>2, CacheStays DEF AnalysisInv
<1> QED BY <1>4, <1>5

LEMMA StepAnalysis ==
    ASSUME AnalysisInv, [Next]_vars
    PROVE  AnalysisInv'
<1>1. CASE Write
  <2>1. FeedInv /\ Remembered /\ Reading /\ Cached /\ Serialized
        /\ reader' = reader /\ cache' = cache /\ gpu' = gpu
    BY <1>1 DEF AnalysisInv, Write, readVars
  <2>2. FeedInv' /\ Remembered' /\ Extends
    BY <1>1, <2>1, WriteViews
  <2>3. Shape /\ Shape'
    BY <2>1, <2>2 DEF FeedInv, WorkerInv
  <2> QED BY <2>1, <2>2, <2>3, ReadersStay, CacheStays, SerializationStays DEF AnalysisInv
<1>2. CASE UNCHANGED vars
  <2>1. /\ FeedInv /\ Remembered /\ Reading /\ Cached /\ Serialized
        /\ UNCHANGED <<base, versions, worker, history, lastTrend, feed, samples, caller, bases>>
        /\ reader' = reader /\ cache' = cache /\ gpu' = gpu
    BY <1>2 DEF AnalysisInv, vars, engineVars, feedVars, readVars
  <2>2. Shape /\ Shape' /\ FeedInv' /\ Remembered' /\ Extends
    BY <2>1, FeedApart
  <2> QED BY <2>1, <2>2, ReadersStay, CacheStays, SerializationStays DEF AnalysisInv
<1>3. ASSUME NEW r \in Readers,
             \/ Acquire(r) \/ LoadBase(r) \/ (\E request \in Requests : Ask(r, request))
             \/ Analyze(r) \/ Close(r)
      PROVE  AnalysisInv'
  BY <1>3, SnapshotSteps, AskSteps, RouteSteps, DispatchSteps, CalculateSteps, VisitSteps,
     AnswerSteps DEF Analyze
<1> QED BY <1>1, <1>2, <1>3, OtherSteps DEF Next

-----------------------------------------------------------------------------
(* The types. *)

Steps == {"out", "acquired", "open", "route", "dispatch", "calculate", "visit"}
Computers == {"cpu", "gpu"}

Typed(x) ==
    /\ x.at \in Steps /\ x.by \in Computers \cup {"nobody"}
    /\ x.at = "visit" => x.by \in Computers

AnalysisTyped ==
    /\ FeedTyped
    /\ \A r \in Readers : \A x : x = reader[r] => Typed(x)
    /\ \A key \in DOMAIN cache : cache[key].by \in Computers
    /\ gpu.closed \in BOOLEAN /\ asked \in 0 .. MaxAsked

LEMMA InitTypes ==
    ASSUME Init
    PROVE  AnalysisTyped
<1>1. FeedTyped
  BY InitTyped DEF Init
<1>2. ASSUME NEW r \in Readers PROVE Typed(reader[r])
  BY DEF Init, NoReader, Typed, Steps, Computers
<1>3. 0 \in 0 .. MaxAsked
  BY GpuAssumption
<1> QED BY <1>1, <1>2, <1>3 DEF Init, AnalysisTyped

(* The tensions of an analysis under way are naturals, whoever found them.   *)
LEMMA RightNatural ==
    ASSUME Shape, Remembered, NEW v \in 1 .. Current, NEW q, NEW by, NEW tension,
           Right(v, q, by, tension), NEW n \in DOMAIN tension
    PROVE  tension[n] \in Nat
<1>1. CASE by = "cpu"
  <2>1. PICK h \in Views(v) : tension = [m \in About(q, h) |-> Calculate(h, m)]
    BY <1>1 DEF Right
  <2>2. h \in Graphs
    BY <2>1, ViewGraphs
  <2>3. Calculate(h, n) \in Nat
    BY <2>2, FeedTension
  <2> QED BY <2>1, <2>3
<1>2. CASE by # "cpu"
  <2>1. PICK g \in Views(v), u \in DOMAIN versions : \E h \in Views(u) :
           SameCounts(g, h) /\ tension = Backed(h, g)
    BY <1>2 DEF Right
  <2>2. PICK h \in Views(u) : tension = Backed(h, g)
    BY <2>1
  <2>3. h \in AllGraphs
    <3>1. u \in 1 .. Current
      BY DEF Shape, Current
    <3> QED BY <3>1, ViewGraphs, FeedGraphs
  <2>4. Kernel(h) \in [Ends(h) -> Nat]
    BY <2>3, KernelTensions DEF Kernel
  <2> QED BY <2>2, <2>4 DEF Backed
<1> QED BY <1>1, <1>2

(* The feed's types when the worker stands still. *)
LEMMA TypesApart ==
    ASSUME FeedTyped, UNCHANGED <<versions, overlayCount, worker>>, calibrator' \in Calibrators
    PROVE  FeedTyped'
BY DEF FeedTyped, Processed, Current

(* A step of one reader's, to a record of the type. *)
LEMMA TypedMoves ==
    ASSUME AnalysisTyped, NEW r \in Readers,
           \A u \in Readers : u # r => reader'[u] = reader[u],
           NEW y, y = reader'[r], Typed(y)
    PROVE  \A u \in Readers : \A x : x = reader'[u] => Typed(x)
<1> SUFFICES ASSUME NEW u \in Readers, NEW x, x = reader'[u]
             PROVE  Typed(x)
  OBVIOUS
<1>1. CASE u = r
  BY <1>1
<1>2. CASE u # r
  BY <1>2 DEF AnalysisTyped
<1> QED BY <1>1, <1>2

(* What the steps of a reader make of its record. *)
LEMMA SnapshotTypes ==
    ASSUME Reading, AnalysisTyped, NEW r \in Readers,
           \/ Acquire(r) \/ LoadBase(r) \/ (\E request \in Requests : Ask(r, request))
           \/ Route(r) \/ Visit(r) \/ Answer(r) \/ Close(r)
    PROVE  /\ \A u \in Readers : u # r => reader'[u] = reader[u]
           /\ \A y : y = reader'[r] => Typed(y)
<1>1. DOMAIN reader = Readers /\ DOMAIN reader[r] = Fields /\ Typed(reader[r])
  BY DEF Reading, Good, AnalysisTyped
<1> SUFFICES ASSUME NEW y, y = reader'[r]
             PROVE  /\ \A u \in Readers : u # r => reader'[u] = reader[u]
                    /\ Typed(y)
  OBVIOUS
<1>2. CASE Acquire(r)
  BY <1>1, <1>2 DEF Acquire, Typed, Steps, Computers, Fields
<1>3. CASE LoadBase(r)
  BY <1>1, <1>3 DEF LoadBase, Typed, Steps, Computers, Fields
<1>4. ASSUME NEW request \in Requests, Ask(r, request)
      PROVE  /\ \A u \in Readers : u # r => reader'[u] = reader[u]
             /\ Typed(y)
  <2> DEFINE key == CacheKey(reader[r].version, request)
             missing == request.kind = "node" /\ request.ids[1] \notin Ends(GraphView(r))
  <2>1. reader' = [reader EXCEPT
             ![r].request = request,
             ![r].answer = IF key \in DOMAIN cache THEN cache[key] ELSE NoAnswer,
             ![r].at = IF key \in DOMAIN cache \/ missing THEN "open"
                       ELSE IF request.kind = "full" THEN "route" ELSE "calculate"]
    BY <1>4 DEF Ask
  <2> HIDE DEF key, missing
  <2>2. y.at \in {"open", "route", "calculate"} /\ y.by = reader[r].by
    BY <1>1, <2>1 DEF Fields
  <2> QED BY <1>1, <2>1, <2>2 DEF Typed, Steps
<1>5. CASE Route(r)
  <2>1. y.at \in {"dispatch", "calculate"} /\ y.by = reader[r].by
    BY <1>1, <1>5 DEF Route, Fields
  <2> QED BY <1>1, <1>5, <2>1 DEF Route, Typed, Steps
<1>6. CASE Visit(r)
  <2>1. y.at = reader[r].at /\ y.by = reader[r].by
    BY <1>1, <1>6 DEF Visit, Fields
  <2> QED BY <1>1, <1>6, <2>1 DEF Visit, Typed
<1>7. CASE Answer(r)
  <2>1. y.at = "open" /\ y.by = "nobody"
    BY <1>1, <1>7 DEF Answer, Fields
  <2> QED BY <1>1, <1>7, <2>1 DEF Answer, Typed, Steps
<1>8. CASE Close(r)
  <2>1. y = NoReader
    BY <1>1, <1>8 DEF Close
  <2> QED BY <1>1, <1>8, <2>1 DEF Close, NoReader, Typed, Steps, Computers
<1> QED BY <1>2, <1>3, <1>4, <1>5, <1>6, <1>7, <1>8

LEMMA ComputedTypes ==
    ASSUME Reading, AnalysisTyped, NEW r \in Readers, NEW tensions, NEW by \in Computers,
           Computed(r, tensions, by)
    PROVE  /\ \A u \in Readers : u # r => reader'[u] = reader[u]
           /\ \A y : y = reader'[r] => Typed(y)
<1>1. DOMAIN reader = Readers /\ DOMAIN reader[r] = Fields
  BY DEF Reading, Good
<1>2. PICK todo, f : reader' = [reader EXCEPT ![r].at = "visit", ![r].by = by,
                                              ![r].todo = todo, ![r].tension = f]
  BY DEF Computed
<1>3. /\ \A u \in Readers : u # r => reader'[u] = reader[u]
      /\ reader'[r].at = "visit" /\ reader'[r].by = by
  BY <1>1, <1>2 DEF Fields
<1> QED BY <1>3 DEF Typed, Steps

(* A reader observes naturals. *)
LEMMA VisitTypes ==
    ASSUME AnalysisInv, AnalysisTyped, NEW r \in Readers, Visit(r)
    PROVE  calibrator' \in Calibrators
<1> DEFINE n == Head(reader[r].todo)
<1>1. Shape /\ Remembered /\ Good(reader[r]) /\ reader[r].at = "visit"
  BY DEF AnalysisInv, FeedInv, WorkerInv, Reading, Visit
<1>2. calibrator \in Calibrators
  BY DEF AnalysisTyped, FeedTyped
<1>3. calibrator' = IF n \in DOMAIN reader[r].tension
                    THEN Observe(calibrator, reader[r].tension[n]) ELSE calibrator
  BY DEF Visit
<1> HIDE DEF n
<1>4. n \in DOMAIN reader[r].tension => reader[r].tension[n] \in Nat
  BY <1>1, RightNatural DEF Good
<1> QED BY <1>2, <1>3, <1>4, ObserveTypes

LEMMA StepTypes ==
    ASSUME AnalysisInv, AnalysisTyped, [Next]_vars
    PROVE  AnalysisTyped'
<1>1. FeedTyped /\ Reading /\ WorkerInv /\ calibrator \in Calibrators
  BY DEF AnalysisInv, FeedInv, AnalysisTyped, FeedTyped
<1>2. CASE Write
  <2>1. FeedTyped' /\ UNCHANGED readVars
    BY <1>1, <1>2, StepTyped, CallTyped DEF Write
  <2> QED BY <2>1 DEF AnalysisTyped, readVars
<1>3. CASE UNCHANGED vars
  <2>1. FeedTyped'
    BY <1>1, <1>3, TypesApart DEF vars, engineVars, feedVars
  <2> QED BY <1>3, <2>1 DEF AnalysisTyped, vars, readVars
<1>4. ASSUME NEW r \in Readers, Acquire(r) \/ LoadBase(r) \/ Route(r) \/ Visit(r) \/ Close(r)
                                   \/ (\E request \in Requests : Ask(r, request))
      PROVE  AnalysisTyped'
  <2>1. calibrator' \in Calibrators
    BY <1>1, <1>4, VisitTypes DEF Acquire, LoadBase, Route, Close, Ask, engineVars, feedVars
  <2>2. UNCHANGED <<versions, overlayCount, worker, cache, gpu>>
    BY <1>4 DEF Acquire, LoadBase, Route, Visit, Close, Ask, engineVars, feedVars
  <2>3. asked' \in 0 .. MaxAsked
    <3>1. asked \in 0 .. MaxAsked /\ MaxAsked \in Nat
      BY GpuAssumption DEF AnalysisTyped
    <3>2. CASE Acquire(r) \/ (\E request \in Requests : Ask(r, request))
      <4>1. asked < MaxAsked /\ asked' = asked + 1
        BY <3>2 DEF Acquire, Ask
      <4> QED BY <3>1, <4>1
    <3>3. CASE LoadBase(r) \/ Route(r) \/ Visit(r) \/ Close(r)
      <4>1. asked' = asked
        BY <3>3 DEF LoadBase, Route, Visit, Close
      <4> QED BY <3>1, <4>1
    <3> QED BY <1>4, <3>2, <3>3
  <2>4. \A u \in Readers : \A x : x = reader'[u] => Typed(x)
    BY <1>1, <1>4, SnapshotTypes, TypedMoves
  <2> QED BY <1>1, <2>1, <2>2, <2>3, <2>4, TypesApart DEF AnalysisTyped
<1>5. ASSUME NEW r \in Readers, Answer(r) PROVE AnalysisTyped'
  <2>1. UNCHANGED <<versions, overlayCount, worker, calibrator, gpu, asked>>
    BY <1>5 DEF Answer, engineVars, feedVars
  <2>2. \A u \in Readers : \A x : x = reader'[u] => Typed(x)
    BY <1>1, <1>5, SnapshotTypes, TypedMoves
  <2>3. \A key \in DOMAIN cache' : cache'[key].by \in Computers
    <3> DEFINE answer == [by |-> reader[r].by, tension |-> reader[r].tension]
               new == CacheKey(reader[r].version, reader[r].request)
    <3>1. answer.by \in Computers
      BY <1>5 DEF Answer, AnalysisTyped, Typed
    <3>2. cache' = [k \in DOMAIN cache \cup {new} |-> IF k = new THEN answer ELSE cache[k]]
      BY <1>5 DEF Answer
    <3> HIDE DEF answer, new
    <3> QED BY <3>1, <3>2 DEF AnalysisTyped
  <2> QED BY <1>1, <2>1, <2>2, <2>3, TypesApart DEF AnalysisTyped
<1>6. ASSUME NEW r \in Readers, Dispatch(r) \/ CalculateTensions(r) PROVE AnalysisTyped'
  <2>1. UNCHANGED <<versions, overlayCount, worker, calibrator, cache, asked>>
    BY <1>6 DEF Dispatch, CalculateTensions, engineVars, feedVars
  <2>2. gpu'.closed = gpu.closed
    BY <1>6 DEF Dispatch, CalculateTensions, AnalysisInv, Serialized
  <2>3. \A u \in Readers : \A x : x = reader'[u] => Typed(x)
    <3>1. ASSUME NEW tensions, NEW by \in Computers, Computed(r, tensions, by)
          PROVE  \A u \in Readers : \A x : x = reader'[u] => Typed(x)
      BY <1>1, <3>1, ComputedTypes, TypedMoves
    <3>2. CASE CalculateTensions(r)
      <4>1. \E tensions : Computed(r, tensions, "cpu")
        BY <3>2 DEF CalculateTensions
      <4> QED BY <3>1, <4>1 DEF Computers
    <3>3. CASE Dispatch(r) /\ ~gpu.closed
      <4>1. \E tensions : Computed(r, tensions, "gpu")
        BY <3>3 DEF Dispatch
      <4> QED BY <3>1, <4>1 DEF Computers
    <3>4. CASE Dispatch(r) /\ gpu.closed
      <4>1. reader' = [reader EXCEPT ![r].at = "calculate"]
        BY <3>4 DEF Dispatch
      <4>2. DOMAIN reader = Readers /\ DOMAIN reader[r] = Fields /\ Typed(reader[r])
        BY <1>1 DEF Reading, Good, AnalysisTyped
      <4>3. /\ \A u \in Readers : u # r => reader'[u] = reader[u]
            /\ reader'[r].at = "calculate" /\ reader'[r].by = reader[r].by
        BY <4>1, <4>2 DEF Fields
      <4>4. Typed(reader'[r])
        BY <4>2, <4>3 DEF Typed, Steps
      <4> QED BY <4>3, <4>4, TypedMoves
    <3> QED BY <1>6, <3>2, <3>3, <3>4
  <2> QED BY <1>1, <2>1, <2>2, <2>3, TypesApart DEF AnalysisTyped
<1>7. CASE Expire \/ CloseBackend
  <2>1. /\ UNCHANGED <<versions, overlayCount, worker, calibrator, reader, asked>>
        /\ gpu'.closed \in BOOLEAN
        /\ \A key \in DOMAIN cache' : key \in DOMAIN cache /\ cache'[key] = cache[key]
    <3>1. CASE Expire
      <4>1. UNCHANGED <<engineVars, reader, gpu, asked>>
        BY <3>1 DEF Expire
      <4>2. PICK old \in DOMAIN cache : cache' = [k \in DOMAIN cache \ {old} |-> cache[k]]
        BY <3>1 DEF Expire
      <4>3. \A key \in DOMAIN cache' : key \in DOMAIN cache /\ cache'[key] = cache[key]
        BY <4>2
      <4> QED BY <4>1, <4>3 DEF AnalysisTyped, engineVars, feedVars
    <3>2. CASE CloseBackend
      <4>1. UNCHANGED <<engineVars, reader, cache, asked>> /\ gpu'.closed = TRUE
        BY <3>2 DEF CloseBackend
      <4> QED BY <4>1 DEF engineVars, feedVars
    <3> QED BY <1>7, <3>1, <3>2
  <2> QED BY <1>1, <2>1, TypesApart DEF AnalysisTyped
<1> QED BY <1>2, <1>3, <1>4, <1>5, <1>6, <1>7 DEF Next, Analyze

-----------------------------------------------------------------------------
(* The theorems. *)

(* The invariant holds in every state of every run.                          *)
THEOREM AnalysisInvariant == Spec => []AnalysisInv
<1>1. Init => AnalysisInv
  BY InitAnalysis
<1>2. AnalysisInv /\ [Next]_vars => AnalysisInv'
  BY StepAnalysis
<1> QED BY <1>1, <1>2, PTL DEF Spec

(* Every variable of the analyses and of the feed keeps its type: the        *)
(* overlay counts no more events than were processed, the calibrator's       *)
(* threshold, drawn from the worker's and the readers' tensions, is a        *)
(* natural number, and every entry of the cache says who computed it.        *)
THEOREM TypesCorrect == Spec => []TypeOK
<1>1. Init => AnalysisTyped
  BY InitTypes
<1>2. AnalysisInv /\ AnalysisTyped /\ [Next]_vars => AnalysisTyped'
  BY StepTypes
<1>3. AnalysisInv /\ AnalysisTyped => TypeOK
  <2> SUFFICES ASSUME AnalysisInv, AnalysisTyped PROVE TypeOK
    OBVIOUS
  <2>1. FeedTypeOK
    BY FeedTypes DEF AnalysisInv, FeedInv, AnalysisTyped
  <2>2. ASSUME NEW r \in Readers
        PROVE  /\ reader[r].at \in Steps /\ reader[r].version \in DOMAIN versions
               /\ reader[r].request \in Requests \cup {NoRequest}
               /\ reader[r].by \in {"nobody", "cpu", "gpu"}
    <3>1. Good(reader[r]) /\ Typed(reader[r])
      BY DEF AnalysisInv, Reading, AnalysisTyped
    <3>2. DOMAIN versions = 1 .. Current
      BY DEF AnalysisInv, FeedInv, WorkerInv, Shape, Current
    <3> QED BY <3>1, <3>2 DEF Good, Typed, Queries, Computers
  <2> QED BY <2>1, <2>2 DEF TypeOK, AnalysisTyped, Steps, Computers
<1> QED BY <1>1, <1>2, <1>3, AnalysisInvariant, PTL DEF Spec

(* The ring buffer of a node's tensions (NewTensionHistory, Push, Slice,     *)
(* Latest, Previous) holds its latest samples in their order, of any         *)
(* capacity, however often it has gone round.                                *)
THEOREM HistoriesExact == Spec => []HistoryExact
<1>1. AnalysisInv => HistoryExact
  BY FeedIsExact DEF AnalysisInv
<1> QED BY <1>1, AnalysisInvariant, PTL

(* What processEvent and checkAnomalies tell a subscriber adds up to the     *)
(* whole graph between events, though the worker's compaction empties the    *)
(* overlay that the changes are computed from, until a user calls Compact or *)
(* Reset; and every turn of a node's trend is told, whatever users call.     *)
THEOREM FeedComplete == Spec => []FeedAddsUp
<1>1. AnalysisInv => FeedAddsUp
  BY FeedIsExact DEF AnalysisInv
<1> QED BY <1>1, AnalysisInvariant, PTL

(* An answer of a snapshot's Analyze, AnalyzeNode or AnalyzeRegion is that   *)
(* of one view of the snapshot's version if the calculator gave it, now or   *)
(* to the cache before.  If the backend did, whose cached serialization is   *)
(* only told apart by how many nodes and edges it has, it is for the nodes   *)
(* of such a view, and of one graph of that size: it never mixes two.  A     *)
(* user's Compact and Reset may come between any two steps.                  *)
THEOREM AnswersAreExact == Spec => []AnswersExact
<1>1. ASSUME AnalysisInv PROVE AnswersExact
  <2> SUFFICES ASSUME NEW r \in Readers, Asked(r)
               PROVE  LET given == reader[r].answer
                          q == reader[r].request
                      IN  IF given.by = "cpu"
                          THEN \E h \in Views(reader[r].version) :
                                  given.tension = [n \in About(q, h) |-> Calculate(h, n)]
                          ELSE \E g \in Views(reader[r].version), v \in DOMAIN versions :
                                 \E h \in Views(v) :
                                    SameCounts(g, h) /\ TensionsOf(h, g, given.tension)
    BY DEF AnswersExact
  <2> DEFINE given == reader[r].answer
             tension == given.tension
  <2>1. Right(reader[r].version, reader[r].request, given.by, tension)
    <3>1. Good(reader[r])
      BY <1>1 DEF AnalysisInv, Reading
    <3> QED BY <3>1 DEF Good, Asked
  <2>2. CASE given.by = "cpu"
    BY <2>1, <2>2 DEF Right
  <2>3. CASE given.by # "cpu"
    <3>1. PICK g \in Views(reader[r].version), v \in DOMAIN versions : \E h \in Views(v) :
             SameCounts(g, h) /\ tension = Backed(h, g)
      BY <2>1, <2>3 DEF Right
    <3>2. PICK h \in Views(v) : SameCounts(g, h) /\ tension = Backed(h, g)
      BY <3>1
    <3>3. h \in AllGraphs
      <4>1. Shape /\ Remembered
        BY <1>1 DEF AnalysisInv, FeedInv, WorkerInv
      <4>2. v \in 1 .. Current
        BY <4>1 DEF Shape, Current
      <4> QED BY <4>1, <4>2, ViewGraphs, FeedGraphs
    <3> HIDE DEF tension
    <3>4. /\ DOMAIN Kernel(h) = Ends(h)
          /\ \A n \in Ends(h) : WithinLimits(h, n) => Kernel(h)[n] = Calculate(h, n)
      BY <3>3, KernelTensions DEF Kernel
    <3>5. TensionsOf(h, g, tension)
      BY <3>2, <3>4 DEF TensionsOf, Backed
    <3> QED BY <2>3, <3>2, <3>5 DEF tension
  <2> QED BY <2>2, <2>3
<1> QED BY <1>1, AnalysisInvariant, PTL
=============================================================================
