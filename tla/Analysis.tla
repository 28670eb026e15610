------------------------------ MODULE Analysis ------------------------------
(***************************************************************************)
(* Analyses of snapshots beside the worker and a user's Compact and Reset: *)
(* a snapshot is opened, asked for the tensions of all nodes, of one or of *)
(* a region, and answers from the results cache, the compute backend or    *)
(* the calculator.  The backend keeps the serialized graph of its last run *)
(* and may be closed by its owner at any time.                             *)
(*                                                                         *)
(* An answer is the tensions and who computed them.  The other parts of a  *)
(* result change no state: those that are functions of the view are in     *)
(* Measures, those that compare it with the histories in Temporal.         *)
(* References and collection of versions are VersionGC's: here an entry of *)
(* the cache may go at any time.                                           *)
(***************************************************************************)
EXTENDS ChangeFeed

CONSTANTS
    Readers,        \* users, each with one snapshot at a time
    Requests,       \* what may be asked for: a kind and node ids
    GpuThreshold,   \* gpuThreshold, 0 for no backend
    MaxAsked        \* bound: snapshots opened plus requests made

ASSUME RequestsAssumption ==
    \A q \in Requests : q.kind \in {"full", "node", "region"} /\ q.ids \in Seq(NodeIds)
ASSUME GpuAssumption == GpuThreshold \in Nat /\ MaxAsked \in Nat

VARIABLES
    reader,   \* each user's snapshot and the analysis under way
    cache,    \* Engine.ResultsCache: answers by key
    gpu,      \* the backend: closed, and its cached serialization
    asked,    \* snapshots opened and requests made so far
    bases     \* history: the bases the engine has had since each version

readVars == <<reader, cache, gpu, asked>>
engineVars == <<feedVars, bases>>
vars == <<engineVars, readVars>>

NoAnswer == [by |-> "nobody", tension |-> NoEdges]
NoRequest == [kind |-> "full", ids |-> <<>>]
NoReader == [at |-> "out", version |-> 1, base |-> NoEdges, request |-> NoRequest,
             by |-> "nobody", todo |-> <<>>, tension |-> NoEdges, answer |-> NoAnswer]

(* graphView: the snapshot's overlay over the base it was opened with. *)
GraphView(r) == Merge(reader[r].base, versions[reader[r].version])

(* The ids are sorted and joined with commas, which no id holds: what is     *)
(* left of them is how often each occurs.                                    *)
QueryArgs(ids) == ToBag(ids)

(* Slip: the version is left out of the key. *)
SlipCacheKey(version, request) ==
    [version |-> 0, kind |-> request.kind, args |-> QueryArgs(request.ids)]

CacheKey(version, request) ==
    [version |-> version, kind |-> request.kind, args |-> QueryArgs(request.ids)]

-----------------------------------------------------------------------------
(* The compute backend. *)

NoSerialization == [nodes |-> 0, edges |-> 0, csr |-> SerializeCSR(NoEdges),
                    csc |-> SerializeCSC(NoEdges)]

Available == GpuThreshold > 0 /\ ~gpu.closed

(* Slip: the edges are not counted. *)
SlipSameFingerprint(s, g) == s.nodes = Cardinality(Ends(g))

SameFingerprint(s, g) ==
    /\ s.nodes = Cardinality(Ends(g))
    /\ s.edges = Cardinality(DOMAIN g)

(* The serialization to run on: the cached one if its counts are the graph's. *)
Serialization(g) ==
    IF SameFingerprint(gpu.serialized, g) THEN gpu.serialized
    ELSE [nodes |-> Cardinality(Ends(g)), edges |-> Cardinality(DOMAIN g),
          csr |-> SerializeCSR(g), csc |-> SerializeCSC(g)]

-----------------------------------------------------------------------------
(* A user's steps. *)

Init ==
    /\ FeedInit
    /\ reader = [r \in Readers |-> NoReader]
    /\ cache = [k \in {} |-> NoAnswer]
    /\ gpu = [closed |-> FALSE, serialized |-> NoSerialization]
    /\ asked = 0
    /\ bases = <<{NoEdges}>>

(* A step of the worker or of a call.  A snapshot of any version may still   *)
(* be opened with what the base is now.                                      *)
Write ==
    /\ FeedNext \/ CallNext
    /\ bases' = [v \in DOMAIN versions' |->
                    {base'} \cup IF v \in DOMAIN versions THEN bases[v] ELSE {}]
    /\ UNCHANGED readVars

(* Snapshot takes the version first and the base later. *)
Acquire(r) ==
    /\ reader[r].at = "out"
    /\ asked < MaxAsked
    /\ asked' = asked + 1
    /\ reader' = [reader EXCEPT ![r].at = "acquired", ![r].version = Current]
    /\ UNCHANGED <<engineVars, cache, gpu>>

LoadBase(r) ==
    /\ reader[r].at = "acquired"
    /\ reader' = [reader EXCEPT ![r].at = "open", ![r].base = base]
    /\ UNCHANGED <<engineVars, cache, gpu, asked>>

Close(r) ==
    /\ reader[r].at = "open"
    /\ reader' = [reader EXCEPT ![r] = NoReader]
    /\ UNCHANGED <<engineVars, cache, gpu, asked>>

(* An analysis starts with the cache: a hit is the answer; only a full       *)
(* analysis may go to the backend; a node that the view lacks is an error.   *)
Ask(r, request) ==
    /\ reader[r].at = "open"
    /\ asked < MaxAsked
    /\ asked' = asked + 1
    /\ LET key == CacheKey(reader[r].version, request)
           missing == request.kind = "node" /\ request.ids[1] \notin Ends(GraphView(r))
       IN  reader' = [reader EXCEPT
             ![r].request = request,
             ![r].answer = IF key \in DOMAIN cache THEN cache[key] ELSE NoAnswer,
             ![r].at = IF key \in DOMAIN cache \/ missing THEN "open"
                       ELSE IF request.kind = "full" THEN "route" ELSE "calculate"]
    /\ UNCHANGED <<engineVars, cache, gpu>>

(* computeTensions: Available and the node count decide, before the backend  *)
(* is called.                                                                *)
Route(r) ==
    /\ reader[r].at = "route"
    /\ reader' = [reader EXCEPT ![r].at =
            IF Available /\ Cardinality(Ends(GraphView(r))) >= GpuThreshold
            THEN "dispatch" ELSE "calculate"]
    /\ UNCHANGED <<engineVars, cache, gpu, asked>>

(* The nodes the analysis looks up, in an order it may take. *)
Visits(r) ==
    IF reader[r].request.kind = "full" THEN SetToSeqs(Ends(GraphView(r)))
    ELSE {reader[r].request.ids}

(* The tensions of r's analysis are known; those not in them count as zero. *)
Computed(r, tensions, by) ==
    \E todo \in Visits(r) :
        reader' = [reader EXCEPT
            ![r].at = "visit", ![r].by = by, ![r].todo = todo,
            ![r].tension = [n \in Range(todo) \cap Ends(GraphView(r)) |->
                                IF n \in DOMAIN tensions THEN tensions[n] ELSE 0]]

(* AnalyzeTensions, under the backend's lock; when it fails, for it has been *)
(* closed since, the calculator takes over.                                  *)
Dispatch(r) ==
    /\ reader[r].at = "dispatch"
    /\ IF gpu.closed
       THEN /\ reader' = [reader EXCEPT ![r].at = "calculate"]
            /\ UNCHANGED gpu
       ELSE LET s == Serialization(GraphView(r))
            IN  /\ gpu' = [gpu EXCEPT !.serialized = s]
                /\ Computed(r, ComputeAllTensions(s.csr, s.csc), "gpu")
    /\ UNCHANGED <<engineVars, cache, asked>>

CalculateTensions(r) ==
    /\ reader[r].at = "calculate"
    /\ LET g == GraphView(r)
       IN  Computed(r, IF reader[r].request.kind = "full" THEN CalculateAllParallel(g)
                       ELSE [n \in Ends(g) \cap Range(reader[r].request.ids) |->
                                Calculate(g, n)], "cpu")
    /\ UNCHANGED <<engineVars, cache, gpu, asked>>

(* Each node's tension is observed in the calibrator the worker uses too; an *)
(* id that the view does not have is skipped.                                *)
Visit(r) ==
    /\ reader[r].at = "visit"
    /\ reader[r].todo # <<>>
    /\ LET n == Head(reader[r].todo)
       IN  calibrator' = IF n \in DOMAIN reader[r].tension
                         THEN Observe(calibrator, reader[r].tension[n]) ELSE calibrator
    /\ reader' = [reader EXCEPT ![r].todo = Tail(@)]
    /\ UNCHANGED <<base, versions, overlayCount, worker, history, lastTrend, feed, samples,
                   caller, bases, cache, gpu, asked>>

Answer(r) ==
    /\ reader[r].at = "visit"
    /\ reader[r].todo = <<>>
    /\ LET answer == [by |-> reader[r].by, tension |-> reader[r].tension]
           key == CacheKey(reader[r].version, reader[r].request)
       IN  /\ cache' = [k \in DOMAIN cache \cup {key} |->
                            IF k = key THEN answer ELSE cache[k]]
           /\ reader' = [reader EXCEPT ![r].at = "open", ![r].by = "nobody",
                            ![r].tension = NoEdges, ![r].answer = answer]
    /\ UNCHANGED <<engineVars, gpu, asked>>

(* An entry expires, or its version is collected. *)
Expire ==
    /\ \E key \in DOMAIN cache :
           cache' = [k \in DOMAIN cache \ {key} |-> cache[k]]
    /\ UNCHANGED <<engineVars, reader, gpu, asked>>

(* The backend's owner closes it: the serialization goes too. *)
CloseBackend ==
    /\ GpuThreshold > 0
    /\ ~gpu.closed
    /\ gpu' = [closed |-> TRUE, serialized |-> NoSerialization]
    /\ UNCHANGED <<engineVars, reader, cache, asked>>

Analyze(r) == Route(r) \/ Dispatch(r) \/ CalculateTensions(r) \/ Visit(r) \/ Answer(r)

Next ==
    \/ Write
    \/ \E r \in Readers :
         \/ Acquire(r)
         \/ LoadBase(r)
         \/ \E request \in Requests : Ask(r, request)
         \/ Analyze(r)
         \/ Close(r)
    \/ Expire
    \/ CloseBackend

Spec == Init /\ [][Next]_vars

-----------------------------------------------------------------------------
(* Properties. *)

TypeOK ==
    /\ FeedTypeOK
    /\ \A r \in Readers :
        /\ reader[r].at \in {"out", "acquired", "open", "route", "dispatch", "calculate", "visit"}
        /\ reader[r].version \in DOMAIN versions
        /\ reader[r].request \in Requests \cup {NoRequest}
        /\ reader[r].by \in {"nobody", "cpu", "gpu"}
    /\ \A key \in DOMAIN cache : cache[key].by \in {"cpu", "gpu"}
    /\ gpu.closed \in BOOLEAN /\ asked \in 0 .. MaxAsked

(* What a snapshot of a version may show: its overlay over a base that the   *)
(* engine has had since.                                                     *)
Views(version) == {Merge(b, versions[version]) : b \in bases[version]}

(* The nodes that request q is about in view g. *)
About(q, g) == IF q.kind = "full" THEN Ends(g) ELSE Ends(g) \cap Range(q.ids)

Asked(r) == reader[r].at = "open" /\ reader[r].answer # NoAnswer

SameCounts(g, h) ==
    /\ Cardinality(Ends(g)) = Cardinality(Ends(h))
    /\ Cardinality(DOMAIN g) = Cardinality(DOMAIN h)

(* The tensions of g's nodes are those of graph h, for the nodes within the  *)
(* kernel's limits; a node that h does not have counts as zero.              *)
TensionsOf(h, g, tension) ==
    /\ DOMAIN tension = Ends(g)
    /\ \A n \in Ends(g) :
          IF n \in Ends(h) THEN WithinLimits(h, n) => tension[n] = Calculate(h, n)
          ELSE tension[n] = 0

(* An answer of the calculator, whether the snapshot computed it or found it *)
(* in the cache, is that of one view of the snapshot's own version, and has  *)
(* every node that was asked for.  The backend's may be stale, for its       *)
(* serialization is reused for any graph of the same size; but it has the    *)
(* nodes of such a view, and their tensions are all of one graph of its size *)
(* that a snapshot could show, never of the adjacency of one and the weights *)
(* of another.                                                               *)
AnswersExact ==
    \A r \in Readers : Asked(r) =>
        LET given == reader[r].answer
            q == reader[r].request
        IN  IF given.by = "cpu"
            THEN \E h \in Views(reader[r].version) :
                    given.tension = [n \in About(q, h) |-> Calculate(h, n)]
            ELSE \E g \in Views(reader[r].version), v \in DOMAIN versions : \E h \in Views(v) :
                    SameCounts(g, h) /\ TensionsOf(h, g, given.tension)

(* What the backend's interface asks for: an entry for every node of the     *)
(* graph, and values that match the calculator's.  The cached serialization  *)
(* breaks it: it is taken for the graph's own when the numbers of nodes and  *)
(* edges are the same, whatever the names and the weights.                   *)
BackendConsistent ==
    \A r \in Readers : Asked(r) /\ reader[r].answer.by = "gpu" =>
        \E g \in Views(reader[r].version) : TensionsOf(g, g, reader[r].answer.tension)
=============================================================================
