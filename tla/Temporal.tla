------------------------------ MODULE Temporal ------------------------------
(***************************************************************************)
(* The temporal summary of a full analysis.  Analyze compares the tensions *)
(* of its snapshot with what the worker has put into the histories of the  *)
(* nodes in the meantime: it reads the previous samples under one read     *)
(* lock, the trends under another, and from both derives the spike, the    *)
(* decay and the phase.  Reset empties the graph while all this goes on,   *)
(* and leaves the histories.                                               *)
(*                                                                         *)
(* One worker and one Reset at a time, and no user's Compact: the events   *)
(* one drops beside the worker are not Reset's.  The exponent of the decay *)
(* depends on the time since the version was made: its sign is exact, its  *)
(* size any the code may find.  The curvature shock is never computed, for *)
(* Analyze passes no curvatures; the velocity is Measures'.                *)
(***************************************************************************)
EXTENDS ChangeFeed

CONSTANTS
    Readers      \* users, each with one analysis at a time

VARIABLES
    reader,    \* each user's snapshot and the analysis under way
    cleared    \* history: the latest version whose events a Reset has dropped

temporalVars == <<reader, cleared>>
vars == <<feedVars, temporalVars>>

NoReader == [at |-> "out", version |-> 1, base |-> NoEdges, cleared |-> 0,
             previous |-> [n \in {} |-> 0], trend |-> [n \in {} |-> "stable"],
             spike |-> 0, phase |-> "none",
             \* history: samples at the first read, trends told at the second
             sampled |-> [n \in {} |-> 0], told |-> [n \in {} |-> "stable"]]

(* The tension of every node of the snapshot's view. *)
Tensions(r) ==
    LET g == Merge(reader[r].base, versions[reader[r].version])
    IN  [n \in Ends(g) |-> Calculate(g, n)]

-----------------------------------------------------------------------------
(* Indicators and phases. *)

Sum(tensions) == SumFunction(tensions)

(* Slip: only what has grown counts. *)
SlipTensionSpike(current, previous) ==
    Max({0} \cup {current[n] - previous[n] : n \in DOMAIN current \cap DOMAIN previous})

(* The largest change of any node's tension; a node in one map only counts  *)
(* as zero in the other.                                                    *)
TensionSpike(current, previous) ==
    LET at(f, n) == IF n \in DOMAIN f THEN f[n] ELSE 0
    IN  Max({0} \cup {Abs(at(current, n) - at(previous, n)) :
                         n \in DOMAIN current \cup DOMAIN previous})

(* How the mean has changed: the sign of the decay exponent, which is zero  *)
(* too when one of the means is.                                            *)
Decay(current, previous) ==
    LET now    == Sum(current) * Cardinality(DOMAIN previous)
        before == Sum(previous) * Cardinality(DOMAIN current)
    IN  IF now = 0 \/ before = 0 \/ now = before THEN "none"
        ELSE IF now < before THEN "decays" ELSE "grows"

(* Whether rho may be critical: growth adds its exponent, of any size, and   *)
(* where there is none, or one that is nearly zero, the mean tension adds.   *)
Critical(current, previous) ==
    LET spike == TensionSpike(current, previous)
        nodes == Cardinality(DOMAIN current)
        byMean == nodes > 0 /\ Sum(current) + nodes * spike >= nodes * Scale
        decay == Decay(current, previous)
    IN  (IF decay # "none" THEN {spike >= Scale} ELSE {})
        \cup (IF decay = "grows" THEN {TRUE} ELSE {byMean \/ spike >= Scale})

(* pi is the share of the nodes with history that the view still has. *)
Healing(current, previous) ==
    2 * Cardinality(DOMAIN previous \cap DOMAIN current) >= Cardinality(DOMAIN previous)

ClassifyPhase(critical, healing) ==
    IF critical THEN IF healing THEN "chronic" ELSE "collapse"
    ELSE IF healing THEN "recovery" ELSE "scarred"

-----------------------------------------------------------------------------
(* Analyze. *)

Acquire(r) ==
    /\ reader[r].at = "out"
    /\ reader' = [reader EXCEPT ![r].at = "acquired", ![r].version = Current]
    /\ UNCHANGED <<feedVars, cleared>>

LoadBase(r) ==
    /\ reader[r].at = "acquired"
    /\ reader' = [reader EXCEPT ![r].at = "open", ![r].base = base, ![r].cleared = cleared]
    /\ UNCHANGED <<feedVars, cleared>>

(* The first read lock: the sample before the latest, of every node that has *)
(* one, in the view or not; without any there is no summary.                 *)
ReadPrevious(r) ==
    /\ reader[r].at = "open"
    /\ LET known == {n \in DOMAIN history : HasPrevious(history[n])}
       IN  reader' = [reader EXCEPT
             ![r].previous = [n \in known |-> Previous(history[n]).tension],
             ![r].sampled = [n \in NodeIds |-> Len(samples[n])],
             ![r].at = IF known = {} THEN "done" ELSE "compare"]
    /\ UNCHANGED <<feedVars, cleared>>

(* Slip: the trend is taken against the latest sample. *)
SlipTrends(current) ==
    [n \in DOMAIN current |->
        IF n \in DOMAIN history THEN SlipTrendOf(history[n], current[n]) ELSE "stable"]

Trends(current) ==
    [n \in DOMAIN current |->
        IF n \in DOMAIN history THEN TrendOf(history[n], current[n]) ELSE "stable"]

(* The second read lock: the trends of the view's nodes; and the phase.      *)
ReadTrends(r) ==
    /\ reader[r].at = "compare"
    /\ LET current  == Tensions(r)
           previous == reader[r].previous
           fresh    == {n \in DOMAIN lastTrend : Last(samples[n]).version = reader[r].version}
       IN  \E critical \in Critical(current, previous) :
             reader' = [reader EXCEPT
               ![r].at = "done",
               ![r].trend = Trends(current),
               ![r].spike = TensionSpike(current, previous),
               ![r].phase = ClassifyPhase(critical, Healing(current, previous)),
               ![r].told = [n \in fresh |-> lastTrend[n]]]
    /\ UNCHANGED <<feedVars, cleared>>

Close(r) ==
    /\ reader[r].at = "done"
    /\ reader' = [reader EXCEPT ![r] = NoReader]
    /\ UNCHANGED <<feedVars, cleared>>

-----------------------------------------------------------------------------
Init ==
    /\ FeedInit
    /\ reader = [r \in Readers |-> NoReader]
    /\ cleared = 0

Next ==
    \/ FeedNext /\ UNCHANGED temporalVars
    \/ (ResetBase \/ ResetSwap) /\ cleared' = Current' /\ UNCHANGED reader
    \/ ResetCount /\ UNCHANGED temporalVars
    \/ \E r \in Readers :
         Acquire(r) \/ LoadBase(r) \/ ReadPrevious(r) \/ ReadTrends(r) \/ Close(r)

Spec == Init /\ [][Next]_vars

-----------------------------------------------------------------------------
(* Properties. *)

(* No sample of the node is of a version the snapshot can show: all are from *)
(* before the last Reset, or of later versions.                              *)
Unseen(r, n) ==
    \A i \in 1 .. reader[r].sampled[n] :
        LET v == samples[n][i].version
        IN  v > reader[r].version \/ v <= reader[r].cleared

(* An analysis takes nodes for lost, and the region for damaged, only when   *)
(* Reset did drop them or when the snapshot is from before they came: a node *)
(* with history that its view lacks has samples of no other version.  No     *)
(* compaction, at whatever point the snapshot is opened, looks like a loss.  *)
LossExplained ==
    \A r \in Readers : reader[r].at \in {"compare", "done"} =>
        LET known  == DOMAIN reader[r].previous
            unseen == {n \in known : Unseen(r, n)}
        IN  /\ known \ DOMAIN Tensions(r) \subseteq unseen
            /\ reader[r].phase \in {"scarred", "collapse"} =>
                  2 * Cardinality(unseen) > Cardinality(known)

(* A trend in an analysis is founded.  The analysis of the version a node    *)
(* was last sampled on, while nothing is in the base, gives the node the     *)
(* trend that the feed was told, though the histories were read later; and   *)
(* no trend is reported without a spike as large, unless a sample came       *)
(* between the two reads of the histories.                                   *)
TrendsFounded ==
    \A r \in Readers : reader[r].at = "done" /\ reader[r].phase # "none" =>
        \A n \in DOMAIN reader[r].trend :
            /\ n \in DOMAIN reader[r].told /\ reader[r].base = NoEdges =>
                 reader[r].trend[n] = reader[r].told[n]
            /\ reader[r].trend[n] # "stable" /\ reader[r].sampled[n] = Len(samples[n]) =>
                 reader[r].spike > Epsilon
=============================================================================
