-------------------------- MODULE EngineLifecycle --------------------------
(***************************************************************************)
(* Starting, feeding and stopping the engine: Start, Stop, AddEvent with   *)
(* its auto-start, AddEvents, the event channel, the worker that drains it *)
(* and the ticking goroutines that Stop waits for together with the worker.*)
(*                                                                         *)
(* Start and Stop take no lock: started, stopped, ctx and cancel are read  *)
(* and written in steps of their own, so that callers interleave between   *)
(* them.  A goroutine evaluates the field ctx each time it enters its      *)
(* select, and then waits on the context it found.                         *)
(*                                                                         *)
(* The worker runs the user's callbacks itself, so a callback that calls   *)
(* the engine keeps its worker until that call has returned.               *)
(***************************************************************************)
EXTENDS Integers, Sequences, FiniteSets

CONSTANTS
    Producers,      \* goroutines that call AddEvents once each
    Starters,       \* goroutines that call Start once each
    Stoppers,       \* goroutines that call Stop once each
    Inner,          \* which of them are calls that a callback makes on a worker
    Tickers,        \* what Start spawns besides the worker: gc, cache eviction
    BatchSize,      \* events in the slice a producer passes to AddEvents
    Cap,            \* config.channelSize
    MayCancel,      \* whether the context passed to Start may be cancelled
    AlreadyStarted, \* whether the engine was started before the behaviour begins
    MaxStarts       \* bound: how often Start gets past its check

Callers == Producers \cup Starters \cup Stoppers
Starts == 1 .. MaxStarts
Events == Producers \X (1 .. BatchSize)
NoEvent == <<>>

ASSUME CallersAssumption ==
    /\ Producers \cap Starters = {}
    /\ Producers \cap Stoppers = {}
    /\ Starters \cap Stoppers = {}
    /\ Inner \subseteq Producers \cup Stoppers
ASSUME SizesAssumption ==
    /\ BatchSize \in Nat \ {0} /\ Cap \in Nat \ {0} /\ MaxStarts \in Nat \ {0}
ASSUME TickersAssumption == IsFiniteSet(Tickers)
ASSUME FlagsAssumption == MayCancel \in BOOLEAN /\ AlreadyStarted \in BOOLEAN

VARIABLES
    started,   \* Engine.started
    stopped,   \* Engine.stopped
    ctx,       \* Engine.ctx: the number of the Start that made it, 0 before any
    cancel,    \* Engine.cancel: the context it cancels
    cancelled, \* the contexts that are done
    parents,   \* the contexts derived from one a caller passed to Start
    starts,    \* how many contexts were made so far
    wg,        \* Engine.wg
    eventCh,   \* Engine.eventCh
    worker,    \* of each Start: where its worker is, what it waits on and holds,
               \* and the calls its callbacks have made
    ticker,    \* of each Start and kind: where the goroutine is, what it waits on
    pc,        \* where each caller is
    made,      \* the context a caller made in Start
    waits,     \* the context a producer's select waits on
    sent,      \* how many events of a producer's batch were accepted
    result,    \* what a caller's call returned
    processed, \* history: the events processed, in order
    before     \* history: the events accepted when a caller called Stop

flags == <<started, stopped, ctx, cancel>>
contexts == <<cancelled, parents, starts>>
goroutines == <<wg, worker, ticker>>
callerVars == <<made, waits, sent, result>>
vars == <<flags, contexts, goroutines, callerVars, before, eventCh, pc, processed>>

Accepted == {e \in Events : e[2] <= sent[e[1]]}
Hands == {worker[k].hand : k \in Starts} \ {NoEvent}
InChannel == {eventCh[i] : i \in 1 .. Len(eventCh)}
Done == {processed[i] : i \in 1 .. Len(processed)}

(* A call in a callback is made once an event's callbacks run, and keeps the *)
(* worker until it has returned.                                             *)
Called(a) == \E k \in Starts : a \in worker[k].calls
MayCall(a) == a \in Inner => Called(a)
CallbackDone(k) == \A a \in worker[k].calls : pc[a] = "returned"

Goto(a, from, to) == pc[a] = from /\ pc' = [pc EXCEPT ![a] = to]
Return(a, from, r) ==
    Goto(a, from, "returned") /\ result' = [result EXCEPT ![a] = r]

-----------------------------------------------------------------------------
OffWorker == [at |-> "off", on |-> 0, hand |-> NoEvent, calls |-> {}]
OffTicker == [at |-> "off", on |-> 0]
NewWorker == [OffWorker EXCEPT !.at = "loop"]
NewTicker == [OffTicker EXCEPT !.at = "loop"]

(* Not started, or as the first Start leaves the engine. *)
Init ==
    /\ started = AlreadyStarted
    /\ stopped = FALSE
    /\ ctx = IF AlreadyStarted THEN 1 ELSE 0
    /\ cancel = ctx
    /\ starts = ctx
    /\ parents = IF AlreadyStarted THEN {1} ELSE {}
    /\ cancelled = {}
    /\ wg = IF AlreadyStarted THEN 1 + Cardinality(Tickers) ELSE 0
    /\ eventCh = <<>>
    /\ worker = [k \in Starts |-> IF k <= starts THEN NewWorker ELSE OffWorker]
    /\ ticker = [k \in Starts |-> [t \in Tickers |->
                    IF k <= starts THEN NewTicker ELSE OffTicker]]
    /\ pc = [a \in Callers |-> "idle"]
    /\ made = [a \in Callers |-> 0]
    /\ waits = [p \in Producers |-> 0]
    /\ sent = [p \in Producers |-> 0]
    /\ result = [a \in Callers |-> "none"]
    /\ processed = <<>>
    /\ before = [s \in Stoppers |-> {}]

-----------------------------------------------------------------------------
(* Start, called by a starter or by a producer's AddEvent. *)

(* A second Start finds the engine started and returns ErrEngineRunning. *)
CallStart(a) ==
    /\ ~ started
    /\ Goto(a, "idle", "context")
    /\ UNCHANGED <<flags, contexts, goroutines, callerVars, before, eventCh, processed>>

RefuseStart(a) ==
    /\ started
    /\ Return(a, "idle", "running")
    /\ UNCHANGED <<flags, contexts, goroutines, made, waits, sent, before, eventCh, processed>>

(* Derive a context and assign it to ctx, *)
MakeContext(a) ==
    /\ starts < MaxStarts
    /\ Goto(a, "context", "cancel")
    /\ starts' = starts + 1
    /\ ctx' = starts + 1
    /\ made' = [made EXCEPT ![a] = starts + 1]
    /\ parents' = IF a \in Starters THEN parents \cup {starts + 1} ELSE parents
    /\ UNCHANGED <<started, stopped, cancel, cancelled, goroutines, waits, sent, result,
                   before, eventCh, processed>>

(* and its cancel function to cancel. *)
SetCancel(a) ==
    /\ Goto(a, "cancel", "started")
    /\ cancel' = made[a]
    /\ UNCHANGED <<started, stopped, ctx, contexts, goroutines, callerVars, before,
                   eventCh, processed>>

SetStarted(a) ==
    /\ Goto(a, "started", "running")
    /\ started' = TRUE
    /\ UNCHANGED <<stopped, ctx, cancel, contexts, goroutines, callerVars, before,
                   eventCh, processed>>

ClearStopped(a) ==
    /\ Goto(a, "running", "spawn")
    /\ stopped' = FALSE
    /\ UNCHANGED <<started, ctx, cancel, contexts, goroutines, callerVars, before,
                   eventCh, processed>>

(* Slip: wg.Add counts the worker only. *)
SlipSpawn(a) ==
    /\ pc[a] = "spawn"
    /\ pc' = [pc EXCEPT ![a] = IF a \in Producers THEN "stopcheck" ELSE "returned"]
    /\ result' = IF a \in Producers THEN result ELSE [result EXCEPT ![a] = "ok"]
    /\ wg' = wg + 1
    /\ worker' = [worker EXCEPT ![made[a]] = NewWorker]
    /\ ticker' = [ticker EXCEPT ![made[a]] = [t \in Tickers |-> NewTicker]]
    /\ UNCHANGED <<flags, contexts, made, waits, sent, before, eventCh, processed>>

(* Count and start the worker and the tickers; a producer goes on. *)
Spawn(a) ==
    /\ pc[a] = "spawn"
    /\ pc' = [pc EXCEPT ![a] = IF a \in Producers THEN "stopcheck" ELSE "returned"]
    /\ result' = IF a \in Producers THEN result ELSE [result EXCEPT ![a] = "ok"]
    /\ wg' = wg + 1 + Cardinality(Tickers)
    /\ worker' = [worker EXCEPT ![made[a]] = NewWorker]
    /\ ticker' = [ticker EXCEPT ![made[a]] = [t \in Tickers |-> NewTicker]]
    /\ UNCHANGED <<flags, contexts, made, waits, sent, before, eventCh, processed>>

StartStep(a) ==
    MakeContext(a) \/ SetCancel(a) \/ SetStarted(a) \/ ClearStopped(a) \/ Spawn(a)

(* The caller cancels the context it passed to Start. *)
CancelParent(k) ==
    /\ MayCancel
    /\ k \in parents \ cancelled
    /\ cancelled' = cancelled \cup {k}
    /\ UNCHANGED <<flags, parents, starts, goroutines, callerVars, before, eventCh, pc,
                   processed>>

-----------------------------------------------------------------------------
(* AddEvents: validate the whole batch, then AddEvent for each event. *)

CallAdd(p) ==
    /\ MayCall(p)
    /\ Goto(p, "idle", "check")
    /\ UNCHANGED <<flags, contexts, goroutines, callerVars, before, eventCh, processed>>

(* Some event of the batch is invalid: nothing is sent. *)
RejectBatch(p) ==
    /\ MayCall(p)
    /\ Return(p, "idle", "invalid")
    /\ UNCHANGED <<flags, contexts, goroutines, made, waits, sent, before, eventCh,
                   processed>>

(* Auto-start: the engine is not started, so this AddEvent calls Start. *)
CheckStarted(p) ==
    /\ Goto(p, "check", IF started THEN "stopcheck" ELSE "context")
    /\ UNCHANGED <<flags, contexts, goroutines, callerVars, before, eventCh, processed>>

RefuseStopped(p) ==
    /\ stopped
    /\ Return(p, "stopcheck", "stopped")
    /\ UNCHANGED <<flags, contexts, goroutines, made, waits, sent, before, eventCh,
                   processed>>

PassStopped(p) ==
    /\ ~ stopped
    /\ Goto(p, "stopcheck", "enter")
    /\ UNCHANGED <<flags, contexts, goroutines, callerVars, before, eventCh, processed>>

(* Enter the select on eventCh and on the context that ctx holds now. *)
EnterSend(p) ==
    /\ Goto(p, "enter", "send")
    /\ waits' = [waits EXCEPT ![p] = ctx]
    /\ UNCHANGED <<flags, contexts, goroutines, made, sent, result, before, eventCh,
                   processed>>

(* Slip: the producer does not wait for room in the channel. *)
SlipSend(p) ==
    /\ pc[p] = "send"
    /\ sent' = [sent EXCEPT ![p] = @ + 1]
    /\ eventCh' = IF Len(eventCh) < Cap THEN Append(eventCh, <<p, sent'[p]>>) ELSE eventCh
    /\ LET last == sent'[p] = BatchSize
       IN  /\ pc' = [pc EXCEPT ![p] = IF last THEN "returned" ELSE "check"]
           /\ result' = IF last THEN [result EXCEPT ![p] = "ok"] ELSE result
    /\ UNCHANGED <<flags, contexts, goroutines, made, waits, before, processed>>

(* The channel takes the event; the batch goes on, or AddEvents returns. *)
Send(p) ==
    /\ pc[p] = "send"
    /\ Len(eventCh) < Cap
    /\ sent' = [sent EXCEPT ![p] = @ + 1]
    /\ eventCh' = Append(eventCh, <<p, sent'[p]>>)
    /\ LET last == sent'[p] = BatchSize
       IN  /\ pc' = [pc EXCEPT ![p] = IF last THEN "returned" ELSE "check"]
           /\ result' = IF last THEN [result EXCEPT ![p] = "ok"] ELSE result
    /\ UNCHANGED <<flags, contexts, goroutines, made, waits, before, processed>>

(* Slip: a plain send instead of a select. *)
SlipAbandonSend(p) == FALSE /\ pc[p] = "send" /\ UNCHANGED vars

(* The context is done: AddEvents returns ErrEngineStopped. *)
AbandonSend(p) ==
    /\ waits[p] \in cancelled
    /\ Return(p, "send", "stopped")
    /\ UNCHANGED <<flags, contexts, goroutines, made, waits, sent, before, eventCh,
                   processed>>

AddStep(p) ==
    \/ CheckStarted(p) \/ RefuseStopped(p) \/ PassStopped(p) \/ EnterSend(p)
    \/ Send(p) \/ AbandonSend(p)

-----------------------------------------------------------------------------
(* Stop. *)

CallStop(s) ==
    /\ MayCall(s)
    /\ started /\ ~ stopped
    /\ Goto(s, "idle", "cancelling")
    /\ before' = [before EXCEPT ![s] = Accepted]
    /\ UNCHANGED <<flags, contexts, goroutines, callerVars, eventCh, processed>>

RefuseStop(s) ==
    /\ MayCall(s)
    /\ ~ started \/ stopped
    /\ Return(s, "idle", "stopped")
    /\ UNCHANGED <<flags, contexts, goroutines, made, waits, sent, before, eventCh,
                   processed>>

CancelContext(s) ==
    /\ Goto(s, "cancelling", "waiting")
    /\ cancelled' = cancelled \cup {cancel}
    /\ UNCHANGED <<flags, parents, starts, goroutines, callerVars, before, eventCh,
                   processed>>

(* wg.Wait. *)
Await(s) ==
    /\ wg = 0
    /\ Goto(s, "waiting", "stopping")
    /\ UNCHANGED <<flags, contexts, goroutines, callerVars, before, eventCh, processed>>

SetStopped(s) ==
    /\ Goto(s, "stopping", "clearing")
    /\ stopped' = TRUE
    /\ UNCHANGED <<started, ctx, cancel, contexts, goroutines, callerVars, before,
                   eventCh, processed>>

ClearStarted(s) ==
    /\ Return(s, "clearing", "ok")
    /\ started' = FALSE
    /\ UNCHANGED <<stopped, ctx, cancel, contexts, goroutines, made, waits, sent,
                   before, eventCh, processed>>

StopStep(s) == CancelContext(s) \/ Await(s) \/ SetStopped(s) \/ ClearStarted(s)

-----------------------------------------------------------------------------
(* The worker: wait for an event or the end of a context, then drain. *)

(* Slip: the select has a default, which ends the worker's loop. *)
SlipEnterSelect(k) ==
    /\ worker[k].at = "loop"
    /\ CallbackDone(k)
    /\ worker' = [worker EXCEPT ![k].at = IF eventCh = <<>> THEN "drain" ELSE "select",
                                ![k].on = ctx]
    /\ UNCHANGED <<flags, contexts, wg, ticker, callerVars, before, eventCh, pc,
                   processed>>

EnterSelect(k) ==
    /\ worker[k].at = "loop"
    /\ CallbackDone(k)
    /\ worker' = [worker EXCEPT ![k].at = "select", ![k].on = ctx]
    /\ UNCHANGED <<flags, contexts, wg, ticker, callerVars, before, eventCh, pc,
                   processed>>

Take(k, from, to) ==
    /\ worker[k].at = from
    /\ CallbackDone(k)
    /\ eventCh # <<>>
    /\ worker' = [worker EXCEPT ![k].at = to, ![k].hand = Head(eventCh)]
    /\ eventCh' = Tail(eventCh)
    /\ UNCHANGED <<flags, contexts, wg, ticker, callerVars, before, pc, processed>>

Receive(k) == Take(k, "select", "process")

(* Slip: the newest event is drained first. *)
SlipDrainOne(k) ==
    /\ worker[k].at = "drain"
    /\ eventCh # <<>>
    /\ worker' = [worker EXCEPT ![k].at = "processdrained", ![k].hand = eventCh[Len(eventCh)]]
    /\ eventCh' = SubSeq(eventCh, 1, Len(eventCh) - 1)
    /\ UNCHANGED <<flags, contexts, wg, ticker, callerVars, before, pc, processed>>

DrainOne(k) == Take(k, "drain", "processdrained")

(* Slip: a break that leaves the select but not the loop. *)
SlipSeeDone(k) ==
    /\ worker[k].at = "select"
    /\ worker[k].on \in cancelled
    /\ worker' = [worker EXCEPT ![k].at = "loop"]
    /\ UNCHANGED <<flags, contexts, wg, ticker, callerVars, before, eventCh, pc, processed>>

(* The context that the worker waits on is done. *)
SeeDone(k) ==
    /\ worker[k].at = "select"
    /\ worker[k].on \in cancelled
    /\ worker' = [worker EXCEPT ![k].at = "drain"]
    /\ UNCHANGED <<flags, contexts, wg, ticker, callerVars, before, eventCh, pc,
                   processed>>

(* Slip: the worker does not go round for another event. *)
SlipProcess(k) ==
    /\ worker[k].at \in {"process", "processdrained"}
    /\ processed' = Append(processed, worker[k].hand)
    /\ worker' = [worker EXCEPT ![k].at = "drain", ![k].hand = NoEvent]
    /\ UNCHANGED <<flags, contexts, wg, ticker, callerVars, before, eventCh, pc>>

(* processEvent (module EngineCore has its steps), and the callbacks it ends *)
(* with, one of which may call the engine.                                   *)
Process(k) ==
    /\ worker[k].at \in {"process", "processdrained"}
    /\ processed' = Append(processed, worker[k].hand)
    /\ \E call \in {{}} \cup {{a} : a \in {b \in Inner : ~ Called(b)}} :
          worker' = [worker EXCEPT
                        ![k].at = IF @ = "process" THEN "loop" ELSE "drain",
                        ![k].hand = NoEvent,
                        ![k].calls = @ \cup call]
    /\ UNCHANGED <<flags, contexts, wg, ticker, callerVars, before, eventCh, pc>>

(* Slip: the worker leaves without draining the channel. *)
SlipLeave(k) ==
    /\ worker[k].at = "drain"
    /\ worker' = [worker EXCEPT ![k].at = "left"]
    /\ wg' = wg - 1
    /\ UNCHANGED <<flags, contexts, ticker, callerVars, before, eventCh, pc, processed>>

(* Nothing left to drain: wg.Done. *)
Leave(k) ==
    /\ worker[k].at = "drain"
    /\ CallbackDone(k)
    /\ eventCh = <<>>
    /\ worker' = [worker EXCEPT ![k].at = "left"]
    /\ wg' = wg - 1
    /\ UNCHANGED <<flags, contexts, ticker, callerVars, before, eventCh, pc, processed>>

WorkerStep(k) ==
    EnterSelect(k) \/ Receive(k) \/ DrainOne(k) \/ SeeDone(k) \/ Process(k) \/ Leave(k)

-----------------------------------------------------------------------------
(* gcWorker and cacheEvictionWorker. *)

TickerSelect(k, t) ==
    /\ ticker[k][t].at = "loop"
    /\ ticker' = [ticker EXCEPT ![k][t] = [at |-> "select", on |-> ctx]]
    /\ UNCHANGED <<flags, contexts, wg, worker, callerVars, before, eventCh, pc,
                   processed>>

(* A tick: do the work (Collect, EvictExpired) and go round. *)
Tick(k, t) ==
    /\ ticker[k][t].at = "select"
    /\ ticker' = [ticker EXCEPT ![k][t].at = "loop"]
    /\ UNCHANGED <<flags, contexts, wg, worker, callerVars, before, eventCh, pc,
                   processed>>

(* Slip: a ticker that leaves forgets wg.Done. *)
SlipTickerLeave(k, t) ==
    /\ ticker[k][t].at = "select"
    /\ ticker[k][t].on \in cancelled
    /\ ticker' = [ticker EXCEPT ![k][t].at = "left"]
    /\ UNCHANGED <<flags, contexts, wg, worker, callerVars, before, eventCh, pc,
                   processed>>

TickerLeave(k, t) ==
    /\ ticker[k][t].at = "select"
    /\ ticker[k][t].on \in cancelled
    /\ ticker' = [ticker EXCEPT ![k][t].at = "left"]
    /\ wg' = wg - 1
    /\ UNCHANGED <<flags, contexts, worker, callerVars, before, eventCh, pc, processed>>

TickerStep(k, t) == TickerSelect(k, t) \/ Tick(k, t) \/ TickerLeave(k, t)

-----------------------------------------------------------------------------
Next ==
    \/ \E a \in Starters : CallStart(a) \/ RefuseStart(a)
    \/ \E a \in Starters \cup Producers : StartStep(a)
    \/ \E p \in Producers : CallAdd(p) \/ RejectBatch(p) \/ AddStep(p)
    \/ \E s \in Stoppers : CallStop(s) \/ RefuseStop(s) \/ StopStep(s)
    \/ \E k \in Starts : CancelParent(k) \/ WorkerStep(k)
    \/ \E k \in Starts, t \in Tickers : TickerStep(k, t)

Spec == Init /\ [][Next]_vars

(* The scheduler runs every goroutine that can run, and a callback goes on   *)
(* to the call it makes.  A select with several ready cases picks one at     *)
(* random, so a case that is ready again and again is picked in the end:     *)
(* strong fairness for a done context and for a send.                        *)
Fairness ==
    /\ \A a \in Starters \cup Producers : WF_vars(StartStep(a))
    /\ \A p \in Producers : WF_vars(AddStep(p)) /\ SF_vars(Send(p) \/ AbandonSend(p))
    /\ \A s \in Stoppers : WF_vars(StopStep(s))
    /\ \A p \in Inner \cap Producers : WF_vars(CallAdd(p) \/ RejectBatch(p))
    /\ \A s \in Inner \cap Stoppers : WF_vars(CallStop(s) \/ RefuseStop(s))
    /\ \A k \in Starts : WF_vars(WorkerStep(k))
    /\ \A k \in Starts, t \in Tickers :
          WF_vars(TickerSelect(k, t)) /\ SF_vars(TickerLeave(k, t))

FairSpec == Spec /\ Fairness

-----------------------------------------------------------------------------
(* Properties. *)

CallerPlaces == {"idle", "context", "cancel", "started", "running", "spawn", "check",
                 "stopcheck", "enter", "send", "cancelling", "waiting", "stopping", "clearing",
                 "returned"}
WorkerPlaces == {"off", "loop", "select", "process", "drain", "processdrained", "left"}
Contexts == 0 .. MaxStarts

(* Every variable has the shape the source gives it, the channel holds at    *)
(* most channelSize events, and the WaitGroup counter never goes negative    *)
(* (which would panic).                                                      *)
TypeOK ==
    /\ started \in BOOLEAN /\ stopped \in BOOLEAN
    /\ ctx \in Contexts /\ cancel \in Contexts /\ starts \in Contexts
    /\ cancelled \subseteq Contexts /\ parents \subseteq Contexts
    /\ wg \in Nat
    /\ eventCh \in Seq(Events) /\ Len(eventCh) <= Cap
    /\ worker \in [Starts -> [at : WorkerPlaces, on : Contexts, hand : Events \cup {NoEvent},
                           calls : SUBSET Inner]]
    /\ ticker \in [Starts -> [Tickers -> [at : WorkerPlaces, on : Contexts]]]
    /\ pc \in [Callers -> CallerPlaces]
    /\ made \in [Callers -> Contexts]
    /\ waits \in [Producers -> Contexts]
    /\ sent \in [Producers -> 0 .. BatchSize]
    /\ result \in [Callers -> {"none", "ok", "running", "stopped", "invalid"}]
    /\ processed \in Seq(Events)
    /\ before \in [Stoppers -> SUBSET Events]

Live(at) == at \notin {"off", "left"}
LiveWorkers == {k \in Starts : Live(worker[k].at)}
LiveTickers == {kt \in Starts \X Tickers : Live(ticker[kt[1]][kt[2]].at)}
Starting == \E a \in Callers : pc[a] \in {"context", "cancel", "started", "running", "spawn"}

(* However many Starts race, an accepted event is in exactly one place: the  *)
(* channel, one worker's hands, or the processed events; never lost or       *)
(* processed twice.                                                          *)
Conserved ==
    /\ Accepted = InChannel \cup Hands \cup Done
    /\ Cardinality(Accepted) = Len(eventCh) + Len(processed)
                             + Cardinality({k \in Starts : worker[k].hand # NoEvent})

(* The WaitGroup counts the goroutines that Stop must wait for.              *)
WgExact == wg = Cardinality(LiveWorkers) + Cardinality(LiveTickers)

(* Once Stop has waited, every event accepted before it was called has been  *)
(* processed: the worker drains the channel before it leaves.                *)
StopDrains ==
    \A s \in Stoppers : pc[s] \in {"stopping", "clearing"} => before[s] \subseteq Done

(* The worker of one Start processes the events of a batch in the order of   *)
(* the slice, those it drains included.                                      *)
BatchOrder ==
    starts = 1 =>
        \A i, j \in 1 .. Len(processed) :
            (i < j /\ processed[i][1] = processed[j][1]) => processed[i][2] < processed[j][2]

(* Running may answer true of an engine whose workers have all left: its     *)
(* caller has cancelled the context, or a Start that raced another sets      *)
(* started after the Stop.  Then the engine's context is done, and no        *)
(* producer is left waiting on it for room that nobody will make.            *)
Running == started /\ ~ stopped
DeafIsDone ==
    Running /\ ~ Starting /\ LiveWorkers = {} => ctx \in cancelled

(* A callback waits to send to the channel that only its own worker empties. *)
SelfBlocked ==
    /\ Len(eventCh) = Cap
    /\ \E k \in Starts : \E p \in worker[k].calls \cap Producers : pc[p] = "send"

(* Every event that was accepted is processed, unless a Stop is under way or *)
(* has left the engine stopped, or a callback fills the channel for ever.    *)
(* In an engine that an AddEvents after the Stop has started again, this     *)
(* goes for an event that raced the Stop and was left in the channel, too.   *)
Stopping == \E s \in Stoppers : pc[s] \in {"cancelling", "waiting", "stopping", "clearing"}
StaysStopped == ~ Running /\ \E s \in Stoppers : result[s] = "ok"
AcceptedProcessed == []<>(Accepted \subseteq Done \/ Stopping \/ StaysStopped \/ SelfBlocked)

(* AddEvents returns, though the channel may be full: the worker, or the end *)
(* of the context, lets it go on; only a callback that waits for its own     *)
(* worker can keep it.                                                       *)
AddReturns == []<>(SelfBlocked \/ \A p \in Producers : pc[p] \in {"idle", "returned"})

(* Stop returns: the worker and the tickers all leave, and a callback that   *)
(* waits for its own worker to empty the channel is let go.                  *)
StopReturns == \A s \in Stoppers : pc[s] = "cancelling" ~> pc[s] = "returned"
=============================================================================
