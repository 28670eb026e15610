----------------------- MODULE EngineLifecycleProofs -----------------------
(* EngineLifecycle for any callers, batches, channel sizes and tickers, and  *)
(* however many Starts race: the WaitGroup is exact, accepted events are     *)
(* conserved and keep their order, an engine without a worker has a context  *)
(* that is done, and Stop drains what was accepted before it.                *)
EXTENDS EngineLifecycle, FiniteSetTheorems, SequenceTheorems, TLAPS

-----------------------------------------------------------------------------
(* Types and the WaitGroup.  A Start owns the worker and the tickers of its  *)
(* context from MakeContext to Spawn: nobody else has made that context, and *)
(* none of them runs.  A worker holds an event just while it processes it.   *)
Making == {"cancel", "started", "running", "spawn"}

Off(k) == worker[k] = OffWorker /\ \A t \in Tickers : ticker[k][t] = OffTicker

Owned ==
    /\ \A a \in Callers : pc[a] \in Making => made[a] \in 1 .. starts /\ Off(made[a])
    /\ \A a, b \in Callers : pc[a] \in Making /\ pc[b] \in Making /\ made[a] = made[b] => a = b
    /\ \A k \in Starts : k > starts => Off(k)

Holding ==
    /\ \A k \in Starts : worker[k].at \in {"process", "processdrained"} <=> worker[k].hand # NoEvent
    /\ \A p \in Producers : pc[p] # "returned" => sent[p] < BatchSize

WorkerStates ==
    [at : WorkerPlaces, on : Contexts, hand : Events \cup {NoEvent}, calls : SUBSET Inner]
TickerStates == [at : WorkerPlaces, on : Contexts]

(* Each context made so far has a worker, or the Start that will spawn it, or *)
(* is followed: its worker waits on it or on a later one, and has left only  *)
(* because that one is done.                                                 *)
Served ==
    /\ ctx = starts
    /\ started => starts >= 1
    /\ \A k \in Starts : k <= starts =>
        /\ worker[k].at = "off" => \E a \in Callers : pc[a] \in Making /\ made[a] = k
        /\ worker[k].at = "select" => worker[k].on \in k .. starts
        /\ worker[k].at \in {"drain", "processdrained", "left"} =>
              worker[k].on \in (k .. starts) \cap cancelled

(* A batch goes down the pipeline in order, while one worker serves it.      *)
Follows(d, e) == d[1] = e[1] => d[2] < e[2]
Pipelined ==
    starts <= 1 =>
        /\ \A i, j \in 1 .. Len(processed) : i < j => Follows(processed[i], processed[j])
        /\ \A i, j \in 1 .. Len(eventCh) : i < j => Follows(eventCh[i], eventCh[j])
        /\ \A i \in 1 .. Len(processed), j \in 1 .. Len(eventCh) :
              Follows(processed[i], eventCh[j])
        /\ worker[1].hand # NoEvent =>
              /\ \A i \in 1 .. Len(processed) : Follows(processed[i], worker[1].hand)
              /\ \A j \in 1 .. Len(eventCh) : Follows(worker[1].hand, eventCh[j])

(* Until the one Stop returns, the first context is the engine's only one,   *)
(* and its worker leaves nothing behind that was accepted before.            *)
OneStop == AlreadyStarted /\ ~ MayCancel /\ \A s, t \in Stoppers : s = t
Draining ==
    \A s \in Stoppers : pc[s] # "returned" =>
        /\ started /\ starts = 1 /\ cancel = 1
        /\ \A a \in Callers : pc[a] \notin Making \cup {"context"}
        /\ worker[1].at # "off"
        /\ pc[s] \in {"idle", "cancelling"} =>
              cancelled = {} /\ worker[1].at \in {"loop", "select", "process"}
        /\ pc[s] # "idle" => before[s] \subseteq Accepted
        /\ pc[s] = "waiting" /\ worker[1].at = "left" => before[s] \subseteq Done
        /\ pc[s] \in {"stopping", "clearing"} => before[s] \subseteq Done

(* TypeOK but for the counter, which is a natural number because it is exact. *)
Shape ==
    /\ started \in BOOLEAN /\ stopped \in BOOLEAN
    /\ ctx \in Contexts /\ cancel \in Contexts /\ starts \in Contexts
    /\ cancelled \subseteq Contexts /\ parents \subseteq Contexts
    /\ eventCh \in Seq(Events) /\ Len(eventCh) <= Cap
    /\ worker \in [Starts -> WorkerStates]
    /\ ticker \in [Starts -> [Tickers -> TickerStates]]
    /\ pc \in [Callers -> CallerPlaces]
    /\ made \in [Callers -> Contexts]
    /\ waits \in [Producers -> Contexts]
    /\ sent \in [Producers -> 0 .. BatchSize]
    /\ result \in [Callers -> {"none", "ok", "running", "stopped", "invalid"}]
    /\ processed \in Seq(Events)
    /\ before \in [Stoppers -> SUBSET Events]

LEMMA NoEventIsNone == NoEvent \notin Events
<1>1. ASSUME NEW e \in Events PROVE e # NoEvent
  <2>1. PICK p \in Producers, i \in 1 .. BatchSize : e = <<p, i>>
    BY DEF Events
  <2>2. Len(e) = 2 /\ Len(NoEvent) = 0
    BY <2>1 DEF NoEvent
  <2> QED BY <2>2
<1> QED BY <1>1

LEMMA OffTypes ==
    /\ OffWorker = [at |-> "off", on |-> 0, hand |-> NoEvent, calls |-> {}]
    /\ NewWorker = [at |-> "loop", on |-> 0, hand |-> NoEvent, calls |-> {}]
    /\ OffTicker = [at |-> "off", on |-> 0]
    /\ NewTicker = [at |-> "loop", on |-> 0]
BY DEF OffWorker, NewWorker, OffTicker, NewTicker

LEMMA ShapeInit == Init => Shape /\ Owned /\ Holding
<1> SUFFICES ASSUME Init PROVE Shape /\ Owned /\ Holding
  OBVIOUS
<1> USE SizesAssumption, FlagsAssumption, CallersAssumption DEF Init
<1>1. Shape
  <2>1. ctx \in {0, 1} /\ ctx \in Contexts
    BY DEF Contexts
  <2>2. worker \in [Starts -> WorkerStates]
    BY OffTypes DEF Contexts, WorkerPlaces, WorkerStates, TickerStates
  <2>3. ticker \in [Starts -> [Tickers -> TickerStates]]
    BY OffTypes DEF Contexts, WorkerPlaces, WorkerStates, TickerStates
  <2>4. /\ pc \in [Callers -> CallerPlaces]
        /\ made \in [Callers -> Contexts]
        /\ waits \in [Producers -> Contexts]
        /\ sent \in [Producers -> 0 .. BatchSize]
        /\ result \in [Callers -> {"none", "ok", "running", "stopped", "invalid"}]
        /\ before \in [Stoppers -> SUBSET Events]
    BY DEF Contexts, CallerPlaces
  <2>5. eventCh \in Seq(Events) /\ Len(eventCh) <= Cap /\ processed \in Seq(Events)
    OBVIOUS
  <2> QED BY <2>1, <2>2, <2>3, <2>4, <2>5 DEF Shape, Contexts
<1>2. Owned
  BY DEF Owned, Making, Off, Starts
<1>3. Holding
  BY OffTypes DEF Holding, Starts, Callers
<1> QED BY <1>1, <1>2, <1>3

LEMMA ShapeStep == Shape /\ Owned /\ Holding /\ Next => Shape'
<1> SUFFICES ASSUME Shape, Owned, Holding, Next PROVE Shape'
  OBVIOUS
<1> USE SizesAssumption
<1>0. /\ \A a \in Starters : a \in Callers
      /\ \A a \in Producers : a \in Callers
      /\ \A a \in Stoppers : a \in Callers
      /\ \A k \in Starts : k \in Contexts
      /\ Accepted \subseteq Events
  BY DEF Callers, Starts, Contexts, Accepted
<1>1. ASSUME NEW a \in Starters, CallStart(a) \/ RefuseStart(a) PROVE Shape'
  BY <1>0, <1>1 DEF Shape, CallStart, RefuseStart, Goto, Return, CallerPlaces,
     flags, contexts, goroutines, callerVars
<1>2. ASSUME NEW a \in Starters \cup Producers, MakeContext(a) PROVE Shape'
  BY <1>0, <1>2 DEF Shape, MakeContext, Goto, CallerPlaces, Contexts, goroutines
<1>3. ASSUME NEW a \in Starters \cup Producers, SetCancel(a) \/ SetStarted(a) \/ ClearStopped(a)
      PROVE Shape'
  <2>1. made[a] \in Contexts
    BY <1>0 DEF Shape
  <2>2. CASE SetCancel(a)
    BY <2>1, <2>2 DEF Shape, SetCancel, Goto, CallerPlaces, contexts, goroutines, callerVars
  <2>3. CASE SetStarted(a)
    BY <2>3 DEF Shape, SetStarted, Goto, CallerPlaces, contexts, goroutines, callerVars
  <2>4. CASE ClearStopped(a)
    BY <2>4 DEF Shape, ClearStopped, Goto, CallerPlaces, contexts, goroutines, callerVars
  <2> QED BY <1>3, <2>2, <2>3, <2>4
<1>4. ASSUME NEW a \in Starters \cup Producers, Spawn(a) PROVE Shape'
  <2>1. NewWorker \in WorkerStates
    BY OffTypes DEF WorkerPlaces, Contexts, WorkerStates, TickerStates
  <2>2. NewTicker \in TickerStates
    BY OffTypes DEF WorkerPlaces, Contexts, WorkerStates, TickerStates
  <2>3. /\ worker' \in [Starts -> WorkerStates]
        /\ ticker' \in [Starts -> [Tickers -> TickerStates]]
    BY <1>4, <2>1, <2>2 DEF Spawn, Shape
  <2>4. pc' \in [Callers -> CallerPlaces]
        /\ result' \in [Callers -> {"none", "ok", "running", "stopped", "invalid"}]
    BY <1>0, <1>4 DEF Spawn, Shape, CallerPlaces
  <2> QED BY <1>4, <2>3, <2>4 DEF Spawn, Shape, flags, contexts
<1>5. ASSUME NEW p \in Producers, CallAdd(p) \/ RejectBatch(p) PROVE Shape'
  BY <1>0, <1>5 DEF Shape, CallAdd, RejectBatch, Goto, Return, CallerPlaces, flags, contexts,
     goroutines, callerVars
<1>6. ASSUME NEW p \in Producers, CheckStarted(p) \/ RefuseStopped(p) \/ PassStopped(p)
                                  \/ EnterSend(p) \/ AbandonSend(p)
      PROVE Shape'
  <2>1. CASE CheckStarted(p)
    BY <2>1 DEF Shape, CheckStarted, Goto, CallerPlaces, flags, contexts, goroutines, callerVars
  <2>2. CASE RefuseStopped(p) \/ AbandonSend(p)
    BY <2>2 DEF Shape, RefuseStopped, AbandonSend, Goto, Return, CallerPlaces, flags, contexts,
       goroutines
  <2>3. CASE PassStopped(p)
    BY <2>3 DEF Shape, PassStopped, Goto, CallerPlaces, flags, contexts, goroutines, callerVars
  <2>4. CASE EnterSend(p)
    BY <2>4 DEF Shape, EnterSend, Goto, CallerPlaces, flags, contexts, goroutines
  <2> QED BY <1>6, <2>1, <2>2, <2>3, <2>4
<1>7. ASSUME NEW p \in Producers, Send(p) PROVE Shape'
  <2>1. sent[p] \in Nat /\ sent[p] < BatchSize /\ sent'[p] = sent[p] + 1
    BY <1>0, <1>7 DEF Shape, Send, Holding
  <2>2. sent' \in [Producers -> 0 .. BatchSize] /\ <<p, sent'[p]>> \in Events
    BY <1>7, <2>1 DEF Shape, Send, Events
  <2>3. eventCh' \in Seq(Events) /\ Len(eventCh') <= Cap
    BY <1>7, <2>2 DEF Shape, Send
  <2>4. pc' \in [Callers -> CallerPlaces]
        /\ result' \in [Callers -> {"none", "ok", "running", "stopped", "invalid"}]
    BY <1>0, <1>7 DEF Send, Shape, CallerPlaces
  <2> QED BY <1>7, <2>2, <2>3, <2>4 DEF Send, Shape, flags, contexts, goroutines
<1>8. ASSUME NEW s \in Stoppers, CallStop(s) \/ RefuseStop(s) \/ StopStep(s) PROVE Shape'
  BY <1>0, <1>8 DEF Shape, CallStop, RefuseStop, StopStep, CancelContext, Await, SetStopped,
     ClearStarted, Goto, Return, CallerPlaces, flags, contexts, goroutines, callerVars
<1>9. ASSUME NEW k \in Starts, CancelParent(k) PROVE Shape'
  BY <1>0, <1>9 DEF Shape, CancelParent, flags, goroutines, callerVars
<1>10. ASSUME NEW k \in Starts, EnterSelect(k) \/ SeeDone(k) \/ Leave(k) PROVE Shape'
  <2>1. /\ {"select", "drain", "left"} \subseteq WorkerPlaces
        /\ worker \in [Starts -> WorkerStates] /\ ctx \in Contexts
    BY DEF WorkerPlaces, Shape
  <2>2. worker' \in [Starts -> WorkerStates]
    BY <1>10, <2>1 DEF EnterSelect, SeeDone, Leave, WorkerStates
  <2>3. UNCHANGED <<flags, contexts, ticker, callerVars, before, eventCh, pc, processed>>
    BY <1>10 DEF EnterSelect, SeeDone, Leave
  <2> QED BY <2>2, <2>3 DEF Shape, flags, contexts, callerVars
<1>11. ASSUME NEW k \in Starts, NEW from, NEW to \in WorkerPlaces, Take(k, from, to) PROVE Shape'
  <2>1. eventCh \in Seq(Events) /\ eventCh # <<>>
    BY <1>11 DEF Shape, Take
  <2>2. Head(eventCh) \in Events /\ Tail(eventCh) \in Seq(Events)
        /\ Len(Tail(eventCh)) = Len(eventCh) - 1
    BY <2>1, HeadTailProperties
  <2>3. Len(eventCh') <= Cap
    BY <1>11, <2>1, <2>2, LenProperties DEF Shape, Take
  <2>4. worker' \in [Starts -> WorkerStates] /\ eventCh' \in Seq(Events)
    <3>1. /\ worker \in [Starts -> WorkerStates] /\ eventCh' = Tail(eventCh)
          /\ worker' = [worker EXCEPT ![k].at = to, ![k].hand = Head(eventCh)]
      BY <1>11 DEF Shape, Take
    <3>2. [worker[k] EXCEPT !.at = to, !.hand = Head(eventCh)] \in WorkerStates
      BY <2>2, <3>1 DEF WorkerStates
    <3> QED BY <2>2, <3>1, <3>2
  <2>5. UNCHANGED <<flags, contexts, ticker, callerVars, before, pc, processed>>
    BY <1>11 DEF Take
  <2> QED BY <2>3, <2>4, <2>5 DEF Shape, flags, contexts, callerVars
<1>12. ASSUME NEW k \in Starts, Process(k) PROVE Shape'
  <2>0. worker \in [Starts -> WorkerStates] /\ worker[k].hand # NoEvent
    BY <1>12 DEF Shape, Process, Holding
  <2>1. worker[k].hand \in Events
    BY <2>0 DEF WorkerStates
  <2>2. processed' \in Seq(Events)
    BY <1>12, <2>1 DEF Shape, Process
  <2>3. PICK call \in {{}} \cup {{a} : a \in {b \in Inner : ~ Called(b)}} :
           worker' = [worker EXCEPT ![k].at = IF @ = "process" THEN "loop" ELSE "drain",
                                    ![k].hand = NoEvent, ![k].calls = @ \cup call]
    BY <1>12 DEF Process
  <2>4. {"loop", "drain"} \subseteq WorkerPlaces /\ call \subseteq Inner
    BY DEF WorkerPlaces
  <2>5. worker' \in [Starts -> WorkerStates]
    BY <2>0, <2>3, <2>4 DEF WorkerStates
  <2> QED BY <1>12, <2>2, <2>5 DEF Shape, Process, flags, contexts, callerVars
<1>13. ASSUME NEW k \in Starts, NEW t \in Tickers, TickerStep(k, t) PROVE Shape'
  <2>1. /\ {"select", "loop", "left"} \subseteq WorkerPlaces
        /\ ticker \in [Starts -> [Tickers -> TickerStates]] /\ ctx \in Contexts
    BY DEF WorkerPlaces, Shape
  <2>2. ticker' \in [Starts -> [Tickers -> TickerStates]]
    <3>1. CASE TickerSelect(k, t)
      BY <2>1, <3>1 DEF TickerSelect, TickerStates
    <3>2. ASSUME NEW place \in WorkerPlaces, ticker' = [ticker EXCEPT ![k][t].at = place]
          PROVE  ticker' \in [Starts -> [Tickers -> TickerStates]]
      <4>1. ticker[k] \in [Tickers -> TickerStates] /\ ticker[k][t] \in TickerStates
        BY <2>1
      <4> DEFINE x == [ticker[k][t] EXCEPT !.at = place]
      <4>2. x \in TickerStates
        BY <4>1 DEF TickerStates
      <4>3. ticker' = [ticker EXCEPT ![k] = [ticker[k] EXCEPT ![t] = x]]
        BY <3>2
      <4> HIDE DEF x
      <4> QED BY <2>1, <4>1, <4>2, <4>3
    <3> QED BY <1>13, <2>1, <3>1, <3>2 DEF TickerStep, Tick, TickerLeave
  <2>3. UNCHANGED <<flags, contexts, worker, callerVars, before, eventCh, pc, processed>>
    BY <1>13 DEF TickerStep, TickerSelect, Tick, TickerLeave
  <2> QED BY <2>2, <2>3 DEF Shape, flags, contexts, callerVars
<1>14. \A k \in Starts : WorkerStep(k) => Shape'
  <2>1. {"process", "processdrained"} \subseteq WorkerPlaces
    BY DEF WorkerPlaces
  <2> QED BY <1>10, <1>11, <1>12, <2>1 DEF WorkerStep, Receive, DrainOne
<1> QED BY <1>1, <1>2, <1>3, <1>4, <1>5, <1>6, <1>7, <1>8, <1>9, <1>13, <1>14
        DEF Next, StartStep, AddStep

(* What the worker's steps do to its record and to the others'.              *)
LEMMA WorkerMoves ==
    ASSUME Shape, Holding, NEW k \in Starts, WorkerStep(k)
    PROVE  /\ \A j \in Starts : j # k => worker'[j] = worker[j]
           /\ worker[k].at \notin {"off", "left"} /\ worker'[k].at # "off"
           /\ worker'[k].at \in {"process", "processdrained"} <=> worker'[k].hand # NoEvent
           /\ UNCHANGED <<flags, contexts, ticker, callerVars, before, pc>>
<1>0. worker \in [Starts -> WorkerStates] /\ NoEvent \notin Events
  BY NoEventIsNone DEF Shape
<1>1. CASE EnterSelect(k)
  BY <1>0, <1>1 DEF EnterSelect, WorkerStates, Holding
<1>2. ASSUME NEW from, NEW to, Take(k, from, to),
             <<from, to>> \in {<<"select", "process">>, <<"drain", "processdrained">>}
      PROVE /\ \A j \in Starts : j # k => worker'[j] = worker[j]
            /\ worker[k].at \notin {"off", "left"} /\ worker'[k].at # "off"
            /\ worker'[k].at \in {"process", "processdrained"} <=> worker'[k].hand # NoEvent
            /\ UNCHANGED <<flags, contexts, ticker, callerVars, before, pc>>
  <2>1. Head(eventCh) # NoEvent
    BY <1>0, <1>2 DEF Take, Shape
  <2> QED BY <1>0, <1>2, <2>1 DEF Take, WorkerStates
<1>3. CASE SeeDone(k)
  BY <1>0, <1>3 DEF SeeDone, WorkerStates, Holding
<1>4. CASE Process(k)
  <2>1. PICK call \in {{}} \cup {{a} : a \in {b \in Inner : ~ Called(b)}} :
           worker' = [worker EXCEPT ![k].at = IF @ = "process" THEN "loop" ELSE "drain",
                                    ![k].hand = NoEvent, ![k].calls = @ \cup call]
    BY <1>4 DEF Process
  <2>2. /\ \A j \in Starts : j # k => worker'[j] = worker[j]
        /\ worker'[k].hand = NoEvent
        /\ worker'[k].at = IF worker[k].at = "process" THEN "loop" ELSE "drain"
    BY <1>0, <2>1 DEF WorkerStates
  <2> QED BY <1>4, <2>2 DEF Process
<1>5. CASE Leave(k)
  BY <1>0, <1>5 DEF Leave, WorkerStates, Holding
<1> QED BY <1>1, <1>2, <1>3, <1>4, <1>5 DEF WorkerStep, Receive, DrainOne

LEMMA TickerMoves ==
    ASSUME Shape, NEW k \in Starts, NEW t \in Tickers, TickerStep(k, t)
    PROVE  /\ \A j \in Starts : j # k => ticker'[j] = ticker[j]
           /\ \A u \in Tickers : u # t => ticker'[k][u] = ticker[k][u]
           /\ ticker[k][t].at \notin {"off", "left"} /\ ticker'[k][t].at # "off"
           /\ UNCHANGED <<flags, contexts, worker, callerVars, before, eventCh, pc, processed>>
<1>0. ticker \in [Starts -> [Tickers -> TickerStates]]
  BY DEF Shape
<1>1. CASE TickerSelect(k, t)
  BY <1>0, <1>1 DEF TickerSelect, TickerStates
<1>2. CASE Tick(k, t)
  BY <1>0, <1>2 DEF Tick, TickerStates
<1>3. CASE TickerLeave(k, t)
  BY <1>0, <1>3 DEF TickerLeave, TickerStates
<1> QED BY <1>1, <1>2, <1>3 DEF TickerStep

LEMMA OwnedStep == Shape /\ Owned /\ Holding /\ Next => Owned'
<1> SUFFICES ASSUME Shape, Owned, Holding, Next PROVE Owned'
  OBVIOUS
<1> USE DEF Making
<1>0. /\ \A a \in Starters \cup Producers \cup Stoppers : a \in Callers
      /\ starts \in Nat
      /\ pc \in [Callers -> CallerPlaces] /\ made \in [Callers -> Contexts]
      /\ worker \in [Starts -> WorkerStates] /\ ticker \in [Starts -> [Tickers -> TickerStates]]
  BY DEF Callers, Shape, Contexts
<1>00. \A b \in Callers : pc[b] \in Making => made[b] \in Starts
  BY <1>0, SizesAssumption DEF Owned, Starts, Shape, Contexts
<1>a. ASSUME UNCHANGED <<worker, ticker, made, starts>>,
             NEW b \in Callers, NEW to \in CallerPlaces, pc' = [pc EXCEPT ![b] = to],
             to \in Making => pc[b] \in Making
      PROVE  Owned'
  BY <1>0, <1>a DEF Owned, Off
<1>b. ASSUME NEW b \in Callers, NEW to \in CallerPlaces, UNCHANGED <<goroutines, made, starts>>,
             NEW from, Goto(b, from, to), to \in Making => from \in Making
      PROVE  Owned'
  BY <1>a, <1>b DEF Goto, goroutines
<1>1. ASSUME NEW a \in Starters, CallStart(a) \/ RefuseStart(a) PROVE Owned'
  BY <1>0, <1>1, <1>b DEF CallStart, RefuseStart, Return, CallerPlaces, contexts, callerVars
<1>2. ASSUME NEW a \in Starters \cup Producers, MakeContext(a) PROVE Owned'
  <2>1. starts + 1 \in Starts /\ starts' = starts + 1 /\ Off(starts + 1)
    BY <1>0, <1>2, SizesAssumption DEF MakeContext, Owned, Starts
  <2>2. UNCHANGED <<worker, ticker>>
    BY <1>2 DEF MakeContext, goroutines
  <2>3. pc[a] \notin Making
    BY <1>2 DEF MakeContext, Goto
  <2>4. /\ pc'[a] = "cancel" /\ made'[a] = starts + 1
        /\ \A b \in Callers : b # a => pc'[b] = pc[b] /\ made'[b] = made[b]
    BY <1>0, <1>2 DEF MakeContext, Goto
  <2>5. \A k : Off(k)' <=> Off(k)
    BY <2>2 DEF Off
  <2> QED BY <1>0, <2>1, <2>3, <2>4, <2>5 DEF Owned, Starts
<1>3. ASSUME NEW a \in Starters \cup Producers, SetCancel(a) \/ SetStarted(a) \/ ClearStopped(a)
      PROVE Owned'
  BY <1>0, <1>3, <1>b DEF SetCancel, SetStarted, ClearStopped, CallerPlaces, contexts, callerVars
<1>4. ASSUME NEW a \in Starters \cup Producers, Spawn(a) PROVE Owned'
  <2>1. /\ pc'[a] \notin Making /\ UNCHANGED <<made, starts>>
        /\ \A b \in Callers : b # a => pc'[b] = pc[b]
    BY <1>0, <1>4 DEF Spawn, contexts
  <2>2. \A k \in Starts : k # made[a] => worker'[k] = worker[k] /\ ticker'[k] = ticker[k]
    BY <1>0, <1>4 DEF Spawn
  <2>3. \A k \in Starts : k # made[a] /\ Off(k) => Off(k)'
    BY <2>2 DEF Off
  <2>4. /\ pc[a] \in Making /\ made[a] \in 1 .. starts
        /\ \A b \in Callers : b # a /\ pc[b] \in Making => made[b] # made[a]
    BY <1>0, <1>4 DEF Owned, Spawn
  <2>5. \A b \in Callers : pc'[b] \in Making => pc[b] \in Making /\ Off(made[b])'
    BY <1>00, <2>1, <2>3, <2>4 DEF Owned, Off
  <2>6. \A j \in Starts : j > starts => Off(j)'
    BY <1>0, <2>3, <2>4 DEF Owned
  <2> QED BY <2>1, <2>5, <2>6 DEF Owned
<1>5. ASSUME NEW p \in Producers, CallAdd(p) \/ RejectBatch(p) \/ AddStep(p) PROVE Owned'
  <2>1. CASE Send(p)
    BY <1>0, <1>a, <2>1 DEF Send, CallerPlaces, contexts, goroutines
  <2>2. CASE CheckStarted(p)
    BY <1>0, <1>b, <2>2 DEF CheckStarted, CallerPlaces, contexts, callerVars
  <2>3. CASE CallAdd(p) \/ RejectBatch(p) \/ RefuseStopped(p)
    BY <1>0, <1>b, <2>3 DEF CallAdd, RejectBatch, RefuseStopped, Return, CallerPlaces, contexts,
       callerVars
  <2>4. CASE PassStopped(p) \/ EnterSend(p) \/ AbandonSend(p)
    BY <1>0, <1>b, <2>4 DEF PassStopped, EnterSend, AbandonSend, Return, CallerPlaces, contexts,
       callerVars
  <2> QED BY <1>5, <2>1, <2>2, <2>3, <2>4 DEF AddStep
<1>6. ASSUME NEW s \in Stoppers, CallStop(s) \/ RefuseStop(s) \/ StopStep(s) PROVE Owned'
  <2>1. CASE CallStop(s) \/ RefuseStop(s) \/ Await(s)
    BY <1>0, <1>b, <2>1 DEF CallStop, RefuseStop, Await, Return, CallerPlaces, contexts, callerVars
  <2>2. CASE CancelContext(s) \/ SetStopped(s) \/ ClearStarted(s)
    BY <1>0, <1>b, <2>2 DEF CancelContext, SetStopped, ClearStarted, Return, CallerPlaces,
       contexts, callerVars
  <2> QED BY <1>6, <2>1, <2>2 DEF StopStep
<1>7. ASSUME NEW k \in Starts, CancelParent(k) PROVE Owned'
  BY <1>7 DEF Owned, Off, CancelParent, goroutines, callerVars
<1>8. ASSUME NEW k \in Starts, WorkerStep(k) PROVE Owned'
  <2>1. ~ Off(k)
    BY <1>8, WorkerMoves, OffTypes DEF Off
  <2>2. UNCHANGED <<pc, made, starts>> /\ \A j \in Starts : Off(j) => Off(j)'
    BY <1>8, <2>1, WorkerMoves DEF Off, contexts, callerVars
  <2>3. \A b \in Callers : pc[b] \in Making => Off(made[b])'
    BY <1>00, <2>2 DEF Owned, Off
  <2>4. \A j \in Starts : j > starts => Off(j)'
    BY <2>2 DEF Owned
  <2> QED BY <2>2, <2>3, <2>4 DEF Owned
<1>9. ASSUME NEW k \in Starts, NEW t \in Tickers, TickerStep(k, t) PROVE Owned'
  <2>1. ~ Off(k)
    BY <1>9, TickerMoves, OffTypes DEF Off
  <2>2. UNCHANGED <<pc, made, starts>> /\ \A j \in Starts : Off(j) => Off(j)'
    BY <1>9, <2>1, TickerMoves DEF Off, contexts, callerVars
  <2>3. \A b \in Callers : pc[b] \in Making => Off(made[b])'
    BY <1>00, <2>2 DEF Owned, Off
  <2>4. \A j \in Starts : j > starts => Off(j)'
    BY <2>2 DEF Owned
  <2> QED BY <2>2, <2>3, <2>4 DEF Owned
<1> QED BY <1>1, <1>2, <1>3, <1>4, <1>5, <1>6, <1>7, <1>8, <1>9 DEF Next, StartStep

LEMMA HoldingStep == Shape /\ Owned /\ Holding /\ Next => Holding'
<1> SUFFICES ASSUME Shape, Owned, Holding, Next PROVE Holding'
  OBVIOUS
<1>0. /\ \A a \in Starters \cup Producers \cup Stoppers : a \in Callers
      /\ pc \in [Callers -> CallerPlaces]
      /\ sent \in [Producers -> 0 .. BatchSize]
      /\ worker \in [Starts -> WorkerStates]
  BY DEF Callers, Shape
<1>a. ASSUME UNCHANGED <<worker, sent>>, NEW b \in Callers, NEW from, NEW to, Goto(b, from, to),
             from # "returned"
      PROVE  Holding'
  BY <1>0, <1>a DEF Holding, Goto
<1>1. ASSUME NEW a \in Starters, CallStart(a) \/ RefuseStart(a) PROVE Holding'
  BY <1>0, <1>1, <1>a DEF CallStart, RefuseStart, Return, goroutines, callerVars
<1>2. ASSUME NEW a \in Starters \cup Producers, MakeContext(a) PROVE Holding'
  BY <1>0, <1>2, <1>a DEF MakeContext, goroutines
<1>3. ASSUME NEW a \in Starters \cup Producers, SetCancel(a) \/ SetStarted(a) \/ ClearStopped(a)
      PROVE Holding'
  BY <1>0, <1>3, <1>a DEF SetCancel, SetStarted, ClearStopped, goroutines, callerVars
<1>4. ASSUME NEW a \in Starters \cup Producers, Spawn(a) PROVE Holding'
  <2>1. NewWorker.at = "loop" /\ NewWorker.hand = NoEvent
    BY OffTypes
  <2>2. \A k \in Starts : worker'[k] \in {worker[k], NewWorker}
    BY <1>0, <1>4 DEF Spawn
  <2>3. \A k \in Starts :
           worker'[k].at \in {"process", "processdrained"} <=> worker'[k].hand # NoEvent
    BY <2>1, <2>2 DEF Holding
  <2>4. UNCHANGED sent /\ \A p \in Producers : pc'[p] # "returned" => pc[p] # "returned"
    BY <1>0, <1>4 DEF Spawn
  <2> QED BY <2>3, <2>4 DEF Holding
<1>5. ASSUME NEW p \in Producers, CallAdd(p) \/ RejectBatch(p) \/ AddStep(p) PROVE Holding'
  <2>1. CASE Send(p)
    <3>1. sent[p] \in Nat /\ sent[p] < BatchSize /\ BatchSize \in Nat
      BY <1>0, <2>1, SizesAssumption DEF Send, Holding
    <3>2. /\ sent'[p] = sent[p] + 1 /\ (pc'[p] # "returned" => sent'[p] # BatchSize)
          /\ \A q \in Producers : q # p => sent'[q] = sent[q] /\ pc'[q] = pc[q]
          /\ UNCHANGED worker
      BY <1>0, <2>1 DEF Send, goroutines
    <3> QED BY <3>1, <3>2 DEF Holding
  <2>2. CASE CheckStarted(p) \/ PassStopped(p) \/ EnterSend(p) \/ CallAdd(p)
    BY <1>0, <1>a, <2>2 DEF CheckStarted, PassStopped, EnterSend, CallAdd, goroutines, callerVars
  <2>3. CASE RejectBatch(p) \/ RefuseStopped(p) \/ AbandonSend(p)
    BY <1>0, <1>a, <2>3 DEF RejectBatch, RefuseStopped, AbandonSend, Return, goroutines
  <2> QED BY <1>5, <2>1, <2>2, <2>3 DEF AddStep
<1>6. ASSUME NEW s \in Stoppers, CallStop(s) \/ RefuseStop(s) \/ StopStep(s) PROVE Holding'
  <2>1. CASE CallStop(s) \/ RefuseStop(s) \/ Await(s)
    BY <1>0, <1>a, <2>1 DEF CallStop, RefuseStop, Await, Return, goroutines, callerVars
  <2>2. CASE CancelContext(s) \/ SetStopped(s) \/ ClearStarted(s)
    BY <1>0, <1>a, <2>2 DEF CancelContext, SetStopped, ClearStarted, Return, goroutines, callerVars
  <2> QED BY <1>6, <2>1, <2>2 DEF StopStep
<1>7. ASSUME NEW k \in Starts, CancelParent(k) PROVE Holding'
  BY <1>7 DEF Holding, CancelParent, goroutines, callerVars
<1>8. ASSUME NEW k \in Starts, WorkerStep(k) PROVE Holding'
  BY <1>8, WorkerMoves DEF Holding, callerVars
<1>9. ASSUME NEW k \in Starts, NEW t \in Tickers, TickerStep(k, t) PROVE Holding'
  BY <1>9, TickerMoves DEF Holding, callerVars
<1> QED BY <1>1, <1>2, <1>3, <1>4, <1>5, <1>6, <1>7, <1>8, <1>9 DEF Next, StartStep

LEMMA LiveFinite ==
    /\ IsFiniteSet(LiveWorkers) /\ IsFiniteSet(LiveTickers)
    /\ Cardinality(LiveWorkers) \in Nat /\ Cardinality(LiveTickers) \in Nat
<1>1. IsFiniteSet(Starts)
  BY FS_Interval, SizesAssumption DEF Starts
<1>2. IsFiniteSet(Starts \X Tickers)
  BY <1>1, FS_Product, TickersAssumption
<1> QED BY <1>1, <1>2, FS_Subset, FS_CardinalityType DEF LiveWorkers, LiveTickers

(* The WaitGroup is counted up before the goroutines run, down as each leaves. *)
LEMMA WgStep == Shape /\ Owned /\ Holding /\ WgExact /\ Next => WgExact'
<1> SUFFICES ASSUME Shape, Owned, Holding, WgExact, Next PROVE WgExact'
  OBVIOUS
<1>0. /\ worker \in [Starts -> WorkerStates] /\ ticker \in [Starts -> [Tickers -> TickerStates]]
      /\ \A a \in Starters \cup Producers : a \in Callers
      /\ wg \in Nat
  BY LiveFinite DEF Callers, Shape, WgExact
<1>a. UNCHANGED goroutines => WgExact'
  BY DEF WgExact, LiveWorkers, LiveTickers, Live, goroutines
<1>1. ASSUME NEW a \in Starters \cup Producers, Spawn(a) PROVE WgExact'
  <2> DEFINE k == made[a]
             New == {k} \X Tickers
  <2>1. k \in Starts /\ Off(k)
    BY <1>0, <1>1, SizesAssumption DEF Owned, Spawn, Making, Starts, Shape, Contexts
  <2>2. k \notin LiveWorkers /\ New \cap LiveTickers = {}
    BY <2>1, OffTypes DEF Off, LiveWorkers, LiveTickers, Live
  <2>3. LiveWorkers' = LiveWorkers \cup {k}
    <3>1. \A j \in Starts : worker'[j] = IF j = k THEN NewWorker ELSE worker[j]
      BY <1>0, <1>1, <2>1 DEF Spawn
    <3> QED BY <2>1, <3>1, OffTypes DEF LiveWorkers, Live
  <2>4. LiveTickers' = LiveTickers \cup New
    <3>1. \A j \in Starts, t \in Tickers :
             ticker'[j][t] = IF j = k THEN NewTicker ELSE ticker[j][t]
      BY <1>0, <1>1, <2>1 DEF Spawn
    <3>2. \A j \in Starts, t \in Tickers :
             Live(ticker'[j][t].at) <=> j = k \/ Live(ticker[j][t].at)
      BY <3>1, OffTypes DEF Live
    <3>3. \A kt : kt \in LiveTickers' <=> kt \in LiveTickers \/ kt \in New
      BY <2>1, <3>2 DEF LiveTickers
    <3> QED BY <3>3
  <2>5. IsFiniteSet(New) /\ Cardinality(New) = Cardinality(Tickers)
    <3>1. IsFiniteSet({k}) /\ Cardinality({k}) = 1
      BY FS_Singleton
    <3>2. Cardinality(Tickers) \in Nat
      BY FS_CardinalityType, TickersAssumption
    <3>3. IsFiniteSet(New) /\ Cardinality(New) = Cardinality({k}) * Cardinality(Tickers)
      BY <3>1, FS_Product, TickersAssumption
    <3> QED BY <3>1, <3>2, <3>3
  <2>6. Cardinality(LiveWorkers') = Cardinality(LiveWorkers) + 1
    BY <2>2, <2>3, LiveFinite, FS_AddElement
  <2>7. Cardinality(LiveTickers') = Cardinality(LiveTickers) + Cardinality(Tickers)
    <3>1. Cardinality(LiveTickers \cup New) =
             Cardinality(LiveTickers) + Cardinality(New) - Cardinality(LiveTickers \cap New)
      BY <2>5, LiveFinite, FS_Union
    <3>2. LiveTickers \cap New = {} /\ Cardinality({}) = 0
      BY <2>2, FS_EmptySet
    <3>3. Cardinality(Tickers) \in Nat
      BY FS_CardinalityType, TickersAssumption
    <3>4. Cardinality(LiveTickers \cap New) = 0
      BY <3>2
    <3> HIDE DEF New
    <3> QED BY <2>4, <2>5, <3>1, <3>3, <3>4, LiveFinite
  <2>8. wg' = wg + 1 + Cardinality(Tickers)
    BY <1>1 DEF Spawn
  <2>9. Cardinality(Tickers) \in Nat
    BY FS_CardinalityType, TickersAssumption
  <2> QED BY <2>6, <2>7, <2>8, <2>9, LiveFinite DEF WgExact
<1>2. ASSUME NEW k \in Starts, WorkerStep(k), ~ Leave(k) PROVE WgExact'
  <2>1. worker'[k].at \notin {"off", "left"} /\ UNCHANGED wg
    <3>1. CASE EnterSelect(k) \/ SeeDone(k)
      BY <1>0, <3>1 DEF EnterSelect, SeeDone, WorkerStates
    <3>2. CASE Receive(k) \/ DrainOne(k)
      BY <1>0, <3>2 DEF Receive, DrainOne, Take, WorkerStates
    <3>3. CASE Process(k)
      <4>1. PICK call \in {{}} \cup {{a} : a \in {b \in Inner : ~ Called(b)}} :
               worker' = [worker EXCEPT ![k].at = IF @ = "process" THEN "loop" ELSE "drain",
                                        ![k].hand = NoEvent, ![k].calls = @ \cup call]
        BY <3>3 DEF Process
      <4>2. worker'[k].at = IF worker[k].at = "process" THEN "loop" ELSE "drain"
        BY <1>0, <4>1 DEF WorkerStates
      <4> QED BY <3>3, <4>2 DEF Process
    <3> QED BY <1>2, <3>1, <3>2, <3>3 DEF WorkerStep
  <2>2. LiveWorkers' = LiveWorkers /\ LiveTickers' = LiveTickers
    BY <1>2, <2>1, WorkerMoves DEF LiveWorkers, LiveTickers, Live
  <2> QED BY <2>1, <2>2 DEF WgExact
<1>3. ASSUME NEW k \in Starts, Leave(k) PROVE WgExact'
  <2>1. k \in LiveWorkers /\ LiveWorkers' = LiveWorkers \ {k} /\ LiveTickers' = LiveTickers
    BY <1>0, <1>3 DEF Leave, LiveWorkers, LiveTickers, Live, WorkerStates
  <2>2. Cardinality(LiveWorkers') = Cardinality(LiveWorkers) - 1
    BY <2>1, LiveFinite, FS_RemoveElement
  <2> QED BY <1>3, <2>1, <2>2, LiveFinite DEF Leave, WgExact
<1>4. ASSUME NEW k \in Starts, NEW t \in Tickers, TickerStep(k, t), ~ TickerLeave(k, t)
      PROVE WgExact'
  <2>1. ticker'[k][t].at \notin {"off", "left"} /\ UNCHANGED wg
    <3>1. CASE TickerSelect(k, t)
      BY <1>0, <3>1 DEF TickerSelect, TickerStates
    <3>2. CASE Tick(k, t)
      BY <1>0, <3>2 DEF Tick, TickerStates
    <3> QED BY <1>4, <3>1, <3>2 DEF TickerStep
  <2>2. \A j \in Starts, u \in Tickers : Live(ticker'[j][u].at) <=> Live(ticker[j][u].at)
    BY <1>4, <2>1, TickerMoves DEF Live
  <2>3. LiveTickers' = LiveTickers /\ LiveWorkers' = LiveWorkers
    <3>1. \A kt : kt \in LiveTickers' <=> kt \in LiveTickers
      BY <2>2 DEF LiveTickers
    <3>2. UNCHANGED worker
      BY <1>4, TickerMoves
    <3> QED BY <3>1, <3>2 DEF LiveWorkers
  <2> QED BY <2>1, <2>3 DEF WgExact
<1>5. ASSUME NEW k \in Starts, NEW t \in Tickers, TickerLeave(k, t) PROVE WgExact'
  <2>1. /\ ticker[k][t].at = "select" /\ ticker'[k][t].at = "left"
        /\ \A j \in Starts, u \in Tickers :
              <<j, u>> # <<k, t>> => ticker'[j][u].at = ticker[j][u].at
        /\ UNCHANGED worker
    BY <1>0, <1>5 DEF TickerLeave, TickerStates
  <2>2. <<k, t>> \in LiveTickers
    BY <2>1 DEF LiveTickers, Live
  <2>3. LiveTickers' = LiveTickers \ {<<k, t>>}
    <3>1. \A kt : kt \in LiveTickers' <=> kt \in LiveTickers /\ kt # <<k, t>>
      BY <2>1 DEF LiveTickers, Live
    <3> QED BY <3>1
  <2>4. Cardinality(LiveTickers') = Cardinality(LiveTickers) - 1
    BY <2>2, <2>3, LiveFinite, FS_RemoveElement
  <2>5. LiveWorkers' = LiveWorkers
    BY <2>1 DEF LiveWorkers
  <2> QED BY <1>5, <2>4, <2>5, LiveFinite DEF TickerLeave, WgExact
<1>6. ASSUME NEW a \in Starters \cup Producers, StartStep(a), ~ Spawn(a) PROVE WgExact'
  BY <1>6, <1>a DEF StartStep, MakeContext, SetCancel, SetStarted, ClearStopped
<1>7. ASSUME NEW p \in Producers, CallAdd(p) \/ RejectBatch(p) \/ AddStep(p) PROVE WgExact'
  BY <1>7, <1>a DEF CallAdd, RejectBatch, AddStep, CheckStarted, RefuseStopped, PassStopped,
     EnterSend, Send, AbandonSend
<1>8. ASSUME NEW s \in Stoppers, CallStop(s) \/ RefuseStop(s) \/ StopStep(s) PROVE WgExact'
  BY <1>8, <1>a DEF CallStop, RefuseStop, StopStep, CancelContext, Await, SetStopped, ClearStarted
<1>9. ASSUME NEW a \in Starters, CallStart(a) \/ RefuseStart(a) PROVE WgExact'
  BY <1>9, <1>a DEF CallStart, RefuseStart
<1>10. ASSUME NEW k \in Starts, CancelParent(k) PROVE WgExact'
  BY <1>10, <1>a DEF CancelParent
<1> QED BY <1>1, <1>2, <1>3, <1>4, <1>5, <1>6, <1>7, <1>8, <1>9, <1>10 DEF Next

LInv == Shape /\ Owned /\ Holding /\ WgExact

LEMMA Stutter == ASSUME UNCHANGED vars
                 PROVE  /\ UNCHANGED <<started, stopped, ctx, cancel, cancelled, parents, starts>>
                        /\ UNCHANGED <<wg, worker, ticker, eventCh, pc, made, waits, sent>>
                        /\ UNCHANGED <<result, processed, before>>
BY DEF vars, flags, contexts, goroutines, callerVars

LEMMA WgInit == Init => WgExact
<1> SUFFICES ASSUME Init PROVE WgExact
  OBVIOUS
<1>0. /\ \A k \in Starts : worker[k] = IF k <= starts THEN NewWorker ELSE OffWorker
      /\ \A k \in Starts, t \in Tickers : ticker[k][t] = IF k <= starts THEN NewTicker ELSE OffTicker
      /\ starts = IF AlreadyStarted THEN 1 ELSE 0
  BY DEF Init
<1>1. CASE AlreadyStarted
  <2>1. \A k \in Starts : k <= starts <=> k = 1
    BY <1>0, <1>1 DEF Starts
  <2>2. 1 \in Starts
    BY SizesAssumption DEF Starts
  <2>3. LiveWorkers = {1}
    BY <1>0, <2>1, <2>2, OffTypes DEF LiveWorkers, Live
  <2>4. LiveTickers = {1} \X Tickers
    BY <1>0, <2>1, <2>2, OffTypes DEF LiveTickers, Live
  <2>5. IsFiniteSet({1}) /\ Cardinality({1}) = 1 /\ Cardinality(Tickers) \in Nat
    BY FS_Singleton, FS_CardinalityType, TickersAssumption
  <2>6. Cardinality({1} \X Tickers) = 1 * Cardinality(Tickers)
    BY <2>5, FS_Product, TickersAssumption
  <2> QED BY <1>1, <2>3, <2>4, <2>5, <2>6 DEF Init, WgExact
<1>2. CASE ~ AlreadyStarted
  <2>1. LiveWorkers = {} /\ LiveTickers = {}
    BY <1>0, <1>2, OffTypes DEF LiveWorkers, LiveTickers, Live, Starts
  <2> QED BY <1>2, <2>1, FS_EmptySet DEF Init, WgExact
<1> QED BY <1>1, <1>2

(* Start's hand-over of its context to a worker and tickers, and the counts   *)
(* of the WaitGroup, in every state of every run.                             *)
THEOREM LInvariant == Spec => []LInv
<1>1. Init => LInv
  BY ShapeInit, WgInit DEF LInv
<1>2. LInv /\ [Next]_vars => LInv'
  <2> SUFFICES ASSUME LInv, [Next]_vars PROVE LInv'
    OBVIOUS
  <2>1. CASE Next
    BY <2>1, ShapeStep, OwnedStep, HoldingStep, WgStep DEF LInv
  <2>2. CASE UNCHANGED vars
    <3>1. Shape'
      BY <2>2, Stutter DEF LInv, Shape
    <3>2. Owned'
      BY <2>2, Stutter DEF LInv, Owned, Off
    <3>3. Holding'
      BY <2>2, Stutter DEF LInv, Holding
    <3>4. WgExact'
      BY <2>2, Stutter DEF LInv, WgExact, LiveWorkers, LiveTickers, Live
    <3> QED BY <3>1, <3>2, <3>3, <3>4 DEF LInv
  <2> QED BY <2>1, <2>2
<1> QED BY <1>1, <1>2, PTL DEF Spec

(* Every variable keeps its shape, the channel never holds more than          *)
(* channelSize events, and the counter of the WaitGroup never goes negative.  *)
THEOREM TypeCorrect == Spec => []TypeOK
<1>1. LInv => TypeOK
  BY LiveFinite DEF LInv, Shape, WgExact, TypeOK, WorkerStates, TickerStates
<1> QED BY <1>1, LInvariant, PTL

(* wg.Add in Start and wg.Done in the goroutines: the counter is the number   *)
(* of goroutines that run, so that Stop waits for all of them.                *)
THEOREM WgCorrect == Spec => []WgExact
<1>1. LInv => WgExact
  BY DEF LInv
<1> QED BY <1>1, LInvariant, PTL

-----------------------------------------------------------------------------
(* Events: a step moves one event one place on, or moves none.               *)
NoneMoves ==
    UNCHANGED <<sent, eventCh, processed>> /\ \A k \in Starts : worker'[k].hand = worker[k].hand
Offered(p) ==
    /\ sent[p] \in Nat /\ <<p, sent[p] + 1>> \in Events
    /\ sent' = [sent EXCEPT ![p] = @ + 1]
    /\ eventCh' = Append(eventCh, <<p, sent[p] + 1>>)
    /\ UNCHANGED processed /\ \A k \in Starts : worker'[k].hand = worker[k].hand
Picked(k) ==
    /\ eventCh # <<>> /\ eventCh' = Tail(eventCh)
    /\ worker[k].hand = NoEvent /\ worker'[k].hand = Head(eventCh)
    /\ UNCHANGED <<sent, processed>> /\ \A j \in Starts : j # k => worker'[j].hand = worker[j].hand
Handled(k) ==
    /\ worker[k].hand \in Events /\ worker'[k].hand = NoEvent
    /\ processed' = Append(processed, worker[k].hand)
    /\ UNCHANGED <<sent, eventCh>> /\ \A j \in Starts : j # k => worker'[j].hand = worker[j].hand

LEMMA Moves ==
    ASSUME Shape, Owned, Holding, Next
    PROVE  NoneMoves \/ (\E p \in Producers : Offered(p))
                     \/ (\E k \in Starts : Picked(k) \/ Handled(k))
<1>0. /\ worker \in [Starts -> WorkerStates] /\ sent \in [Producers -> 0 .. BatchSize]
      /\ \A a \in Starters \cup Producers : a \in Callers
      /\ BatchSize \in Nat
  BY SizesAssumption DEF Shape, Callers
<1>a. UNCHANGED <<sent, eventCh, processed, worker>> => NoneMoves
  BY DEF NoneMoves
<1>1. ASSUME NEW p \in Producers, Send(p) PROVE Offered(p)
  <2>1. sent[p] \in Nat /\ sent[p] < BatchSize
    BY <1>0, <1>1 DEF Send, Holding
  <2>2. <<p, sent[p] + 1>> \in Events
    BY <1>0, <2>1 DEF Events
  <2>3. sent'[p] = sent[p] + 1
    BY <1>0, <1>1 DEF Send
  <2> QED BY <1>1, <2>1, <2>2, <2>3 DEF Send, Offered, goroutines
<1>2. ASSUME NEW k \in Starts, WorkerStep(k) PROVE NoneMoves \/ Picked(k) \/ Handled(k)
  <2>1. CASE EnterSelect(k) \/ SeeDone(k) \/ Leave(k)
    BY <1>0, <2>1 DEF EnterSelect, SeeDone, Leave, NoneMoves, WorkerStates, callerVars
  <2>2. CASE Receive(k) \/ DrainOne(k)
    <3>1. worker[k].hand = NoEvent
      BY <2>2 DEF Receive, DrainOne, Take, Holding
    <3> QED BY <1>0, <2>2, <3>1 DEF Receive, DrainOne, Take, Picked, WorkerStates, callerVars
  <2>3. CASE Process(k)
    <3>1. worker[k].hand \in Events
      BY <1>0, <2>3 DEF Process, Holding, WorkerStates
    <3>2. PICK call \in {{}} \cup {{a} : a \in {b \in Inner : ~ Called(b)}} :
             worker' = [worker EXCEPT ![k].at = IF @ = "process" THEN "loop" ELSE "drain",
                                      ![k].hand = NoEvent, ![k].calls = @ \cup call]
      BY <2>3 DEF Process
    <3>3. worker'[k].hand = NoEvent /\ \A j \in Starts : j # k => worker'[j] = worker[j]
      BY <1>0, <3>2 DEF WorkerStates
    <3> QED BY <2>3, <3>1, <3>3 DEF Process, Handled, callerVars
  <2> QED BY <1>2, <2>1, <2>2, <2>3 DEF WorkerStep
<1>3. ASSUME NEW a \in Starters \cup Producers, Spawn(a) PROVE NoneMoves
  <2>1. made[a] \in Starts /\ worker[made[a]].hand = NoEvent /\ NewWorker.hand = NoEvent
    BY <1>0, <1>3, SizesAssumption, OffTypes DEF Owned, Off, Spawn, Making, Starts, Shape, Contexts
  <2> QED BY <1>0, <1>3, <2>1 DEF Spawn, NoneMoves
<1>4. ASSUME NEW a \in Starters \cup Producers, StartStep(a), ~ Spawn(a) PROVE NoneMoves
  BY <1>4, <1>a DEF StartStep, MakeContext, SetCancel, SetStarted, ClearStopped, goroutines,
     callerVars
<1>5. ASSUME NEW p \in Producers, CallAdd(p) \/ RejectBatch(p) \/ AddStep(p), ~ Send(p)
      PROVE NoneMoves
  BY <1>5, <1>a DEF CallAdd, RejectBatch, AddStep, CheckStarted, RefuseStopped, PassStopped,
     EnterSend, AbandonSend, goroutines, callerVars
<1>6. ASSUME NEW s \in Stoppers, CallStop(s) \/ RefuseStop(s) \/ StopStep(s) PROVE NoneMoves
  BY <1>6, <1>a DEF CallStop, RefuseStop, StopStep, CancelContext, Await, SetStopped, ClearStarted,
     goroutines, callerVars
<1>7. ASSUME NEW a \in Starters, CallStart(a) \/ RefuseStart(a) PROVE NoneMoves
  BY <1>7, <1>a DEF CallStart, RefuseStart, goroutines, callerVars
<1>8. ASSUME NEW k \in Starts, CancelParent(k) PROVE NoneMoves
  BY <1>8, <1>a DEF CancelParent, goroutines, callerVars
<1>9. ASSUME NEW k \in Starts, NEW t \in Tickers, TickerStep(k, t) PROVE NoneMoves
  BY <1>9, <1>a, TickerMoves DEF callerVars
<1> QED BY <1>1, <1>2, <1>3, <1>4, <1>5, <1>6, <1>7, <1>8, <1>9 DEF Next

Carrying == {k \in Starts : worker[k].hand # NoEvent}

LEMMA ConservedStep ==
    ASSUME Shape, Owned, Holding, Conserved, IsFiniteSet(Accepted), Next
    PROVE  Conserved' /\ IsFiniteSet(Accepted')
<1>0. /\ eventCh \in Seq(Events) /\ processed \in Seq(Events) /\ sent \in [Producers -> Nat]
      /\ Len(eventCh) \in Nat /\ Len(processed) \in Nat
  BY SizesAssumption DEF Shape
<1>1. /\ Accepted = InChannel \cup Hands \cup Done
      /\ Cardinality(Accepted) = Len(eventCh) + Len(processed) + Cardinality(Carrying)
  BY DEF Conserved, Carrying
<1>2. IsFiniteSet(Carrying) /\ Cardinality(Carrying) \in Nat
  <2>1. IsFiniteSet(Starts) /\ Carrying \subseteq Starts
    BY FS_Interval, SizesAssumption DEF Starts, Carrying
  <2> QED BY <2>1, FS_Subset, FS_CardinalityType
<1>3. SUFFICES /\ IsFiniteSet(Accepted')
               /\ Accepted' = InChannel' \cup Hands' \cup Done'
               /\ Cardinality(Accepted') = Len(eventCh') + Len(processed') + Cardinality(Carrying')
  BY DEF Conserved, Carrying
<1>4. CASE NoneMoves
  <2>1. Accepted' = Accepted /\ InChannel' = InChannel /\ Done' = Done
    BY <1>4 DEF NoneMoves, Accepted, InChannel, Done
  <2>2. Hands' = Hands /\ Carrying' = Carrying
    BY <1>4 DEF NoneMoves, Hands, Carrying
  <2> QED BY <1>1, <1>4, <2>1, <2>2 DEF NoneMoves
<1>5. ASSUME NEW p \in Producers, Offered(p)
      PROVE  /\ IsFiniteSet(Accepted')
             /\ Accepted' = InChannel' \cup Hands' \cup Done'
             /\ Cardinality(Accepted') = Len(eventCh') + Len(processed') + Cardinality(Carrying')
  <2> DEFINE e == <<p, sent[p] + 1>>
  <2>1. e \in Events /\ sent[p] \in Nat /\ eventCh' = Append(eventCh, e)
    BY <1>5 DEF Offered
  <2>2. Hands' = Hands /\ Carrying' = Carrying /\ Done' = Done
    BY <1>5 DEF Offered, Hands, Carrying, Done
  <2>3. Accepted' = Accepted \cup {e} /\ e \notin Accepted
    <3>1. \A q \in Producers : sent'[q] = IF q = p THEN sent[p] + 1 ELSE sent[q]
      BY <1>0, <1>5 DEF Offered
    <3>2. ASSUME NEW d \in Events PROVE d[2] <= sent'[d[1]] <=> d[2] <= sent[d[1]] \/ d = e
      <4>1. PICK q \in Producers, i \in 1 .. BatchSize : d = <<q, i>>
        BY DEF Events
      <4>2. d[1] = q /\ d[2] = i /\ i \in Nat
        BY <4>1, SizesAssumption
      <4>3. d = e <=> q = p /\ i = sent[p] + 1
        BY <4>1
      <4>4. sent[q] \in Nat
        BY <1>0
      <4> QED BY <2>1, <3>1, <4>2, <4>3, <4>4
    <3>3. ~ (e[2] <= sent[e[1]])
      BY <2>1
    <3> QED BY <2>1, <3>2, <3>3 DEF Accepted
  <2>4. InChannel' = InChannel \cup {e} /\ Len(eventCh') = Len(eventCh) + 1
    <3>1. /\ Len(Append(eventCh, e)) = Len(eventCh) + 1
          /\ \A i \in 1 .. Len(eventCh) + 1 :
                Append(eventCh, e)[i] = IF i = Len(eventCh) + 1 THEN e ELSE eventCh[i]
      BY <1>0, <2>1, AppendProperties
    <3>2. eventCh' = Append(eventCh, e)
      BY <2>1
    <3> HIDE DEF e
    <3>3. ASSUME NEW i \in 1 .. Len(eventCh) PROVE eventCh[i] \in InChannel'
      <4>1. i \in 1 .. Len(eventCh') /\ eventCh'[i] = eventCh[i]
        BY <1>0, <3>1, <3>2
      <4> QED BY <4>1 DEF InChannel
    <3>4. e \in InChannel'
      <4>1. Len(eventCh) + 1 \in 1 .. Len(eventCh') /\ eventCh'[Len(eventCh) + 1] = e
        BY <1>0, <3>1, <3>2
      <4> QED BY <4>1 DEF InChannel
    <3>5. ASSUME NEW i \in 1 .. Len(eventCh') PROVE eventCh'[i] \in InChannel \cup {e}
      <4>1. i \in 1 .. Len(eventCh) + 1
            /\ eventCh'[i] = IF i = Len(eventCh) + 1 THEN e ELSE eventCh[i]
        BY <3>1, <3>2
      <4>2. CASE i = Len(eventCh) + 1
        BY <4>1, <4>2
      <4>3. CASE i # Len(eventCh) + 1
        <5>1. i \in 1 .. Len(eventCh) /\ eventCh'[i] = eventCh[i]
          BY <1>0, <4>1, <4>3
        <5> QED BY <5>1 DEF InChannel
      <4> QED BY <4>2, <4>3
    <3>6. InChannel \cup {e} \subseteq InChannel'
      BY <3>3, <3>4 DEF InChannel
    <3>7. InChannel' \subseteq InChannel \cup {e}
      BY <3>5 DEF InChannel
    <3> QED BY <3>1, <3>2, <3>6, <3>7
  <2>5. IsFiniteSet(Accepted') /\ Cardinality(Accepted') = Cardinality(Accepted) + 1
    BY <2>3, FS_AddElement
  <2>6. processed' = processed
    BY <1>5 DEF Offered
  <2> HIDE DEF e
  <2> QED BY <1>0, <1>1, <1>2, <2>2, <2>3, <2>4, <2>5, <2>6
<1>6. ASSUME NEW k \in Starts, Picked(k)
      PROVE  /\ IsFiniteSet(Accepted')
             /\ Accepted' = InChannel' \cup Hands' \cup Done'
             /\ Cardinality(Accepted') = Len(eventCh') + Len(processed') + Cardinality(Carrying')
  <2> DEFINE e == Head(eventCh)
  <2>1. /\ e \in Events /\ e # NoEvent /\ eventCh' = Tail(eventCh) /\ eventCh # <<>>
        /\ worker[k].hand = NoEvent /\ worker'[k].hand = e /\ processed' = processed
        /\ \A j \in Starts : j # k => worker'[j].hand = worker[j].hand
    BY <1>0, <1>6, NoEventIsNone DEF Picked
  <2>2. Accepted' = Accepted /\ Done' = Done
    BY <1>6 DEF Picked, Accepted, Done
  <2>3. Carrying' = Carrying \cup {k} /\ k \notin Carrying
    BY <2>1 DEF Carrying
  <2>4. Hands' = Hands \cup {e}
    BY <2>1 DEF Hands
  <2>5. InChannel = InChannel' \cup {e} /\ Len(eventCh') = Len(eventCh) - 1
    <3>1. /\ Len(eventCh) >= 1 /\ e = eventCh[1] /\ Len(Tail(eventCh)) = Len(eventCh) - 1
          /\ \A i \in 1 .. Len(eventCh) - 1 : Tail(eventCh)[i] = eventCh[i + 1]
      BY <1>0, <2>1, HeadTailProperties, EmptySeq
    <3>2. \A d : d \in InChannel <=> d \in InChannel' \/ d = e
      <4> HIDE DEF e
      <4>1. ASSUME NEW i \in 1 .. Len(eventCh), i # 1 PROVE eventCh[i] \in InChannel'
        <5>1. i - 1 \in 1 .. Len(eventCh') /\ eventCh'[i - 1] = eventCh[i]
          BY <1>0, <2>1, <3>1, <4>1
        <5> QED BY <5>1 DEF InChannel
      <4>2. ASSUME NEW i \in 1 .. Len(eventCh') PROVE eventCh'[i] \in InChannel
        <5>1. i + 1 \in 1 .. Len(eventCh) /\ eventCh'[i] = eventCh[i + 1]
          BY <1>0, <2>1, <3>1
        <5> QED BY <5>1 DEF InChannel
      <4>3. e \in InChannel
        BY <1>0, <3>1 DEF InChannel
      <4> QED BY <3>1, <4>1, <4>2, <4>3 DEF InChannel
    <3> QED BY <2>1, <3>1, <3>2
  <2>6. Cardinality(Carrying') = Cardinality(Carrying) + 1
    BY <1>2, <2>3, FS_AddElement
  <2> HIDE DEF e
  <2> QED BY <1>0, <1>1, <1>2, <2>1, <2>2, <2>4, <2>5, <2>6
<1>7. ASSUME NEW k \in Starts, Handled(k)
      PROVE  /\ IsFiniteSet(Accepted')
             /\ Accepted' = InChannel' \cup Hands' \cup Done'
             /\ Cardinality(Accepted') = Len(eventCh') + Len(processed') + Cardinality(Carrying')
  <2> DEFINE e == worker[k].hand
  <2>1. /\ e \in Events /\ e # NoEvent /\ worker'[k].hand = NoEvent
        /\ processed' = Append(processed, e) /\ eventCh' = eventCh
        /\ \A j \in Starts : j # k => worker'[j].hand = worker[j].hand
    BY <1>7, NoEventIsNone DEF Handled
  <2>2. Accepted' = Accepted /\ InChannel' = InChannel
    BY <1>7 DEF Handled, Accepted, InChannel
  <2>3. Carrying' = Carrying \ {k} /\ k \in Carrying
    BY <2>1 DEF Carrying
  <2>4. e \in Hands /\ Hands' \cup {e} = Hands
    BY <2>1 DEF Hands
  <2>5. Done' = Done \cup {e} /\ Len(processed') = Len(processed) + 1
    <3>1. /\ Len(Append(processed, e)) = Len(processed) + 1
          /\ \A i \in 1 .. Len(processed) + 1 :
                Append(processed, e)[i] = IF i = Len(processed) + 1 THEN e ELSE processed[i]
      BY <1>0, <2>1, AppendProperties
    <3> HIDE DEF e
    <3> QED BY <1>0, <2>1, <3>1 DEF Done
  <2>6. Cardinality(Carrying') = Cardinality(Carrying) - 1
    BY <1>2, <2>3, FS_RemoveElement
  <2> HIDE DEF e
  <2>7. Accepted' = InChannel' \cup Hands' \cup Done'
    BY <1>1, <2>2, <2>4, <2>5
  <2>8. Cardinality(Accepted') = Cardinality(Accepted) /\ IsFiniteSet(Accepted')
    BY <2>2
  <2> QED BY <1>0, <1>1, <1>2, <2>1, <2>5, <2>6, <2>7, <2>8
<1> QED BY <1>4, <1>5, <1>6, <1>7, Moves

CInv == Conserved /\ IsFiniteSet(Accepted)

(* What AddEvent has put in the channel is accounted for, and finite.         *)
THEOREM CInvariant == Spec => []CInv
<1>1. Init => CInv
  <2> SUFFICES ASSUME Init PROVE CInv
    BY DEF CInv
  <2>1. Accepted = {}
    <3>1. \A e \in Events : ~ (e[2] <= sent[e[1]])
      BY SizesAssumption DEF Init, Events
    <3> QED BY <3>1 DEF Accepted
  <2>2. InChannel = {} /\ Done = {} /\ Len(eventCh) = 0 /\ Len(processed) = 0
    BY DEF Init, InChannel, Done
  <2>3. \A k \in Starts : worker[k].hand = NoEvent
    BY OffTypes DEF Init
  <2>4. Hands = {} /\ {k \in Starts : worker[k].hand # NoEvent} = {}
    BY <2>3 DEF Hands
  <2> QED BY <2>1, <2>2, <2>4, FS_EmptySet DEF Conserved, CInv
<1>2. LInv /\ CInv /\ [Next]_vars => CInv'
  <2>1. CASE UNCHANGED vars
    BY <2>1, Stutter DEF CInv, Conserved, Accepted, InChannel, Hands, Done
  <2> QED BY <2>1, ConservedStep DEF CInv, LInv
<1> QED BY <1>1, <1>2, LInvariant, PTL DEF Spec

(* AddEvent, the worker and its drain: an event that the channel took is in   *)
(* the channel, in the hands of one worker or processed, and in one place     *)
(* only, for any number of producers, starts and stops.                       *)
THEOREM EventsConserved == Spec => []Conserved
<1>1. CInv => Conserved
  BY DEF CInv
<1> QED BY <1>1, CInvariant, PTL

-----------------------------------------------------------------------------
(* Contexts: the worker of the last one is alive, or to be spawned, or done. *)
LEMMA ServedStep == LInv /\ Served /\ Next => Served'
<1> SUFFICES ASSUME LInv, Served, Next PROVE Served'
  OBVIOUS
<1> USE DEF Making
<1>0. /\ \A a \in Starters \cup Producers \cup Stoppers : a \in Callers
      /\ starts \in Nat /\ starts <= MaxStarts /\ MaxStarts \in Nat
      /\ pc \in [Callers -> CallerPlaces] /\ made \in [Callers -> Contexts]
      /\ worker \in [Starts -> WorkerStates]
  BY SizesAssumption DEF LInv, Shape, Contexts, Callers
<1>a. ASSUME UNCHANGED <<ctx, starts, worker, made>>, cancelled \subseteq cancelled',
             started' => started, NEW b \in Callers, NEW to \in CallerPlaces,
             pc' = [pc EXCEPT ![b] = to], pc[b] \in Making => to \in Making
      PROVE  Served'
  <2>1. \A k : (\E c \in Callers : pc[c] \in Making /\ made[c] = k)
               => (\E c \in Callers : pc'[c] \in Making /\ made'[c] = k)
    BY <1>0, <1>a
  <2> QED BY <1>a, <2>1 DEF Served
<1>b. ASSUME NEW b \in Callers, NEW to \in CallerPlaces, NEW from, Goto(b, from, to),
             UNCHANGED <<ctx, starts, worker, made>>, cancelled \subseteq cancelled',
             started' => started, from \in Making => to \in Making
      PROVE  Served'
  BY <1>a, <1>b DEF Goto
<1>1. ASSUME NEW a \in Starters, CallStart(a) \/ RefuseStart(a) PROVE Served'
  BY <1>0, <1>1, <1>b DEF CallStart, RefuseStart, Return, CallerPlaces, flags, contexts, goroutines,
     callerVars
<1>2. ASSUME NEW a \in Starters \cup Producers, MakeContext(a) PROVE Served'
  <2>1. /\ ctx' = starts + 1 /\ starts' = starts + 1 /\ UNCHANGED <<worker, cancelled>>
        /\ pc[a] \notin Making /\ pc'[a] = "cancel" /\ made'[a] = starts + 1
        /\ \A b \in Callers : b # a => pc'[b] = pc[b] /\ made'[b] = made[b]
    BY <1>0, <1>2 DEF MakeContext, Goto, goroutines
  <2>2. starts + 1 \in Starts => worker[starts + 1].at = "off"
    BY <1>0, OffTypes DEF LInv, Owned, Off
  <2>3. ASSUME NEW k \in Starts, k <= starts, worker[k].at = "off"
        PROVE  \E b \in Callers : pc'[b] \in Making /\ made'[b] = k
    BY <1>0, <2>1, <2>3 DEF Served
  <2>4. ASSUME NEW k \in Starts, k <= starts + 1
        PROVE  /\ worker[k].at = "off" => \E b \in Callers : pc'[b] \in Making /\ made'[b] = k
               /\ worker[k].at = "select" => worker[k].on \in k .. starts + 1
               /\ worker[k].at \in {"drain", "processdrained", "left"} =>
                     worker[k].on \in (k .. starts + 1) \cap cancelled
    <3>1. CASE k = starts + 1
      BY <1>0, <2>1, <2>2, <3>1
    <3>2. CASE k # starts + 1
      <4>1. k <= starts
        BY <1>0, <2>4, <3>2 DEF Starts
      <4>2. k .. starts \subseteq k .. starts + 1
        BY <1>0
      <4> QED BY <2>3, <4>1, <4>2 DEF Served
    <3> QED BY <3>1, <3>2
  <2> QED BY <1>0, <2>1, <2>4 DEF Served
<1>3. ASSUME NEW a \in Starters \cup Producers, SetCancel(a) \/ ClearStopped(a) PROVE Served'
  BY <1>0, <1>3, <1>b DEF SetCancel, ClearStopped, CallerPlaces, contexts, goroutines, callerVars
<1>4. ASSUME NEW a \in Starters \cup Producers, SetStarted(a) PROVE Served'
  <2>1. starts >= 1
    BY <1>0, <1>4 DEF SetStarted, Goto, LInv, Owned, Contexts
  <2>2. \A k : (\E c \in Callers : pc[c] \in Making /\ made[c] = k)
               => (\E c \in Callers : pc'[c] \in Making /\ made'[c] = k)
    BY <1>0, <1>4 DEF SetStarted, Goto, callerVars
  <2>3. UNCHANGED <<ctx, starts, worker, cancelled>>
    BY <1>4 DEF SetStarted, contexts, goroutines
  <2> QED BY <2>1, <2>2, <2>3 DEF Served
<1>5. ASSUME NEW a \in Starters \cup Producers, Spawn(a) PROVE Served'
  <2>1. /\ UNCHANGED <<started, ctx, starts, made, cancelled>>
        /\ \A b \in Callers : b # a => pc'[b] = pc[b]
        /\ \A k \in Starts : k # made[a] => worker'[k] = worker[k]
        /\ made[a] \in Starts => worker'[made[a]].at = "loop"
    BY <1>0, <1>5, OffTypes DEF Spawn, flags, contexts
  <2>2. ASSUME NEW k \in Starts, k # made[a], NEW c \in Callers, pc[c] \in Making, made[c] = k
        PROVE  pc'[c] \in Making /\ made'[c] = k
    BY <2>1, <2>2
  <2> QED BY <2>1, <2>2 DEF Served
<1>6. ASSUME NEW p \in Producers, CallAdd(p) \/ RejectBatch(p) \/ AddStep(p) PROVE Served'
  <2>1. CASE Send(p)
    <3>1. pc[p] \notin Making /\ \E to \in CallerPlaces : pc' = [pc EXCEPT ![p] = to]
      BY <2>1 DEF Send, CallerPlaces
    <3> QED BY <1>0, <1>a, <2>1, <3>1 DEF Send, flags, contexts, goroutines
  <2>2. CASE CheckStarted(p) \/ CallAdd(p) \/ PassStopped(p) \/ EnterSend(p)
    BY <1>0, <1>b, <2>2 DEF CheckStarted, CallAdd, PassStopped, EnterSend, CallerPlaces, flags,
       contexts, goroutines, callerVars
  <2>3. CASE RejectBatch(p) \/ RefuseStopped(p) \/ AbandonSend(p)
    BY <1>0, <1>b, <2>3 DEF RejectBatch, RefuseStopped, AbandonSend, Return, CallerPlaces, flags,
       contexts, goroutines
  <2> QED BY <1>6, <2>1, <2>2, <2>3 DEF AddStep
<1>7. ASSUME NEW s \in Stoppers, CallStop(s) \/ RefuseStop(s) \/ StopStep(s) PROVE Served'
  <2>1. CASE CallStop(s) \/ RefuseStop(s) \/ Await(s) \/ SetStopped(s)
    BY <1>0, <1>b, <2>1 DEF CallStop, RefuseStop, Await, SetStopped, Return, CallerPlaces, flags,
       contexts, goroutines, callerVars
  <2>2. CASE CancelContext(s) \/ ClearStarted(s)
    BY <1>0, <1>b, <2>2 DEF CancelContext, ClearStarted, Return, CallerPlaces, flags, contexts,
       goroutines, callerVars
  <2> QED BY <1>7, <2>1, <2>2 DEF StopStep
<1>8. ASSUME NEW k \in Starts, CancelParent(k) PROVE Served'
  BY <1>8 DEF CancelParent, Served, flags, goroutines, callerVars
<1>9. ASSUME NEW k \in Starts, WorkerStep(k) PROVE Served'
  <2>1. /\ UNCHANGED <<started, ctx, starts, cancelled, pc, made>>
        /\ \A j \in Starts : j # k => worker'[j] = worker[j]
        /\ worker'[k].at # "off"
    BY <1>9, WorkerMoves DEF LInv, flags, contexts, callerVars
  <2>2. k <= starts
    <3>1. ~ Off(k)
      BY <1>9, WorkerMoves, OffTypes DEF LInv, Off
    <3> QED BY <1>0, <3>1 DEF LInv, Owned, Starts
  <2>3. /\ worker'[k].at = "select" => worker'[k].on \in k .. starts
        /\ worker'[k].at \in {"drain", "processdrained", "left"} =>
              worker'[k].on \in (k .. starts) \cap cancelled
    <3>1. CASE EnterSelect(k)
      <4>1. ctx \in k .. starts
        BY <1>0, <2>2 DEF Served, Starts
      <4> QED BY <1>0, <3>1, <4>1 DEF EnterSelect, WorkerStates
    <3>2. CASE Receive(k) \/ DrainOne(k)
      BY <1>0, <2>2, <3>2 DEF Receive, DrainOne, Take, WorkerStates, Served
    <3>3. CASE SeeDone(k) \/ Leave(k)
      BY <1>0, <2>2, <3>3 DEF SeeDone, Leave, WorkerStates, Served
    <3>4. CASE Process(k)
      <4>1. PICK call \in {{}} \cup {{a} : a \in {b \in Inner : ~ Called(b)}} :
               worker' = [worker EXCEPT ![k].at = IF @ = "process" THEN "loop" ELSE "drain",
                                        ![k].hand = NoEvent, ![k].calls = @ \cup call]
        BY <3>4 DEF Process
      <4>2. /\ worker'[k].at = IF worker[k].at = "process" THEN "loop" ELSE "drain"
            /\ worker'[k].on = worker[k].on
        BY <1>0, <4>1 DEF WorkerStates
      <4> QED BY <2>2, <3>4, <4>2 DEF Process, Served
    <3> QED BY <1>9, <3>1, <3>2, <3>3, <3>4 DEF WorkerStep
  <2> QED BY <2>1, <2>3 DEF Served
<1>10. ASSUME NEW k \in Starts, NEW t \in Tickers, TickerStep(k, t) PROVE Served'
  BY <1>10, TickerMoves DEF LInv, Served, flags, contexts, callerVars
<1> QED BY <1>1, <1>2, <1>3, <1>4, <1>5, <1>6, <1>7, <1>8, <1>9, <1>10 DEF Next, StartStep

(* Each context that Start made is served by its worker, or will be, or is    *)
(* followed by one that is, unless it is done.                                *)
THEOREM ServedAlways == Spec => []Served
<1>1. Init => Served
  <2> SUFFICES ASSUME Init PROVE Served
    OBVIOUS
  <2>1. ctx = starts /\ (started => starts >= 1)
    BY FlagsAssumption DEF Init
  <2>2. \A k \in Starts : k <= starts => worker[k].at = "loop"
    BY OffTypes DEF Init
  <2> QED BY <2>1, <2>2 DEF Served
<1>2. LInv /\ Served /\ [Next]_vars => Served'
  <2>1. CASE UNCHANGED vars
    BY <2>1, Stutter DEF Served
  <2> QED BY <2>1, ServedStep
<1> QED BY <1>1, <1>2, LInvariant, PTL DEF Spec

(* An engine that says it runs, but has no worker, waits on a context that is *)
(* done: AddEvent's select then lets every producer go.                       *)
THEOREM DeafContextDone == Spec => []DeafIsDone
<1>1. LInv /\ Served => DeafIsDone
  <2> SUFFICES ASSUME LInv, Served, Running, ~ Starting, LiveWorkers = {} PROVE ctx \in cancelled
    BY DEF DeafIsDone
  <2>1. starts \in Nat /\ starts >= 1 /\ starts \in Starts /\ ctx = starts
    BY SizesAssumption DEF Running, Served, LInv, Shape, Contexts, Starts
  <2>2. worker[starts].at = "off" \/ worker[starts].at = "left"
    BY <2>1 DEF LiveWorkers, Live
  <2>3. worker[starts].at # "off"
    BY <2>1 DEF Served, Starting, Making
  <2>4. worker[starts].on \in (starts .. starts) \cap cancelled
    BY <2>1, <2>2, <2>3 DEF Served
  <2> QED BY <2>1, <2>4
<1> QED BY <1>1, LInvariant, ServedAlways, PTL

-----------------------------------------------------------------------------
(* Order: a batch in the channel, a worker's hands and the history.          *)
LEMMA PipelinedStep == LInv /\ CInv /\ Pipelined /\ Next => Pipelined'
<1> SUFFICES ASSUME LInv, CInv, Pipelined, Next, starts' <= 1 PROVE Pipelined'
  BY DEF Pipelined
<1>0. /\ eventCh \in Seq(Events) /\ processed \in Seq(Events) /\ sent \in [Producers -> Nat]
      /\ Len(eventCh) \in Nat /\ Len(processed) \in Nat
      /\ starts \in Nat /\ 1 \in Starts /\ NoEvent \notin Events
      /\ worker \in [Starts -> WorkerStates]
  BY SizesAssumption, NoEventIsNone DEF LInv, Shape, Contexts, Starts
<1>1. starts <= 1
  <2>1. starts' = starts \/ starts' = starts + 1
    BY WorkerMoves, TickerMoves DEF LInv, Next, CallStart, RefuseStart, StartStep, MakeContext,
       SetCancel, SetStarted, ClearStopped, Spawn, CallAdd, RejectBatch, AddStep, CheckStarted,
       RefuseStopped, PassStopped, EnterSend, Send, AbandonSend, CallStop, RefuseStop, StopStep,
       CancelContext, Await, SetStopped, ClearStarted, CancelParent, contexts
  <2> QED BY <1>0, <2>1
<1>2. ASSUME NEW k \in Starts, k # 1 PROVE worker[k].hand = NoEvent
  BY <1>0, <1>1, <1>2, OffTypes DEF LInv, Owned, Off, Starts
<1>3. /\ \A i \in 1 .. Len(processed) : processed[i] \in Accepted
      /\ \A j \in 1 .. Len(eventCh) : eventCh[j] \in Accepted
      /\ worker[1].hand # NoEvent => worker[1].hand \in Accepted
  BY <1>0 DEF CInv, Conserved, Done, InChannel, Hands
<1>4. CASE NoneMoves
  BY <1>0, <1>1, <1>4 DEF NoneMoves, Pipelined
<1>5. ASSUME NEW p \in Producers, Offered(p) PROVE Pipelined'
  <2> DEFINE e == <<p, sent[p] + 1>>
  <2>1. \A d \in Accepted : Follows(d, e)
    <3>1. ASSUME NEW d \in Accepted, d[1] = p PROVE d[2] < sent[p] + 1
      <4>1. d[2] <= sent[p] /\ d[2] \in Nat /\ sent[p] \in Nat
        BY <1>0, <3>1, SizesAssumption DEF Accepted, Events
      <4> QED BY <4>1
    <3> QED BY <3>1 DEF Follows
  <2>2. /\ Len(eventCh') = Len(eventCh) + 1
        /\ \A j \in 1 .. Len(eventCh) + 1 :
              eventCh'[j] = IF j = Len(eventCh) + 1 THEN e ELSE eventCh[j]
    BY <1>0, <1>5, AppendProperties DEF Offered
  <2>3. UNCHANGED processed /\ worker'[1].hand = worker[1].hand
    BY <1>0, <1>5 DEF Offered
  <2> HIDE DEF e
  <2>4. \A i \in 1 .. Len(processed), j \in 1 .. Len(eventCh') : Follows(processed[i], eventCh'[j])
    BY <1>0, <1>1, <1>3, <2>1, <2>2 DEF Pipelined
  <2>5. ASSUME NEW i \in 1 .. Len(eventCh'), NEW j \in 1 .. Len(eventCh'), i < j
        PROVE  Follows(eventCh'[i], eventCh'[j])
    <3>1. i \in 1 .. Len(eventCh) /\ eventCh'[i] = eventCh[i]
      BY <1>0, <2>2, <2>5
    <3>2. CASE j = Len(eventCh) + 1
      BY <1>3, <2>1, <2>2, <3>1, <3>2
    <3>3. CASE j # Len(eventCh) + 1
      <4>1. j \in 1 .. Len(eventCh) /\ eventCh'[j] = eventCh[j]
        BY <1>0, <2>2, <3>3
      <4> QED BY <1>1, <2>5, <3>1, <4>1 DEF Pipelined
    <3> QED BY <3>2, <3>3
  <2>6. worker[1].hand # NoEvent => \A j \in 1 .. Len(eventCh') : Follows(worker[1].hand, eventCh'[j])
    BY <1>0, <1>1, <1>3, <2>1, <2>2 DEF Pipelined
  <2> QED BY <1>1, <2>3, <2>4, <2>5, <2>6 DEF Pipelined, Follows
<1>6. ASSUME NEW k \in Starts, Picked(k) PROVE Pipelined'
  <2>1. /\ Len(eventCh) >= 1 /\ Head(eventCh) = eventCh[1]
        /\ Len(eventCh') = Len(eventCh) - 1
        /\ \A i \in 1 .. Len(eventCh) - 1 : eventCh'[i] = eventCh[i + 1]
    BY <1>0, <1>6, HeadTailProperties, EmptySeq DEF Picked
  <2>2. k = 1
    <3>1. CASE k # 1
      <4>1. worker'[k].at \in {"process", "processdrained"}
        BY <1>0, <1>6, <2>1, HoldingStep DEF LInv, Holding, Picked
      <4>2. starts' <= 1 /\ starts' \in Nat
        BY ShapeStep DEF LInv, Shape, Contexts
      <4>3. Off(k)'
        BY <3>1, <4>2, OwnedStep DEF LInv, Owned, Starts
      <4> QED BY <4>1, <4>3, OffTypes DEF Off
    <3> QED BY <3>1
  <2>3. worker'[1].hand = eventCh[1] /\ UNCHANGED processed
    BY <1>6, <2>1, <2>2 DEF Picked
  <2>4. \A i, j \in 1 .. Len(eventCh') : i < j => Follows(eventCh'[i], eventCh'[j])
    <3>1. ASSUME NEW i \in 1 .. Len(eventCh'), NEW j \in 1 .. Len(eventCh'), i < j
          PROVE  Follows(eventCh[i + 1], eventCh[j + 1])
      <4>1. i + 1 \in 1 .. Len(eventCh) /\ j + 1 \in 1 .. Len(eventCh) /\ i + 1 < j + 1
        BY <1>0, <2>1, <3>1
      <4> QED BY <1>1, <4>1 DEF Pipelined
    <3> QED BY <1>0, <2>1, <3>1
  <2>5. \A i \in 1 .. Len(processed), j \in 1 .. Len(eventCh') : Follows(processed[i], eventCh'[j])
    <3>1. \A j \in 1 .. Len(eventCh') : j + 1 \in 1 .. Len(eventCh) /\ eventCh'[j] = eventCh[j + 1]
      BY <1>0, <2>1
    <3> QED BY <1>1, <3>1 DEF Pipelined
  <2>6. \A j \in 1 .. Len(eventCh') : Follows(eventCh[1], eventCh'[j])
    <3>1. /\ 1 \in 1 .. Len(eventCh)
          /\ \A j \in 1 .. Len(eventCh') :
                j + 1 \in 1 .. Len(eventCh) /\ 1 < j + 1 /\ eventCh'[j] = eventCh[j + 1]
      BY <1>0, <2>1
    <3> QED BY <1>1, <3>1 DEF Pipelined
  <2>7. \A i \in 1 .. Len(processed) : Follows(processed[i], eventCh[1])
    BY <1>0, <1>1, <2>1 DEF Pipelined
  <2>8. \A i, j \in 1 .. Len(processed) : i < j => Follows(processed[i], processed[j])
    BY <1>1 DEF Pipelined
  <2> QED BY <2>3, <2>4, <2>5, <2>6, <2>7, <2>8 DEF Pipelined, Follows
<1>7. ASSUME NEW k \in Starts, Handled(k) PROVE Pipelined'
  <2>1. k = 1
    BY <1>0, <1>2, <1>7 DEF Handled
  <2> DEFINE e == worker[1].hand
  <2>2. /\ e # NoEvent /\ e \in Events /\ worker'[1].hand = NoEvent /\ UNCHANGED eventCh
        /\ processed' = Append(processed, e)
    BY <1>0, <1>7, <2>1 DEF Handled
  <2>3. /\ Len(processed') = Len(processed) + 1
        /\ \A i \in 1 .. Len(processed) + 1 :
              processed'[i] = IF i = Len(processed) + 1 THEN e ELSE processed[i]
    BY <1>0, <2>2, AppendProperties
  <2>4. /\ \A i \in 1 .. Len(processed) : Follows(processed[i], e)
        /\ \A j \in 1 .. Len(eventCh) : Follows(e, eventCh[j])
    BY <1>1, <2>2 DEF Pipelined
  <2> HIDE DEF e
  <2>5. \A i, j \in 1 .. Len(processed') : i < j => Follows(processed'[i], processed'[j])
    <3>1. \A i, j \in 1 .. Len(processed) : i < j => Follows(processed[i], processed[j])
      BY <1>1 DEF Pipelined
    <3>2. ASSUME NEW i \in 1 .. Len(processed'), NEW j \in 1 .. Len(processed'), i < j
          PROVE  Follows(processed'[i], processed'[j])
      <4>1. i \in 1 .. Len(processed) /\ processed'[i] = processed[i]
        BY <1>0, <2>3, <3>2
      <4>2. CASE j = Len(processed) + 1
        BY <2>3, <2>4, <4>1, <4>2
      <4>3. CASE j # Len(processed) + 1
        <5>1. j \in 1 .. Len(processed) /\ processed'[j] = processed[j]
          BY <1>0, <2>3, <3>2, <4>3
        <5> QED BY <3>1, <3>2, <4>1, <5>1
      <4> QED BY <4>2, <4>3
    <3> QED BY <3>2
  <2>6. \A i \in 1 .. Len(processed'), j \in 1 .. Len(eventCh) : Follows(processed'[i], eventCh[j])
    BY <1>0, <1>1, <2>3, <2>4 DEF Pipelined
  <2>7. \A i, j \in 1 .. Len(eventCh) : i < j => Follows(eventCh[i], eventCh[j])
    BY <1>1 DEF Pipelined
  <2>8. worker'[1].hand = NoEvent /\ eventCh' = eventCh
    BY <2>2
  <2> QED BY <2>5, <2>6, <2>7, <2>8 DEF Pipelined
<1> QED BY <1>4, <1>5, <1>6, <1>7, Moves DEF LInv

(* With one Start, what is processed, in hand and in the channel are each     *)
(* batch's events in their order.                                             *)
THEOREM PipelinedAlways == Spec => []Pipelined
<1>1. Init => Pipelined
  BY SizesAssumption, OffTypes DEF Init, Pipelined, Starts
<1>2. LInv /\ CInv /\ Pipelined /\ [Next]_vars => Pipelined'
  <2>1. CASE UNCHANGED vars
    BY <2>1, Stutter DEF Pipelined, Follows
  <2> QED BY <2>1, PipelinedStep
<1> QED BY <1>1, <1>2, LInvariant, CInvariant, PTL DEF Spec

(* While the engine has been started once, its worker processes a producer's  *)
(* events in the order of the slice, those it drains after the end included.  *)
THEOREM BatchesOrdered == Spec => []BatchOrder
<1>1. Pipelined => BatchOrder
  BY DEF Pipelined, BatchOrder, Follows
<1> QED BY <1>1, PipelinedAlways, PTL

-----------------------------------------------------------------------------
(* Stop.                                                                     *)
LEMMA HistoryGrows ==
    ASSUME Shape, Owned, Holding, Next
    PROVE  Accepted \subseteq Accepted' /\ Done \subseteq Done'
<1>0. processed \in Seq(Events) /\ Len(processed) \in Nat /\ sent \in [Producers -> 0 .. BatchSize]
      /\ BatchSize \in Nat
  BY SizesAssumption DEF Shape
<1>1. CASE NoneMoves
  BY <1>1 DEF NoneMoves, Accepted, Done
<1>2. ASSUME NEW p \in Producers, Offered(p) PROVE Accepted \subseteq Accepted' /\ Done \subseteq Done'
  <2>1. \A q \in Producers : sent[q] \in Nat /\ sent'[q] \in {sent[q], sent[q] + 1}
    BY <1>0, <1>2 DEF Offered
  <2>2. \A e \in Events : e[1] \in Producers /\ e[2] \in Nat
    BY <1>0 DEF Events
  <2> QED BY <1>2, <2>1, <2>2 DEF Offered, Accepted, Done
<1>3. ASSUME NEW k \in Starts, Picked(k) PROVE Accepted \subseteq Accepted' /\ Done \subseteq Done'
  BY <1>3 DEF Picked, Accepted, Done
<1>4. ASSUME NEW k \in Starts, Handled(k) PROVE Accepted \subseteq Accepted' /\ Done \subseteq Done'
  <2>1. /\ Len(processed') = Len(processed) + 1
        /\ \A i \in 1 .. Len(processed) : processed'[i] = processed[i]
    BY <1>0, <1>4, AppendProperties DEF Handled
  <2> QED BY <1>0, <1>4, <2>1 DEF Handled, Accepted, Done
<1> QED BY <1>1, <1>2, <1>3, <1>4, Moves

(* The worker drains before it leaves.                                       *)
LEMMA NothingLeft ==
    ASSUME LInv, CInv, starts = 1, Leave(1)
    PROVE  Accepted = Done
<1>1. \A k \in Starts : worker[k].hand = NoEvent
  <2>1. worker[1].hand = NoEvent
    BY SizesAssumption DEF Leave, LInv, Holding, Starts
  <2>2. \A k \in Starts : k # 1 => k > starts
    BY DEF Starts
  <2> QED BY <2>1, <2>2, OffTypes DEF LInv, Owned, Off
<1>2. Hands = {} /\ InChannel = {}
  BY <1>1 DEF Hands, InChannel, Leave
<1> QED BY <1>2 DEF CInv, Conserved

LEMMA DrainingStep == OneStop /\ LInv /\ CInv /\ Draining /\ Next => Draining'
<1> SUFFICES ASSUME OneStop, LInv, CInv, Draining, Next,
                    NEW s \in Stoppers, pc'[s] # "returned"
             PROVE  /\ started' /\ starts' = 1 /\ cancel' = 1
                    /\ \A a \in Callers : pc'[a] \notin Making \cup {"context"}
                    /\ worker'[1].at # "off"
                    /\ pc'[s] \in {"idle", "cancelling"} =>
                          cancelled' = {} /\ worker'[1].at \in {"loop", "select", "process"}
                    /\ pc'[s] # "idle" => before'[s] \subseteq Accepted'
                    /\ pc'[s] = "waiting" /\ worker'[1].at = "left" => before'[s] \subseteq Done'
                    /\ pc'[s] \in {"stopping", "clearing"} => before'[s] \subseteq Done'
  BY DEF Draining
<1> DEFINE Goal ==
       /\ started' /\ starts' = 1 /\ cancel' = 1
       /\ \A a \in Callers : pc'[a] \notin Making \cup {"context"}
       /\ worker'[1].at # "off"
       /\ pc'[s] \in {"idle", "cancelling"} =>
             cancelled' = {} /\ worker'[1].at \in {"loop", "select", "process"}
       /\ pc'[s] # "idle" => before'[s] \subseteq Accepted'
       /\ pc'[s] = "waiting" /\ worker'[1].at = "left" => before'[s] \subseteq Done'
       /\ pc'[s] \in {"stopping", "clearing"} => before'[s] \subseteq Done'
<1>0. /\ Shape /\ Owned /\ Holding /\ WgExact
      /\ Producers \subseteq Callers /\ Starters \subseteq Callers /\ Stoppers \subseteq Callers
      /\ s \notin Producers /\ s \notin Starters
      /\ pc \in [Callers -> CallerPlaces] /\ worker \in [Starts -> WorkerStates]
      /\ before \in [Stoppers -> SUBSET Events] /\ ticker \in [Starts -> [Tickers -> TickerStates]]
      /\ 1 \in Starts /\ ~ MayCancel /\ \A t \in Stoppers : t = s
  BY CallersAssumption, SizesAssumption DEF OneStop, LInv, Callers, Shape, Starts
<1>1. Accepted \subseteq Accepted' /\ Done \subseteq Done'
  BY <1>0, HistoryGrows
<1>2. ASSUME pc[s] # "returned"
      PROVE  /\ started /\ starts = 1 /\ cancel = 1
             /\ \A a \in Callers : pc[a] \notin Making \cup {"context"}
             /\ worker[1].at # "off"
             /\ pc[s] \in {"idle", "cancelling"} =>
                   cancelled = {} /\ worker[1].at \in {"loop", "select", "process"}
             /\ pc[s] # "idle" => before[s] \subseteq Accepted
             /\ pc[s] = "waiting" /\ worker[1].at = "left" => before[s] \subseteq Done
             /\ pc[s] \in {"stopping", "clearing"} => before[s] \subseteq Done
  BY <1>2 DEF Draining
<1>3. ASSUME UNCHANGED <<started, starts, cancel, worker, cancelled, before>>, pc'[s] = pc[s],
             \A a \in Callers : pc'[a] \notin Making \cup {"context"} \/ pc'[a] = pc[a]
      PROVE  Goal
  BY <1>1, <1>2, <1>3
<1>4. ASSUME NEW a \in Starters, CallStart(a) \/ RefuseStart(a) PROVE Goal
  <2>1. pc'[s] = pc[s] /\ started
    BY <1>0, <1>2, <1>4 DEF CallStart, RefuseStart, Goto, Return
  <2> QED BY <1>0, <1>3, <1>4, <2>1 DEF CallStart, RefuseStart, Goto, Return, Making, flags,
             contexts, goroutines
<1>5. ASSUME NEW a \in Starters \cup Producers, StartStep(a) PROVE Goal
  <2>1. pc[a] \in Making \cup {"context"} /\ pc[s] # "returned"
    BY <1>0, <1>5 DEF StartStep, MakeContext, SetCancel, SetStarted, ClearStopped, Spawn, Goto,
       Making
  <2> QED BY <1>0, <1>2, <2>1
<1>6. ASSUME NEW p \in Producers, CallAdd(p) \/ RejectBatch(p) \/ AddStep(p) PROVE Goal
  <2>1. pc'[s] = pc[s] /\ started
    BY <1>0, <1>2, <1>6 DEF CallAdd, RejectBatch, AddStep, CheckStarted, RefuseStopped,
       PassStopped, EnterSend, Send, AbandonSend, Goto, Return
  <2>2. CASE CheckStarted(p) \/ CallAdd(p) \/ PassStopped(p) \/ EnterSend(p)
    BY <1>0, <1>3, <2>1, <2>2 DEF CheckStarted, CallAdd, PassStopped, EnterSend, Goto, Making,
       flags, contexts, goroutines
  <2>3. CASE RejectBatch(p) \/ RefuseStopped(p) \/ AbandonSend(p)
    BY <1>0, <1>3, <2>1, <2>3 DEF RejectBatch, RefuseStopped, AbandonSend, Goto, Return, Making,
       flags, contexts, goroutines
  <2>4. CASE Send(p)
    BY <1>0, <1>3, <2>1, <2>4 DEF Send, Making, flags, contexts, goroutines
  <2> QED BY <1>6, <2>2, <2>3, <2>4 DEF AddStep
<1>7. ASSUME NEW t \in Stoppers, CallStop(t) \/ RefuseStop(t) \/ StopStep(t) PROVE Goal
  <2>0. t = s
    BY <1>0
  <2>1. CASE CallStop(s)
    <3>1. /\ pc[s] = "idle" /\ pc'[s] = "cancelling" /\ before'[s] = Accepted
          /\ \A a \in Callers : a # s => pc'[a] = pc[a]
          /\ UNCHANGED <<started, starts, cancel, worker, cancelled>>
      BY <1>0, <2>1 DEF CallStop, Goto, flags, contexts, goroutines
    <3> QED BY <1>1, <1>2, <3>1 DEF Making
  <2>2. CASE RefuseStop(s)
    BY <1>0, <2>2 DEF RefuseStop, Return, Goto
  <2>3. CASE CancelContext(s)
    <3>1. /\ pc[s] = "cancelling" /\ pc'[s] = "waiting" /\ UNCHANGED before
          /\ \A a \in Callers : a # s => pc'[a] = pc[a]
          /\ UNCHANGED <<started, starts, cancel, worker>>
      BY <1>0, <2>3 DEF CancelContext, Goto, flags, goroutines
    <3> QED BY <1>1, <1>2, <3>1 DEF Making
  <2>4. CASE Await(s)
    <3>1. /\ pc[s] = "waiting" /\ pc'[s] = "stopping" /\ UNCHANGED before
          /\ \A a \in Callers : a # s => pc'[a] = pc[a]
          /\ UNCHANGED <<started, starts, cancel, worker>>
      BY <1>0, <2>4 DEF Await, Goto, flags, contexts, goroutines
    <3>2. worker[1].at = "left"
      <4>1. Cardinality(LiveWorkers) = 0
        BY <1>0, <2>4, LiveFinite DEF Await, WgExact
      <4>2. LiveWorkers = {}
        BY <4>1, LiveFinite, FS_EmptySet
      <4> QED BY <1>0, <1>2, <3>1, <4>2 DEF LiveWorkers, Live
    <3> QED BY <1>1, <1>2, <3>1, <3>2 DEF Making
  <2>5. CASE SetStopped(s)
    <3>1. /\ pc[s] = "stopping" /\ pc'[s] = "clearing" /\ UNCHANGED before
          /\ \A a \in Callers : a # s => pc'[a] = pc[a]
          /\ UNCHANGED <<started, starts, cancel, worker>>
      BY <1>0, <2>5 DEF SetStopped, Goto, contexts, goroutines
    <3> QED BY <1>1, <1>2, <3>1 DEF Making
  <2>6. CASE ClearStarted(s)
    BY <1>0, <2>6 DEF ClearStarted, Return, Goto
  <2> QED BY <1>7, <2>0, <2>1, <2>2, <2>3, <2>4, <2>5, <2>6 DEF StopStep
<1>8. ASSUME NEW k \in Starts, CancelParent(k) PROVE Goal
  BY <1>0, <1>8 DEF CancelParent
<1>9. ASSUME NEW k \in Starts, WorkerStep(k) PROVE Goal
  <2>1. /\ UNCHANGED <<started, starts, cancel, cancelled, before, pc>>
        /\ worker[k].at \notin {"off", "left"} /\ worker'[k].at # "off"
    BY <1>0, <1>9, WorkerMoves DEF flags, contexts
  <2>2. k = 1
    <3>1. ~ (k > starts)
      BY <1>0, <2>1, OffTypes DEF Owned, Off
    <3> QED BY <1>2, <2>1, <3>1 DEF Starts
  <2>3. worker'[1].at = "left" => Accepted \subseteq Done
    <3>1. CASE EnterSelect(1) \/ SeeDone(1) \/ Receive(1) \/ DrainOne(1)
      BY <1>0, <3>1 DEF EnterSelect, SeeDone, Receive, DrainOne, Take, WorkerStates
    <3>2. CASE Process(1)
      <4>1. PICK call \in {{}} \cup {{a} : a \in {b \in Inner : ~ Called(b)}} :
               worker' = [worker EXCEPT ![1].at = IF @ = "process" THEN "loop" ELSE "drain",
                                        ![1].hand = NoEvent, ![1].calls = @ \cup call]
        BY <3>2 DEF Process
      <4>2. worker'[1].at = IF worker[1].at = "process" THEN "loop" ELSE "drain"
        BY <1>0, <4>1 DEF WorkerStates
      <4> QED BY <4>2
    <3>3. CASE Leave(1)
      BY <1>2, <2>1, <3>3, NothingLeft
    <3> QED BY <1>9, <2>2, <3>1, <3>2, <3>3 DEF WorkerStep
  <2>4. ASSUME pc[s] \in {"idle", "cancelling"}
        PROVE  worker'[1].at \in {"loop", "select", "process"}
    <3>1. worker[1].at \in {"loop", "select", "process"} /\ cancelled = {}
      BY <1>2, <2>4
    <3>2. CASE EnterSelect(1) \/ Receive(1)
      BY <1>0, <3>2 DEF EnterSelect, Receive, Take, WorkerStates
    <3>3. CASE Process(1)
      <4>1. PICK call \in {{}} \cup {{a} : a \in {b \in Inner : ~ Called(b)}} :
               worker' = [worker EXCEPT ![1].at = IF @ = "process" THEN "loop" ELSE "drain",
                                        ![1].hand = NoEvent, ![1].calls = @ \cup call]
        BY <3>3 DEF Process
      <4>2. worker'[1].at = IF worker[1].at = "process" THEN "loop" ELSE "drain"
        BY <1>0, <4>1 DEF WorkerStates
      <4> QED BY <3>1, <3>3, <4>2 DEF Process
    <3>4. ~ SeeDone(1) /\ ~ DrainOne(1) /\ ~ Leave(1)
      BY <3>1 DEF SeeDone, DrainOne, Take, Leave
    <3> QED BY <1>9, <2>2, <3>2, <3>3, <3>4 DEF WorkerStep
  <2> QED BY <1>1, <1>2, <2>1, <2>2, <2>3, <2>4
<1>10. ASSUME NEW k \in Starts, NEW t \in Tickers, TickerStep(k, t) PROVE Goal
  BY <1>0, <1>3, <1>10, TickerMoves DEF flags, contexts
<1> QED BY <1>4, <1>5, <1>6, <1>7, <1>8, <1>9, <1>10 DEF Next

(* Stop cancels, waits for the worker to drain and to leave, and returns: an   *)
(* engine that was started once and is stopped once, its context not being     *)
(* cancelled by its caller, has then processed all that was accepted before.   *)
THEOREM StopDrainsAll == ASSUME OneStop PROVE Spec => []StopDrains
<1>1. Init => Draining
  <2> SUFFICES ASSUME Init PROVE Draining
    OBVIOUS
  <2>1. started /\ starts = 1 /\ cancel = 1 /\ cancelled = {} /\ 1 \in Starts
    BY SizesAssumption DEF Init, OneStop, Starts
  <2>2. worker[1].at = "loop" /\ \A a \in Callers : pc[a] = "idle"
    BY <2>1, OffTypes DEF Init
  <2> QED BY <2>1, <2>2 DEF Draining, Making, Callers
<1>2. LInv /\ CInv /\ Draining /\ [Next]_vars => Draining'
  <2>1. CASE UNCHANGED vars
    BY <2>1, Stutter DEF Draining, Accepted, Done
  <2> QED BY <2>1, DrainingStep
<1>3. Draining => StopDrains
  BY DEF Draining, StopDrains
<1> QED BY <1>1, <1>2, <1>3, LInvariant, CInvariant, PTL DEF Spec
=============================================================================
