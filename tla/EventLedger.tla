---------------------------- MODULE EventLedger ----------------------------
(* What the engine's store promises its callers, with no worker, overlay,   *)
(* base or lock: a ledger that counts each event once, and snapshots that   *)
(* see at least what the ledger held when they were asked for and at most   *)
(* what it holds when they open.                                            *)
EXTENDS Naturals

CONSTANTS Events, Readers

VARIABLES
    ledger,   \* how often each event is counted
    status,   \* of each reader: "idle", "acquired" or "open"
    asked,    \* the events in the ledger when the snapshot was asked for
    view      \* the events an open snapshot sees

vars == <<ledger, status, asked, view>>

Counted == {e \in Events : ledger[e] > 0}

Init ==
    /\ ledger = [e \in Events |-> 0]
    /\ status = [r \in Readers |-> "idle"]
    /\ asked = [r \in Readers |-> {}]
    /\ view = [r \in Readers |-> {}]

(* An event is accepted, once in the life of the ledger. *)
Accept(e) ==
    /\ ledger[e] = 0
    /\ ledger' = [ledger EXCEPT ![e] = 1]
    /\ UNCHANGED <<status, asked, view>>

Ask(r) ==
    /\ status[r] = "idle"
    /\ status' = [status EXCEPT ![r] = "acquired"]
    /\ asked' = [asked EXCEPT ![r] = Counted]
    /\ UNCHANGED <<ledger, view>>

Open(r) ==
    /\ status[r] = "acquired"
    /\ status' = [status EXCEPT ![r] = "open"]
    /\ \E seen \in SUBSET Counted :
          asked[r] \subseteq seen /\ view' = [view EXCEPT ![r] = seen]
    /\ UNCHANGED <<ledger, asked>>

Close(r) ==
    /\ status[r] = "open"
    /\ status' = [status EXCEPT ![r] = "idle"]
    /\ asked' = [asked EXCEPT ![r] = {}]
    /\ view' = [view EXCEPT ![r] = {}]
    /\ UNCHANGED ledger

Next ==
    \/ \E e \in Events : Accept(e)
    \/ \E r \in Readers : Ask(r) \/ Open(r) \/ Close(r)

Spec == Init /\ [][Next]_vars
============================================================================
