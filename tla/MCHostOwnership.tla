-------------------------- MODULE MCHostOwnership --------------------------
(* Instances of HostOwnership for TLC.                                     *)
EXTENDS HostOwnership

CONSTANTS r1, a1, a2, b1

\* The completion of a1 continues with a2.
MCNextOfChain == [a \in Actions |-> IF a = a1 THEN a2 ELSE None]

\* The Host is active and every action that is no continuation has been launched,
\* acknowledged and is running.
Running ==
    LET live == Actions \ Continuations IN
    /\ core = [CoreInit EXCEPT !.issued = live, !.acked = live]
    /\ journal = [JournalInit EXCEPT !.launch = live, !.ack = live]
    /\ toCore = <<>> /\ toHost = <<>>
    /\ task = [a \in Actions |-> IF a \in live THEN "running" ELSE "none"]
    /\ runReq = {}
    /\ own = live /\ bound = live /\ buffered = {}
    /\ hold = "open" /\ activationHold = FALSE /\ poisoned = FALSE
    /\ launch = [a \in Actions |-> IF a \in live THEN "done" ELSE "none"]
    /\ term = [a \in Actions |-> "none"] /\ queue = <<>>
    /\ conn = [r \in Reporters |-> "idle"] /\ pend = [r \in Reporters |-> {}]
    /\ applied = FALSE /\ obs = "none" /\ killing = None
    /\ fresh = live
    /\ phase = "active" /\ todo = {} /\ gateObserved = FALSE
    /\ used = [ends |-> 0, reports |-> 0, host |-> 0, core |-> 0, timeouts |-> 0,
               appends |-> 0]

RunningSpec == Running /\ [][Next]_vars

FairRunningSpec == RunningSpec /\ WF_vars(Progress)
=============================================================================
