-------------------------- MODULE WorkstreamLatch --------------------------
(***************************************************************************)
(* What the Core promises about a blocked workstream, without files, rows,  *)
(* crashes or requests: launches stop at the moment the gate is fixed, the  *)
(* gate never changes, it is published once, and the reporter is released   *)
(* only after that.                                                        *)
(***************************************************************************)
CONSTANTS Bindings, Workstreams, WorkstreamOf, Gates

VARIABLES
    launched,   \* bindings whose spawn was sent
    phase,      \* per workstream: "open", "frozen", "latched"
    gate,       \* per workstream: {} or {its gate}
    released    \* workstreams whose reporter was acknowledged

vars == <<launched, phase, gate, released>>

Init ==
    /\ launched = {}
    /\ phase = [w \in Workstreams |-> "open"]
    /\ gate = [w \in Workstreams |-> {}]
    /\ released = {}

Launch(w, bs) ==
    /\ phase[w] = "open"
    /\ \A b \in bs : WorkstreamOf[b] = w
    /\ launched' = launched \cup bs
    /\ UNCHANGED <<phase, gate, released>>

Freeze(w, g) ==
    /\ phase[w] = "open"
    /\ phase' = [phase EXCEPT ![w] = "frozen"]
    /\ gate' = [gate EXCEPT ![w] = {g}]
    /\ UNCHANGED <<launched, released>>

Publish(w) ==
    /\ phase[w] = "frozen"
    /\ phase' = [phase EXCEPT ![w] = "latched"]
    /\ UNCHANGED <<launched, gate, released>>

Release(w) ==
    /\ phase[w] = "latched"
    /\ released' = released \cup {w}
    /\ UNCHANGED <<launched, phase, gate>>

Next ==
    \E w \in Workstreams :
      \/ \E bs \in SUBSET Bindings : Launch(w, bs)
      \/ \E g \in Gates : Freeze(w, g)
      \/ Publish(w)
      \/ Release(w)

Spec == Init /\ [][Next]_vars
=============================================================================
