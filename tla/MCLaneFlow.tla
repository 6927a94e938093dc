----------------------------- MODULE MCLaneFlow -----------------------------
(***************************************************************************)
(* Two lanes.  Independent ones: with a repair of the first beside the     *)
(* second under one Host, and without repairs under two.  Lanes in turn:   *)
(* with a repair of either, under two Hosts, with and without the          *)
(* operator's ratification of the close.                                   *)
(***************************************************************************)
EXTENDS LaneFlow

Chain == [l \in Lanes |-> 1..(l - 1)]
Independent == [l \in Lanes |-> {}]

MCParallel ==
    {[deps |-> Independent, v2 |-> TRUE, ratified |-> FALSE,
      repairable |-> {1}, hosts |-> 1]}

MCSetups ==
    MCParallel \cup
    {[deps |-> Independent, v2 |-> FALSE, ratified |-> TRUE,
      repairable |-> {}, hosts |-> 2]} \cup
    {[deps |-> Chain, v2 |-> r, ratified |-> r,
      repairable |-> {l}, hosts |-> 2] : r \in BOOLEAN, l \in Lanes}
=============================================================================
