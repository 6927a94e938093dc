---------------------------- MODULE MCAuthority ----------------------------
(***************************************************************************)
(* A whole run from genesis with one candidate and one publication; the    *)
(* execution of an accepted plan with an advisory and a blocking finding,  *)
(* or with two candidates of different trees and two publications; and a   *)
(* run long enough to outgrow a page.                                      *)
(***************************************************************************)
EXTENDS Authority, TLC

CONSTANTS a1, w1, v1, r1, c1, c2, t1, t2, p1, p2, f1, g1, d1

MCAtoms == {a1}
MCBaseWork == {w1, v1}
MCRootOf == [w \in {w1, v1} |-> r1]
MCVerifyTree == [w \in {w1, v1} |-> IF w = v1 THEN t1 ELSE None]
MCTreeOf == [c \in Candidates |-> IF c = c1 THEN t1 ELSE t2]
MCKindOf == [f \in Findings |-> IF f = f1 THEN "blocking"
                                ELSE IF f = g1 THEN "planning-gap"
                                ELSE "advisory"]

\* The inventory is sealed and covered, and the plan and a candidate accepted.
MCPlanned ==
    << <<"requirements-bound", 1>>, <<"atom-declared", a1>>,
       <<"atom-inventory-sealed">>, <<"work-declared", w1>>,
       <<"work-declared", v1>>, <<"plan-root-accepted", r1, w1, w1>>,
       <<"atom-dispositioned", a1, r1, {w1}>>,
       <<"candidate-accepted", c1, r1>> >>

MCScopes ==
    {[prefix |-> <<>>, candidates |-> {c1}, publications |-> {p},
      findings |-> {g1}] : p \in Publications} \cup
    {[prefix |-> MCPlanned, candidates |-> {c1}, publications |-> {p},
      findings |-> {d1, f1}] : p \in Publications} \cup
    {[prefix |-> MCPlanned, candidates |-> {c1, c2},
      publications |-> Publications, findings |-> {}]}

MCHotScope ==
    {[prefix |-> <<>>, candidates |-> {c1}, publications |-> {p1},
      findings |-> {f1}]}

MCSymmetry == Permutations(Publications)
=============================================================================
