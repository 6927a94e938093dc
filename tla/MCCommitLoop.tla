---------------------------- MODULE MCCommitLoop ----------------------------
(* Two interchangeable loops with two calls each; a request whose command *)
(* issues another one.                                                    *)
EXTENDS CommitLoop, TLC

CONSTANTS r1, c1, c2

MCRequests == {r1}
MCCommands == {c1, c2}
MCIssues == (r1 :> <<c1>>) @@ (c1 :> <<c2>>) @@ (c2 :> <<>>)
MCSymmetry == Permutations(Loops) \cup Permutations(Calls)
=============================================================================
