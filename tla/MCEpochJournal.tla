--------------------------- MODULE MCEpochJournal ---------------------------
(* Interchangeable processes over a few epochs of a few frames.            *)
EXTENDS EpochJournal, TLC

MCSymmetry == Permutations(Processes)
=============================================================================
