---------------------------- MODULE EpochJournal ----------------------------
(***************************************************************************)
(* The multi-writer journal of the rebuild (next/storage/journal).         *)
(*                                                                         *)
(* A writer claims the next epoch by creating its claim file exclusively,  *)
(* scans the segments of the earlier epochs, cuts torn tails, creates its  *)
(* own segment, and writes into it a control frame that names how much of  *)
(* the preceding segment it has seen.  A record is acknowledged when it is *)
(* durable and no higher epoch is claimed.  Nothing stops an older writer  *)
(* from writing; replay follows the cuts and a hash chain.                 *)
(*                                                                         *)
(* An action is what a process does between two awaits on the file system. *)
(* Lengths count frames.  The i-th frame of epoch e is <<e, i>>: a segment *)
(* has one writer and no frame is written twice, so a chain hash is the    *)
(* sequence of the frames it covers.  `acked' is a history variable.       *)
(***************************************************************************)
EXTENDS Integers, Sequences, SequencesExt

CONSTANTS
    Processes,      \* processes that open the journal
    MaxEpochs,      \* bound: epochs claimed
    MaxFrames,      \* bound: frames in one segment
    MaxCrashes,     \* bound: processes that die
    MaxIoFailures   \* bound: writes, syncs or rescans that fail

ASSUME EpochJournalAssumption ==
    /\ MaxEpochs \in Nat \ {0} /\ MaxFrames \in Nat \ {0}
    /\ MaxCrashes \in Nat /\ MaxIoFailures \in Nat

VARIABLES
    claims,         \* epochs 1..claims are claimed
    seg,            \* the segment of each epoch
    proc,           \* what each process is doing
    acked,          \* frames acknowledged to their callers, in order
    crashes, ioFailures

vars == <<claims, seg, proc, acked, crashes, ioFailures>>

Epochs == 1..MaxEpochs
FrameIds == Epochs \X (1..MaxFrames)
Kinds == {"control", "genesis", "batch"}
Tails == {"clean", "torn", "garbage"}   \* bytes behind the last whole frame

\* base: the chain hash the first frame continues; cut: what its control frame
\* says of the preceding segment.
NoSegment == [exists |-> FALSE, base |-> <<>>, frames |-> <<>>, cut |-> 0,
              tail |-> "clean"]

Closed == [pc |-> "closed", epoch |-> 0, exists |-> {}, raw |-> <<>>,
           chain |-> <<>>, truncate |-> {}, count |-> 0, frame |-> "batch"]

Init ==
    /\ claims = 0
    /\ seg = [e \in Epochs |-> NoSegment]
    /\ proc = [p \in Processes |-> Closed]
    /\ acked = <<>>
    /\ crashes = 0 /\ ioFailures = 0

-----------------------------------------------------------------------------
(* buildJournalScanPlan, over what scanRawSegment saw of epochs 1..Len(raw).*)

NoCut == -1

\* Mutant: the last whole frame is taken for a torn one.
RawOfShort(e, exists) ==
    [exists |-> exists,
     n |-> IF exists /\ seg[e].frames # <<>> THEN Len(seg[e].frames) - 1 ELSE 0,
     tail |-> IF exists THEN seg[e].tail ELSE "clean"]

\* The segment as scanRawSegment reports it.
RawOf(e, exists) ==
    [exists |-> exists, n |-> IF exists THEN Len(seg[e].frames) ELSE 0,
     tail |-> IF exists THEN seg[e].tail ELSE "clean"]

\* Mutant: the whole valid prefix of every segment is replayed.
LimitsUncut(raw) == [e \in 1..Len(raw) |-> raw[e].n]

\* The backward pass: an epoch is read up to the cut its successor recorded, or
\* up to its valid prefix when the successor's own limit is zero.
Limits(raw) ==
    LET limit[e \in 1..Len(raw)] ==
          IF e < Len(raw) /\ limit[e + 1] > 0 THEN seg[e + 1].cut ELSE raw[e].n
    IN  limit

Cut(raw, e) ==
    IF e < Len(raw) /\ Limits(raw)[e + 1] > 0 THEN seg[e + 1].cut ELSE NoCut

FramesUpTo(e, n) == [i \in 1..n |-> <<e, i>>]

\* The chain hash after the selected prefixes of epochs 1..n.
ChainTo(limits, n) ==
    LET chain[e \in 0..n] ==
          IF e = 0 THEN <<>> ELSE chain[e - 1] \o FramesUpTo(e, limits[e])
    IN  chain[n]

\* A cut beyond the valid prefix, or an uncut segment with an invalid interior.
CutsFit(raw) ==
    \A e \in 1..Len(raw) :
        IF Cut(raw, e) = NoCut THEN raw[e].tail # "garbage"
        ELSE Cut(raw, e) <= raw[e].n

\* The forward pass: the selected frames are still there.
StillThere(limits) == \A e \in DOMAIN limits : limits[e] <= Len(seg[e].frames)

\* The forward pass: each segment continues the chain selected before it.
Chained(limits) ==
    \A e \in DOMAIN limits :
        limits[e] > 0 => seg[e].base = ChainTo(limits, e - 1)

PlanOk(raw) ==
    CutsFit(raw) /\ StillThere(Limits(raw)) /\ Chained(Limits(raw))

Truncations(raw) ==
    {e \in 1..Len(raw) : Cut(raw, e) = NoCut /\ raw[e].tail # "clean"}

KindOf(f) == seg[f[1]].frames[f[2]]

IsRecord(f) == KindOf(f) # "control"

-----------------------------------------------------------------------------
(* Opening: openJournalInternal.                                           *)

Step(p, pc) == proc' = [proc EXCEPT ![p].pc = pc]

\* claimEpoch: the first layout scan.
ScanEpochs(p) ==
    /\ proc[p].pc = "closed" /\ claims < MaxEpochs
    /\ proc' = [proc EXCEPT ![p] = [Closed EXCEPT !.pc = "claim",
                                                  !.epoch = claims + 1]]
    /\ UNCHANGED <<claims, seg, acked, crashes, ioFailures>>

\* Mutant: the epoch is used without its claim file.
ClaimUnrecorded(p) ==
    /\ proc[p].pc = "claim"
    /\ Step(p, "layout")
    /\ UNCHANGED <<claims, seg, acked, crashes, ioFailures>>

\* The exclusive create; EEXIST is answered "contended".
Claim(p) ==
    /\ proc[p].pc = "claim"
    /\ IF claims < proc[p].epoch
       THEN claims' = proc[p].epoch /\ Step(p, "layout")
       ELSE UNCHANGED claims /\ proc' = [proc EXCEPT ![p] = Closed]
    /\ UNCHANGED <<seg, acked, crashes, ioFailures>>

\* scanJournalLayout of the earlier epochs.
ScanLayout(p) ==
    /\ proc[p].pc = "layout"
    /\ proc' = [proc EXCEPT ![p].pc = "scan",
                            ![p].exists = {e \in 1..(proc[p].epoch - 1) :
                                             seg[e].exists}]
    /\ UNCHANGED <<claims, seg, acked, crashes, ioFailures>>

ScanSegment(p) ==
    LET e == Len(proc[p].raw) + 1 IN
    /\ proc[p].pc = "scan" /\ e < proc[p].epoch
    /\ proc' = [proc EXCEPT ![p].raw =
                  Append(@, RawOf(e, e \in proc[p].exists))]
    /\ UNCHANGED <<claims, seg, acked, crashes, ioFailures>>

\* The two passes over the scanned segments; an error ends the opening.
Plan(p) ==
    LET raw == proc[p].raw IN
    /\ proc[p].pc = "scan" /\ Len(raw) + 1 = proc[p].epoch
    /\ proc' = [proc EXCEPT ![p] =
                  IF PlanOk(raw)
                  THEN [@ EXCEPT !.pc = "truncate",
                                 !.truncate = Truncations(raw),
                                 !.chain = ChainTo(Limits(raw), Len(raw))]
                  ELSE Closed]
    /\ UNCHANGED <<claims, seg, acked, crashes, ioFailures>>

\* applyTailTruncation, in epoch order.  A writer of that segment that is in the
\* middle of a frame keeps its file position.
Truncate(p) ==
    \E e \in proc[p].truncate :
      /\ proc[p].pc = "truncate" /\ \A f \in proc[p].truncate : e <= f
      /\ seg' = [seg EXCEPT ![e].frames = SubSeq(@, 1, proc[p].raw[e].n),
                            ![e].tail = "clean"]
      /\ proc' = [proc EXCEPT ![p].truncate = @ \ {e}]
      /\ UNCHANGED <<claims, acked, crashes, ioFailures>>

CreateSegment(p) ==
    /\ proc[p].pc = "truncate" /\ proc[p].truncate = {}
    /\ seg' = [seg EXCEPT ![proc[p].epoch].exists = TRUE]
    /\ Step(p, "replay")
    /\ UNCHANGED <<claims, acked, crashes, ioFailures>>

\* Mutant: the record count is not taken from the replayed history.
ReplayUncounted(p) ==
    /\ proc[p].pc = "replay"
    /\ proc' = [proc EXCEPT ![p] =
                  [@ EXCEPT !.pc = IF proc[p].epoch = 1 THEN "verify" ELSE "half",
                            !.frame = "control"]]
    /\ UNCHANGED <<claims, seg, acked, crashes, ioFailures>>

\* replayPlanSteps counts the records; the first epoch has no control frame.
Replay(p) ==
    /\ proc[p].pc = "replay"
    /\ proc' = [proc EXCEPT ![p] =
                  IF StillThere(Limits(proc[p].raw))
                  THEN [@ EXCEPT !.pc = IF proc[p].epoch = 1 THEN "verify"
                                        ELSE "half",
                                 !.frame = "control",
                                 !.count = Len(SelectSeq(proc[p].chain, IsRecord))]
                  ELSE Closed]
    /\ UNCHANGED <<claims, seg, acked, crashes, ioFailures>>

-----------------------------------------------------------------------------
(* Frames: writeDurableFrame, appendRecord, verifyWriterStillCurrent.      *)

\* appendCommittedBatch: genesis exactly when the history has no record.
AppendRecord(p) ==
    /\ proc[p].pc = "open" /\ Len(seg[proc[p].epoch].frames) < MaxFrames
    /\ proc' = [proc EXCEPT ![p].pc = "half",
                            ![p].frame = IF proc[p].count = 0 THEN "genesis"
                                         ELSE "batch"]
    /\ UNCHANGED <<claims, seg, acked, crashes, ioFailures>>

WriteHalf(p) ==
    /\ proc[p].pc = "half"
    /\ seg' = [seg EXCEPT ![proc[p].epoch].tail = "torn"]
    /\ Step(p, "rest")
    /\ UNCHANGED <<claims, acked, crashes, ioFailures>>

\* The segment once the second half is written.  If a successor has truncated the
\* first half away, the second lands behind a hole that no scan can read.
Written(p) ==
    LET s == seg[proc[p].epoch] IN
    IF s.tail # "torn" THEN [s EXCEPT !.tail = "garbage"]
    ELSE [s EXCEPT !.frames = Append(@, proc[p].frame), !.tail = "clean",
                   !.base = IF proc[p].frame = "control" THEN proc[p].chain ELSE @,
                   !.cut = IF proc[p].frame = "control"
                           THEN proc[p].raw[proc[p].epoch - 1].n ELSE @]

WriteRest(p) ==
    /\ proc[p].pc = "rest"
    /\ seg' = [seg EXCEPT ![proc[p].epoch] = Written(p)]
    /\ Step(p, "verify")
    /\ UNCHANGED <<claims, acked, crashes, ioFailures>>

\* After a rejected record the handle only rejects; a failed opening has none.
Rejected(p) ==
    proc' = [proc EXCEPT ![p] = IF proc[p].frame = "control" THEN Closed
                                ELSE [@ EXCEPT !.pc = "rejecting"]]

\* Mutant: acknowledged as soon as it is durable.
VerifyUnfenced(p) ==
    /\ proc[p].pc = "verify"
    /\ proc' = [proc EXCEPT ![p].pc = "open",
                  ![p].count = IF proc[p].frame = "control" THEN @ ELSE @ + 1]
    /\ acked' = IF proc[p].frame = "control" THEN acked
                ELSE Append(acked, <<proc[p].epoch,
                                     Len(seg[proc[p].epoch].frames)>>)
    /\ UNCHANGED <<claims, seg, crashes, ioFailures>>

\* verifyWriterStillCurrent: a durable frame is acknowledged, and an opening
\* returns its handle, only if no higher epoch is claimed.
Verify(p) ==
    /\ proc[p].pc = "verify"
    /\ IF claims > proc[p].epoch
       THEN Rejected(p) /\ UNCHANGED acked
       ELSE /\ proc' = [proc EXCEPT ![p].pc = "open",
                          ![p].count = IF proc[p].frame = "control" THEN @
                                       ELSE @ + 1]
            /\ acked' = IF proc[p].frame = "control" THEN acked
                        ELSE Append(acked, <<proc[p].epoch,
                                             Len(seg[proc[p].epoch].frames)>>)
    /\ UNCHANGED <<claims, seg, crashes, ioFailures>>

\* A write, a sync or the rescan fails: the handle is poisoned, and the bytes of
\* the failed write may or may not have reached the file.
IoFails(p) ==
    /\ proc[p].pc \in {"half", "rest", "verify"} /\ ioFailures < MaxIoFailures
    /\ ioFailures' = ioFailures + 1
    /\ \/ UNCHANGED seg
       \/ /\ proc[p].pc = "half"
          /\ seg' = [seg EXCEPT ![proc[p].epoch].tail = "torn"]
       \/ /\ proc[p].pc = "rest"
          /\ seg' = [seg EXCEPT ![proc[p].epoch] = Written(p)]
    /\ Rejected(p)
    /\ UNCHANGED <<claims, acked, crashes>>

\* closeJournal; the owner opens again with a new epoch.
Close(p) ==
    /\ proc[p].pc \in {"open", "rejecting"}
    /\ proc' = [proc EXCEPT ![p] = Closed]
    /\ UNCHANGED <<claims, seg, acked, crashes, ioFailures>>

\* The process dies, or an opening returns an I/O error; what was written stays.
Crash(p) ==
    /\ proc[p].pc # "closed" /\ crashes < MaxCrashes
    /\ crashes' = crashes + 1
    /\ proc' = [proc EXCEPT ![p] = Closed]
    /\ UNCHANGED <<claims, seg, acked, ioFailures>>

Next ==
    \E p \in Processes :
      \/ ScanEpochs(p) \/ Claim(p) \/ ScanLayout(p) \/ ScanSegment(p) \/ Plan(p)
      \/ Truncate(p) \/ CreateSegment(p) \/ Replay(p)
      \/ AppendRecord(p) \/ WriteHalf(p) \/ WriteRest(p) \/ Verify(p)
      \/ IoFails(p) \/ Close(p) \/ Crash(p)

Spec == Init /\ [][Next]_vars

-----------------------------------------------------------------------------
(* Properties.                                                             *)

\* What replayJournal would read if it ran now.
RawNow == [e \in 1..claims |-> RawOf(e, seg[e].exists)]
Readable == PlanOk(RawNow)
Selected == ChainTo(Limits(RawNow), claims)

\* The history a frame's hash commits to.
HistoryOf(f) == seg[f[1]].base \o FramesUpTo(f[1], f[2])

\* Type invariant: segments belong to claimed epochs, and a process works on the
\* epoch it has claimed.
TypeOK ==
    /\ claims \in 0..MaxEpochs
    /\ \A e \in Epochs :
         /\ seg[e].exists \in BOOLEAN /\ seg[e].tail \in Tails
         /\ seg[e].frames \in Seq(Kinds) /\ Len(seg[e].frames) <= MaxFrames
         /\ seg[e].base \in Seq(FrameIds) /\ seg[e].cut \in 0..MaxFrames
         /\ seg[e].exists => e <= claims
    /\ \A p \in Processes :
         /\ proc[p].pc \in {"closed", "claim", "layout", "scan", "truncate",
                            "replay", "half", "rest", "verify", "open",
                            "rejecting"}
         /\ proc[p].chain \in Seq(FrameIds) /\ proc[p].count \in Nat
         /\ proc[p].pc \notin {"closed", "claim"} => proc[p].epoch \in 1..claims
    /\ acked \in Seq(FrameIds)
    /\ crashes \in 0..MaxCrashes /\ ioFailures \in 0..MaxIoFailures

\* appendCommittedBatch: whatever stale writers, failed takeovers and crashes do,
\* two acknowledged records never lie on different branches: the history of the
\* earlier one is a prefix of the history of the later one.
AcknowledgedOnOneBranch ==
    \A i, j \in 1..Len(acked) :
        i < j => IsPrefix(HistoryOf(acked[i]), HistoryOf(acked[j]))

\* replayJournal: a replay that succeeds returns every acknowledged record, in the
\* order of the acknowledgements.
ReplayKeepsAcknowledged ==
    Readable =>
      SelectSeq(Selected, LAMBDA f : f \in Range(acked)) = acked

\* The fence of openJournal: a process that holds the newest epoch and is about to
\* append has replayed every record that was ever acknowledged.
CurrentWriterHasHistory ==
    \A p \in Processes :
        proc[p].pc = "open" /\ proc[p].epoch = claims =>
          Range(acked) \subseteq
            Range(proc[p].chain) \cup {<<claims, i>> : i \in 1..MaxFrames}

\* appendRecord, "genesis may be appended only when no durable record exists in
\* the selected journal history": every readable history has one genesis, first.
GenesisFirstAndOnce ==
    Readable =>
      LET records == SelectSeq(Selected, IsRecord) IN
      \A i \in 1..Len(records) : KindOf(records[i]) = "genesis" <=> i = 1

\* Every takeover up to now wrote its control frame, and the next one saw it.
NoTakeoverSkipped ==
    /\ \A e \in 2..claims : seg[e].frames # <<>>
    /\ \A e \in 3..claims : seg[e].cut > 0

\* The fencing comment of openJournal, where it holds: as long as no takeover was
\* abandoned or overtaken, nothing a stale writer does makes replay fail.
FencedWithoutSkips == NoTakeoverSkipped => Readable

\* The fencing comment of openJournal: a successor "durably records the predecessor
\* cuts before returning.  A stale process can therefore write only beyond its
\* already-fixed cut [...] Its bytes form a divergent hash branch that replay never
\* selects".  So while the newest handle is open, replay succeeds.
StaleWriterNeverBreaksReplay ==
    \A p \in Processes : proc[p].pc = "open" /\ proc[p].epoch = claims => Readable
=============================================================================
