----------------------------- MODULE CommitLoop -----------------------------
(***************************************************************************)
(* The commit loops of the rebuild (next/runtime/commit-loop) and the      *)
(* dispatcher they drive (next/runtime/dispatcher), over one journal.      *)
(*                                                                         *)
(* A loop takes a stimulus, lets the authority prepare a record on its own *)
(* copy of the run, appends the record, folds it, and only then dispatches *)
(* the record's commands, one at a time.  A port's answer comes back as a  *)
(* stimulus that carries the command's own action identity.  Appends are   *)
(* queued; dispatching and reconcile() are not, so several of them run at  *)
(* once.                                                                   *)
(*                                                                         *)
(* The journal is the one EpochJournal describes, reduced to what a loop   *)
(* can tell: the records replay selects, the newest writer epoch, and that *)
(* an older writer's frame is not selected.  The authority is reduced to   *)
(* the commands each action issues: a record is the action it commits and  *)
(* the number of records it was prepared on (its sequence and prior-state  *)
(* digest), and replay accepts it only behind exactly those.  An action of *)
(* this module is what a loop does between two awaits.                     *)
(***************************************************************************)
EXTENDS Integers, Sequences, SequencesExt

CONSTANTS
    Loops,              \* commit loops, in one process or in several
    Requests,           \* action identities that callers ingest
    Commands,           \* commands; a command's identity is its action's
    Issues,             \* the commands the record of an action issues
    Calls,              \* bound: calls into one loop that may be in progress
    None,
    MaxEpochs,          \* bound: writer epochs claimed
    MaxReplayFailures   \* bound: replays of a recovery that cannot be read

Genesis == "genesis"
Actions == Requests \cup Commands

\* A transaction: what it waits for, its action, and the call it answers.
Stages == {"append", "ack", "reopen", "replay"}
Transactions ==
    [stage : Stages, act : Actions \cup {Genesis}, call : Calls]

ASSUME CommitLoopAssumption ==
    /\ Issues \in [Actions -> Seq(Commands)]
    /\ Genesis \notin Actions /\ None \notin Transactions
    /\ Requests \cap Commands = {}
    /\ MaxEpochs \in Nat /\ MaxReplayFailures \in Nat

VARIABLES
    journal,        \* the records replay selects
    epoch,          \* the newest writer epoch
    mode,           \* each loop: down, opening or ready
    handle,         \* the epoch of its writer handle, 0 when it is closed
    counted,        \* whether that handle has counted a record
    view,           \* the records its state, actions and settlements stand for
    tx,             \* the transaction in its queue
    call,           \* what each call into it still has to dispatch
    called,         \* commands whose port has been called
    replayFailures

vars == <<journal, epoch, mode, handle, counted, view, tx, call, called,
          replayFailures>>

Records == [act : Actions \cup {Genesis}, base : Nat]

ActionsOf(v) == {v[i].act : i \in DOMAIN v}

IssuedBy(rec) == IF rec.act = Genesis THEN <<>> ELSE Issues[rec.act]

IssuedIn(v) == UNION {Range(IssuedBy(v[i])) : i \in DOMAIN v}

\* Issued in v and not settled in it, in the order they were issued.
Pending(v) ==
    SelectSeq(FlattenSeq([i \in DOMAIN v |-> IssuedBy(v[i])]),
              LAMBDA c : c \notin ActionsOf(v))

\* Every record lies behind exactly the records it was prepared on.
Folds(v) == \A i \in DOMAIN v : v[i].base = i - 1

\* The records of v are the first ones of w.
Begins(v, w) == Len(v) <= Len(w) /\ \A i \in 1..Len(v) : v[i] = w[i]

Idle == [at |-> "idle", todo |-> <<>>]

\* The call goes on with todo, or returns.
Dispatching(todo) ==
    IF todo = <<>> THEN Idle ELSE [at |-> "dispatch", todo |-> todo]

Init ==
    /\ journal = <<>> /\ epoch = 0
    /\ mode = [l \in Loops |-> "down"]
    /\ handle = [l \in Loops |-> 0]
    /\ counted = [l \in Loops |-> FALSE]
    /\ view = [l \in Loops |-> <<>>]
    /\ tx = [l \in Loops |-> None]
    /\ call = [l \in Loops |-> [k \in Calls |-> Idle]]
    /\ called = {} /\ replayFailures = 0

-----------------------------------------------------------------------------
(* The queue.                                                              *)

At(l, stage) == tx[l] # None /\ tx[l].stage = stage

\* The prepared record of the transaction: the state it was prepared on does
\* not change before it is appended.
Prepared(l) == [act |-> tx[l].act, base |-> Len(view[l])]

\* The transaction ends and its call goes on with what it had to dispatch,
\* behind the commands of first.
Finish(l, first) ==
    /\ tx' = [tx EXCEPT ![l] = None]
    /\ call' = [call EXCEPT ![l][tx[l].call] = Dispatching(first \o @.todo)]

\* openCommitLoop gives up: the handle is closed and there is no loop.
GiveUp(l) ==
    /\ mode' = [mode EXCEPT ![l] = "down"]
    /\ handle' = [handle EXCEPT ![l] = 0]
    /\ tx' = [tx EXCEPT ![l] = None]
    /\ UNCHANGED call

\* The authority's answer on a loop's own state.
Admits(v, a) == a \in Requests \/ a \in IssuedIn(v)

\* Mutant: an action the loop has already committed is prepared again.
CommitInputAgain(l, k, a, rest) ==
    /\ tx[l] = None
    /\ tx' = [tx EXCEPT ![l] = [stage |-> "append", act |-> a, call |-> k]]
    /\ call' = [call EXCEPT ![l][k] = [at |-> "commit", todo |-> rest]]

\* commitInput: a committed action only reconciles, a refused one returns, an
\* admitted one goes on to its append.  An unreadable command artifact leaves
\* nothing to dispatch.
CommitInput(l, k, a, rest) ==
    /\ tx[l] = None
    /\ \/ /\ a \in ActionsOf(view[l])
          /\ \E todo \in {Pending(view[l]), <<>>} :
                call' = [call EXCEPT ![l][k] = Dispatching(todo \o rest)]
          /\ UNCHANGED tx
       \/ /\ a \notin ActionsOf(view[l]) /\ ~Admits(view[l], a)
          /\ call' = [call EXCEPT ![l][k] = Dispatching(rest)]
          /\ UNCHANGED tx
       \/ /\ a \notin ActionsOf(view[l]) /\ Admits(view[l], a)
          /\ tx' = [tx EXCEPT ![l] = [stage |-> "append", act |-> a, call |-> k]]
          /\ call' = [call EXCEPT ![l][k] = [at |-> "commit", todo |-> rest]]

Ingest(l, k, r) ==
    /\ mode[l] = "ready" /\ call[l][k] = Idle
    /\ CommitInput(l, k, r, <<>>)
    /\ UNCHANGED <<journal, epoch, mode, handle, counted, view, called,
                   replayFailures>>

\* The dispatcher hands a port's answer to the loop.
Submit(l, k) ==
    /\ mode[l] = "ready" /\ call[l][k].at = "submit"
    /\ CommitInput(l, k, Head(call[l][k].todo), Tail(call[l][k].todo))
    /\ UNCHANGED <<journal, epoch, mode, handle, counted, view, called,
                   replayFailures>>

\* The command artifact cannot be installed or read back.
InstallFails(l) ==
    /\ mode[l] = "ready" /\ At(l, "append")
    /\ Finish(l, <<>>)
    /\ UNCHANGED <<journal, epoch, mode, handle, counted, view, called,
                   replayFailures>>

-----------------------------------------------------------------------------
(* appendCommittedBatch and the recovery from an uncertain append.         *)

\* A closed handle, and a handle that has counted no record for anything but
\* genesis, refuse without writing.
Refuses(l) == handle[l] = 0 \/ (tx[l].act # Genesis /\ ~counted[l])

Refused(l) ==
    /\ At(l, "append") /\ Refuses(l)
    /\ Finish(l, <<>>)
    /\ UNCHANGED <<journal, epoch, mode, handle, counted, view, called,
                   replayFailures>>

\* The frame is selected when the writer is current.  A write that fails may
\* have left it or not.
Write(l) ==
    /\ At(l, "append") /\ ~Refuses(l)
    /\ \E ok, left \in BOOLEAN :
          /\ ok => left
          /\ journal' = IF left /\ handle[l] = epoch
                        THEN Append(journal, Prepared(l)) ELSE journal
          /\ IF mode[l] = "opening" /\ ~ok
             THEN GiveUp(l)
             ELSE /\ tx' = [tx EXCEPT ![l].stage = IF ok THEN "ack" ELSE "reopen"]
                  /\ UNCHANGED <<mode, handle, call>>
    /\ UNCHANGED <<epoch, counted, view, called, replayFailures>>

\* verifyWriterStillCurrent, the fold of the record, and its commands.
Acknowledge(l) ==
    /\ At(l, "ack") /\ handle[l] = epoch
    /\ view' = [view EXCEPT ![l] = Append(@, Prepared(l))]
    /\ counted' = [counted EXCEPT ![l] = TRUE]
    /\ mode' = [mode EXCEPT ![l] = "ready"]
    /\ Finish(l, IssuedBy(Prepared(l)))
    /\ UNCHANGED <<journal, epoch, handle, called, replayFailures>>

\* Mutant: a superseded append is taken for a committed one.
SupersededCommits(l) ==
    /\ At(l, "ack") /\ handle[l] # epoch
    /\ view' = [view EXCEPT ![l] = Append(@, Prepared(l))]
    /\ mode' = [mode EXCEPT ![l] = "ready"]
    /\ Finish(l, IssuedBy(Prepared(l)))
    /\ UNCHANGED <<journal, epoch, handle, counted, called, replayFailures>>

Superseded(l) ==
    /\ At(l, "ack") /\ handle[l] # epoch
    /\ IF mode[l] = "opening"
       THEN GiveUp(l)
       ELSE /\ tx' = [tx EXCEPT ![l].stage = "reopen"]
            /\ UNCHANGED <<mode, handle, call>>
    /\ UNCHANGED <<journal, epoch, counted, view, called, replayFailures>>

\* Mutant: the handle is numbered one epoch too high.
ClaimAhead(l) ==
    /\ epoch < MaxEpochs
    /\ epoch' = epoch + 1
    /\ handle' = [handle EXCEPT ![l] = epoch + 2]
    /\ counted' = [counted EXCEPT ![l] = journal # <<>>]

\* openJournal: the loop becomes the newest writer.
Claim(l) ==
    /\ epoch < MaxEpochs
    /\ epoch' = epoch + 1
    /\ handle' = [handle EXCEPT ![l] = epoch + 1]
    /\ counted' = [counted EXCEPT ![l] = journal # <<>>]

\* recoverAfterUncertainAppend: the old handle is closed, a new one is opened.
Reopen(l) ==
    /\ At(l, "reopen")
    /\ Claim(l)
    /\ tx' = [tx EXCEPT ![l].stage = "replay"]
    /\ UNCHANGED <<journal, mode, view, call, called, replayFailures>>

\* The journal is contended or cannot be opened: the loop keeps the closed one.
ReopenFails(l) ==
    /\ At(l, "reopen")
    /\ handle' = [handle EXCEPT ![l] = 0]
    /\ Finish(l, <<>>)
    /\ UNCHANGED <<journal, epoch, mode, counted, view, called, replayFailures>>

\* Mutant: the commands of the uncertain record are dispatched unseen.
RecoverUnseen(l) ==
    /\ mode[l] = "ready" /\ At(l, "replay") /\ Folds(journal)
    /\ view' = [view EXCEPT ![l] = journal]
    /\ Finish(l, IssuedBy(Prepared(l)))
    /\ UNCHANGED <<journal, epoch, mode, handle, counted, called, replayFailures>>

\* Mutant: the snapshot is only asked whether the action was selected.
RecoverStale(l) ==
    /\ mode[l] = "ready" /\ At(l, "replay") /\ Folds(journal)
    /\ \E todo \in {Pending(journal), <<>>} :
          /\ tx[l].act \notin ActionsOf(journal) => todo = <<>>
          /\ Finish(l, todo)
    /\ UNCHANGED <<journal, epoch, mode, handle, counted, view, called,
                   replayFailures>>

\* The snapshot replaces the state; a selected action is reconciled, another one
\* is left to its caller.
Recover(l) ==
    /\ mode[l] = "ready" /\ At(l, "replay") /\ Folds(journal)
    /\ view' = [view EXCEPT ![l] = journal]
    /\ \E todo \in {Pending(journal), <<>>} :
          /\ tx[l].act \notin ActionsOf(journal) => todo = <<>>
          /\ Finish(l, todo)
    /\ UNCHANGED <<journal, epoch, mode, handle, counted, called, replayFailures>>

\* The replay fails: the new handle stays, and so does the old state.
RecoverFails(l) ==
    /\ mode[l] = "ready" /\ At(l, "replay")
    /\ \/ ~Folds(journal) /\ UNCHANGED replayFailures
       \/ /\ replayFailures < MaxReplayFailures
          /\ replayFailures' = replayFailures + 1
    /\ Finish(l, <<>>)
    /\ UNCHANGED <<journal, epoch, mode, handle, counted, view, called>>

-----------------------------------------------------------------------------
(* reconcile, the dispatcher, and the life of a loop.                      *)

\* reconcile() as a caller's own call: it does not wait for the queue.
Reconcile(l, k) ==
    /\ mode[l] = "ready" /\ call[l][k] = Idle
    /\ call' = [call EXCEPT ![l][k] = Dispatching(Pending(view[l]))]
    /\ UNCHANGED <<journal, epoch, mode, handle, counted, view, tx, called,
                   replayFailures>>

\* dispatchOne: the port is called; an answer is submitted, a retry or a failure
\* leaves the command unsettled.
CallPort(l, k) ==
    /\ mode[l] = "ready" /\ call[l][k].at = "dispatch"
    /\ called' = called \cup {Head(call[l][k].todo)}
    /\ \E answered \in BOOLEAN :
          call' = [call EXCEPT ![l][k] = IF answered
                                         THEN [@ EXCEPT !.at = "submit"]
                                         ELSE Dispatching(Tail(@.todo))]
    /\ UNCHANGED <<journal, epoch, mode, handle, counted, view, tx,
                   replayFailures>>

\* openCommitLoop up to the journal's handle.
Open(l) ==
    /\ mode[l] = "down"
    /\ Claim(l)
    /\ mode' = [mode EXCEPT ![l] = "opening"]
    /\ \E k \in Calls :
          tx' = [tx EXCEPT ![l] = [stage |-> "replay", act |-> Genesis, call |-> k]]
    /\ UNCHANGED <<journal, view, call, called, replayFailures>>

\* Its snapshot: an empty journal gets the genesis record, another one is
\* reconciled.
OpenReplay(l) ==
    /\ mode[l] = "opening" /\ At(l, "replay")
    /\ \/ /\ Folds(journal)
          /\ view' = [view EXCEPT ![l] = journal]
          /\ IF journal = <<>>
             THEN /\ tx' = [tx EXCEPT ![l].stage = "append"]
                  /\ UNCHANGED <<mode, call>>
             ELSE /\ mode' = [mode EXCEPT ![l] = "ready"]
                  /\ \E todo \in {Pending(journal), <<>>} : Finish(l, todo)
          /\ UNCHANGED handle
       \/ GiveUp(l) /\ UNCHANGED view
    /\ UNCHANGED <<journal, epoch, counted, called, replayFailures>>

\* close() waits for the queue; calls that are dispatching go on.
Close(l) ==
    /\ mode[l] = "ready" /\ tx[l] = None /\ handle[l] # 0
    /\ handle' = [handle EXCEPT ![l] = 0]
    /\ UNCHANGED <<journal, epoch, mode, counted, view, tx, call, called,
                   replayFailures>>

Crash(l) ==
    /\ mode[l] # "down"
    /\ mode' = [mode EXCEPT ![l] = "down"]
    /\ handle' = [handle EXCEPT ![l] = 0]
    /\ counted' = [counted EXCEPT ![l] = FALSE]
    /\ view' = [view EXCEPT ![l] = <<>>]
    /\ tx' = [tx EXCEPT ![l] = None]
    /\ call' = [call EXCEPT ![l] = [k \in Calls |-> Idle]]
    /\ UNCHANGED <<journal, epoch, called, replayFailures>>

Next ==
    \E l \in Loops :
       \/ \E k \in Calls, r \in Requests : Ingest(l, k, r)
       \/ \E k \in Calls : Submit(l, k) \/ Reconcile(l, k) \/ CallPort(l, k)
       \/ InstallFails(l) \/ Refused(l) \/ Write(l)
       \/ Acknowledge(l) \/ Superseded(l)
       \/ Reopen(l) \/ ReopenFails(l) \/ Recover(l) \/ RecoverFails(l)
       \/ Open(l) \/ OpenReplay(l) \/ Close(l) \/ Crash(l)

Spec == Init /\ [][Next]_vars

-----------------------------------------------------------------------------
TypeOK ==
    /\ journal \in Seq(Records)
    /\ epoch \in 0..MaxEpochs
    /\ mode \in [Loops -> {"down", "opening", "ready"}]
    /\ handle \in [Loops -> 0..MaxEpochs]
    /\ counted \in [Loops -> BOOLEAN]
    /\ view \in [Loops -> Seq(Records)]
    /\ tx \in [Loops -> {None} \cup Transactions]
    /\ call \in [Loops -> [Calls ->
                 [at : {"idle", "dispatch", "submit", "commit"},
                  todo : Seq(Commands)]]]
    /\ called \in SUBSET Commands
    /\ replayFailures \in 0..MaxReplayFailures

\* Whatever was superseded, uncertain or retried, replay accepts the journal:
\* every record that is selected was prepared on exactly the records before it.
\* A recovery that could not read the journal is the exception: it keeps the new
\* handle with the old state, and the next record may fit nothing.
JournalFolds == replayFailures = 0 => Folds(journal)

\* Until then, no action is committed twice, however often it is ingested again,
\* by whichever loop, after whatever became of its first append.
OneRecordPerAction ==
    replayFailures = 0 =>
       \A i, j \in DOMAIN journal : journal[i].act = journal[j].act => i = j

\* A port is called only for a command that a selected record has issued: no
\* effect precedes its durable decision, and no effect's decision is lost.
EffectsFollowCommit == called \subseteq IssuedIn(journal)

\* What a loop holds in memory is a part of the selected history and, until a
\* recovery has failed to read the journal, all of it when its handle is the
\* newest and it is about to prepare or append.
MemoryIsHistory ==
    replayFailures = 0 =>
       \A l \in Loops :
          /\ Begins(view[l], journal)
          /\ /\ mode[l] = "ready" /\ handle[l] = epoch /\ handle[l] # 0
             /\ tx[l] = None \/ At(l, "append")
             => view[l] = journal
=============================================================================
