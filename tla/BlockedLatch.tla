---------------------------- MODULE BlockedLatch ----------------------------
(***************************************************************************)
(* The Core side of the BLOCKED protocol (drivers/src/seam/mod.rs).        *)
(*                                                                         *)
(* A child that cannot go on reports BLOCKED.  The Core freezes the set of *)
(* live tasks of the child's workstream, publishes it in three create-once *)
(* files (prepared transaction, receipt, latch) and two event-log rows     *)
(* (blocked:accepted, blocked:latch-event-ref), and from then on refuses   *)
(* every launch of that workstream.  The Core handles one request at a     *)
(* time; a crash may come between any two durable writes and a write may   *)
(* fail and leave the process running.                                     *)
(*                                                                         *)
(* A binding is one issued runner invocation and stands for its task: the  *)
(* Core accepts one task id per binding.  A process appends a row of one   *)
(* kind and binding at most once, so each kind is the set of its bindings. *)
(* A row whose sync failed may be on disk unknown to the process; the next *)
(* process reads it, twice when it was appended again.                     *)
(* `given' and `frozen' are history variables: the gates handed to the     *)
(* Host, and what had been spawned when a set was frozen.                  *)
(***************************************************************************)
EXTENDS Naturals, FiniteSets

CONSTANTS
    Bindings,       \* receipt_v1 runner bindings
    Workstreams,
    WorkstreamOf,   \* [Bindings -> Workstreams]
    Reports,        \* canonical bytes of a blocked report
    ToolCalls,      \* live child tool-call ids
    ContinuationOf, \* [Bindings -> SUBSET Bindings]: bindings a completion issues
    None,           \* an absent file, gate or tool call
    MaxCrashes,     \* bound: crashes of the Core process
    MaxIoFailures   \* bound: durable writes that fail in a live process

Transaction == [cancellations : SUBSET Bindings, report : Reports]

ASSUME BlockedLatchAssumption ==
    /\ WorkstreamOf \in [Bindings -> Workstreams]
    /\ ContinuationOf \in [Bindings -> SUBSET Bindings]
    /\ \A b \in Bindings : \A c \in ContinuationOf[b] :
         WorkstreamOf[c] = WorkstreamOf[b]
    /\ None \notin Transaction
    /\ None \notin Bindings
    /\ None \notin ToolCalls
    /\ MaxCrashes \in Nat
    /\ MaxIoFailures \in Nat

VARIABLES
    issued, acked, consumed,       \* rows: invocation, launch-ack, terminal
    spawned,                       \* bindings whose spawn the Host was sent
    prepared, receipt, latch,      \* create-once files, per binding
    accepted, eventRef, observed,  \* rows: blocked:*
    unsynced,                      \* rows on disk the process does not know of
    doubled,                       \* bindings with a row it has read twice
    up, proj, projErr, toolCall,   \* the running process: CoreState
    op,                            \* the request being served
    crashes, ioFailures,
    given, frozen                  \* history

logVars  == <<issued, acked, consumed, spawned>>
fileVars == <<prepared, receipt, latch>>
rootVars == <<accepted, eventRef, unsynced, doubled>>
memVars  == <<proj, projErr, toolCall>>
vars == <<issued, acked, consumed, spawned, prepared, receipt, latch, accepted,
          eventRef, observed, unsynced, doubled, up, proj, projErr, toolCall, op,
          crashes, ioFailures, given, frozen>>

Kinds == {"idle", "open", "admit", "recover", "reconcile"}
Steps == {"none", "next", "prepare", "receipt", "latch", "accepted", "ref",
          "rebuild"}
Operation == [kind : Kinds, step : Steps, binding : Bindings \cup {None},
              left : SUBSET Bindings, call : ToolCalls \cup {None},
              report : Reports \cup {None}]

Idle == [kind |-> "idle", step |-> "none", binding |-> None, left |-> {},
         call |-> None, report |-> None]

Rows == {"accepted", "ref"} \X Bindings

Scope(w) == {b \in Bindings : WorkstreamOf[b] = w}

Init ==
    /\ issued = {} /\ acked = {} /\ consumed = {} /\ spawned = {}
    /\ prepared = [b \in Bindings |-> None]
    /\ receipt  = [b \in Bindings |-> None]
    /\ latch    = [b \in Bindings |-> None]
    /\ accepted = {} /\ eventRef = {} /\ observed = {}
    /\ unsynced = [row \in Rows |-> 0] /\ doubled = {}
    /\ up = TRUE /\ proj = {} /\ projErr = FALSE
    /\ toolCall = [b \in Bindings |-> None]
    /\ op = Idle
    /\ crashes = 0 /\ ioFailures = 0
    /\ given = [b \in Bindings |-> None]
    /\ frozen = [b \in Bindings |-> {}]

Ready == up /\ op = Idle

-----------------------------------------------------------------------------
(* The projection.                                                         *)

\* ensure_no_pending_blocked_transactions: some file without an accepted root.
Pending == {b \in issued \ accepted :
              \/ prepared[b] # None \/ receipt[b] # None \/ latch[b] # None}

\* project_blocked_latches: every root has its event reference, its receipt and
\* its latch, no row is there twice, and no workstream has two roots.
Projectable ==
    /\ accepted \subseteq eventRef /\ doubled = {}
    /\ \A b \in accepted : receipt[b] # None /\ latch[b] = receipt[b]
    /\ \A b, c \in accepted : WorkstreamOf[b] = WorkstreamOf[c] => b = c

Rebuilds == Projectable /\ Pending = {}

\* rebuild_blocked_latches, and degrade_blocked_projection when it fails.
Rebuild ==
    /\ proj' = IF Rebuilds THEN accepted ELSE {}
    /\ projErr' = ~Rebuilds

\* Mutant: a degraded projection does not close launches.
UnblockedThoughDegraded(w) == \A b \in proj : WorkstreamOf[b] # w

\* ensure_workstream_unblocked
Unblocked(w) == ~projErr /\ \A b \in proj : WorkstreamOf[b] # w

-----------------------------------------------------------------------------
(* Launches, acknowledgements and completions.                             *)

Continuations == UNION {ContinuationOf[b] : b \in Bindings}

\* route_plan, route_run, controlled_spawn, controlled_spawn_wave: a command
\* issues a binding and sends its spawn, only for an unblocked workstream.
Spawn(b) ==
    /\ Ready /\ b \notin issued \cup Continuations
    /\ Unblocked(WorkstreamOf[b])
    /\ issued' = issued \cup {b}
    /\ spawned' = spawned \cup {b}
    /\ UNCHANGED <<acked, consumed, fileVars, rootVars, observed, up, memVars,
                   op, crashes, ioFailures, given, frozen>>

\* route_spawn_result, "launched": no latch check, the task is already running.
LaunchAck(b) ==
    /\ Ready /\ b \in spawned \ acked
    /\ acked' = acked \cup {b}
    /\ UNCHANGED <<issued, consumed, spawned, fileVars, rootVars, observed, up,
                   memVars, op, crashes, ioFailures, given, frozen>>

\* route_receipt_v1_task_completed: the submit:receipt-consumed row carries the
\* issued continuation bindings; deferred_effect_envelope then sends their spawn
\* unless the workstream is blocked.  A repeated completion sends it again.
TaskCompleted(b) ==
    /\ Ready /\ b \in spawned
    /\ consumed' = consumed \cup {b}
    /\ issued' = issued \cup ContinuationOf[b]
    /\ spawned' = IF Unblocked(WorkstreamOf[b])
                  THEN spawned \cup ContinuationOf[b] ELSE spawned
    /\ UNCHANGED <<acked, fileVars, rootVars, observed, up, memVars,
                   op, crashes, ioFailures, given, frozen>>

-----------------------------------------------------------------------------
(* A BLOCKED request: admit_child_control_request.                         *)

\* derive_blocked_cancellations: acknowledged and not consumed, same workstream.
Live(w) == {b \in (acked \ consumed) \cap issued : WorkstreamOf[b] = w}

Start(kind, step, b, left, call, report) ==
    op' = [kind |-> kind, step |-> step, binding |-> b, left |-> left,
           call |-> call, report |-> report]

\* Mutant: a root is answered before its event reference is durable.
RootedAliasWithoutRef(b, r, call) ==
    /\ Ready /\ b \in accepted
    /\ receipt[b] # None /\ receipt[b].report = r
    /\ toolCall' = [toolCall EXCEPT ![b] = call]
    /\ given' = [given EXCEPT ![b] = latch[b]]
    /\ UNCHANGED <<logVars, fileVars, rootVars, observed, up, proj, projErr, op,
                   crashes, ioFailures, frozen>>

\* rooted_blocked_alias: an accepted report is answered from its durable latch;
\* another report, a root without its event reference, or a row that is there
\* twice, gets RETRY.
RootedAlias(b, r, call) ==
    /\ Ready /\ b \in accepted
    /\ IF b \in eventRef \ doubled /\ receipt[b] # None /\ receipt[b].report = r
       THEN /\ toolCall' = [toolCall EXCEPT ![b] = call]
            /\ given' = [given EXCEPT ![b] = latch[b]]
       ELSE UNCHANGED <<toolCall, given>>
    /\ UNCHANGED <<logVars, fileVars, rootVars, observed, up, proj, projErr, op,
                   crashes, ioFailures, frozen>>

\* Mutant: recovery derives the cancellations again from the current log.
RecoverRederiving(b, r, call) ==
    /\ Ready /\ b \in issued \ accepted
    /\ prepared[b] # None /\ prepared[b].report = r
    /\ Start("recover", "prepare", b, {}, call, r)
    /\ UNCHANGED <<logVars, fileVars, rootVars, observed, up, memVars, crashes,
                   ioFailures, given, frozen>>

\* recover_pending_blocked_transaction: a prepared transaction of the same report
\* is completed from its immutable content; any other report gets RETRY.
RecoverPending(b, r, call) ==
    /\ Ready /\ b \in issued \ accepted
    /\ prepared[b] # None /\ prepared[b].report = r
    /\ Start("recover", "receipt", b, {}, call, r)
    /\ UNCHANGED <<logVars, fileVars, rootVars, observed, up, memVars, crashes,
                   ioFailures, given, frozen>>

\* admit_or_replay_blocked_latch: a fresh transaction, with the cancellations
\* frozen before anything is written.  Every refused case is a RETRY that
\* changes nothing.
Admit(b, r, call) ==
    /\ Ready /\ b \in issued \ accepted
    /\ prepared[b] = None /\ receipt[b] = None /\ latch[b] = None
    /\ Unblocked(WorkstreamOf[b])
    /\ b \in Live(WorkstreamOf[b])
    /\ Start("admit", "prepare", b, {}, call, r)
    /\ UNCHANGED <<logVars, fileVars, rootVars, observed, up, memVars, crashes,
                   ioFailures, given, frozen>>

-----------------------------------------------------------------------------
(* The durable steps.  Each writes one file or appends one row.            *)

Advance(step) == op' = [op EXCEPT !.step = step]

WritePrepared ==
    /\ up /\ op.step = "prepare"
    /\ LET b == op.binding
           w == WorkstreamOf[b]
       IN  /\ prepared' = [prepared EXCEPT ![b] =
                             [cancellations |-> Live(w), report |-> op.report]]
           /\ frozen' = [frozen EXCEPT ![b] = spawned \cap Scope(w)]
    /\ Advance("receipt")
    /\ UNCHANGED <<logVars, receipt, latch, rootVars, observed, up, memVars,
                   crashes, ioFailures, given>>

\* write_bounded_file_create_once: publishing the same bytes again succeeds.
WriteReceipt ==
    /\ up /\ op.step = "receipt"
    /\ receipt[op.binding] \in {None, prepared[op.binding]}
    /\ receipt' = [receipt EXCEPT ![op.binding] = prepared[op.binding]]
    /\ Advance("latch")
    /\ UNCHANGED <<logVars, prepared, latch, rootVars, observed, up, memVars,
                   crashes, ioFailures, given, frozen>>

WriteLatch ==
    /\ up /\ op.step = "latch"
    /\ latch[op.binding] \in {None, prepared[op.binding]}
    /\ latch' = [latch EXCEPT ![op.binding] = prepared[op.binding]]
    /\ Advance("accepted")
    /\ UNCHANGED <<logVars, prepared, receipt, rootVars, observed, up, memVars,
                   crashes, ioFailures, given, frozen>>

\* root_or_verify_blocked_latch, first row.
AppendAccepted ==
    /\ up /\ op.step = "accepted"
    /\ receipt[op.binding] # None /\ latch[op.binding] = receipt[op.binding]
    /\ accepted' = accepted \cup {op.binding}
    /\ Advance("ref")
    /\ UNCHANGED <<logVars, fileVars, eventRef, unsynced, doubled, observed, up,
                   memVars, crashes, ioFailures, given, frozen>>

\* append_blocked_latch_event_ref, from the transaction or from the repair at
\* start.
AppendEventRef ==
    /\ up /\ op.step = "ref"
    /\ eventRef' = eventRef \cup {op.binding}
    /\ Advance(IF op.kind \in {"open", "reconcile"} THEN "next" ELSE "rebuild")
    /\ UNCHANGED <<logVars, fileVars, accepted, unsynced, doubled, observed, up,
                   memVars, crashes, ioFailures, given, frozen>>

\* The loops of repair_blocked_latch_event_refs and of
\* recover_prepared_blocked_transactions_for_reconcile.  A row that is there
\* twice ends either.
NextBinding ==
    /\ up /\ op.step = "next"
    /\ IF op.left = {}
       THEN Advance("rebuild")
       ELSE \E b \in op.left :
              op' = [op EXCEPT !.binding = b, !.left = @ \ {b},
                               !.step = IF b \in doubled THEN "rebuild"
                                        ELSE IF op.kind = "open" THEN "ref"
                                        ELSE "receipt"]
    /\ UNCHANGED <<logVars, fileVars, rootVars, observed, up, memVars, crashes,
                   ioFailures, given, frozen>>

\* Whose gate the answer carries: the request's, every record of a
\* reconciliation, none for a start; a failed rebuild answers RETRY or rejection.
Answered ==
    {b \in Bindings :
       /\ Rebuilds
       /\ \/ op.kind = "reconcile" /\ b \in accepted
          \/ op.kind \in {"admit", "recover"} /\ b = op.binding}

\* The trailing rebuild of every transaction, and the answer it decides.
Finish ==
    /\ up /\ op.step = "rebuild"
    /\ Rebuild
    /\ given' = [b \in Bindings |-> IF b \in Answered THEN latch[b] ELSE given[b]]
    /\ toolCall' = [b \in Bindings |->
                      IF b \in Answered /\ op.kind # "reconcile" THEN op.call
                      ELSE toolCall[b]]
    /\ op' = Idle
    /\ UNCHANGED <<logVars, fileVars, rootVars, observed, up, crashes,
                   ioFailures, frozen>>

-----------------------------------------------------------------------------
(* The two private routes of the Host broker.                              *)

\* Mutant: an observation is recorded for a transaction that is only prepared.
ResultObservedUnrooted(b, call) ==
    /\ Ready
    /\ Rebuild
    /\ observed' = IF prepared[b] # None /\ toolCall[b] \in {None, call}
                   THEN observed \cup {b} ELSE observed
    /\ UNCHANGED <<logVars, fileVars, rootVars, up, toolCall, op, crashes,
                   ioFailures, given, frozen>>

\* route_blocked_result_observed: the reporter has seen its ACCEPT.
ResultObserved(b, call) ==
    /\ Ready
    /\ Rebuild
    /\ observed' = IF Rebuilds /\ b \in accepted /\ toolCall[b] \in {None, call}
                   THEN observed \cup {b} ELSE observed
    /\ UNCHANGED <<logVars, fileVars, rootVars, up, toolCall, op, crashes,
                   ioFailures, given, frozen>>

\* Mutant: the loop starts to write before it has chosen a binding.
ReconcileUnbound ==
    /\ Ready
    /\ Start("reconcile", "receipt", None, {b \in issued : prepared[b] # None},
             None, None)
    /\ UNCHANGED <<logVars, fileVars, rootVars, observed, up, memVars, crashes,
                   ioFailures, given, frozen>>

\* Mutant: reconciliation only looks at transactions that are already rooted.
ReconcileRootedOnly ==
    /\ Ready
    /\ Start("reconcile", "next", None, {b \in accepted : prepared[b] # None},
             None, None)
    /\ UNCHANGED <<logVars, fileVars, rootVars, observed, up, memVars, crashes,
                   ioFailures, given, frozen>>

\* route_blocked_reconcile: complete every prepared transaction, then answer
\* with the projected latches.
Reconcile ==
    /\ Ready
    /\ \A b \in issued : prepared[b] = None /\ b \notin accepted =>
                           receipt[b] = None /\ latch[b] = None
    /\ Start("reconcile", "next", None, {b \in issued : prepared[b] # None},
             None, None)
    /\ UNCHANGED <<logVars, fileVars, rootVars, observed, up, memVars, crashes,
                   ioFailures, given, frozen>>

-----------------------------------------------------------------------------
(* Crashes, restarts and failed writes.                                    *)

\* The process dies; only files and rows remain.
Crash ==
    /\ up /\ crashes < MaxCrashes
    /\ crashes' = crashes + 1
    /\ up' = FALSE /\ op' = Idle
    /\ proj' = {} /\ projErr' = FALSE
    /\ toolCall' = [b \in Bindings |-> None]
    /\ UNCHANGED <<logVars, fileVars, rootVars, observed, ioFailures, given,
                   frozen>>

\* The bindings whose row is on disk twice.
Twice(step, known) ==
    {b \in Bindings : \/ unsynced[<<step, b>>] > 1
                      \/ unsynced[<<step, b>>] = 1 /\ b \in known}

\* CoreState::open: replay, repair the event references, rebuild or degrade.
Open ==
    /\ ~up
    /\ up' = TRUE
    /\ accepted' = accepted \cup
                     {b \in Bindings : unsynced[<<"accepted", b>>] # 0}
    /\ eventRef' = eventRef \cup {b \in Bindings : unsynced[<<"ref", b>>] # 0}
    /\ doubled' = doubled \cup Twice("accepted", accepted)
                          \cup Twice("ref", eventRef)
    /\ unsynced' = [row \in Rows |-> 0]
    /\ Start("open", "next", None, (accepted' \ eventRef') \cup doubled', None,
             None)
    /\ UNCHANGED <<logVars, fileVars, observed, memVars, crashes, ioFailures,
                   given, frozen>>

\* A durable write fails in a live process: a request is answered RETRY or
\* rejection, a start degrades the projection.  A file may have been published
\* before its directory sync failed, a row written before its own.
WriteFails ==
    /\ up /\ op.step \in {"prepare", "receipt", "latch", "accepted", "ref"}
    /\ ioFailures < MaxIoFailures
    /\ ioFailures' = ioFailures + 1
    /\ op' = Idle
    /\ IF op.kind = "open"
       THEN proj' = {} /\ projErr' = TRUE
       ELSE UNCHANGED <<proj, projErr>>
    /\ LET b == op.binding
           w == WorkstreamOf[b]
       IN  \/ /\ op.step = "prepare"
              /\ prepared' = [prepared EXCEPT ![b] =
                                [cancellations |-> Live(w), report |-> op.report]]
              /\ frozen' = [frozen EXCEPT ![b] = spawned \cap Scope(w)]
              /\ UNCHANGED <<receipt, latch, unsynced>>
           \/ /\ op.step = "receipt" /\ receipt[b] = None
              /\ receipt' = [receipt EXCEPT ![b] = prepared[b]]
              /\ UNCHANGED <<prepared, latch, frozen, unsynced>>
           \/ /\ op.step = "latch" /\ latch[b] = None
              /\ latch' = [latch EXCEPT ![b] = prepared[b]]
              /\ UNCHANGED <<prepared, receipt, frozen, unsynced>>
           \/ /\ \/ /\ op.step = "accepted" /\ b \notin accepted
                    /\ receipt[b] # None /\ latch[b] = receipt[b]
                 \/ op.step = "ref" /\ b \notin eventRef
              /\ unsynced' = [unsynced EXCEPT ![<<op.step, b>>] = @ + 1]
              /\ UNCHANGED <<prepared, receipt, latch, frozen>>
           \/ UNCHANGED <<prepared, receipt, latch, frozen, unsynced>>
    /\ UNCHANGED <<logVars, accepted, eventRef, doubled, observed, up, toolCall,
                   crashes, given>>

Serve ==
    \/ WritePrepared \/ WriteReceipt \/ WriteLatch \/ AppendAccepted
    \/ AppendEventRef \/ NextBinding \/ Finish

Next ==
    \/ \E b \in Bindings :
         \/ Spawn(b) \/ LaunchAck(b) \/ TaskCompleted(b)
         \/ \E call \in ToolCalls :
              \/ ResultObserved(b, call)
              \/ \E r \in Reports : \/ RootedAlias(b, r, call)
                                    \/ RecoverPending(b, r, call)
                                    \/ Admit(b, r, call)
    \/ Serve
    \/ Reconcile
    \/ Crash \/ Open \/ WriteFails

Spec == Init /\ [][Next]_vars

\* The Core serves the request it has read and the transport respawns a dead Core
\* at the next request.  That reconciliation is asked for again is an assumption
\* on the operator: every activation of a Host asks for it, and sessions go on
\* being started.
Fairness == WF_vars(Serve) /\ WF_vars(Open) /\ WF_vars(Reconcile)

FairSpec == Spec /\ Fairness

-----------------------------------------------------------------------------
(* The promise this module implements.                                     *)

Reporters(w) == {b \in Bindings : WorkstreamOf[b] = w /\ prepared[b] # None}

PhaseOf(w) == IF Reporters(w) \cap accepted # {} THEN "latched"
              ELSE IF Reporters(w) # {} THEN "frozen" ELSE "open"

Promise == INSTANCE WorkstreamLatch WITH
    Gates <- Transaction,
    launched <- spawned,
    phase <- [w \in Workstreams |-> PhaseOf(w)],
    gate <- [w \in Workstreams |-> {prepared[b] : b \in Reporters(w)}],
    released <- {WorkstreamOf[b] : b \in observed}

-----------------------------------------------------------------------------
(* Properties.                                                             *)

\* Type invariant: the durable rows and files, the process and its operation.
TypeOK ==
    /\ issued \subseteq Bindings /\ acked \subseteq Bindings
    /\ consumed \subseteq Bindings /\ spawned \subseteq Bindings
    /\ prepared \in [Bindings -> Transaction \cup {None}]
    /\ receipt \in [Bindings -> Transaction \cup {None}]
    /\ latch \in [Bindings -> Transaction \cup {None}]
    /\ accepted \subseteq Bindings /\ eventRef \subseteq Bindings
    /\ observed \subseteq Bindings
    /\ unsynced \in [Rows -> Nat] /\ doubled \subseteq Bindings
    /\ up \in BOOLEAN /\ proj \subseteq Bindings /\ projErr \in BOOLEAN
    /\ toolCall \in [Bindings -> ToolCalls \cup {None}]
    /\ op \in Operation
    /\ op.step \in {"prepare", "receipt", "latch", "accepted", "ref"} =>
         op.binding \in Bindings
    /\ op.step = "prepare" => op.report \in Reports
    /\ crashes \in 0..MaxCrashes /\ ioFailures \in 0..MaxIoFailures
    /\ given \in [Bindings -> Transaction \cup {None}]
    /\ frozen \in [Bindings -> SUBSET Bindings]

\* A gate the Host was given (admit_child_control_request, reconciliation) rests
\* on a complete durable transaction with exactly its cancellations: no crash
\* can take it back or remint it.
GivenGateIsRooted ==
    \A b \in Bindings : given[b] # None =>
        /\ b \in accepted \cap eventRef
        /\ receipt[b] = latch[b] /\ prepared[b] = latch[b]
        /\ given[b] = latch[b]

\* One workstream has at most one accepted root, so project_blocked_latches never
\* meets its duplicate-workstream error, whatever the order of reports and
\* crashes.
OneLatchPerWorkstream ==
    \A b, c \in accepted : WorkstreamOf[b] = WorkstreamOf[c] => b = c

\* From the moment a cancellation set is frozen (WritePrepared) nothing more is
\* ever spawned in its workstream, before and after any crash: the gate never
\* misses a task that was sent to the Host after the snapshot.
NothingSpawnedBehindSnapshot ==
    \A b \in Bindings : prepared[b] # None =>
        spawned \cap Scope(WorkstreamOf[b]) = frozen[b]

\* A published artifact and a given gate never change: "A restart therefore never
\* derives a second mutable launch snapshot" (admit_or_replay_blocked_latch).
SnapshotIsImmutable ==
    [][\A b \in Bindings :
         /\ prepared[b] # None => prepared'[b] = prepared[b]
         /\ receipt[b] # None => receipt'[b] = receipt[b]
         /\ latch[b] # None => latch'[b] = latch[b]
         /\ given[b] # None => given'[b] = given[b]]_vars

\* The transaction of files and rows implements the atomic latch: launches stop
\* when the set is frozen, one gate per workstream, published once, and
\* route_blocked_result_observed releases the reporter only after publication.
KeepsPromise == Promise!Spec

\* A frozen transaction is eventually published: after a crash between any two of
\* its writes the restarted Core and the reconciling Host complete it.
FrozenIsEventuallyRooted ==
    \A b \in Bindings : (prepared[b] # None) ~> (b \in accepted \cap eventRef)
=============================================================================
