------------------------------ MODULE LaneFlow ------------------------------
(***************************************************************************)
(* The Core's delivery pipeline (drivers/src/seam): lanes of the approved  *)
(* plan are dispatched to an implementer, its package is validated, a      *)
(* validated package is merged into run-main, and the merged result is     *)
(* published.                                                              *)
(*                                                                         *)
(* A binding is one issued assignment: the implementer of a lane, its      *)
(* validator, the one recovery engineer a lane may get, and the validator  *)
(* of the recovery.  A child submits through the Core.  The Core stages    *)
(* everything that follows from the submission, including the next         *)
(* assignment, seals it in a receipt, roots the receipt in the event log,  *)
(* and answers.  The continuation takes effect when the Host reports that  *)
(* the child has exited.                                                   *)
(*                                                                         *)
(* A Host process has a control socket of its own, and the spec of a       *)
(* binding names the socket of the Host under which it was written: after  *)
(* a restart of the Host the children of older specs cannot reach the      *)
(* Core.  What the Host does with an answer is part of the request.        *)
(*                                                                         *)
(* The Core serves one request at a time: job is the request and the next  *)
(* durable write it makes.  A step that returns to Idle without having     *)
(* reached an answer is an error of the code (RETRY to the child, a        *)
(* rejection to the operator): what was written stays.  A crash may come   *)
(* between any two durable writes.  A commit of run-main is the sequence   *)
(* of the validators whose packages are merged into it.                    *)
(***************************************************************************)
EXTENDS Integers, Sequences, FiniteSets, SequencesExt

CONSTANTS
    NLanes,         \* lanes L1 .. Ln of the approved plan
    Setups,         \* what a run may start with: the plan's dependencies, its
                    \* version, whether the operator ratifies the close, the
                    \* lanes where a blocked child may name a repairable
                    \* blocker, and a bound on the Host processes, which
                    \* come one after the other
    Window,         \* lanes of one allocation (6)
    Cap,            \* parallel_cap (8)
    None,
    MaxFaults       \* bound: crashes of the Core, and children, launches,
                    \* merges or final verifications that fail

Lanes == 1..NLanes
Deliverers == {"imp", "rec"}
Roles == {"imp", "val", "rec", "reval"}
Bindings == Lanes \X Roles

LaneOf(b) == b[1]
RoleOf(b) == b[2]
Implementer(l) == <<l, "imp">>
Recovery(l) == <<l, "rec">>
ValidatorOf(b) == <<LaneOf(b), IF RoleOf(b) = "imp" THEN "val" ELSE "reval">>

Tips == Seq(Bindings)
Kinds == {"accepted", "recover", "blocked", "integrated"}
Steps == {"idle", "lifecycle", "select", "branch", "spec", "invoke", "package",
          "worktree", "merge", "cas", "publish", "prepare", "resume", "ref",
          "closed", "row", "artifacts", "receipt", "root", "accept",
          "consume", "reply", "spawned", "forward"}

ASSUME LaneFlowAssumption ==
    /\ NLanes \in Nat /\ Window \in Nat /\ Cap \in Nat
    /\ MaxFaults \in Nat
    /\ Setups \subseteq [deps : [Lanes -> SUBSET Lanes],
                         v2 : BOOLEAN, ratified : BOOLEAN,
                         repairable : SUBSET Lanes, hosts : Nat \ {0}]
    /\ None \notin Bindings /\ None \notin Tips

VARIABLES
    setup,          \* one of Setups, for good
    \* Rows of the event log.
    issued,         \* revisions under which each binding was issued
    terminal,       \* bindings whose completion was consumed
    closed,         \* unit-closed lanes (the row also opens their gates)
    blockers,       \* lanes with a blocker
    rooted,         \* rows of each submission: accepted, and its event ref
    evidence,       \* final verification passed at the tip
    \* Git.
    main,           \* the tip of run-main
    branch,         \* each lane's branch: its base and who packaged on it
    merging,        \* integration worktrees that exist
    \* Create-once files.
    spec,           \* each binding's spec: its revision and its Host's socket
    plan,           \* each validator's integration plan: old and new tip
    final,          \* each validator's finalization intent: the tip
    artifacts,      \* submissions whose carrier and artifacts are written
    receipt,        \* submit receipts
    pub,            \* lock, prepared intent, result ref, closed file and row
    \* Processes.
    task,           \* the child of each binding, by its ownership row
    strays,         \* live children of each binding that have no row
    job,            \* the request the Core serves
    host,           \* the Host process, and its socket
    faults

rows == <<issued, terminal, closed, blockers, rooted, evidence>>
git == <<main, branch, merging>>
files == <<spec, plan, final, artifacts, receipt>>
procs == <<task, strays, host>>
vars == <<setup, rows, git, files, pub, procs, job, faults>>

Idle == [op |-> "idle", pc |-> "idle", b |-> None, target |-> None,
         kind |-> "blocked"]

Serve(op, pc, b, target, kind) ==
    [op |-> op, pc |-> pc, b |-> b, target |-> target, kind |-> kind]

At(pc) == job.pc = pc

Goto(pc) == job' = [job EXCEPT !.pc = pc]

Return == job' = Idle

Fault == faults < MaxFaults /\ faults' = faults + 1

Init ==
    /\ setup \in Setups
    /\ issued = [b \in Bindings |-> {}]
    /\ terminal = {} /\ closed = {} /\ blockers = {}
    /\ rooted = [b \in Bindings |-> 0]
    /\ evidence = FALSE
    /\ main = <<>>
    /\ branch = [l \in Lanes |-> None]
    /\ merging = {}
    /\ spec = [b \in Bindings |-> None]
    /\ plan = [b \in Bindings |-> None]
    /\ final = [b \in Bindings |-> None]
    /\ artifacts = {}
    /\ receipt = [b \in Bindings |-> None]
    /\ pub = [lock |-> FALSE, prepared |-> None, ref |-> None,
              closed |-> FALSE, row |-> FALSE]
    /\ task = [b \in Bindings |-> "none"]
    /\ strays = [b \in Bindings |-> 0]
    /\ host = 1
    /\ job = Idle
    /\ faults = 0

-----------------------------------------------------------------------------
\* What a request sees of the log.  A validator's submission works on a
\* private projection in which it is terminal and its lane closed.

Submitting == job.op = "submit"

SeenClosed ==
    IF Submitting THEN closed \cup {LaneOf(job.b)} ELSE closed

\* Mutant: the submission does not count as terminal yet.
SeenTerminalReal == terminal

SeenTerminal ==
    IF Submitting THEN terminal \cup {job.b} ELSE terminal

Active == {b \in Bindings : issued[b] # {}} \ SeenTerminal

lane_has_live_delivery(l) == \E r \in Deliverers : <<l, r>> \in Active

Open == Lanes \ SeenClosed

Gated(l) == ~ (setup.deps[l] \subseteq SeenClosed)

\* The window takes live lanes first, then lanes whose gates are met.
Rank(l) ==
    (IF lane_has_live_delivery(l) THEN 0 ELSE 2 * NLanes)
    + (IF Gated(l) THEN NLanes ELSE 0) + l

Scheduled ==
    {l \in Open : Cardinality({k \in Open : Rank(k) < Rank(l)}) < Window}

\* Mutant: forward gates are not waited for.
ReadyUngated == {l \in Scheduled : l \notin blockers}

Ready == {l \in Scheduled : ~ Gated(l) /\ l \notin blockers}

ActiveImplementers == {b \in Active : RoleOf(b) = "imp"}

\* Slots are handed out before live lanes are dropped.
select_ready_lanes ==
    {l \in Ready : Cardinality({k \in Ready : k < l})
                       < Cap - Cardinality(ActiveImplementers)}

Dispatchable == {l \in select_ready_lanes : ~ lane_has_live_delivery(l)}

First(S) == CHOOSE l \in S : \A k \in S : l <= k

Revision(b) == CHOOSE r \in issued[b] : TRUE

\* A dispatch by command is generation 1, a continuation its parent's plus 1.
IssueRevision == IF Submitting THEN Revision(job.b) + 1 ELSE 1

\* Mutant: idle is complete.
execution_idle == Active = {}

execution_complete == Active = {} /\ Open = {}

-----------------------------------------------------------------------------
\* Requests.

\* "autopilot <workstream>"
route_run ==
    /\ job = Idle
    /\ job' = Serve("run", "lifecycle", None, None, "blocked")
    /\ UNCHANGED <<setup, rows, git, files, pub, procs, faults>>

route_close ==
    /\ job = Idle
    /\ job' = Serve("close", "lifecycle", None, None, "blocked")
    /\ UNCHANGED <<setup, rows, git, files, pub, procs, faults>>

\* Mutant: every Host has the same socket.
ReachesAlways(b) == spec[b] # None

\* The spec names the socket of the Host that is there.
Reaches(b) == spec[b] # None /\ spec[b].host = host

\* A child's request is for one binding of the log.
Admitted(b) ==
    /\ job = Idle
    /\ task[b] = "running" \/ strays[b] > 0
    /\ Reaches(b)
    /\ Cardinality(issued[b]) = 1

\* The artifacts carry the tool call, so they are never written twice: a
\* child whose artifacts are there without a receipt is refused.
Fresh(b) == Admitted(b) /\ receipt[b] = None /\ b \notin artifacts

Stage(b, pc, target, kind) ==
    /\ job' = Serve("submit", pc, b, target, kind)
    /\ UNCHANGED <<setup, rows, git, files, pub, procs, faults>>

\* A payload that has its receipt is answered from it.
ReplaySubmit(b) ==
    /\ Admitted(b)
    /\ receipt[b] # None
    /\ Stage(b, "root", receipt[b].target, receipt[b].kind)

SubmitDelivery(b) ==
    /\ Fresh(b)
    /\ RoleOf(b) \in Deliverers
    /\ Stage(b, "package", ValidatorOf(b), "accepted")

\* A blocked implementer may get a recovery engineer, a blocked recovery
\* engineer ends the lane.
SubmitBlockedDelivery(b, repairable) ==
    /\ Fresh(b)
    /\ RoleOf(b) \in Deliverers
    /\ IF repairable /\ RoleOf(b) = "imp"
       THEN Stage(b, "spec", Recovery(LaneOf(b)), "recover")
       ELSE Stage(b, "artifacts", None, "blocked")

\* A prepared plan is used again.
SubmitForwardReady(b) ==
    /\ Fresh(b)
    /\ RoleOf(b) \notin Deliverers
    /\ Stage(b, IF plan[b] = None THEN "worktree" ELSE "cas", None, "integrated")

SubmitBlockedValidation(b, repairable) ==
    /\ Fresh(b)
    /\ RoleOf(b) \notin Deliverers
    /\ IF repairable /\ RoleOf(b) = "val"
       THEN Stage(b, "spec", Recovery(LaneOf(b)), "recover")
       ELSE Stage(b, "artifacts", None, "blocked")

\* The Host reports an exit.  Only a completed child with a rooted receipt is
\* consumed; the Host forgets a report that was answered.
Consumable(b) ==
    /\ task[b] = "exited"
    /\ receipt[b] # None
    /\ rooted[b] = 2
    /\ Cardinality(issued[b]) = 1

TaskCompleted(b) ==
    /\ job = Idle
    /\ Consumable(b)
    /\ job' = Serve("complete", "consume", b, receipt[b].target, receipt[b].kind)
    /\ UNCHANGED <<setup, rows, git, files, pub, procs, faults>>

CompletionRejected(b) ==
    /\ job = Idle
    /\ task[b] \in {"exited", "failed"}
    /\ ~ Consumable(b)
    /\ task' = [task EXCEPT ![b] = "gone"]
    /\ UNCHANGED <<setup, rows, git, files, pub, strays, host, job, faults>>

-----------------------------------------------------------------------------
\* Issuing an assignment.

\* A V1 plan takes the branch as it is when an interrupted submission has
\* committed the package, and when a recovery engineer changed nothing.  A V2
\* plan finds nothing to commit in either case and refuses.
establish_delivery_package ==
    /\ At("package")
    /\ LET l == LaneOf(job.b)
           r == RoleOf(job.b)
           committed == r \in branch[l].packages IN
       \/ /\ ~ committed
          /\ branch' = [branch EXCEPT ![l].packages = @ \cup {r}]
          /\ Goto("spec")
       \/ /\ committed \/ r = "rec"
          /\ IF setup.v2 THEN Return ELSE Goto("spec")
          /\ UNCHANGED branch
    /\ UNCHANGED <<setup, rows, main, merging, files, pub, procs, faults>>

\* No lane left to allocate is an allocation error.
SelectLane ==
    /\ At("select")
    /\ IF Dispatchable # {}
       THEN job' = [job EXCEPT !.pc = "branch",
                               !.target = Implementer(First(Dispatchable))]
       ELSE IF Submitting /\ Open # {} THEN Goto("artifacts") ELSE Return
    /\ UNCHANGED <<setup, rows, git, files, pub, procs, faults>>

\* The lane's branch must be exactly at the tip of run-main.
prepare_delivery_worktree ==
    /\ At("branch")
    /\ LET l == LaneOf(job.target)
           fresh == [base |-> main, packages |-> {}] IN
       IF branch[l] \in {None, fresh}
       THEN branch' = [branch EXCEPT ![l] = fresh] /\ Goto("spec")
       ELSE Return /\ UNCHANGED branch
    /\ UNCHANGED <<setup, rows, main, merging, files, pub, procs, faults>>

\* An existing spec is reused when it is the same one, never overwritten.
write_receipt_v1_spec_document ==
    /\ At("spec")
    /\ LET document == [revision |-> IssueRevision, host |-> host] IN
       IF spec[job.target] \in {None, document}
       THEN /\ spec' = [spec EXCEPT ![job.target] = document]
            /\ Goto(IF Submitting THEN "artifacts" ELSE "invoke")
       ELSE Return /\ UNCHANGED spec
    /\ UNCHANGED <<setup, rows, git, plan, final, artifacts, receipt, pub, procs,
                   faults>>

append_runner_invocation ==
    /\ At("invoke")
    /\ issued' = [issued EXCEPT ![job.target] = @ \cup {IssueRevision}]
    /\ Goto("reply")
    /\ UNCHANGED <<setup, terminal, closed, blockers, rooted, evidence, git,
                   files, pub, procs, faults>>

-----------------------------------------------------------------------------
\* Integration of a validated package.

\* The worktree of a candidate has a fixed path.
AddIntegrationWorktree ==
    /\ At("worktree")
    /\ IF job.b \in merging
       THEN Return /\ UNCHANGED merging
       ELSE merging' = merging \cup {job.b} /\ Goto("merge")
    /\ UNCHANGED <<setup, rows, main, branch, files, pub, procs, faults>>

\* Merge and focused checks, then the plan, before run-main is touched.  A
\* branch without a package leaves the tree as it was, and is refused.
PlanIntegration ==
    /\ At("merge")
    /\ IF branch[LaneOf(job.b)].packages # {}
       THEN /\ plan' = [plan EXCEPT ![job.b] =
                           [old |-> main, new |-> Append(main, job.b)]]
            /\ Goto("cas")
       ELSE Return /\ UNCHANGED plan
    /\ UNCHANGED <<setup, rows, git, spec, final, artifacts, receipt, pub, procs,
                   faults>>

MergeFails ==
    /\ At("merge")
    /\ Fault
    /\ Return
    /\ UNCHANGED <<setup, rows, git, files, pub, procs>>

\* Mutant: a retry merges on top of what it merged before.
CasMergesAgain ==
    /\ At("cas")
    /\ IF main \in {plan[job.b].old, plan[job.b].new}
       THEN main' = Append(main, job.b) /\ Goto("lifecycle")
       ELSE Return /\ UNCHANGED main
    /\ UNCHANGED <<setup, rows, branch, merging, files, pub, procs, faults>>

\* Mutant: a run-main that moved on is taken to have the package already.
CasUnproved ==
    /\ At("cas")
    /\ main' = IF main = plan[job.b].old THEN plan[job.b].new ELSE main
    /\ Goto("lifecycle")
    /\ UNCHANGED <<setup, rows, branch, merging, files, pub, procs, faults>>

\* A retry of a planned integration finds run-main where the plan left it or
\* where it took it; anything else is a conflict.
cas_release ==
    /\ At("cas")
    /\ LET p == plan[job.b] IN
       IF main \in {p.old, p.new}
       THEN main' = p.new /\ Goto("lifecycle")
       ELSE Return /\ UNCHANGED main
    /\ UNCHANGED <<setup, rows, branch, merging, files, pub, procs, faults>>

-----------------------------------------------------------------------------
\* Lifecycle: what a run, a close or an integration does when it may be done.

Intent == IF Submitting THEN final[job.b] ELSE None

ResumePublication ==
    /\ At("lifecycle")
    /\ Intent # None \/ pub.prepared # None
    /\ IF Intent \notin {None, main} THEN Return ELSE Goto("resume")
    /\ UNCHANGED <<setup, rows, git, files, pub, procs, faults>>

Undecided == At("lifecycle") /\ Intent = None /\ pub.prepared = None

\* A validator that did not prepare the close cannot answer with it.
AlreadyClosed ==
    /\ Undecided
    /\ pub.closed
    /\ Return
    /\ UNCHANGED <<setup, rows, git, files, pub, procs, faults>>

\* A close may also name facts that are not those of the run.
NotComplete ==
    /\ Undecided
    /\ ~ pub.closed
    /\ ~ execution_complete \/ job.op = "close"
    /\ IF job.op = "close" THEN Return ELSE Goto("select")
    /\ UNCHANGED <<setup, rows, git, files, pub, procs, faults>>

\* Final verification passes.  A projection's rows are not kept.
QualifyPublication ==
    /\ Undecided
    /\ ~ pub.closed /\ execution_complete
    /\ evidence' = (evidence \/ ~ Submitting)
    /\ IF setup.ratified /\ job.op # "close"
       THEN /\ IF Submitting THEN Goto("artifacts") ELSE Return
            /\ UNCHANGED final
       ELSE /\ final' = IF Submitting THEN [final EXCEPT ![job.b] = main]
                                      ELSE final
            /\ Goto("publish")
    /\ UNCHANGED <<setup, issued, terminal, closed, blockers, rooted, git, spec,
                   plan, artifacts, receipt, pub, procs, faults>>

FinalVerificationFails ==
    /\ Undecided
    /\ ~ pub.closed /\ execution_complete
    /\ ~ evidence /\ Fault
    /\ IF Submitting THEN Goto("artifacts") ELSE Return
    /\ UNCHANGED <<setup, rows, git, files, pub, procs>>

-----------------------------------------------------------------------------
\* Publication.  The lock is a directory: it outlives a crash.

PublicationTip ==
    IF Intent # None THEN Intent
    ELSE IF pub.prepared # None THEN pub.prepared ELSE main

PublicationStep ==
    UNCHANGED <<setup, issued, terminal, closed, blockers, rooted, evidence, git,
                files, procs, faults>>

\* The result ref must be absent; otherwise the lock is dropped again.
publish_result_ref ==
    /\ At("publish")
    /\ IF pub.lock \/ pub.ref # None
       THEN Return /\ UNCHANGED pub
       ELSE pub' = [pub EXCEPT !.lock = TRUE] /\ Goto("prepare")
    /\ PublicationStep

persist_publication_prepared ==
    /\ At("prepare")
    /\ pub' = [pub EXCEPT !.prepared = PublicationTip]
    /\ Goto("ref")
    /\ PublicationStep

publish_prepared_result_ref ==
    /\ At("resume")
    /\ IF pub.lock
       THEN Return /\ UNCHANGED pub
       ELSE pub' = [pub EXCEPT !.lock = TRUE] /\ Goto("ref")
    /\ PublicationStep

\* Created from nothing, or already there.
UpdateResultRef ==
    /\ At("ref")
    /\ IF pub.ref \in {None, PublicationTip}
       THEN pub' = [pub EXCEPT !.ref = PublicationTip] /\ Goto("closed")
       ELSE pub' = [pub EXCEPT !.lock = FALSE] /\ Return
    /\ PublicationStep

persist_publication_closed ==
    /\ At("closed")
    /\ pub' = [pub EXCEPT !.closed = TRUE]
    /\ Goto("row")
    /\ PublicationStep

\* The closed row of a submission comes with its consumption.
CloseRow ==
    /\ At("row")
    /\ pub' = [pub EXCEPT !.lock = FALSE, !.row = @ \/ ~ Submitting]
    /\ IF Intent # None THEN Goto("artifacts") ELSE Return
    /\ PublicationStep

-----------------------------------------------------------------------------
\* Sealing a submission, and consuming it.

ensure_exact_artifact ==
    /\ At("artifacts")
    /\ artifacts' = artifacts \cup {job.b}
    /\ Goto("receipt")
    /\ UNCHANGED <<setup, rows, git, spec, plan, final, receipt, pub, procs,
                   faults>>

\* The receipt names the continuation: nothing, a blocker or an assignment.
persist_submit_receipt ==
    /\ At("receipt")
    /\ receipt' = [receipt EXCEPT ![job.b] =
                      [kind |-> job.kind, target |-> job.target]]
    /\ Goto("root")
    /\ UNCHANGED <<setup, rows, git, spec, plan, final, artifacts, pub, procs,
                   faults>>

\* Mutant: a replayed submission is rooted again.
RootAgain ==
    /\ At("root")
    /\ rooted' = [rooted EXCEPT ![job.b] = @ + 1]
    /\ IF rooted[job.b] < 1 THEN UNCHANGED job ELSE Goto("accept")
    /\ UNCHANGED <<setup, issued, terminal, closed, blockers, evidence, git,
                   files, pub, procs, faults>>

\* Each row is appended unless the log has it.
root_submit_receipt ==
    /\ At("root")
    /\ IF rooted[job.b] < 2
       THEN rooted' = [rooted EXCEPT ![job.b] = @ + 1] /\ UNCHANGED job
       ELSE UNCHANGED rooted /\ Goto("accept")
    /\ UNCHANGED <<setup, issued, terminal, closed, blockers, evidence, git,
                   files, pub, procs, faults>>

AnswerAccepted ==
    /\ At("accept")
    /\ task' = [task EXCEPT ![job.b] = IF @ = "running" THEN "accepted" ELSE @]
    /\ Return
    /\ UNCHANGED <<setup, rows, git, files, pub, strays, host, faults>>

\* One row carries the completion, the close of the lane or its blocker, the
\* issue of the continuation and the close of the run; a row that is there is
\* not appended again.
consume_receipt_v1_transition ==
    /\ At("consume")
    /\ IF job.b \in terminal
       THEN UNCHANGED <<issued, terminal, closed, blockers, pub>>
       ELSE /\ terminal' = terminal \cup {job.b}
            /\ closed' = closed \cup
                  {l \in {LaneOf(job.b)} : job.kind = "integrated"}
            /\ blockers' = blockers \cup
                  {l \in {LaneOf(job.b)} : job.kind = "blocked"}
            /\ issued' = [b \in Bindings |->
                  IF b = job.target THEN issued[b] \cup {Revision(job.b) + 1}
                                    ELSE issued[b]]
            /\ pub' = [pub EXCEPT !.row = @ \/
                  (job.kind = "integrated" /\ final[job.b] # None)]
    /\ Goto("reply")
    /\ UNCHANGED <<setup, rooted, evidence, git, files, procs, faults>>

-----------------------------------------------------------------------------
\* The Host's part.  A report is forwarded when its answer has been applied.
\* One that could not be is held, and the next Host repeats it.

Launching ==
    /\ At("reply")
    /\ job.target # None
    /\ task[job.target] = "none"

\* run() starts the child of an action that has no row, before it has one.
RunChild ==
    /\ Launching
    /\ strays' = [strays EXCEPT ![job.target] = @ + 1]
    /\ Goto("spawned")
    /\ UNCHANGED <<setup, rows, git, files, pub, task, host, faults>>

rememberSpawn ==
    /\ At("spawned")
    /\ strays' = [strays EXCEPT ![job.target] = @ - 1]
    /\ task' = [task EXCEPT ![job.target] = "running"]
    /\ Goto("forward")
    /\ UNCHANGED <<setup, rows, git, files, pub, host, faults>>

\* What the Host knows of the report it was working on.
Reported(state) ==
    [b \in Bindings |-> IF job.op = "complete" /\ b = job.b THEN state ELSE task[b]]

markTerminalForwarded ==
    /\ At("forward") \/ (At("reply") /\ ~ Launching)
    /\ task' = Reported("gone")
    /\ Return
    /\ UNCHANGED <<setup, rows, git, files, pub, strays, host, faults>>

\* run() is refused, or the child starts and gets no row because run() timed
\* out or the append failed.
HostLaunchFails ==
    /\ Launching \/ At("spawned")
    /\ Fault
    /\ task' = Reported("held")
    /\ Return
    /\ UNCHANGED <<setup, rows, git, files, pub, strays, host>>

\* A new Host repeats the reports that were begun.  An end that no Host was
\* told of is never reported.
HostExits ==
    /\ host < setup.hosts
    /\ host' = host + 1
    /\ \E missed \in SUBSET {b \in Bindings : task[b] \in
                               {"accepted", "exited", "failed"}} :
          task' = [b \in Bindings |->
                      IF task[b] = "held" \/ (job.op = "complete" /\ b = job.b)
                      THEN "exited"
                      ELSE IF b \in missed THEN "gone" ELSE task[b]]
    /\ Return
    /\ UNCHANGED <<setup, rows, git, files, pub, strays, faults>>

-----------------------------------------------------------------------------
\* Children end after the answer; a child may also end without one.

ChildExits(b) ==
    /\ task[b] = "accepted"
    /\ task' = [task EXCEPT ![b] = "exited"]
    /\ UNCHANGED <<setup, rows, git, files, pub, strays, host, job, faults>>

ChildFails(b) ==
    /\ task[b] \in {"running", "accepted"}
    /\ Fault
    /\ task' = [task EXCEPT ![b] = "failed"]
    /\ UNCHANGED <<setup, rows, git, files, pub, strays, host, job>>

\* A child that reaches no Host gives up.  It has not completed: no report of
\* its end changes anything.
ChildCutOff(b) ==
    /\ task[b] = "running" /\ ~ Reaches(b)
    /\ task' = [task EXCEPT ![b] = "gone"]
    /\ UNCHANGED <<setup, rows, git, files, pub, strays, host, job, faults>>

\* The end of a child without a row means nothing to the Host.
StrayEnds(b) ==
    /\ strays[b] > 0 /\ ~ At("spawned")
    /\ strays' = [strays EXCEPT ![b] = @ - 1]
    /\ UNCHANGED <<setup, rows, git, files, pub, task, host, job, faults>>

\* The Core exits and the Host starts another one.
Crash ==
    /\ job # Idle /\ ~ At("spawned")
    /\ Fault
    /\ task' = Reported("held")
    /\ Return
    /\ UNCHANGED <<setup, rows, git, files, pub, strays, host>>

-----------------------------------------------------------------------------

Submission(b) ==
    \/ ReplaySubmit(b)
    \/ SubmitDelivery(b)
    \/ SubmitForwardReady(b)
    \/ \E repairable \in {FALSE, LaneOf(b) \in setup.repairable} :
          \/ SubmitBlockedDelivery(b, repairable)
          \/ SubmitBlockedValidation(b, repairable)

Completion(b) == TaskCompleted(b) \/ CompletionRejected(b)

Issuing ==
    \/ establish_delivery_package
    \/ SelectLane
    \/ prepare_delivery_worktree
    \/ write_receipt_v1_spec_document
    \/ append_runner_invocation

Integrating ==
    \/ AddIntegrationWorktree
    \/ PlanIntegration
    \/ MergeFails
    \/ cas_release

Lifecycle ==
    \/ ResumePublication
    \/ AlreadyClosed
    \/ NotComplete
    \/ QualifyPublication
    \/ FinalVerificationFails

Publishing ==
    \/ publish_result_ref
    \/ persist_publication_prepared
    \/ publish_prepared_result_ref
    \/ UpdateResultRef
    \/ persist_publication_closed
    \/ CloseRow

Sealing ==
    \/ ensure_exact_artifact
    \/ persist_submit_receipt
    \/ root_submit_receipt
    \/ AnswerAccepted
    \/ consume_receipt_v1_transition

Applying == RunChild \/ rememberSpawn \/ markTerminalForwarded

CoreStep ==
    Issuing \/ Integrating \/ Lifecycle \/ Publishing \/ Sealing \/ Applying

Next ==
    \/ route_run
    \/ route_close
    \/ \E b \in Bindings :
          \/ Submission(b) \/ Completion(b)
          \/ ChildExits(b) \/ ChildFails(b) \/ ChildCutOff(b) \/ StrayEnds(b)
    \/ CoreStep
    \/ HostLaunchFails \/ HostExits
    \/ Crash

\* The Core finishes what it started.  Requests queue, so each is served in
\* the end; a child submits until it is answered and then exits; the operator
\* asks for the run.
Fairness ==
    /\ WF_vars(job # Idle /\ CoreStep)
    /\ SF_vars(route_run)
    /\ SF_vars(job = Idle /\ \E b \in Bindings : Submission(b) \/ Completion(b))
    /\ WF_vars(\E b \in Bindings : ChildExits(b))

Spec == Init /\ [][Next]_vars

FairSpec == Spec /\ Fairness

-----------------------------------------------------------------------------

MergedLanes(tip) == {LaneOf(tip[i]) : i \in 1..Len(tip)}

TipOrNone == Tips \cup {None}

\* Every variable has the shape its durable record or process state has.
TypeOK ==
    /\ setup \in Setups
    /\ issued \in [Bindings -> SUBSET Nat]
    /\ terminal \subseteq Bindings
    /\ closed \subseteq Lanes /\ blockers \subseteq Lanes
    /\ rooted \in [Bindings -> 0..2]
    /\ evidence \in BOOLEAN
    /\ main \in Tips
    /\ branch \in [Lanes -> [base : Tips, packages : SUBSET Deliverers] \cup {None}]
    /\ merging \subseteq Bindings
    /\ spec \in [Bindings -> [revision : Nat, host : 1..host] \cup {None}]
    /\ plan \in [Bindings -> [old : Tips, new : Tips] \cup {None}]
    /\ final \in [Bindings -> TipOrNone]
    /\ artifacts \subseteq Bindings
    /\ receipt \in [Bindings -> [kind : Kinds, target : Bindings \cup {None}]
                                    \cup {None}]
    /\ pub \in [lock : BOOLEAN, prepared : TipOrNone, ref : TipOrNone,
                closed : BOOLEAN, row : BOOLEAN]
    /\ task \in [Bindings -> {"none", "running", "accepted", "exited",
                              "held", "failed", "gone"}]
    /\ strays \in [Bindings -> 0..host] /\ host \in 1..setup.hosts
    /\ job \in [op : {"idle", "run", "close", "submit", "complete"}, pc : Steps,
                b : Bindings \cup {None}, target : Bindings \cup {None},
                kind : Kinds]
    /\ faults \in 0..MaxFaults

\* A package is merged into run-main at most once, whatever is retried after
\* refusals and crashes between the plan, the CAS and the receipt.
MergedOnce == IsInjective(main)

\* A sealed integration is in run-main for good: its plan's result is a prefix
\* of the tip, and only lanes of the tip are ever closed.
AcceptedIsIntegrated ==
    /\ \A b \in Bindings :
          (receipt[b] # None /\ receipt[b].kind = "integrated")
              => plan[b] # None /\ IsPrefix(plan[b].new, main)
    /\ closed \subseteq MergedLanes(main)

\* A lane starts from a tip that contains everything it depends on, and
\* nothing is merged before its dependencies.
BaseHasDependencies ==
    /\ \A l \in Lanes : branch[l] # None =>
          setup.deps[l] \subseteq MergedLanes(branch[l].base)
    /\ \A i \in 1..Len(main) :
          setup.deps[LaneOf(main[i])] \subseteq MergedLanes(SubSeq(main, 1, i - 1))

\* Of the children alive on a lane at most one reaches the Core.  A Host that
\* exits between run() and the row of the child leaves a second child of the
\* same binding behind when the next Host repeats the report; so does a run()
\* that times out.  The socket in the create-once spec is what keeps the two
\* from being heard together.
OneWorkerPerLane ==
    LET Live(b) == strays[b] + IF task[b] \in {"running", "accepted"} THEN 1 ELSE 0
        Heard == {b \in Bindings : Reaches(b) /\ Live(b) > 0}
    IN  \A b, c \in Heard : LaneOf(b) = LaneOf(c) => b = c /\ Live(b) = 1

\* The published ref is a tip of run-main with a package of every lane in it,
\* and the run is closed by a file or a row only after the ref is there.
PublishedIsComplete ==
    /\ pub.ref # None => IsPrefix(pub.ref, main) /\ MergedLanes(pub.ref) = Lanes
    /\ pub.closed \/ pub.row => pub.ref # None

\* A plan whose lanes depend on each other in turn, with no ratification of the
\* close, is published in the end, unless a child gives up, something outside
\* fails, or the Core or the Host exits.  The other exception is a recovery
\* engineer that answers "no defect" for an implementer that packaged nothing:
\* it is accepted, and its validator can then not merge the empty branch.  (Of
\* the checked plans this is about the V1 chain without ratification.)
SequentialPlanCloses ==
    (~ setup.ratified /\ \A l \in Lanes : setup.deps[l] = 1..(l - 1))
        => <>(\/ pub.row \/ blockers # {} \/ faults > 0 \/ host > 1
              \/ \E l \in Lanes : /\ spec[ValidatorOf(Recovery(l))] # None
                                  /\ branch[l].packages = {})

\* "Plan first, CAS second. A retry can now prove the exact pair": run-main is
\* at one of the two tips of a plan whose validator has no receipt yet.
RetryCanProvePair ==
    \A b \in Bindings :
        (plan[b] # None /\ receipt[b] = None) => main \in {plan[b].old, plan[b].new}

=============================================================================
