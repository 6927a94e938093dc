--------------------------- MODULE HostOwnership ---------------------------
(***************************************************************************)
(* The Host side of the BLOCKED protocol: the launch gate and ownership    *)
(* journal (src/ownership-journal.ts), the child-control broker            *)
(* (src/child-control-broker.ts), the background-task client, and the      *)
(* activation that restores them (src/extension.ts).                       *)
(*                                                                         *)
(* The Host is one JavaScript thread: an action is what runs between two   *)
(* awaits.  Requests to the Core travel in order and several may be        *)
(* outstanding; the Core serves them one at a time and each atomically     *)
(* (BlockedLatch shows that its latch transaction implements an atomic     *)
(* one).  All actions belong to one workstream, and an action stands for   *)
(* the task that run() returned for it.  The background-task service and   *)
(* the children are the environment.                                       *)
(***************************************************************************)
EXTENDS Naturals, Sequences, FiniteSets

CONSTANTS
    Actions,            \* background actions, and their tasks
    Reporters,          \* actions whose child may report BLOCKED
    NextOf,             \* [Actions -> Actions \cup {None}]: continuation
    None,
    MaxEnds,            \* bound: tasks that end by themselves
    MaxReports,         \* bound: BLOCKED reports
    MaxHostCrashes,     \* bound: reloads or crashes of the Host
    MaxCoreCrashes,     \* bound: exits of the Core under a live Host
    MaxTimeouts,        \* bound: run or kill requests that time out
    MaxAppendFailures   \* bound: launch rows that cannot be appended

Continuations == {NextOf[a] : a \in Actions} \ {None}

ASSUME HostOwnershipAssumption ==
    /\ Reporters \subseteq Actions
    /\ None \notin Actions
    /\ NextOf \in [Actions -> Actions \cup {None}]
    /\ {MaxEnds, MaxReports, MaxHostCrashes, MaxCoreCrashes, MaxTimeouts,
        MaxAppendFailures} \subseteq Nat

VARIABLES
    core,       \* the Core's durable rows: issued, acked, consumed, gate, observed
    toCore, toHost,                     \* the two directions of the transport
    task, runReq,                       \* background tasks; unserved run requests
    journal,    \* the ownership journal: launch, ack, term, fwd, gate, ...
    own, bound, buffered,               \* owned, taskBindings, unmatchedTerminal
    hold, activationHold,
    poisoned,   \* the task client has a protocolError
    launch, term, queue,                \* launches, terminals, terminalDelivery
    conn, pend,                         \* broker connection of each reporter
    applied, obs, killing,              \* PendingBlockedObservation and its attempts
    fresh,                              \* actions whose child knows this broker
    phase, todo, gateObserved,          \* the activation transaction
    used                                \* what has been used of each bound

wire     == <<toCore, toHost>>
tasks    == <<task, runReq>>
bindings == <<own, bound, buffered>>
gates    == <<hold, activationHold>>
broker   == <<conn, pend, applied, obs, killing>>
activation == <<phase, todo, gateObserved>>
vars == <<core, toCore, toHost, task, runReq, journal, own, bound, buffered,
          hold, activationHold, poisoned, launch, term, queue, conn, pend, applied,
          obs, killing, fresh, phase, todo, gateObserved, used>>

Gate == [reporter : Reporters, members : SUBSET Actions]
NonReporters(g) == g.members \ {g.reporter}

CoreInit == [issued |-> {}, acked |-> {}, consumed |-> {}, gate |-> None,
             observed |-> FALSE]

JournalInit == [launch |-> {}, ack |-> {}, term |-> {}, fwd |-> {}, gate |-> None,
                arrived |-> FALSE, observed |-> FALSE, cancelled |-> {}]

\* What a Host process remembers before an activation fills it in.
Inert ==
    /\ own = {} /\ bound = {} /\ buffered = {}
    /\ hold = "open" /\ activationHold = TRUE /\ poisoned = FALSE
    /\ launch = [a \in Actions |-> "none"] /\ term = [a \in Actions |-> "none"]
    /\ queue = <<>>
    /\ conn = [r \in Reporters |-> "idle"] /\ pend = [r \in Reporters |-> {}]
    /\ applied = FALSE /\ obs = "none" /\ killing = None
    /\ fresh = {}
    /\ phase = "down" /\ todo = {} /\ gateObserved = FALSE

Init ==
    /\ core = CoreInit /\ journal = JournalInit
    /\ toCore = <<>> /\ toHost = <<>>
    /\ task = [a \in Actions |-> "none"] /\ runReq = {}
    /\ Inert
    /\ used = [ends |-> 0, reports |-> 0, host |-> 0, core |-> 0, timeouts |-> 0,
               appends |-> 0]

-----------------------------------------------------------------------------
(* The transport.  A request names the fiber that awaits it.               *)

Request(by, kind, a) == [by |-> by, kind |-> kind, task |-> a]

Send(m) == toCore' = Append(toCore, m) /\ UNCHANGED toHost

\* The reply is lost when the Host that asked is gone.
Reply(answer) ==
    /\ toCore' = Tail(toCore)
    /\ toHost' = IF phase = "down" THEN toHost
                 ELSE Append(toHost, [req |-> Head(toCore), answer |-> answer])

Got(by, kind, a) ==
    toHost # <<>> /\ Head(toHost).req = Request(by, kind, a)

Answer == Head(toHost).answer

\* The reply is consumed, and the fiber may send its next request.
Take == toHost' = Tail(toHost) /\ UNCHANGED toCore
TakeAndSend(m) == toHost' = Tail(toHost) /\ toCore' = Append(toCore, m)

-----------------------------------------------------------------------------
(* The Core, one request at a time.                                        *)

Serving(kind) == toCore # <<>> /\ Head(toCore).kind = kind

hostVars == <<tasks, journal, bindings, gates, poisoned, launch, term, queue, broker,
              fresh, activation, used>>

\* controlled_spawn: a new action is sent unless its workstream is latched.
ServeCommand ==
    /\ Serving("command")
    /\ LET a  == Head(toCore).task
           ok == core.gate = None /\ a \notin core.issued
       IN  /\ core' = IF ok THEN [core EXCEPT !.issued = @ \cup {a}] ELSE core
           /\ Reply(ok)
    /\ UNCHANGED hostVars

\* route_spawn_result: exact replays are accepted.
ServeLaunched ==
    /\ Serving("launched")
    /\ core' = [core EXCEPT !.acked = @ \cup {Head(toCore).task}]
    /\ Reply(TRUE)
    /\ UNCHANGED hostVars

\* Mutant: the continuation is issued whether or not there is one.
ServeCompletedUnguarded ==
    /\ Serving("completed")
    /\ LET a == Head(toCore).task
           c == NextOf[a]
       IN  IF task[a] = "completed"
           THEN /\ core' = [core EXCEPT !.consumed = @ \cup {a},
                                        !.issued = @ \cup {c}]
                /\ Reply(c # None /\ core.gate = None)
           ELSE core' = core /\ Reply(FALSE)
    /\ UNCHANGED hostVars

\* route_receipt_v1_task_completed, deferred_effect_envelope: a success is consumed
\* and its continuation sent unless latched; any other status is rejected.
ServeCompleted ==
    /\ Serving("completed")
    /\ LET a == Head(toCore).task
           c == NextOf[a]
       IN  IF task[a] = "completed"
           THEN /\ core' = [core EXCEPT !.consumed = @ \cup {a},
                                        !.issued = @ \cup ({c} \ {None})]
                /\ Reply(c # None /\ core.gate = None)
           ELSE core' = core /\ Reply(FALSE)
    /\ UNCHANGED hostVars

\* admit_child_control_request for a blocked report: freeze the live tasks, answer
\* an alias from the latch, or RETRY.  A report may also be refused for what it
\* says.
ServeBlocked ==
    /\ Serving("blocked")
    /\ LET r    == Head(toCore).task
           live == core.acked \ core.consumed
       IN  \/ /\ core.gate = None /\ r \in live
              /\ core' = [core EXCEPT !.gate = [reporter |-> r, members |-> live]]
              /\ Reply(core'.gate)
           \/ /\ core.gate # None /\ core.gate.reporter = r
              /\ core' = core /\ Reply(core.gate)
           \/ core' = core /\ Reply(None)
    /\ UNCHANGED hostVars

\* route_blocked_result_observed
ServeObserved ==
    /\ Serving("observed")
    /\ core' = [core EXCEPT !.observed = TRUE]
    /\ Reply(TRUE)
    /\ UNCHANGED hostVars

\* route_blocked_reconcile
ServeReconcile ==
    /\ Serving("reconcile")
    /\ core' = core
    /\ Reply([gate |-> core.gate, observed |-> core.observed])
    /\ UNCHANGED hostVars

-----------------------------------------------------------------------------
(* Launches: forwardCommand, launchBackground, applyAndRecord.             *)

Closed == activationHold \/ hold # "open"

Flights == {a \in Actions : launch[a] \in {"run", "nested"}}

\* The activation is far enough for its fibers and its children to be served.
Up == phase # "down"

Command(a) ==
    /\ phase = "active" /\ launch[a] = "none" /\ a \notin Continuations
    /\ launch' = [launch EXCEPT ![a] = "asked"]
    /\ Send(Request(<<"launch", a>>, "command", a))
    /\ UNCHANGED <<core, tasks, journal, bindings, gates, poisoned, term, queue,
                   broker, fresh, activation, used>>

\* Where launchBackground puts a received action: a launch the dedupe knows is only
\* acknowledged again; enterLaunch refuses behind a hold; a broken client rejects
\* run().
Entered(a) == IF a \in own THEN "acking"
              ELSE IF Closed \/ poisoned THEN "failed" ELSE "run"

Enter(a) ==
    /\ launch' = [launch EXCEPT ![a] = Entered(a)]
    /\ runReq' = IF Entered(a) = "run" THEN runReq \cup {a} ELSE runReq
    /\ fresh' = IF Entered(a) = "run" THEN fresh \cup {a} ELSE fresh
    /\ IF Entered(a) = "acking"
       THEN TakeAndSend(Request(<<"launch", a>>, "launched", a)) ELSE Take

GotCommand(a) ==
    /\ Got(<<"launch", a>>, "command", a)
    /\ IF Answer THEN Enter(a)
       ELSE /\ launch' = [launch EXCEPT ![a] = "failed"] /\ Take
            /\ UNCHANGED <<runReq, fresh>>
    /\ UNCHANGED <<core, task, journal, bindings, gates, poisoned, term, queue,
                   broker, activation, used>>

\* External: the background-task service starts the process.
TaskStarts(a) ==
    /\ a \in runReq
    /\ runReq' = runReq \ {a}
    /\ task' = [task EXCEPT ![a] = "running"]
    /\ UNCHANGED <<core, wire, journal, bindings, gates, poisoned, launch, term,
                   queue, broker, fresh, activation, used>>

\* run() returned: rememberSpawn journals the task before the flight completes,
\* and handles a terminal that came first inside the flight.
RunReturns(a) ==
    /\ launch[a] = "run" /\ a \notin runReq
    /\ own' = own \cup {a}
    /\ journal' = [journal EXCEPT !.launch = @ \cup {a},
                                  !.term = IF a \in buffered THEN @ \cup {a} ELSE @]
    /\ IF a \in buffered
       THEN /\ buffered' = buffered \ {a} /\ bound' = bound
            /\ launch' = [launch EXCEPT ![a] = "nested"]
            /\ term' = [term EXCEPT ![a] = IF phase = "active" THEN "sent" ELSE "bad"]
            /\ IF phase = "active"
               THEN Send(Request(<<"term", a>>, "completed", a))
               ELSE UNCHANGED wire
       ELSE /\ bound' = bound \cup {a}
            /\ launch' = [launch EXCEPT ![a] = "acking"]
            /\ Send(Request(<<"launch", a>>, "launched", a))
            /\ UNCHANGED <<buffered, term>>
    /\ UNCHANGED <<core, tasks, gates, poisoned, queue, broker, fresh, activation,
                   used>>

\* registerSuccessfulRun cannot append: the binding stays in memory and the gate
\* closes.
RunNotJournaled(a) ==
    /\ launch[a] = "run" /\ a \notin runReq
    /\ used.appends < MaxAppendFailures
    /\ used' = [used EXCEPT !.appends = @ + 1]
    /\ own' = own \cup {a}
    /\ hold' = "permanent"
    /\ launch' = [launch EXCEPT ![a] = "failed"]
    /\ UNCHANGED <<core, wire, tasks, journal, bound, buffered, activationHold,
                   poisoned, term, queue, broker, fresh, activation>>

\* PiBackgroundTaskClient.request: no answer within TRANSPORT_TIMEOUT_MS.
RunTimesOut(a) ==
    /\ launch[a] = "run"
    /\ used.timeouts < MaxTimeouts
    /\ used' = [used EXCEPT !.timeouts = @ + 1]
    /\ launch' = [launch EXCEPT ![a] = "failed"]
    /\ UNCHANGED <<core, wire, tasks, journal, bindings, gates, poisoned, term,
                   queue, broker, fresh, activation>>

\* The launch row is acknowledged: markLaunchAcknowledged.
GotLaunchAck(a) ==
    /\ launch[a] = "acking" /\ Got(<<"launch", a>>, "launched", a)
    /\ journal' = [journal EXCEPT !.ack = @ \cup {a}]
    /\ launch' = [launch EXCEPT ![a] = "done"]
    /\ Take
    /\ UNCHANGED <<core, tasks, bindings, gates, poisoned, term, queue, broker,
                   fresh, activation, used>>

-----------------------------------------------------------------------------
(* Terminals: receiveTerminal, handleTerminal.                             *)

\* The queue of terminal deliveries after a task has ended.
Delivered(a) == IF Up THEN Append(queue, a) ELSE queue

\* External: a task ends by itself.  Every end other than success is one status.
TaskEnds(a) ==
    /\ task[a] = "running" /\ used.ends < MaxEnds
    /\ used' = [used EXCEPT !.ends = @ + 1]
    /\ \E status \in {"completed", "killed"} : task' = [task EXCEPT ![a] = status]
    /\ queue' = Delivered(a)
    /\ UNCHANGED <<core, wire, runReq, journal, bindings, gates, poisoned,
                   launch, term, broker, fresh, activation>>

\* rememberProtocolError: every pending and later request of the client fails.
Poison ==
    /\ poisoned' = TRUE
    /\ launch' = [a \in Actions |-> IF launch[a] = "run" THEN "failed"
                                    ELSE launch[a]]

\* The handler chain takes the next terminal.  An unknown one is buffered; a known
\* one is tombstoned and forwarded; before the activation is complete
\* requireServices throws.
HandlerTakes ==
    /\ queue # <<>>
    /\ LET a == Head(queue) IN
         \/ /\ a \notin bound /\ term[a] = "none"
            /\ buffered' = buffered \cup {a}
            /\ queue' = Tail(queue)
            /\ UNCHANGED <<wire, journal, bound, poisoned, launch, term>>
         \/ /\ a \in bound
            /\ bound' = bound \ {a}
            /\ journal' = [journal EXCEPT !.term = @ \cup {a}]
            /\ IF phase = "active"
               THEN /\ term' = [term EXCEPT ![a] = "sent"]
                    /\ Send(Request(<<"term", a>>, "completed", a))
                    /\ UNCHANGED <<queue, poisoned, launch>>
               ELSE /\ queue' = Tail(queue)
                    /\ Poison
                    /\ UNCHANGED <<wire, term>>
            /\ UNCHANGED buffered
    /\ UNCHANGED <<core, tasks, own, gates, broker, fresh, activation, used>>

\* applyAndRecord of the task-completed answer.
GotCompleted(a) ==
    /\ term[a] = "sent" /\ Got(<<"term", a>>, "completed", a)
    /\ IF Answer
       THEN /\ Enter(NextOf[a])
            /\ term' = [term EXCEPT ![a] = "cont"]
       ELSE /\ term' = [term EXCEPT ![a] = "ok"] /\ Take
            /\ UNCHANGED <<launch, runReq, fresh>>
    /\ UNCHANGED <<core, task, journal, bindings, gates, poisoned, queue, broker,
                   activation, used>>

Succeeded(a) == \/ term[a] = "ok"
                \/ term[a] = "cont" /\ launch[NextOf[a]] = "done"
Broken(a) == \/ term[a] = "bad"
             \/ term[a] = "cont" /\ launch[NextOf[a]] = "failed"

\* Who awaits the terminal of a: its own launch, the handler chain (at its head) or
\* the activation.
Nested(a)  == launch[a] = "nested"
Handled(a) == ~Nested(a) /\ phase = "active" /\ queue # <<>> /\ Head(queue) = a

\* markTerminalForwarded, and the waiter goes on.
TerminalForwarded(a) ==
    /\ Succeeded(a)
    /\ journal' = [journal EXCEPT !.fwd = @ \cup {a}]
    /\ term' = [term EXCEPT ![a] = "done"]
    /\ IF Nested(a)
       THEN /\ launch' = [launch EXCEPT ![a] = "acking"]
            /\ Send(Request(<<"launch", a>>, "launched", a))
       ELSE UNCHANGED <<launch, wire>>
    /\ queue' = IF Handled(a) THEN Tail(queue) ELSE queue
    /\ todo' = todo \ {a}
    /\ UNCHANGED <<core, tasks, bindings, gates, poisoned, broker, fresh, phase,
                   gateObserved, used>>

\* The terminal could not be forwarded.  In the handler chain this breaks the
\* client; in a launch it rejects the launch.  (In an activation: ActivationFails.)
TerminalFails(a) ==
    /\ Broken(a)
    /\ term' = [term EXCEPT ![a] = "failed"]
    /\ \/ /\ Nested(a)
          /\ launch' = [launch EXCEPT ![a] = "failed"]
          /\ UNCHANGED <<poisoned, queue>>
       \/ /\ Handled(a)
          /\ queue' = Tail(queue)
          /\ Poison
    /\ UNCHANGED <<core, wire, tasks, journal, bindings, gates, broker, fresh,
                   activation, used>>

-----------------------------------------------------------------------------
(* The broker: handleConnection for a BLOCKED report.                      *)

\* External: a child reports over a new connection; acquireBlockedAdmission closes
\* the scheduling hold and awaits the flights of this moment.
ChildReports(r) ==
    /\ Up /\ r \in fresh /\ task[r] = "running" /\ conn[r] = "idle"
    /\ used.reports < MaxReports
    /\ used' = [used EXCEPT !.reports = @ + 1]
    /\ hold' = IF hold = "open" THEN "provisional" ELSE hold
    /\ conn' = [conn EXCEPT ![r] = "drain"]
    /\ pend' = [pend EXCEPT ![r] = Flights]
    /\ UNCHANGED <<core, wire, tasks, journal, bindings, activationHold, poisoned,
                   launch, term, queue, applied, obs, killing, fresh, activation>>

\* Mutant: the flights are not awaited.
DrainedAtOnce(r) ==
    /\ conn[r] = "drain"
    /\ conn' = [conn EXCEPT ![r] = "acks"]
    /\ pend' = [pend EXCEPT ![r] = own \ journal.ack]
    /\ UNCHANGED <<core, wire, tasks, journal, bindings, gates, poisoned, launch,
                   term, queue, applied, obs, killing, fresh, activation, used>>

\* Every flight has settled: replayPendingLaunchAcknowledgements starts.
Drained(r) ==
    /\ conn[r] = "drain" /\ pend[r] \cap Flights = {}
    /\ conn' = [conn EXCEPT ![r] = "acks"]
    /\ pend' = [pend EXCEPT ![r] = own \ journal.ack]
    /\ UNCHANGED <<core, wire, tasks, journal, bindings, gates, poisoned, launch,
                   term, queue, applied, obs, killing, fresh, activation, used>>

AckNext(r) ==
    /\ conn[r] = "acks"
    /\ \/ \E a \in pend[r] :
            /\ pend' = [pend EXCEPT ![r] = @ \ {a}]
            /\ conn' = [conn EXCEPT ![r] = "acking"]
            /\ Send(Request(<<"conn", r>>, "launched", a))
       \/ /\ pend[r] = {} /\ pend' = pend
          /\ conn' = [conn EXCEPT ![r] = "sent"]
          /\ Send(Request(<<"conn", r>>, "blocked", r))
    /\ UNCHANGED <<core, tasks, journal, bindings, gates, poisoned, launch, term,
                   queue, applied, obs, killing, fresh, activation, used>>

GotConnAck(r, a) ==
    /\ conn[r] = "acking" /\ Got(<<"conn", r>>, "launched", a)
    /\ journal' = [journal EXCEPT !.ack = @ \cup {a}]
    /\ conn' = [conn EXCEPT ![r] = "acks"]
    /\ Take
    /\ UNCHANGED <<core, tasks, bindings, gates, poisoned, launch, term, queue, pend,
                   applied, obs, killing, fresh, activation, used>>

\* RETRY: a completely written response releases the hold, whoever closed it; a
\* write to a child that is gone may fail and keeps it.
GotRetry(r) ==
    /\ conn[r] = "sent" /\ Got(<<"conn", r>>, "blocked", r) /\ Answer = None
    /\ conn' = [conn EXCEPT ![r] = "idle"]
    /\ \/ hold' = IF hold = "provisional" THEN "open" ELSE hold
       \/ task[r] # "running" /\ hold' = hold
    /\ Take
    /\ UNCHANGED <<core, tasks, journal, bindings, activationHold, poisoned, launch,
                   term, queue, pend, applied, obs, killing, fresh, activation, used>>

\* promoteBlockedGate accepts a directive over owned tasks that is not another gate.
Promotable(g) == g.members \subseteq own /\ journal.gate \in {None, g}

\* ACCEPT: applyBlockedGate makes the gate durable before the child sees its answer,
\* and then refuses one with a task that rememberSpawn could not journal.
GotAccept(r) ==
    /\ conn[r] = "sent" /\ Got(<<"conn", r>>, "blocked", r) /\ Answer # None
    /\ IF Promotable(Answer)
       THEN /\ journal' = [journal EXCEPT !.gate = Answer]
            /\ hold' = "permanent"
            /\ IF Answer.members \subseteq journal.launch
               THEN applied' = TRUE /\ conn' = [conn EXCEPT ![r] = "cancel"]
               ELSE conn' = [conn EXCEPT ![r] = "idle"] /\ UNCHANGED applied
       ELSE /\ conn' = [conn EXCEPT ![r] = "idle"]
            /\ UNCHANGED <<journal, hold, applied>>
    /\ Take
    /\ UNCHANGED <<core, tasks, bindings, activationHold, poisoned, launch, term,
                   queue, pend, obs, killing, fresh, activation, used>>

-----------------------------------------------------------------------------
(* The cancellations.  One attempt is shared by all that await it.         *)

Cancelling == \/ \E r \in Reporters : conn[r] = "cancel"
              \/ obs = "cancel" \/ phase = "gate"

NonReportersCancelled == NonReporters(journal.gate) \subseteq journal.cancelled

ReporterReleased == obs = "reporter" \/ phase = "reporter"

\* The tasks the attempt in progress may kill next.
KillTargets ==
    IF ReporterReleased THEN {journal.gate.reporter} \ journal.cancelled
    ELSE IF Cancelling THEN NonReporters(journal.gate) \ journal.cancelled
    ELSE {}

\* killMany([id]) reaches the service: a running task dies, one that has ended is an
\* idempotent failure.
Kill(a) ==
    /\ killing = None /\ ~poisoned /\ a \in KillTargets
    /\ killing' = a
    /\ IF task[a] = "running"
       THEN task' = [task EXCEPT ![a] = "killed"] /\ queue' = Delivered(a)
       ELSE UNCHANGED <<task, queue>>
    /\ UNCHANGED <<core, wire, runReq, journal, bindings, gates, poisoned,
                   launch, term, conn, pend, applied, obs, fresh, activation, used>>

\* The kill was answered: markCancelled.
Cancelled ==
    /\ killing # None /\ ~poisoned
    /\ journal' = [journal EXCEPT !.cancelled = @ \cup {killing}]
    /\ killing' = None
    /\ UNCHANGED <<core, wire, tasks, bindings, gates, poisoned, launch, term, queue,
                   conn, pend, applied, obs, fresh, activation, used>>

\* The kill is rejected by a broken client or times out, before or after the service
\* acted on it: the attempt fails for every connection and observation that awaits it.
\* (In an activation: ActivationFails.)
KillFails ==
    /\ KillTargets # {} /\ phase = "active"
    /\ \/ poisoned /\ used' = used
       \/ /\ used.timeouts < MaxTimeouts
          /\ used' = [used EXCEPT !.timeouts = @ + 1]
    /\ killing' = None
    /\ conn' = [r \in Reporters |-> IF conn[r] = "cancel" THEN "idle" ELSE conn[r]]
    /\ obs' = IF obs \in {"cancel", "reporter"} THEN "failed" ELSE obs
    /\ UNCHANGED <<core, wire, tasks, journal, bindings, gates, poisoned, launch,
                   term, queue, pend, applied, fresh, activation>>

\* afterChildResponseWritten is through.
ConnectionEnds(r) ==
    /\ conn[r] = "cancel" /\ NonReportersCancelled
    /\ conn' = [conn EXCEPT ![r] = "idle"]
    /\ UNCHANGED <<core, wire, tasks, journal, bindings, gates, poisoned, launch,
                   term, queue, pend, applied, obs, killing, fresh, activation, used>>

-----------------------------------------------------------------------------
(* The reporter's observation: forwardBlockedResultObserved.               *)

\* External: the reporter's runner, once it has its ACCEPT, says so once.
ObservationArrives ==
    /\ applied /\ obs = "none" /\ ~journal.arrived
    /\ journal.gate.reporter \in fresh /\ task[journal.gate.reporter] = "running"
    /\ journal' = [journal EXCEPT !.arrived = TRUE]
    /\ obs' = "cancel"
    /\ UNCHANGED <<core, wire, tasks, bindings, gates, poisoned, launch, term, queue,
                   conn, pend, applied, killing, fresh, activation, used>>

\* Mutant: the observation is forwarded without the cancellations.
ForwardObservationFirst ==
    /\ obs = "cancel"
    /\ obs' = "sent"
    /\ Send(Request(<<"obs", journal.gate.reporter>>, "observed",
                    journal.gate.reporter))
    /\ UNCHANGED <<core, tasks, journal, bindings, gates, poisoned, launch, term,
                   queue, conn, pend, applied, killing, fresh, activation, used>>

\* Mutant: the observation is journaled as acknowledged when it is sent.
ForwardObservationJournaled ==
    /\ obs = "cancel" /\ NonReportersCancelled
    /\ obs' = "sent"
    /\ journal' = [journal EXCEPT !.observed = TRUE]
    /\ Send(Request(<<"obs", journal.gate.reporter>>, "observed",
                    journal.gate.reporter))
    /\ UNCHANGED <<core, tasks, bindings, gates, poisoned, launch, term, queue, conn,
                   pend, applied, killing, fresh, activation, used>>

\* The nonreporters are cancelled first, then the Core is told.
ForwardObservation ==
    /\ obs = "cancel" /\ NonReportersCancelled
    /\ obs' = "sent"
    /\ Send(Request(<<"obs", journal.gate.reporter>>, "observed",
                    journal.gate.reporter))
    /\ UNCHANGED <<core, tasks, journal, bindings, gates, poisoned, launch, term,
                   queue, conn, pend, applied, killing, fresh, activation, used>>

\* afterBlockedResultAcknowledged: the acknowledgement is journaled, then the
\* reporter is killed last (Kill).
GotObserved ==
    /\ obs = "sent"
    /\ Got(<<"obs", journal.gate.reporter>>, "observed", journal.gate.reporter)
    /\ journal' = [journal EXCEPT !.observed = TRUE]
    /\ obs' = "reporter"
    /\ Take
    /\ UNCHANGED <<core, tasks, bindings, gates, poisoned, launch, term, queue, conn,
                   pend, applied, killing, fresh, activation, used>>

ObservationEnds ==
    /\ obs = "reporter" /\ journal.gate.reporter \in journal.cancelled
    /\ obs' = "done"
    /\ UNCHANGED <<core, wire, tasks, journal, bindings, gates, poisoned, launch,
                   term, queue, conn, pend, applied, killing, fresh, activation, used>>

-----------------------------------------------------------------------------
(* The activation transaction: restoreOwnership, replayed acknowledgements, *)
(* reconciliation, replayed terminals.                                     *)

\* HostOwnershipCoordinator.restore: every row needs the launch row of its task.
Restorable ==
    /\ journal.ack \cup journal.term \subseteq journal.launch
    /\ journal.gate # None => journal.gate.members \subseteq journal.launch

\* An operator's command activates a Host that is down.  What the old Core had not
\* read is lost with its pipe.
Activate ==
    /\ phase = "down" /\ Restorable
    /\ phase' = "acks" /\ todo' = journal.launch \ journal.ack
    /\ own' = journal.launch /\ bound' = journal.launch \ journal.term
    /\ hold' = IF journal.gate # None THEN "permanent" ELSE "open"
    /\ toCore' = <<>>
    /\ UNCHANGED <<core, toHost, tasks, journal, buffered, activationHold, poisoned,
                   launch, term, queue, broker, fresh, gateObserved, used>>

ReplayAck ==
    /\ phase = "acks"
    /\ \/ \E a \in todo :
            /\ phase' = "acking" /\ todo' = todo \ {a}
            /\ Send(Request(<<"act", None>>, "launched", a))
       \/ /\ todo = {} /\ todo' = todo
          /\ phase' = "reconcile"
          /\ Send(Request(<<"act", None>>, "reconcile", None))
    /\ UNCHANGED <<core, tasks, journal, bindings, gates, poisoned, launch, term,
                   queue, broker, fresh, gateObserved, used>>

GotReplayedAck(a) ==
    /\ phase = "acking" /\ Got(<<"act", None>>, "launched", a)
    /\ journal' = [journal EXCEPT !.ack = @ \cup {a}]
    /\ phase' = "acks"
    /\ Take
    /\ UNCHANGED <<core, tasks, bindings, gates, poisoned, launch, term, queue,
                   broker, fresh, todo, gateObserved, used>>

\* finishActivation opens the activation hold; then replayPendingTerminals.
Finish ==
    /\ phase' = "terminals" /\ activationHold' = FALSE
    /\ todo' = journal.term \ journal.fwd

\* Mutant: a gate the journal already has is taken as finished.
GotReconciledOnce ==
    /\ phase = "reconcile" /\ Got(<<"act", None>>, "reconcile", None)
    /\ \/ /\ Answer.gate = journal.gate
          /\ Finish
          /\ UNCHANGED <<journal, hold, applied, gateObserved>>
       \/ /\ Answer.gate # None /\ journal.gate = None /\ Promotable(Answer.gate)
          /\ journal' = [journal EXCEPT !.gate = Answer.gate]
          /\ hold' = "permanent" /\ applied' = TRUE
          /\ phase' = "gate" /\ gateObserved' = Answer.observed
          /\ UNCHANGED <<activationHold, todo>>
    /\ Take
    /\ UNCHANGED <<core, tasks, bindings, poisoned, launch, term, queue, conn, pend,
                   obs, killing, fresh, used>>

\* assertReconciled, and reconcileBlockedGate for the one gate.
GotReconciled ==
    /\ phase = "reconcile" /\ Got(<<"act", None>>, "reconcile", None)
    /\ \/ /\ Answer.gate = None /\ journal.gate = None
          /\ Finish
          /\ UNCHANGED <<journal, hold, applied, gateObserved>>
       \/ /\ Answer.gate # None /\ Promotable(Answer.gate)
          /\ journal' = [journal EXCEPT !.gate = Answer.gate]
          /\ hold' = "permanent" /\ applied' = TRUE
          /\ phase' = "gate" /\ gateObserved' = Answer.observed
          /\ UNCHANGED <<activationHold, todo>>
    /\ Take
    /\ UNCHANGED <<core, tasks, bindings, poisoned, launch, term, queue, conn, pend,
                   obs, killing, fresh, used>>

\* The nonreporters are cancelled: release the reporter when the Core has observed
\* it, tell the Core when only the journal has, else leave it to its own child.
GateReconciled ==
    /\ phase = "gate" /\ NonReportersCancelled
    /\ \/ /\ gateObserved
          /\ journal' = [journal EXCEPT !.observed = TRUE]
          /\ phase' = "reporter"
          /\ UNCHANGED <<wire, activationHold, todo>>
       \/ /\ ~gateObserved /\ journal.arrived
          /\ phase' = "observe"
          /\ Send(Request(<<"act", None>>, "observed", journal.gate.reporter))
          /\ UNCHANGED <<journal, activationHold, todo>>
       \/ /\ ~gateObserved /\ ~journal.arrived
          /\ Finish
          /\ UNCHANGED <<journal, wire>>
    /\ UNCHANGED <<core, tasks, bindings, hold, poisoned, launch, term, queue, broker,
                   fresh, gateObserved, used>>

GotReplayedObservation ==
    /\ phase = "observe"
    /\ Got(<<"act", None>>, "observed", journal.gate.reporter)
    /\ journal' = [journal EXCEPT !.observed = TRUE]
    /\ phase' = "reporter"
    /\ Take
    /\ UNCHANGED <<core, tasks, bindings, gates, poisoned, launch, term, queue,
                   broker, fresh, todo, gateObserved, used>>

ReporterCancelled ==
    /\ phase = "reporter" /\ journal.gate.reporter \in journal.cancelled
    /\ Finish
    /\ UNCHANGED <<core, wire, tasks, journal, bindings, hold, poisoned, launch, term,
                   queue, broker, fresh, gateObserved, used>>

\* replayPendingTerminals, one at a time.
ReplayTerminal(a) ==
    /\ phase = "terminals" /\ a \in todo
    /\ \A b \in todo : term[b] = "none"
    /\ term' = [term EXCEPT ![a] = "sent"]
    /\ Send(Request(<<"term", a>>, "completed", a))
    /\ UNCHANGED <<core, tasks, journal, bindings, gates, poisoned, launch, queue,
                   broker, fresh, activation, used>>

ActivationCompletes ==
    /\ phase = "terminals" /\ todo = {}
    /\ phase' = "active"
    /\ UNCHANGED <<core, wire, tasks, journal, bindings, gates, poisoned, launch,
                   term, queue, broker, fresh, todo, gateObserved, used>>

\* The process, or the services of a failed activation, are gone.
Gone ==
    /\ own' = {} /\ bound' = {} /\ buffered' = {}
    /\ hold' = "open" /\ activationHold' = TRUE /\ poisoned' = FALSE
    /\ launch' = [a \in Actions |-> "none"] /\ term' = [a \in Actions |-> "none"]
    /\ queue' = <<>>
    /\ conn' = [r \in Reporters |-> "idle"] /\ pend' = [r \in Reporters |-> {}]
    /\ applied' = FALSE /\ obs' = "none" /\ killing' = None
    /\ fresh' = {}
    /\ phase' = "down" /\ todo' = {} /\ gateObserved' = FALSE
    /\ toHost' = <<>> /\ runReq' = {}

\* Any throw inside the transaction: reconciliation conflicts with the journal, a
\* kill is rejected or times out, a terminal's continuation cannot be launched.
ActivationFails ==
    /\ \/ /\ phase = "reconcile" /\ Got(<<"act", None>>, "reconcile", None)
          /\ IF Answer.gate = None THEN journal.gate # None ELSE ~Promotable(Answer.gate)
          /\ used' = used
       \/ /\ phase \in {"gate", "reporter"} /\ KillTargets # {}
          /\ \/ poisoned /\ used' = used
             \/ /\ used.timeouts < MaxTimeouts
                /\ used' = [used EXCEPT !.timeouts = @ + 1]
       \/ /\ phase = "terminals" /\ \E a \in todo : Broken(a)
          /\ used' = used
    /\ Gone
    /\ UNCHANGED <<core, toCore, task, journal>>

-----------------------------------------------------------------------------
(* Crashes.                                                                *)

\* A crash or reload of the Host: the journal and the tasks survive.
HostCrash ==
    /\ Up /\ used.host < MaxHostCrashes
    /\ used' = [used EXCEPT !.host = @ + 1]
    /\ Gone
    /\ UNCHANGED <<core, toCore, task, journal>>

ActivationAwaits ==
    \/ phase \in {"acking", "reconcile", "observe"}
    \/ phase = "terminals" /\ \E a \in todo : term[a] = "sent"

\* The Core exits: failPending rejects every outstanding request.  A connection
\* closes with its hold retained.
CoreCrash ==
    /\ Up /\ used.core < MaxCoreCrashes
    /\ toCore # <<>> \/ toHost # <<>>
    /\ used' = [used EXCEPT !.core = @ + 1]
    /\ toCore' = <<>>
    /\ IF ActivationAwaits THEN Gone
       ELSE /\ toHost' = <<>>
            /\ launch' = [a \in Actions |->
                            IF launch[a] \in {"asked", "acking"} THEN "failed"
                            ELSE launch[a]]
            /\ term' = [a \in Actions |-> IF term[a] = "sent" THEN "bad" ELSE term[a]]
            /\ conn' = [r \in Reporters |->
                          IF conn[r] \in {"acking", "sent"} THEN "idle" ELSE conn[r]]
            /\ obs' = IF obs = "sent" THEN "failed" ELSE obs
            /\ UNCHANGED <<runReq, bindings, gates, poisoned, queue, pend, applied,
                           killing, fresh, activation>>
    /\ UNCHANGED <<core, task, journal>>

-----------------------------------------------------------------------------
(* The system.                                                             *)

\* Steps a live process takes without being asked.
Progress ==
    \/ ServeCommand \/ ServeLaunched \/ ServeCompleted \/ ServeBlocked
    \/ ServeObserved \/ ServeReconcile
    \/ \E a \in Actions :
         \/ GotCommand(a) \/ TaskStarts(a) \/ RunReturns(a) \/ GotLaunchAck(a)
         \/ GotCompleted(a) \/ TerminalForwarded(a) \/ TerminalFails(a)
         \/ Kill(a) \/ GotReplayedAck(a) \/ ReplayTerminal(a)
    \/ HandlerTakes
    \/ \E r \in Reporters :
         \/ Drained(r) \/ AckNext(r) \/ (\E a \in Actions : GotConnAck(r, a))
         \/ GotRetry(r) \/ GotAccept(r) \/ ConnectionEnds(r)
    \/ Cancelled \/ (poisoned /\ KillFails)
    \/ ForwardObservation \/ GotObserved \/ ObservationEnds
    \/ ReplayAck \/ GotReconciled \/ GateReconciled
    \/ GotReplayedObservation \/ ReporterCancelled \/ ActivationCompletes
    \/ ActivationFails

\* Choices of the operator, of the children and of the machine.
Environment ==
    \/ Activate
    \/ \E a \in Actions : \/ Command(a) \/ TaskEnds(a) \/ RunNotJournaled(a)
                          \/ RunTimesOut(a)
    \/ \E r \in Reporters : ChildReports(r)
    \/ KillFails
    \/ ObservationArrives
    \/ HostCrash \/ CoreCrash

Next == Progress \/ Environment

Spec == Init /\ [][Next]_vars

FairSpec == Spec /\ WF_vars(Progress)

-----------------------------------------------------------------------------
(* Properties.                                                             *)

\* Type invariant of the durable state, the process and its fibers.
TypeOK ==
    /\ core.issued \cup core.acked \cup core.consumed \subseteq Actions
    /\ core.gate \in Gate \cup {None} /\ journal.gate \in Gate \cup {None}
    /\ journal.launch \cup journal.ack \cup journal.term \cup journal.fwd
         \cup journal.cancelled \subseteq Actions
    /\ task \in [Actions -> {"none", "running", "completed", "killed"}]
    /\ own \cup bound \cup buffered \cup fresh \cup runReq \subseteq Actions
    /\ hold \in {"open", "provisional", "permanent"}
    /\ poisoned \in BOOLEAN
    /\ launch \in [Actions -> {"none", "asked", "run", "nested", "acking", "done",
                               "failed"}]
    /\ term \in [Actions -> {"none", "sent", "cont", "ok", "bad", "done", "failed"}]
    /\ conn \in [Reporters -> {"idle", "drain", "acks", "acking", "sent", "cancel"}]
    /\ obs \in {"none", "cancel", "sent", "reporter", "done", "failed"}
    /\ killing \in Actions \cup {None}
    /\ phase \in {"down", "acks", "acking", "reconcile", "gate", "observe",
                  "reporter", "terminals", "active"}

\* Once the Core has latched, every running task the Host owns is in the frozen set:
\* closing the hold, draining the flights and replaying the acknowledgements before
\* the report is forwarded leaves no task that the gate would miss, "so a BLOCKED
\* snapshot drains returned runs completely" (launchBackground).
SnapshotCoversRunning ==
    core.gate # None =>
        \A a \in own \cup journal.launch :
            task[a] = "running" => a \in core.gate.members

\* The reporter is killed last: by then every other member of the gate has stopped
\* and is recorded, and both sides have recorded the observation, however many
\* crashes and attempts it took (cancelReporter, reconcileBlockedGate).
ReporterKilledLast ==
    journal.gate # None /\ (killing = journal.gate.reporter \/
                            journal.gate.reporter \in journal.cancelled) =>
        /\ NonReportersCancelled
        /\ \A a \in NonReporters(journal.gate) : task[a] # "running"
        /\ journal.observed /\ core.observed

\* A reconciliation answer always agrees with the journal, so assertReconciled and
\* promoteBlockedGate cannot refuse it after a crash, unless it names a task whose
\* launch row could not be appended.
ReconciliationAgrees ==
    phase = "reconcile" /\ Got(<<"act", None>>, "reconcile", None) =>
        IF Answer.gate = None THEN journal.gate = None
        ELSE /\ journal.gate \in {None, Answer.gate}
             /\ journal.observed => Answer.observed
             /\ used.appends = 0 => Answer.gate.members \subseteq own

\* A live Host brings the other tasks of a promoted gate to a stop by itself, also one
\* that was activated again after it went down in the middle of the cancellation.
\* Three things end that duty: the Host is down, and stays so until an operator's
\* command; its task client met a protocol error, and rejects every kill; a run() or a
\* kill timed out.
GateTasksStop ==
    journal.gate # None ~>
        \/ /\ journal.gate # None
           /\ \A a \in NonReporters(journal.gate) : task[a] # "running"
        \/ phase = "down" \/ poisoned \/ used.timeouts > 0
=============================================================================
