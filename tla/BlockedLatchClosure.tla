------------------------ MODULE BlockedLatchClosure ------------------------
(***************************************************************************)
(* With crashes but without failed writes in a live process                 *)
(* (MaxIoFailures = 0): the frozen snapshot really closes its workstream,   *)
(* and the transaction implements WorkstreamLatch.                         *)
(*                                                                         *)
(* The two invariants of interest are not inductive: that no launch passes  *)
(* depends on the in-memory projection being complete whenever the Core is  *)
(* ready to serve, which is what Closed adds.                              *)
(***************************************************************************)
EXTENDS BlockedLatchProofs

\* A serving Core whose projection is not degraded knows every frozen
\* transaction (rebuild_blocked_latches refuses while one is pending).
Complete ==
    Ready /\ ~projErr =>
        /\ proj = accepted
        /\ \A b \in Bindings : prepared[b] # None => b \in accepted

\* A fresh transaction is only prepared in a workstream that has none.
Exclusive ==
    /\ \A b, c \in Bindings :
         prepared[b] # None /\ prepared[c] # None
           /\ WorkstreamOf[b] = WorkstreamOf[c] => b = c
    /\ op.step = "prepare" =>
         \A b \in Bindings :
           WorkstreamOf[b] = WorkstreamOf[op.binding] => prepared[b] = None

FromIssued ==
    /\ \A b \in Bindings : prepared[b] # None => b \in issued
    /\ op.step = "prepare" => op.binding \in issued

Released == observed \subseteq accepted

Closed ==
    /\ Complete /\ Exclusive /\ FromIssued /\ Released
    /\ NothingSpawnedBehindSnapshot

\* A restart finds no root it did not know of.
Synced == \A b \in Bindings : unsynced[<<"accepted", b>>] = 0

LEMMA InitSynced == Init => Synced
  BY DEF Init, Synced, Rows

LEMMA NextSynced ==
  ASSUME MaxIoFailures = 0, TypeOK, Synced, [Next]_vars
  PROVE  Synced' /\ (Open => UNCHANGED accepted)
<1>1. CASE Open
  BY <1>1 DEF Open, Synced, Rows
<1>2. CASE WriteFails
  BY <1>2, BlockedLatchAssumption DEF WriteFails, TypeOK
<1>3. CASE unsynced' = unsynced /\ ~Open
  BY <1>3 DEF Synced
<1>4. ASSUME NEW b \in Bindings, Spawn(b) \/ LaunchAck(b) \/ TaskCompleted(b)
      PROVE  unsynced' = unsynced
  BY <1>4 DEF Spawn, LaunchAck, TaskCompleted, rootVars
<1>5. ASSUME NEW b \in Bindings, NEW call \in ToolCalls, ResultObserved(b, call)
      PROVE  unsynced' = unsynced
  BY <1>5 DEF ResultObserved, rootVars
<1>6. ASSUME NEW b \in Bindings, NEW r \in Reports, NEW call \in ToolCalls,
             RootedAlias(b, r, call) \/ RecoverPending(b, r, call)
               \/ Admit(b, r, call)
      PROVE  unsynced' = unsynced
  BY <1>6 DEF RootedAlias, RecoverPending, Admit, rootVars
<1>7. CASE \/ WritePrepared \/ WriteReceipt \/ WriteLatch \/ AppendAccepted
           \/ AppendEventRef \/ NextBinding
  <2>1. unsynced' = unsynced
    BY <1>7 DEF WritePrepared, WriteReceipt, WriteLatch, AppendAccepted,
                AppendEventRef, NextBinding, rootVars
  <2> QED  BY <1>1, <1>3, <2>1
<1>8. CASE Finish \/ Reconcile \/ Crash \/ UNCHANGED vars
  <2>1. unsynced' = unsynced
    BY <1>8 DEF Finish, Reconcile, Crash, rootVars, vars
  <2> QED  BY <1>1, <1>3, <2>1
<1> QED
  BY <1>1, <1>2, <1>3, <1>4, <1>5, <1>6, <1>7, <1>8 DEF Next, Serve

LEMMA InitClosed == Init => Closed
<1> SUFFICES ASSUME Init PROVE Closed
  OBVIOUS
<1>1. op.step = "none"
  BY DEF Init, Idle
<1> QED
  BY <1>1 DEF Init, Closed, Complete, Exclusive, FromIssued, Released,
              NothingSpawnedBehindSnapshot

LEMMA NextClosed ==
  ASSUME MaxIoFailures = 0, TypeOK, Staged, Synced, Closed, [Next]_vars
  PROVE  Closed'
<1> USE BlockedLatchAssumption DEF Closed
<1>0. Idle.step = "none" /\ Idle.left = {} /\ Idle.kind = "idle"
  BY DEF Idle
<1>1. ASSUME NEW b \in Bindings, Spawn(b) PROVE Closed'
  <2>1. /\ Complete' /\ Exclusive' /\ FromIssued' /\ Released'
    BY <1>1 DEF Spawn, fileVars, rootVars, memVars, Ready, Complete, Exclusive,
                FromIssued, Released
  <2>2. \A c \in Bindings : prepared[c] # None =>
          WorkstreamOf[c] # WorkstreamOf[b]
    BY <1>1 DEF Spawn, Unblocked, Complete
  <2>3. NothingSpawnedBehindSnapshot'
    BY <1>1, <2>2
    DEF Spawn, fileVars, NothingSpawnedBehindSnapshot, Scope
  <2> QED  BY <2>1, <2>3
<1>2. ASSUME NEW b \in Bindings, LaunchAck(b) PROVE Closed'
  BY <1>2 DEF LaunchAck, fileVars, rootVars, memVars, Ready, Complete, Exclusive,
              FromIssued, Released, NothingSpawnedBehindSnapshot
<1>3. ASSUME NEW b \in Bindings, TaskCompleted(b) PROVE Closed'
  <2>1. /\ Complete' /\ Exclusive' /\ FromIssued' /\ Released'
    BY <1>3 DEF TaskCompleted, fileVars, rootVars, memVars, Ready, Complete,
                Exclusive, FromIssued, Released
  <2>2. CASE ~Unblocked(WorkstreamOf[b])
    BY <1>3, <2>1, <2>2 DEF TaskCompleted, fileVars, NothingSpawnedBehindSnapshot
  <2>3. CASE Unblocked(WorkstreamOf[b])
    <3>1. \A c \in Bindings : prepared[c] # None =>
            WorkstreamOf[c] # WorkstreamOf[b]
      BY <1>3, <2>3 DEF TaskCompleted, Unblocked, Complete
    <3>2. NothingSpawnedBehindSnapshot'
      BY <1>3, <2>3, <3>1
      DEF TaskCompleted, fileVars, NothingSpawnedBehindSnapshot, Scope
    <3> QED  BY <2>1, <3>2
  <2> QED  BY <2>2, <2>3
<1>4. ASSUME NEW b \in Bindings, NEW call \in ToolCalls, ResultObserved(b, call)
      PROVE Closed'
  <2>1. Complete'
    BY <1>4 DEF ResultObserved, Rebuild, Rebuilds, Pending, logVars, fileVars,
                rootVars, Complete, FromIssued
  <2>2. Exclusive' /\ FromIssued' /\ Released' /\ NothingSpawnedBehindSnapshot'
    BY <1>4 DEF ResultObserved, logVars, fileVars, rootVars, Exclusive,
                FromIssued, Released, NothingSpawnedBehindSnapshot
  <2> QED  BY <2>1, <2>2
<1>5. ASSUME NEW b \in Bindings, NEW r \in Reports, NEW call \in ToolCalls,
             RootedAlias(b, r, call)
      PROVE Closed'
  BY <1>5 DEF RootedAlias, logVars, fileVars, rootVars, Ready, Complete,
              Exclusive, FromIssued, Released, NothingSpawnedBehindSnapshot
<1>6. ASSUME NEW b \in Bindings, NEW r \in Reports, NEW call \in ToolCalls,
             RecoverPending(b, r, call)
      PROVE Closed'
  <2>1. op'.kind = "recover" /\ op'.step = "receipt"
    BY <1>6 DEF RecoverPending, Start
  <2> QED
    BY <1>0, <1>6, <2>1
    DEF RecoverPending, logVars, fileVars, rootVars, memVars, Ready, Complete,
        Exclusive, FromIssued, Released, NothingSpawnedBehindSnapshot
<1>7. ASSUME NEW b \in Bindings, NEW r \in Reports, NEW call \in ToolCalls,
             Admit(b, r, call)
      PROVE Closed'
  <2>1. op'.kind = "admit" /\ op'.step = "prepare" /\ op'.binding = b
    BY <1>7 DEF Admit, Start
  <2>2. \A c \in Bindings : prepared[c] # None =>
          WorkstreamOf[c] # WorkstreamOf[b]
    BY <1>7 DEF Admit, Unblocked, Complete
  <2> QED
    BY <1>0, <1>7, <2>1, <2>2
    DEF Admit, logVars, fileVars, rootVars, memVars, Ready, Complete, Exclusive,
        FromIssued, Released, NothingSpawnedBehindSnapshot
<1>8. CASE WritePrepared
  <2>1. op'.step = "receipt" /\ op.step = "prepare" /\ op.binding \in Bindings
    BY <1>8 DEF WritePrepared, Advance, TypeOK, Operation
  <2>2. /\ \A c \in Bindings \ {op.binding} : prepared'[c] = prepared[c]
        /\ \A c \in Bindings \ {op.binding} : frozen'[c] = frozen[c]
        /\ frozen'[op.binding] = spawned \cap Scope(WorkstreamOf[op.binding])
    BY <1>8, <2>1 DEF WritePrepared, TypeOK
  <2>3. Complete'
    BY <1>0, <2>1 DEF Complete, Ready
  <2>4. Exclusive' /\ FromIssued' /\ Released' /\ NothingSpawnedBehindSnapshot'
    BY <1>8, <2>1, <2>2
    DEF WritePrepared, logVars, rootVars, Exclusive, FromIssued, Released,
        NothingSpawnedBehindSnapshot, Scope
  <2> QED  BY <2>3, <2>4
<1>9. CASE WriteReceipt
  <2>1. op'.step = "latch"
    BY <1>9 DEF WriteReceipt, Advance, Start, TypeOK, Operation
  <2>2. Complete'
    BY <1>0, <2>1 DEF Complete, Ready
  <2>3. Exclusive' /\ FromIssued' /\ Released' /\ NothingSpawnedBehindSnapshot'
    BY <1>9, <2>1
    DEF WriteReceipt, logVars, rootVars, Exclusive, FromIssued, Released,
        NothingSpawnedBehindSnapshot
  <2> QED  BY <2>2, <2>3
<1>10. CASE WriteLatch
  <2>1. op'.step = "accepted"
    BY <1>10 DEF WriteLatch, Advance, Start, TypeOK, Operation
  <2>2. Complete'
    BY <1>0, <2>1 DEF Complete, Ready
  <2>3. Exclusive' /\ FromIssued' /\ Released' /\ NothingSpawnedBehindSnapshot'
    BY <1>10, <2>1
    DEF WriteLatch, logVars, rootVars, Exclusive, FromIssued, Released,
        NothingSpawnedBehindSnapshot
  <2> QED  BY <2>2, <2>3
<1>11. CASE AppendAccepted
  <2>1. op'.step = "ref"
    BY <1>11 DEF AppendAccepted, Advance, Start, TypeOK, Operation
  <2>2. Complete'
    BY <1>0, <2>1 DEF Complete, Ready
  <2>3. Exclusive' /\ FromIssued' /\ Released' /\ NothingSpawnedBehindSnapshot'
    BY <1>11, <2>1
    DEF AppendAccepted, logVars, fileVars, Exclusive, FromIssued, Released,
        NothingSpawnedBehindSnapshot
  <2> QED  BY <2>2, <2>3
<1>12. CASE AppendEventRef
  <2>1. op'.step \in {"next", "rebuild"}
    BY <1>12 DEF AppendEventRef, Advance, Start, TypeOK, Operation
  <2>2. Complete'
    BY <1>0, <2>1 DEF Complete, Ready
  <2>3. Exclusive' /\ FromIssued' /\ Released' /\ NothingSpawnedBehindSnapshot'
    BY <1>12, <2>1
    DEF AppendEventRef, logVars, fileVars, Exclusive, FromIssued, Released,
        NothingSpawnedBehindSnapshot
  <2> QED  BY <2>2, <2>3
<1>13. CASE NextBinding
  <2>1. op'.step \in {"rebuild", "ref", "receipt"}
    BY <1>13 DEF NextBinding, Advance, Start, TypeOK, Operation
  <2>2. Complete'
    BY <1>0, <2>1 DEF Complete, Ready
  <2>3. Exclusive' /\ FromIssued' /\ Released' /\ NothingSpawnedBehindSnapshot'
    BY <1>13, <2>1
    DEF NextBinding, logVars, fileVars, rootVars, Exclusive, FromIssued, Released,
        NothingSpawnedBehindSnapshot
  <2> QED  BY <2>2, <2>3
<1>14. CASE Finish
  <2>1. Complete'
    BY <1>14 DEF Finish, Rebuild, Rebuilds, Pending, logVars, fileVars, rootVars,
                 Complete, FromIssued
  <2>2. Exclusive' /\ FromIssued' /\ Released' /\ NothingSpawnedBehindSnapshot'
    BY <1>14, <1>0 DEF Finish, logVars, fileVars, rootVars, Exclusive,
                FromIssued, Released, NothingSpawnedBehindSnapshot
  <2> QED  BY <2>1, <2>2
<1>15. CASE Reconcile
  <2>1. op'.step = "next"
    BY <1>15 DEF Reconcile, Advance, Start, TypeOK, Operation
  <2>2. Complete'
    BY <1>0, <2>1 DEF Complete, Ready
  <2>3. Exclusive' /\ FromIssued' /\ Released' /\ NothingSpawnedBehindSnapshot'
    BY <1>15, <2>1
    DEF Reconcile, logVars, fileVars, rootVars, Exclusive, FromIssued, Released,
        NothingSpawnedBehindSnapshot
  <2> QED  BY <2>2, <2>3
<1>16. CASE Crash
  BY <1>16, <1>0
  DEF Crash, logVars, fileVars, rootVars, Ready, Complete, Exclusive, FromIssued,
      Released, NothingSpawnedBehindSnapshot
<1>17. CASE Open
  <2>1. op'.step = "next"
    BY <1>17 DEF Open, Advance, Start, TypeOK, Operation
  <2>2. Complete'
    BY <1>0, <2>1 DEF Complete, Ready
  <2>3. Exclusive' /\ FromIssued' /\ Released' /\ NothingSpawnedBehindSnapshot'
    BY <1>17, <2>1, NextSynced
    DEF Open, logVars, fileVars, Exclusive, FromIssued, Released,
        NothingSpawnedBehindSnapshot
  <2> QED  BY <2>2, <2>3
<1>18. CASE WriteFails
  BY <1>18 DEF WriteFails, TypeOK
<1>19. CASE UNCHANGED vars
  BY <1>19 DEF vars, Ready, Complete, Exclusive, FromIssued, Released,
               NothingSpawnedBehindSnapshot
<1> QED
  BY <1>1, <1>2, <1>3, <1>4, <1>5, <1>6, <1>7, <1>8, <1>9, <1>10, <1>11, <1>12,
     <1>13, <1>14, <1>15, <1>16, <1>17, <1>18, <1>19
  DEF Next, Serve

\* From the moment a cancellation set is frozen no spawn of its workstream is sent
\* (ensure_workstream_unblocked on every launch path, and the projection rebuilt
\* or degraded before the next request), for any number of crashes, when no write
\* fails in a live process.
THEOREM ClosedBehindSnapshot ==
  ASSUME MaxIoFailures = 0
  PROVE  Spec => []NothingSpawnedBehindSnapshot
<1>1. Init => TypeOK /\ Staged /\ Synced /\ Closed
  BY InitType, InitStaged, InitSynced, InitClosed
<1>2. TypeOK /\ Staged /\ Synced /\ Closed /\ [Next]_vars
        => (TypeOK /\ Staged /\ Synced /\ Closed)'
  BY NextType, NextStaged, NextSynced, NextClosed
<1>3. Closed => NothingSpawnedBehindSnapshot
  BY DEF Closed
<1> QED
  BY <1>1, <1>2, <1>3, PTL DEF Spec

\* At most one accepted root per workstream, so project_blocked_latches never
\* meets a duplicate, under the same assumption.
THEOREM UniqueLatch ==
  ASSUME MaxIoFailures = 0
  PROVE  Spec => []OneLatchPerWorkstream
<1>1. Init => TypeOK /\ Staged /\ Synced /\ Closed
  BY InitType, InitStaged, InitSynced, InitClosed
<1>2. TypeOK /\ Staged /\ Synced /\ Closed /\ [Next]_vars
        => (TypeOK /\ Staged /\ Synced /\ Closed)'
  BY NextType, NextStaged, NextSynced, NextClosed
<1>3. TypeOK /\ Staged /\ Closed => OneLatchPerWorkstream
  BY DEF Closed, Exclusive, Staged, Published, OneLatchPerWorkstream, TypeOK
<1> QED
  BY <1>1, <1>2, <1>3, PTL DEF Spec

-----------------------------------------------------------------------------
(* Refinement: each step of the transaction is a step of WorkstreamLatch.   *)

LEMMA InitPromise == Init => Promise!Init
<1> SUFFICES ASSUME Init PROVE Promise!Init
  OBVIOUS
<1>1. \A w : Reporters(w) = {}
  BY DEF Init, Reporters
<1>2. \A w : PhaseOf(w) = "open"
  BY <1>1 DEF PhaseOf
<1>3. \A w : {prepared[b] : b \in Reporters(w)} = {}
  BY <1>1
<1>4. {WorkstreamOf[b] : b \in observed} = {}
  BY DEF Init
<1> QED
  BY <1>2, <1>3, <1>4 DEF Init, Promise!Init

LEMMA NextPromise ==
  ASSUME MaxIoFailures = 0, TypeOK, Staged, Synced, Closed, [Next]_vars
  PROVE  [Promise!Next]_(Promise!vars)
<1> USE BlockedLatchAssumption
<1>0. ASSUME UNCHANGED <<prepared, accepted>>
      PROVE  /\ \A w : Reporters(w)' = Reporters(w) /\ PhaseOf(w)' = PhaseOf(w)
             /\ UNCHANGED [w \in Workstreams |-> PhaseOf(w)]
             /\ UNCHANGED [w \in Workstreams |->
                            {prepared[b] : b \in Reporters(w)}]
  BY <1>0 DEF Reporters, PhaseOf
<1>1. ASSUME UNCHANGED <<prepared, accepted, spawned, observed>>
      PROVE  UNCHANGED Promise!vars
  BY <1>0, <1>1 DEF Promise!vars
<1>2. ASSUME NEW b \in Bindings, Unblocked(WorkstreamOf[b]), Ready
      PROVE  PhaseOf(WorkstreamOf[b]) = "open"
  BY <1>2 DEF Closed, Complete, Unblocked, PhaseOf, Reporters
<1>3. ASSUME NEW b \in Bindings, Spawn(b) PROVE Promise!Next
  <2>1. PhaseOf(WorkstreamOf[b]) = "open"
    BY <1>2, <1>3 DEF Spawn
  <2>2. UNCHANGED <<prepared, accepted, observed>> /\ spawned' = spawned \cup {b}
    BY <1>3 DEF Spawn, fileVars, rootVars
  <2>3. Promise!Launch(WorkstreamOf[b], {b})
    BY <1>0, <2>1, <2>2 DEF Promise!Launch
  <2> QED  BY <2>3 DEF Promise!Next
<1>4. ASSUME NEW b \in Bindings, TaskCompleted(b) PROVE [Promise!Next]_(Promise!vars)
  <2>1. UNCHANGED <<prepared, accepted, observed>>
    BY <1>4 DEF TaskCompleted, fileVars, rootVars
  <2>2. CASE ~Unblocked(WorkstreamOf[b])
    BY <1>1, <1>4, <2>1, <2>2 DEF TaskCompleted
  <2>3. CASE Unblocked(WorkstreamOf[b])
    <3>1. PhaseOf(WorkstreamOf[b]) = "open"
      BY <1>2, <1>4, <2>3 DEF TaskCompleted
    <3>2. spawned' = spawned \cup ContinuationOf[b]
      BY <1>4, <2>3 DEF TaskCompleted
    <3>3. Promise!Launch(WorkstreamOf[b], ContinuationOf[b])
      BY <1>0, <2>1, <3>1, <3>2 DEF Promise!Launch
    <3> QED  BY <3>3 DEF Promise!Next
  <2> QED  BY <2>2, <2>3
<1>5. ASSUME NEW b \in Bindings, NEW call \in ToolCalls, ResultObserved(b, call)
      PROVE  [Promise!Next]_(Promise!vars)
  <2>1. UNCHANGED <<prepared, accepted, spawned>>
    BY <1>5 DEF ResultObserved, logVars, fileVars, rootVars
  <2>2. CASE observed' = observed
    BY <1>1, <2>1, <2>2
  <2>3. CASE observed' # observed
    <3>1. observed' = observed \cup {b} /\ b \in accepted
      BY <1>5, <2>3 DEF ResultObserved
    <3>2. PhaseOf(WorkstreamOf[b]) = "latched"
      BY <3>1 DEF PhaseOf, Reporters, Staged, Published, TypeOK
    <3>3. {WorkstreamOf[c] : c \in observed}'
            = {WorkstreamOf[c] : c \in observed} \cup {WorkstreamOf[b]}
      BY <3>1
    <3>4. Promise!Release(WorkstreamOf[b])
      BY <1>0, <2>1, <3>2, <3>3 DEF Promise!Release
    <3> QED  BY <3>4 DEF Promise!Next
  <2> QED  BY <2>2, <2>3
<1>6. CASE WritePrepared
  <2>1. PICK b \in Bindings : b = op.binding
    BY <1>6 DEF WritePrepared, TypeOK
  <2>2. PICK w \in Workstreams : w = WorkstreamOf[b]
    OBVIOUS
  <2>3. PICK g \in Transaction :
          g = [cancellations |-> Live(w), report |-> op.report]
    BY <1>6 DEF WritePrepared, Transaction, Live, TypeOK
  <2>4. UNCHANGED <<accepted, spawned, observed>>
    BY <1>6 DEF WritePrepared, logVars, rootVars
  <2>5. /\ prepared'[b] = g
        /\ \A c \in Bindings \ {b} : prepared'[c] = prepared[c]
    BY <1>6, <2>1, <2>2, <2>3 DEF WritePrepared, TypeOK
  <2>6. Reporters(w) = {} /\ b \notin accepted
    BY <1>6, <2>1, <2>2
    DEF WritePrepared, Closed, Exclusive, Reporters, Staged, InOrder
  <2>7. /\ Reporters(w)' = {b}
        /\ \A v \in Workstreams \ {w} : Reporters(v)' = Reporters(v)
    BY <2>2, <2>5, <2>6 DEF Reporters
  <2>8. /\ PhaseOf(w) = "open" /\ PhaseOf(w)' = "frozen"
        /\ \A v \in Workstreams \ {w} : PhaseOf(v)' = PhaseOf(v)
    BY <2>4, <2>6, <2>7 DEF PhaseOf
  <2>9. /\ {prepared[c] : c \in Reporters(w)}' = {g}
        /\ \A v \in Workstreams \ {w} :
             {prepared[c] : c \in Reporters(v)}' = {prepared[c] : c \in Reporters(v)}
    <3>1. \A v \in Workstreams \ {w} : \A c \in Reporters(v) :
            c \in Bindings \ {b}
      BY <2>2 DEF Reporters
    <3> QED  BY <2>5, <2>7, <3>1
  <2>10. Promise!Freeze(w, g)
    BY <2>4, <2>8, <2>9 DEF Promise!Freeze
  <2> QED  BY <2>10 DEF Promise!Next
<1>7. CASE AppendAccepted
  <2>1. PICK b \in Bindings : b = op.binding
    BY <1>7 DEF AppendAccepted, TypeOK
  <2>2. PICK w \in Workstreams : w = WorkstreamOf[b]
    OBVIOUS
  <2>3. UNCHANGED <<prepared, spawned, observed>> /\ accepted' = accepted \cup {b}
    BY <1>7, <2>1 DEF AppendAccepted, logVars, fileVars
  <2>4. CASE b \in accepted
    <3>1. accepted' = accepted
      BY <2>3, <2>4
    <3> QED  BY <1>1, <2>3, <3>1
  <2>5. CASE b \notin accepted
    <3>1. Reporters(w) = {b}
      BY <1>7, <2>1, <2>2
      DEF AppendAccepted, Closed, Exclusive, Reporters, Staged, InOrder
    <3>2. \A v : Reporters(v)' = Reporters(v)
      BY <2>3 DEF Reporters
    <3>3. \A v \in Workstreams \ {w} : b \notin Reporters(v)
      BY <2>2 DEF Reporters
    <3>4. /\ PhaseOf(w) = "frozen" /\ PhaseOf(w)' = "latched"
          /\ \A v \in Workstreams \ {w} : PhaseOf(v)' = PhaseOf(v)
      BY <2>3, <2>5, <3>1, <3>2, <3>3 DEF PhaseOf
    <3>5. \A v : {prepared[c] : c \in Reporters(v)}'
                  = {prepared[c] : c \in Reporters(v)}
      BY <2>3, <3>2
    <3>6. Promise!Publish(w)
      BY <2>3, <3>4, <3>5 DEF Promise!Publish
    <3> QED  BY <3>6 DEF Promise!Next
  <2> QED  BY <2>4, <2>5
<1>8. CASE WriteFails
  <2>1. ioFailures < MaxIoFailures
    BY <1>8 DEF WriteFails
  <2>2. ioFailures \in 0..MaxIoFailures
    BY DEF TypeOK
  <2> QED  BY <2>1, <2>2
<1>9. CASE \/ WriteReceipt \/ WriteLatch \/ AppendEventRef \/ NextBinding
           \/ Finish \/ Reconcile \/ Crash \/ Open
  BY <1>1, <1>9, NextSynced
  DEF WriteReceipt, WriteLatch, AppendEventRef, NextBinding, Finish, Reconcile,
      Crash, Open, logVars, fileVars, rootVars
<1>10. ASSUME NEW b \in Bindings, NEW call \in ToolCalls, NEW r \in Reports,
              RootedAlias(b, r, call) \/ RecoverPending(b, r, call)
                \/ Admit(b, r, call)
       PROVE  UNCHANGED Promise!vars
  BY <1>1, <1>10
  DEF RootedAlias, RecoverPending, Admit, logVars, fileVars, rootVars
<1>11. ASSUME NEW b \in Bindings, LaunchAck(b) PROVE UNCHANGED Promise!vars
  BY <1>1, <1>11 DEF LaunchAck, fileVars, rootVars
<1>12. CASE UNCHANGED vars
  BY <1>1, <1>12 DEF vars
<1> QED
  BY <1>3, <1>4, <1>5, <1>6, <1>7, <1>8, <1>9, <1>10, <1>11, <1>12
  DEF Next, Serve

\* The transaction of root_or_verify_blocked_latch, with its recovery paths and
\* crashes anywhere, implements the atomic latch of WorkstreamLatch when no write
\* fails in a live process.
THEOREM ImplementsPromise ==
  ASSUME MaxIoFailures = 0
  PROVE  Spec => KeepsPromise
<1>1. Init => TypeOK /\ Staged /\ Synced /\ Closed
  BY InitType, InitStaged, InitSynced, InitClosed
<1>2. TypeOK /\ Staged /\ Synced /\ Closed /\ [Next]_vars
        => (TypeOK /\ Staged /\ Synced /\ Closed)'
  BY NextType, NextStaged, NextSynced, NextClosed
<1>3. TypeOK /\ Staged /\ Synced /\ Closed /\ [Next]_vars
        => [Promise!Next]_(Promise!vars)
  BY NextPromise
<1> QED
  BY <1>1, <1>2, <1>3, InitPromise, PTL DEF Spec, KeepsPromise, Promise!Spec
=============================================================================
