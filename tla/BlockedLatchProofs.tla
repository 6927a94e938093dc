------------------------- MODULE BlockedLatchProofs -------------------------
(* Proofs about the Core's blocked-latch transaction.                      *)
EXTENDS BlockedLatch, TLAPS

-----------------------------------------------------------------------------
(***************************************************************************)
(* Staged: the durable steps of a transaction happen in order, and whatever *)
(* was published equals the prepared transaction.  It holds whatever fails. *)
(***************************************************************************)
Published ==
    /\ \A b \in Bindings :
         /\ receipt[b] # None => receipt[b] = prepared[b]
         /\ latch[b] # None => latch[b] = prepared[b]
         /\ b \in accepted => receipt[b] # None /\ latch[b] # None
         /\ given[b] # None => b \in eventRef /\ given[b] = latch[b]
    /\ eventRef \subseteq accepted /\ doubled \subseteq accepted

\* A row that is on disk unknown to the process has what it rests on.
Unknown ==
    \A b \in Bindings :
        /\ unsynced[<<"accepted", b>>] # 0 => receipt[b] # None /\ latch[b] # None
        /\ unsynced[<<"ref", b>>] # 0 => b \in accepted

InOrder ==
    /\ op.step = "prepare" =>
         /\ prepared[op.binding] = None /\ op.binding \notin accepted
         /\ receipt[op.binding] = None /\ latch[op.binding] = None
    /\ op.step \in {"receipt", "latch", "accepted"} => prepared[op.binding] # None
    /\ op.step = "ref" => op.binding \in accepted
    /\ op.step = "rebuild" /\ op.kind \in {"admit", "recover"} =>
         op.binding \in accepted
    /\ op.kind = "open" => op.left \subseteq accepted
    /\ op.kind # "open" => \A b \in op.left : prepared[b] # None
    /\ op.kind = "idle" => op = Idle
    /\ op.step = "next" => op.kind \in {"open", "reconcile"}

Staged == Published /\ Unknown /\ InOrder

-----------------------------------------------------------------------------
(* Type correctness, needed by every other step.                           *)

LEMMA IdleType == Idle \in Operation /\ Idle.step = "none" /\ Idle.left = {}
  BY DEF Idle, Operation, Kinds, Steps

LEMMA InitType == Init => TypeOK
<1> SUFFICES ASSUME Init PROVE TypeOK
  OBVIOUS
<1>1. op \in Operation /\ op.step = "none"
  BY IdleType DEF Init
<1>2. crashes \in 0..MaxCrashes /\ ioFailures \in 0..MaxIoFailures
  BY BlockedLatchAssumption DEF Init
<1> QED
  BY <1>1, <1>2 DEF Init, TypeOK

LEMMA NextType == TypeOK /\ [Next]_vars => TypeOK'
<1> SUFFICES ASSUME TypeOK, [Next]_vars PROVE TypeOK'
  OBVIOUS
<1> USE BlockedLatchAssumption DEF TypeOK
<1>1. ASSUME NEW b \in Bindings, Spawn(b) PROVE TypeOK'
  BY <1>1 DEF Spawn, fileVars, rootVars, memVars
<1>2. ASSUME NEW b \in Bindings, LaunchAck(b) PROVE TypeOK'
  BY <1>2 DEF LaunchAck, fileVars, rootVars, memVars
<1>3. ASSUME NEW b \in Bindings, TaskCompleted(b) PROVE TypeOK'
  BY <1>3 DEF TaskCompleted, fileVars, rootVars, memVars
<1>4. ASSUME NEW b \in Bindings, NEW call \in ToolCalls, ResultObserved(b, call)
      PROVE TypeOK'
  BY <1>4 DEF ResultObserved, Rebuild, Rebuilds, logVars, fileVars, rootVars
<1>5. ASSUME NEW b \in Bindings, NEW r \in Reports, NEW call \in ToolCalls,
             RootedAlias(b, r, call)
      PROVE TypeOK'
  BY <1>5 DEF RootedAlias, logVars, fileVars, rootVars
<1>6. ASSUME NEW b \in Bindings, NEW r \in Reports, NEW call \in ToolCalls,
             RecoverPending(b, r, call)
      PROVE TypeOK'
  <2>1. op' \in Operation /\ op'.binding = b /\ op'.step = "receipt"
    BY <1>6 DEF RecoverPending, Start, Operation, Kinds, Steps
  <2> QED  BY <1>6, <2>1 DEF RecoverPending, logVars, fileVars, rootVars, memVars
<1>7. ASSUME NEW b \in Bindings, NEW r \in Reports, NEW call \in ToolCalls,
             Admit(b, r, call)
      PROVE TypeOK'
  <2>1. op' \in Operation /\ op'.binding = b /\ op'.report = r
    BY <1>7 DEF Admit, Start, Operation, Kinds, Steps
  <2> QED  BY <1>7, <2>1 DEF Admit, logVars, fileVars, rootVars, memVars
<1>8. CASE WritePrepared
  <2>1. op' \in Operation /\ op'.step = "receipt" /\ op'.binding = op.binding
    BY <1>8 DEF WritePrepared, Advance, Operation, Steps
  <2>2. Live(WorkstreamOf[op.binding]) \subseteq Bindings
    BY DEF Live
  <2> QED
    BY <1>8, <2>1, <2>2
    DEF WritePrepared, Transaction, logVars, rootVars, memVars
<1>9. CASE WriteReceipt
  <2>1. op' \in Operation /\ op'.step = "latch" /\ op'.binding = op.binding
    BY <1>9 DEF WriteReceipt, Advance, Operation, Steps
  <2> QED  BY <1>9, <2>1 DEF WriteReceipt, logVars, rootVars, memVars
<1>10. CASE WriteLatch
  <2>1. op' \in Operation /\ op'.step = "accepted" /\ op'.binding = op.binding
    BY <1>10 DEF WriteLatch, Advance, Operation, Steps
  <2> QED  BY <1>10, <2>1 DEF WriteLatch, logVars, rootVars, memVars
<1>11. CASE AppendAccepted
  <2>1. op' \in Operation /\ op'.step = "ref" /\ op'.binding = op.binding
    BY <1>11 DEF AppendAccepted, Advance, Operation, Steps
  <2> QED  BY <1>11, <2>1 DEF AppendAccepted, logVars, fileVars, memVars
<1>12. CASE AppendEventRef
  <2>1. op' \in Operation /\ op'.step \in {"next", "rebuild"}
    BY <1>12 DEF AppendEventRef, Advance, Operation, Steps
  <2> QED  BY <1>12, <2>1 DEF AppendEventRef, logVars, fileVars, memVars
<1>13. CASE NextBinding
  <2>1. /\ op' \in Operation
        /\ \/ op'.step = "rebuild"
           \/ op'.step \in {"ref", "receipt"} /\ op'.binding \in Bindings
    <3>1. CASE op.left = {}
      BY <1>13, <3>1 DEF NextBinding, Advance, Operation, Steps
    <3>2. CASE op.left # {}
      <4>1. PICK b \in op.left, step \in {"rebuild", "ref", "receipt"} :
              op' = [op EXCEPT !.binding = b, !.left = @ \ {b}, !.step = step]
        BY <1>13, <3>2 DEF NextBinding
      <4>2. op \in Operation
        OBVIOUS
      <4> HIDE DEF TypeOK
      <4>3. b \in Bindings
        BY <4>2 DEF Operation
      <4> QED  BY <4>1, <4>2, <4>3 DEF Operation, Steps
    <3> QED  BY <3>1, <3>2
  <2> QED
    BY <1>13, <2>1 DEF NextBinding, logVars, fileVars, rootVars, memVars
<1>14. CASE Finish
  <2>1. op' \in Operation /\ op'.step = "none"
    BY <1>14, IdleType DEF Finish, Idle
  <2>2. proj' \subseteq Bindings /\ projErr' \in BOOLEAN
    BY <1>14 DEF Finish, Rebuild
  <2>3. op.call \in ToolCalls \cup {None}
    BY DEF Operation
  <2>4. given' \in [Bindings -> Transaction \cup {None}]
    BY <1>14 DEF Finish
  <2>5. toolCall' \in [Bindings -> ToolCalls \cup {None}]
    BY <1>14, <2>3 DEF Finish
  <2> QED
    BY <1>14, <2>1, <2>2, <2>4, <2>5 DEF Finish, logVars, fileVars, rootVars
<1>15. CASE Reconcile
  <2>1. op' \in Operation /\ op'.step = "next"
    BY <1>15 DEF Reconcile, Start, Operation, Kinds, Steps
  <2> QED
    BY <1>15, <2>1 DEF Reconcile, logVars, fileVars, rootVars, memVars
<1>16. CASE Crash
  <2>1. op' \in Operation /\ op'.step = "none"
    BY <1>16, IdleType DEF Crash, Idle
  <2>2. crashes' \in 0..MaxCrashes
    BY <1>16 DEF Crash
  <2> QED  BY <1>16, <2>1, <2>2 DEF Crash, logVars, fileVars, rootVars
<1>17. CASE Open
  <2>1. accepted' \subseteq Bindings /\ eventRef' \subseteq Bindings
        /\ doubled' \subseteq Bindings /\ unsynced' \in [Rows -> Nat]
    BY <1>17 DEF Open, Twice
  <2>2. op' \in Operation /\ op'.step = "next"
    BY <1>17, <2>1 DEF Open, Start, Operation, Kinds, Steps
  <2> QED  BY <1>17, <2>1, <2>2 DEF Open, logVars, fileVars, memVars
<1>18. CASE WriteFails
  <2>1. op' \in Operation /\ op'.step = "none"
    BY <1>18, IdleType DEF WriteFails, Idle
  <2>2. proj' \subseteq Bindings /\ projErr' \in BOOLEAN
    BY <1>18 DEF WriteFails
  <2>3. Live(WorkstreamOf[op.binding]) \subseteq Bindings
    BY DEF Live
  <2>4. prepared' \in [Bindings -> Transaction \cup {None}]
    BY <1>18, <2>3 DEF WriteFails, Transaction
  <2>5. receipt' \in [Bindings -> Transaction \cup {None}]
    BY <1>18 DEF WriteFails
  <2>6. latch' \in [Bindings -> Transaction \cup {None}]
    BY <1>18 DEF WriteFails
  <2>7. frozen' \in [Bindings -> SUBSET Bindings]
    BY <1>18 DEF WriteFails
  <2>8. unsynced' \in [Rows -> Nat]
    <3>1. \/ unsynced' = unsynced
          \/ unsynced' = [unsynced EXCEPT ![<<op.step, op.binding>>] = @ + 1]
      BY <1>18 DEF WriteFails
    <3>2. \A row \in Rows : unsynced[row] + 1 \in Nat
      OBVIOUS
    <3> HIDE DEF TypeOK
    <3>3. unsynced \in [Rows -> Nat]
      BY DEF TypeOK
    <3> QED  BY <3>1, <3>2, <3>3
  <2> QED
    BY <1>18, <2>1, <2>2, <2>4, <2>5, <2>6, <2>7, <2>8 DEF WriteFails, logVars
<1>19. CASE UNCHANGED vars
  BY <1>19 DEF vars
<1> QED
  BY <1>1, <1>2, <1>3, <1>4, <1>5, <1>6, <1>7, <1>8, <1>9, <1>10, <1>11, <1>12,
     <1>13, <1>14, <1>15, <1>16, <1>17, <1>18, <1>19
  DEF Next, Serve

\* Every reachable state of the Core's latch transaction is well typed, for any
\* bindings, workstreams and number of crashes and failed writes.
THEOREM TypeCorrect == Spec => []TypeOK
  BY InitType, NextType, PTL DEF Spec

-----------------------------------------------------------------------------
(* The stages of a transaction.                                            *)

LEMMA InitStaged == Init => Staged
<1> SUFFICES ASSUME Init PROVE Staged
  OBVIOUS
<1>1. op = Idle /\ op.step = "none" /\ op.left = {} /\ op.kind = "idle"
  BY DEF Init, Idle
<1>2. InOrder
  BY <1>1 DEF InOrder
<1> QED
  BY <1>2 DEF Init, Staged, Published, Unknown, Rows

LEMMA NextStaged == TypeOK /\ Staged /\ [Next]_vars => Staged'
<1> SUFFICES ASSUME TypeOK, Staged, [Next]_vars PROVE Staged'
  OBVIOUS
<1> USE BlockedLatchAssumption DEF Staged
<1>0. Idle.step = "none" /\ Idle.left = {} /\ Idle.kind = "idle"
  BY DEF Idle
<1>1. ASSUME NEW b \in Bindings, Spawn(b) PROVE Staged'
  BY <1>1 DEF Spawn, fileVars, rootVars, memVars, Published, Unknown, InOrder
<1>2. ASSUME NEW b \in Bindings, LaunchAck(b) PROVE Staged'
  BY <1>2 DEF LaunchAck, fileVars, rootVars, memVars, Published, Unknown, InOrder
<1>3. ASSUME NEW b \in Bindings, TaskCompleted(b) PROVE Staged'
  BY <1>3 DEF TaskCompleted, fileVars, rootVars, memVars, Published, Unknown,
              InOrder
<1>4. ASSUME NEW b \in Bindings, NEW call \in ToolCalls, ResultObserved(b, call)
      PROVE Staged'
  BY <1>4 DEF ResultObserved, logVars, fileVars, rootVars, Published, Unknown,
                InOrder
<1>5. ASSUME NEW b \in Bindings, NEW r \in Reports, NEW call \in ToolCalls,
             RootedAlias(b, r, call)
      PROVE Staged'
  <2>1. InOrder'
    BY <1>5 DEF RootedAlias, logVars, fileVars, rootVars, InOrder
  <2>2. /\ UNCHANGED <<prepared, receipt, latch, accepted, eventRef, unsynced,
                        doubled>>
        /\ given' = given \/ (b \in eventRef /\ given' = [given EXCEPT ![b] = latch[b]])
    BY <1>5 DEF RootedAlias, fileVars, rootVars
  <2>3. \A c \in Bindings : \/ given'[c] = given[c]
                            \/ c \in eventRef /\ given'[c] = latch[c]
    BY <2>2 DEF TypeOK
  <2>4. Published'
    BY <2>2, <2>3 DEF Published
  <2>5. Unknown'
    BY <2>2 DEF Unknown
  <2> QED  BY <2>1, <2>4, <2>5
<1>6. ASSUME NEW b \in Bindings, NEW r \in Reports, NEW call \in ToolCalls,
             RecoverPending(b, r, call)
      PROVE Staged'
  <2>1. /\ op'.kind = "recover" /\ op'.step = "receipt" /\ op'.binding = b
        /\ op'.left = {}
    BY <1>6 DEF RecoverPending, Start
  <2>2. InOrder'
    BY <1>6, <2>1 DEF RecoverPending, logVars, fileVars, rootVars, InOrder
  <2>3. Published' /\ Unknown'
    BY <1>6 DEF RecoverPending, logVars, fileVars, rootVars, Published, Unknown
  <2> QED  BY <2>2, <2>3
<1>7. ASSUME NEW b \in Bindings, NEW r \in Reports, NEW call \in ToolCalls,
             Admit(b, r, call)
      PROVE Staged'
  <2>1. /\ op'.kind = "admit" /\ op'.step = "prepare" /\ op'.binding = b
        /\ op'.left = {}
    BY <1>7 DEF Admit, Start
  <2>2. InOrder'
    BY <1>7, <2>1 DEF Admit, logVars, fileVars, rootVars, InOrder
  <2>3. Published' /\ Unknown'
    BY <1>7 DEF Admit, logVars, fileVars, rootVars, Published, Unknown
  <2> QED  BY <2>2, <2>3
<1>8. CASE WritePrepared
  <2>1. /\ op'.step = "receipt" /\ op'.binding = op.binding /\ op'.kind = op.kind
        /\ op'.left = op.left
    BY <1>8 DEF WritePrepared, Advance, TypeOK, Operation
  <2>2. Live(WorkstreamOf[op.binding]) \subseteq Bindings
    BY DEF Live, TypeOK
  <2>3. /\ op.binding \in Bindings
        /\ prepared'[op.binding] \in Transaction
        /\ \A b \in Bindings \ {op.binding} : prepared'[b] = prepared[b]
    BY <1>8, <2>2 DEF WritePrepared, TypeOK, Transaction
  <2>4. op.kind # "idle"
    BY <1>8, <1>0 DEF WritePrepared, InOrder
  <2>5. InOrder'
    <3>1. accepted' = accepted
      BY <1>8 DEF WritePrepared, rootVars
    <3>2. op.left \subseteq Bindings
      BY DEF TypeOK, Operation
    <3>3. prepared'[op.binding] # None
      BY <2>3
    <3> QED  BY <2>1, <2>3, <2>4, <3>1, <3>2, <3>3 DEF InOrder
  <2>6. Published' /\ Unknown'
    BY <1>8, <2>3
    DEF WritePrepared, logVars, rootVars, Published, Unknown, InOrder, TypeOK
  <2> QED  BY <2>5, <2>6
<1>9. CASE WriteReceipt
  <2>1. /\ op'.step = "latch" /\ op'.binding = op.binding /\ op'.kind = op.kind
        /\ op'.left = op.left
    BY <1>9 DEF WriteReceipt, Advance, TypeOK, Operation
  <2>2. op.kind # "idle"
    BY <1>9, <1>0 DEF WriteReceipt, InOrder
  <2>3. InOrder'
    BY <1>9, <2>1, <2>2 DEF WriteReceipt, logVars, rootVars, InOrder
  <2>4. Published' /\ Unknown'
    BY <1>9 DEF WriteReceipt, logVars, rootVars, Published, Unknown, InOrder, TypeOK
  <2> QED  BY <2>3, <2>4
<1>10. CASE WriteLatch
  <2>1. /\ op'.step = "accepted" /\ op'.binding = op.binding
        /\ op'.kind = op.kind /\ op'.left = op.left
    BY <1>10 DEF WriteLatch, Advance, TypeOK, Operation
  <2>2. op.kind # "idle"
    BY <1>10, <1>0 DEF WriteLatch, InOrder
  <2>3. InOrder'
    BY <1>10, <2>1, <2>2 DEF WriteLatch, logVars, rootVars, InOrder
  <2>4. Published' /\ Unknown'
    BY <1>10 DEF WriteLatch, logVars, rootVars, Published, Unknown, InOrder, TypeOK
  <2> QED  BY <2>3, <2>4
<1>11. CASE AppendAccepted
  <2>1. /\ op'.step = "ref" /\ op'.binding = op.binding
        /\ op'.kind = op.kind /\ op'.left = op.left
    BY <1>11 DEF AppendAccepted, Advance, TypeOK, Operation
  <2>2. op.kind # "idle"
    BY <1>11, <1>0 DEF AppendAccepted, InOrder
  <2>3. InOrder'
    BY <1>11, <2>1, <2>2 DEF AppendAccepted, logVars, fileVars, InOrder
  <2>4. Published' /\ Unknown'
    BY <1>11 DEF AppendAccepted, logVars, fileVars, Published, Unknown, InOrder,
                 TypeOK
  <2> QED  BY <2>3, <2>4
<1>12. CASE AppendEventRef
  <2>1. /\ op'.step \in {"next", "rebuild"} /\ op'.binding = op.binding
        /\ op'.kind = op.kind /\ op'.left = op.left
        /\ op'.step = "next" => op.kind \in {"open", "reconcile"}
    BY <1>12 DEF AppendEventRef, Advance, TypeOK, Operation
  <2>2. op.kind # "idle"
    BY <1>12, <1>0 DEF AppendEventRef, InOrder
  <2>3. InOrder'
    BY <1>12, <2>1, <2>2 DEF AppendEventRef, logVars, fileVars, InOrder
  <2>4. Published' /\ Unknown'
    BY <1>12 DEF AppendEventRef, logVars, fileVars, Published, Unknown, InOrder,
                 TypeOK
  <2> QED  BY <2>3, <2>4
<1>13. CASE NextBinding
  <2>1. Published' /\ Unknown'
    BY <1>13 DEF NextBinding, logVars, fileVars, rootVars, Published, Unknown
  <2>2. CASE op.left = {}
    <3>1. op'.step = "rebuild" /\ op'.kind = op.kind /\ op'.left = op.left
      BY <1>13, <2>2 DEF NextBinding, Advance, TypeOK, Operation
    <3>2. op.kind \in {"open", "reconcile"}
      BY <1>13 DEF NextBinding, InOrder
    <3>3. InOrder'
      BY <1>13, <3>1, <3>2 DEF NextBinding, logVars, fileVars, rootVars, InOrder
    <3> QED  BY <2>1, <3>3
  <2>3. CASE op.left # {}
    <3>1. PICK b \in op.left :
            op' = [op EXCEPT !.binding = b, !.left = @ \ {b},
                             !.step = IF b \in doubled THEN "rebuild"
                                      ELSE IF op.kind = "open" THEN "ref"
                                      ELSE "receipt"]
      BY <1>13, <2>3 DEF NextBinding
    <3>2. /\ op'.kind = op.kind /\ op'.binding = b /\ op'.left = op.left \ {b}
          /\ op'.step = IF b \in doubled THEN "rebuild"
                        ELSE IF op.kind = "open" THEN "ref" ELSE "receipt"
      BY <3>1 DEF TypeOK, Operation
    <3>3. op.kind \in {"open", "reconcile"}
      BY <1>13 DEF NextBinding, InOrder
    <3>4. InOrder'
      BY <1>13, <3>2, <3>3 DEF NextBinding, logVars, fileVars, rootVars, InOrder
    <3> QED  BY <2>1, <3>4
  <2> QED  BY <2>2, <2>3
<1>14. CASE Finish
  <2>1. InOrder'
    BY <1>14, <1>0 DEF Finish, logVars, fileVars, rootVars, InOrder
  <2>2. ASSUME NEW b \in Bindings, given'[b] # None
        PROVE  b \in eventRef /\ given'[b] = latch[b]
    <3>1. CASE given'[b] = given[b]
      BY <2>2, <3>1 DEF Published
    <3>2. CASE given'[b] # given[b]
      <4>1. b \in Answered /\ given'[b] = latch[b]
        BY <1>14, <3>2 DEF Finish
      <4>2. b \in accepted
        BY <1>14, <4>1 DEF Finish, InOrder, Answered
      <4> QED  BY <4>1, <4>2 DEF Answered, Rebuilds, Projectable
    <3> QED  BY <3>1, <3>2
  <2>3. Published' /\ Unknown'
    BY <1>14, <2>2 DEF Finish, logVars, fileVars, rootVars, Published, Unknown
  <2> QED  BY <2>1, <2>3
<1>15. CASE Reconcile
  <2>1. /\ op'.kind = "reconcile" /\ op'.step = "next"
        /\ op'.left = {b \in issued : prepared[b] # None}
    BY <1>15 DEF Reconcile, Start
  <2>2. InOrder'
    BY <1>15, <2>1 DEF Reconcile, logVars, fileVars, rootVars, InOrder
  <2>3. Published' /\ Unknown'
    BY <1>15 DEF Reconcile, logVars, fileVars, rootVars, Published, Unknown
  <2> QED  BY <2>2, <2>3
<1>16. CASE Crash
  <2>1. InOrder'
    BY <1>16, <1>0 DEF Crash, logVars, fileVars, rootVars, InOrder
  <2>2. Published' /\ Unknown'
    BY <1>16 DEF Crash, logVars, fileVars, rootVars, Published, Unknown
  <2> QED  BY <2>1, <2>2
<1>17. CASE Open
  <2>1. /\ accepted \subseteq accepted' /\ eventRef \subseteq eventRef'
        /\ \A b \in accepted' : b \in accepted \/ unsynced[<<"accepted", b>>] # 0
        /\ \A b \in eventRef' : b \in eventRef \/ unsynced[<<"ref", b>>] # 0
        /\ accepted' \subseteq Bindings /\ eventRef' \subseteq Bindings
    BY <1>17 DEF Open, TypeOK
  <2>2. doubled' \subseteq accepted'
    <3>1. doubled' = doubled \cup Twice("accepted", accepted)
                             \cup Twice("ref", eventRef)
      BY <1>17 DEF Open
    <3>2. doubled \subseteq accepted'
      BY <2>1 DEF Published
    <3>3. ASSUME NEW b \in Twice("accepted", accepted) PROVE b \in accepted'
      <4>1. b \in Bindings /\ unsynced[<<"accepted", b>>] # 0
        BY <3>3 DEF Twice
      <4> QED  BY <1>17, <4>1 DEF Open
    <3>4. ASSUME NEW b \in Twice("ref", eventRef) PROVE b \in accepted'
      <4>1. b \in Bindings /\ unsynced[<<"ref", b>>] # 0
        BY <3>4 DEF Twice
      <4> QED  BY <2>1, <4>1 DEF Unknown
    <3> QED  BY <3>1, <3>2, <3>3, <3>4
  <2>3. eventRef' \subseteq accepted'
    BY <2>1 DEF Published, Unknown
  <2>4. /\ op'.kind = "open" /\ op'.step = "next"
        /\ op'.left = (accepted' \ eventRef') \cup doubled'
    BY <1>17 DEF Open, Start
  <2>5. InOrder'
    BY <2>2, <2>4 DEF InOrder
  <2>6. Published'
    BY <1>17, <2>1, <2>2, <2>3 DEF Open, logVars, fileVars, Published, Unknown
  <2>7. Unknown'
    <3>1. \A row \in Rows : unsynced'[row] = 0
      BY <1>17 DEF Open
    <3>2. ASSUME NEW b \in Bindings
          PROVE  unsynced'[<<"accepted", b>>] = 0 /\ unsynced'[<<"ref", b>>] = 0
      BY <3>1 DEF Rows
    <3> QED  BY <3>2 DEF Unknown
  <2> QED  BY <2>5, <2>6, <2>7
<1>18. CASE WriteFails
  <2>1. InOrder'
    BY <1>18, <1>0 DEF WriteFails, logVars, InOrder
  <2>2. Published'
    <3>1. UNCHANGED <<accepted, eventRef, doubled, given>>
      BY <1>18 DEF WriteFails
    <3>2. op.binding \in Bindings
      BY <1>18 DEF WriteFails, TypeOK
    <3>3. CASE UNCHANGED <<prepared, receipt, latch>>
      BY <3>1, <3>3 DEF Published
    <3>4. CASE /\ op.step = "prepare" /\ UNCHANGED <<receipt, latch>>
               /\ \A b \in Bindings \ {op.binding} : prepared'[b] = prepared[b]
      BY <3>1, <3>2, <3>4 DEF Published, InOrder
    <3>5. CASE /\ receipt[op.binding] = None /\ UNCHANGED <<prepared, latch>>
               /\ receipt' = [receipt EXCEPT ![op.binding] = prepared[op.binding]]
      <4>1. \A b \in Bindings :
              receipt'[b] = IF b = op.binding THEN prepared[b] ELSE receipt[b]
        BY <3>2, <3>5 DEF TypeOK
      <4> QED  BY <3>1, <3>2, <3>5, <4>1 DEF Published
    <3>6. CASE /\ latch[op.binding] = None /\ UNCHANGED <<prepared, receipt>>
               /\ latch' = [latch EXCEPT ![op.binding] = prepared[op.binding]]
      <4>1. \A b \in Bindings :
              latch'[b] = IF b = op.binding THEN prepared[b] ELSE latch[b]
        BY <3>2, <3>6 DEF TypeOK
      <4> QED  BY <3>1, <3>2, <3>6, <4>1 DEF Published
    <3>7. prepared \in [Bindings -> Transaction \cup {None}]
      BY DEF TypeOK
    <3> QED  BY <1>18, <3>3, <3>4, <3>5, <3>6, <3>7 DEF WriteFails
  <2>3. /\ accepted' = accepted
        /\ \A b \in Bindings : receipt[b] # None => receipt'[b] # None
        /\ \A b \in Bindings : latch[b] # None => latch'[b] # None
    BY <1>18 DEF WriteFails, InOrder, TypeOK
  <2>4. ASSUME NEW b \in Bindings
        PROVE  /\ unsynced'[<<"accepted", b>>] # 0 =>
                    receipt[b] # None /\ latch[b] # None
               /\ unsynced'[<<"ref", b>>] # 0 => b \in accepted
    <3>1. CASE unsynced' = unsynced
      BY <3>1 DEF Unknown
    <3>2. CASE unsynced' # unsynced
      <4>1. /\ unsynced' = [unsynced EXCEPT ![<<op.step, op.binding>>] = @ + 1]
            /\ op.step = "accepted" =>
                 receipt[op.binding] # None /\ latch[op.binding] # None
        BY <1>18, <3>2 DEF WriteFails
      <4>2. op.step = "ref" => op.binding \in accepted
        BY DEF InOrder
      <4>3. \A row \in Rows \ {<<op.step, op.binding>>} :
              unsynced'[row] = unsynced[row]
        BY <4>1 DEF TypeOK
      <4> <<"accepted", b>> \in Rows /\ <<"ref", b>> \in Rows
        BY DEF Rows
      <4>4. ASSUME unsynced'[<<"accepted", b>>] # 0
            PROVE  receipt[b] # None /\ latch[b] # None
        <5>1. CASE <<"accepted", b>> = <<op.step, op.binding>>
          BY <4>1, <5>1
        <5>2. CASE <<"accepted", b>> # <<op.step, op.binding>>
          <6>1. unsynced[<<"accepted", b>>] # 0
            BY <4>3, <4>4, <5>2
          <6> QED  BY <6>1 DEF Unknown
        <5> QED  BY <5>1, <5>2
      <4>5. ASSUME unsynced'[<<"ref", b>>] # 0
            PROVE  b \in accepted
        <5>1. CASE <<"ref", b>> = <<op.step, op.binding>>
          BY <4>2, <5>1
        <5>2. CASE <<"ref", b>> # <<op.step, op.binding>>
          <6>1. unsynced[<<"ref", b>>] # 0
            BY <4>3, <4>5, <5>2
          <6> QED  BY <6>1 DEF Unknown
        <5> QED  BY <5>1, <5>2
      <4> QED  BY <4>4, <4>5
    <3> QED  BY <3>1, <3>2
  <2>5. Unknown'
    BY <2>3, <2>4 DEF Unknown
  <2> QED  BY <2>1, <2>2, <2>5
<1>19. CASE UNCHANGED vars
  BY <1>19 DEF vars, Published, Unknown, InOrder
<1> QED
  BY <1>1, <1>2, <1>3, <1>4, <1>5, <1>6, <1>7, <1>8, <1>9, <1>10, <1>11, <1>12,
     <1>13, <1>14, <1>15, <1>16, <1>17, <1>18, <1>19
  DEF Next, Serve

\* Any gate the Host ever received is the content of a complete, mutually equal
\* prepared/receipt/latch transaction with both event rows durable
\* (root_or_verify_blocked_latch before every answer), whatever crashes and write
\* failures happen.
THEOREM GateSafety == Spec => []GivenGateIsRooted
<1>1. Init => TypeOK /\ Staged
  BY InitType, InitStaged
<1>2. TypeOK /\ Staged /\ [Next]_vars => (TypeOK /\ Staged)'
  BY NextType, NextStaged
<1>3. TypeOK /\ Staged => GivenGateIsRooted
  BY DEF TypeOK, Staged, Published, GivenGateIsRooted
<1> QED
  BY <1>1, <1>2, <1>3, PTL DEF Spec

\* No step, crash or failed write changes a published artifact or a given gate:
\* admit_or_replay_blocked_latch freezes "every cancellation identity before the
\* receipt is visible" and recovery only replays it.
THEOREM ImmutableSnapshot == Spec => SnapshotIsImmutable
<1>1. Init => TypeOK /\ Staged
  BY InitType, InitStaged
<1>2. TypeOK /\ Staged /\ [Next]_vars => (TypeOK /\ Staged)'
  BY NextType, NextStaged
<1> DEFINE Immutable ==
      \A b \in Bindings :
         /\ prepared[b] # None => prepared'[b] = prepared[b]
         /\ receipt[b] # None => receipt'[b] = receipt[b]
         /\ latch[b] # None => latch'[b] = latch[b]
         /\ given[b] # None => given'[b] = given[b]
<1>3. TypeOK /\ Staged /\ [Next]_vars => [Immutable]_vars
  <2> SUFFICES ASSUME TypeOK, Staged, Next PROVE Immutable
    OBVIOUS
  <2>1. Staged'
    BY NextStaged
  <2>2. ASSUME NEW b \in Bindings, prepared[b] # None
        PROVE  prepared'[b] = prepared[b]
    <3>1. CASE prepared' = prepared
      BY <3>1
    <3>2. CASE prepared' # prepared
      <4>1. WritePrepared \/ WriteFails
        BY <3>2 DEF Next, Serve, Spawn, LaunchAck, TaskCompleted, ResultObserved,
          RootedAlias, RecoverPending, Admit, WriteReceipt, WriteLatch,
          AppendAccepted, AppendEventRef, NextBinding, Finish, Reconcile, Crash,
          Open, fileVars
      <4>2. op.step = "prepare" /\ \A c \in Bindings \ {op.binding} :
              prepared'[c] = prepared[c]
        BY <3>2, <4>1 DEF WritePrepared, WriteFails, TypeOK
      <4> QED  BY <2>2, <4>2 DEF Staged, InOrder
    <3> QED  BY <3>1, <3>2
  <2>3. ASSUME NEW b \in Bindings
        PROVE  /\ receipt[b] # None => receipt'[b] # None
               /\ latch[b] # None => latch'[b] # None
    BY DEF Next, Serve, Spawn, LaunchAck, TaskCompleted, ResultObserved,
          RootedAlias, RecoverPending, Admit, WritePrepared, WriteReceipt,
          WriteLatch, AppendAccepted, AppendEventRef, NextBinding, Finish,
          Reconcile, Crash, Open, WriteFails, fileVars, TypeOK, Staged, InOrder
  <2>4. ASSUME NEW b \in Bindings
        PROVE  given[b] # None => given'[b] # None
    <3>1. CASE Finish
      BY <3>1 DEF Finish, Answered, Staged, Published, InOrder, TypeOK
    <3>2. ASSUME NEW c \in Bindings, NEW r \in Reports, NEW call \in ToolCalls,
                 RootedAlias(c, r, call)
          PROVE  given[b] # None => given'[b] # None
      BY <3>2 DEF RootedAlias, Staged, Published, TypeOK
    <3>3. CASE given' = given
      BY <3>3
    <3> QED
      BY <3>1, <3>2, <3>3
      DEF Next, Serve, Spawn, LaunchAck, TaskCompleted, ResultObserved,
          RecoverPending, Admit, WritePrepared, WriteReceipt, WriteLatch,
          AppendAccepted, AppendEventRef, NextBinding, Reconcile, Crash, Open,
          WriteFails
  <2>5. ASSUME NEW b \in Bindings PROVE
         /\ receipt[b] # None => receipt'[b] = receipt[b]
         /\ latch[b] # None => latch'[b] = latch[b]
    BY <2>1, <2>2, <2>3, BlockedLatchAssumption DEF Staged, Published, TypeOK
  <2>6. ASSUME NEW b \in Bindings PROVE
         given[b] # None => given'[b] = given[b]
    BY <2>1, <2>4, <2>5, BlockedLatchAssumption DEF Staged, Published, TypeOK
  <2> QED  BY <2>2, <2>5, <2>6
<1> HIDE DEF Immutable
<1>4. Spec => [][Immutable]_vars
  BY <1>1, <1>2, <1>3, PTL DEF Spec
<1> QED
  BY <1>4 DEF Immutable, SnapshotIsImmutable
=============================================================================
