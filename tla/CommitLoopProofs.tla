-------------------------- MODULE CommitLoopProofs --------------------------
(***************************************************************************)
(* Proofs about CommitLoop for any number of loops, calls, actions, epochs *)
(* and failures.                                                           *)
(*                                                                         *)
(* The properties are not inductive: an append trusts that the state its   *)
(* record was prepared on is the selected history.  That holds of a loop   *)
(* only while its handle is the newest, handles are never shared, and only *)
(* as long as no recovery kept its old state under a new handle.  Current  *)
(* adds what such a loop's memory is at each stage of its transaction.     *)
(* Calls and the commands they dispatch play no part.                      *)
(***************************************************************************)
EXTENDS CommitLoop, TLAPS

\* What the argument needs of the types.
Types ==
    /\ journal \in Seq(Records)
    /\ epoch \in Nat
    /\ mode \in [Loops -> {"down", "opening", "ready"}]
    /\ handle \in [Loops -> Nat]
    /\ view \in [Loops -> Seq(Records)]
    /\ tx \in [Loops -> {None} \cup Transactions]
    /\ replayFailures \in Nat

\* A handle has one holder, and none is newer than the newest epoch.
Handles ==
    /\ \A l \in Loops : handle[l] <= epoch
    /\ \A l, m \in Loops : handle[l] # 0 /\ handle[l] = handle[m] => l = m

\* What a loop is doing agrees with how far it has come.
Stage(l) ==
    /\ mode[l] = "down" => tx[l] = None /\ handle[l] = 0
    /\ mode[l] = "opening" =>
          /\ tx[l] # None /\ tx[l].stage # "reopen"
          /\ handle[l] # 0
          /\ tx[l].act = Genesis
          /\ tx[l].stage \in {"append", "ack"} => view[l] = <<>>
    /\ mode[l] = "ready" /\ tx[l] # None => tx[l].act \in Actions
    /\ mode[l] = "ready" /\ At(l, "append") => tx[l].act \notin ActionsOf(view[l])
    /\ At(l, "ack") => handle[l] # 0

\* The memory of the loop whose handle is the newest.
Current(l) ==
    handle[l] = epoch /\ handle[l] # 0 =>
       /\ mode[l] = "ready" /\ tx[l] = None => view[l] = journal
       /\ At(l, "append") => view[l] = journal
       /\ At(l, "ack") => journal = Append(view[l], Prepared(l))

Sound ==
    /\ Folds(journal)
    /\ \A i, j \in DOMAIN journal : journal[i].act = journal[j].act => i = j
    /\ \A l \in Loops : Begins(view[l], journal) /\ Current(l)

\* The inductive invariant.
IInv ==
    /\ Types
    /\ Handles
    /\ \A l \in Loops : Stage(l)
    /\ replayFailures = 0 => Sound

-----------------------------------------------------------------------------
\* IssuedIn names only commands, so an admitted action is an action.
LEMMA AdmittedIsAction ==
    ASSUME NEW v \in Seq(Records), NEW a, Admits(v, a)
    PROVE  a \in Actions
<1>1. CASE a \in Requests
  BY <1>1 DEF Actions
<1>2. CASE a \in IssuedIn(v)
  <2>1. PICK i \in DOMAIN v : a \in Range(IssuedBy(v[i]))
    BY <1>2 DEF IssuedIn
  <2>2. v[i] \in Records
    BY <2>1
  <2>3. IssuedBy(v[i]) \in Seq(Commands)
    BY <2>2, CommitLoopAssumption DEF IssuedBy, Records
  <2>4. a \in Commands
    BY <2>1, <2>3 DEF Range
  <2> QED BY <2>4 DEF Actions
<1> QED BY <1>1, <1>2 DEF Admits

\* The invariant does not speak of calls, counters of handles or ports.
LEMMA Quiet ==
    ASSUME IInv,
           UNCHANGED <<journal, epoch, mode, handle, view, tx, replayFailures>>
    PROVE  IInv'
<1>1. Types'
  BY DEF IInv, Types
<1>2. Handles'
  BY DEF IInv, Handles
<1>3. \A l \in Loops : Stage(l)'
  BY DEF IInv, Stage, At, ActionsOf
<1>4. replayFailures' = 0 => Sound'
  BY DEF IInv, Sound, Folds, Begins, Current, At, Prepared
<1> QED BY <1>1, <1>2, <1>3, <1>4 DEF IInv

\* A new transaction, prepared on the loop's own state.
LEMMA CommitInputKeeps ==
    ASSUME IInv, NEW l \in Loops, NEW k \in Calls, NEW a, NEW rest,
           mode[l] = "ready", CommitInput(l, k, a, rest),
           UNCHANGED <<journal, epoch, mode, handle, view, replayFailures>>
    PROVE  IInv'
<1>1. CASE UNCHANGED tx
  BY <1>1, Quiet
<1>2. CASE /\ tx[l] = None
           /\ a \notin ActionsOf(view[l]) /\ Admits(view[l], a)
           /\ tx' = [tx EXCEPT ![l] = [stage |-> "append", act |-> a, call |-> k]]
  <2>1. a \in Actions
    BY <1>2, AdmittedIsAction DEF IInv, Types
  <2>2. Types'
    BY <1>2, <2>1 DEF IInv, Types, Transactions, Stages
  <2>3. Handles'
    BY DEF IInv, Handles
  <2>4. \A m \in Loops : Stage(m)'
    BY <1>2, <2>1 DEF IInv, Types, Stage, At, ActionsOf
  <2>5. replayFailures' = 0 => Sound'
    BY <1>2 DEF IInv, Types, Sound, Folds, Begins, Current, At, Prepared
  <2> QED BY <2>2, <2>3, <2>4, <2>5 DEF IInv
<1> QED BY <1>1, <1>2 DEF CommitInput

\* A transaction that ends without a record leaves history and memory alone.
\* The writer must not be current with an uncertain frame behind it: it has
\* not written, or it no longer holds a handle, or its replay has failed.
LEMMA EndKeeps ==
    ASSUME IInv, NEW l \in Loops, mode[l] = "ready", tx[l] # None,
           tx' = [tx EXCEPT ![l] = None],
           UNCHANGED <<journal, epoch, mode, view>>,
           \/ At(l, "append") /\ UNCHANGED <<handle, replayFailures>>
           \/ handle' = [handle EXCEPT ![l] = 0] /\ UNCHANGED replayFailures
           \/ replayFailures' # 0 /\ replayFailures' \in Nat /\ UNCHANGED handle
    PROVE  IInv'
<1>1. Types'
  BY DEF IInv, Types
<1>2. Handles'
  <2>1. \A m \in Loops : handle'[m] = handle[m] \/ handle'[m] = 0
    BY DEF IInv, Types
  <2>2. epoch' = epoch /\ epoch \in Nat /\ Handles
    BY DEF IInv, Types
  <2> QED BY <2>1, <2>2 DEF Handles
<1>3. \A m \in Loops : Stage(m)'
  BY DEF IInv, Types, Stage, At, ActionsOf
<1>4. replayFailures' = 0 => Sound'
  <2>1. SUFFICES ASSUME replayFailures' = 0 PROVE Sound'
    OBVIOUS
  <2>2. replayFailures = 0
    BY <2>1
  <2>3. Sound
    BY <2>2 DEF IInv
  <2>4. ASSUME NEW m \in Loops PROVE Current(m)'
    <3>1. Current(m) /\ Current(l)
      BY <2>3, <2>4 DEF Sound
    <3>2. CASE m = l
      BY <2>1, <3>1, <3>2 DEF Current, IInv, Types, At
    <3>3. CASE m # l
      BY <2>1, <3>1, <3>3 DEF Current, IInv, Types, At, Prepared
    <3> QED BY <3>2, <3>3
  <2> QED BY <2>3, <2>4 DEF Sound, Folds, Begins
<1> QED BY <1>1, <1>2, <1>3, <1>4 DEF IInv

\* openCommitLoop gives up, after a write that is not selected or is.
LEMMA GiveUpKeeps ==
    ASSUME IInv, NEW l \in Loops, mode[l] # "down", GiveUp(l) \/ Crash(l),
           UNCHANGED <<journal, epoch, replayFailures>>,
           view' = view \/ view' = [view EXCEPT ![l] = <<>>]
    PROVE  IInv'
<1> DEFINE down == /\ mode' = [mode EXCEPT ![l] = "down"]
                   /\ handle' = [handle EXCEPT ![l] = 0]
                   /\ tx' = [tx EXCEPT ![l] = None]
<1>0. down
  BY DEF GiveUp, Crash
<1>1. Types'
  <2>1. view' \in [Loops -> Seq(Records)]
    <3>1. <<>> \in Seq(Records) /\ view \in [Loops -> Seq(Records)]
      BY DEF IInv, Types
    <3> QED BY <3>1
  <2>2. mode' \in [Loops -> {"down", "opening", "ready"}]
    BY <1>0 DEF IInv, Types
  <2>3. handle' \in [Loops -> Nat] /\ tx' \in [Loops -> {None} \cup Transactions]
    BY <1>0 DEF IInv, Types
  <2> QED BY <2>1, <2>2, <2>3 DEF IInv, Types
<1>2. Handles'
  BY <1>0 DEF IInv, Types, Handles
<1>3. ASSUME NEW m \in Loops PROVE Stage(m)'
  <2>1. CASE m = l
    BY <1>0, <2>1 DEF IInv, Types, Stage, At
  <2>2. CASE m # l
    <3>1. /\ mode'[m] = mode[m] /\ tx'[m] = tx[m] /\ handle'[m] = handle[m]
          /\ view'[m] = view[m]
      BY <1>0, <2>2 DEF IInv, Types
    <3>2. Stage(m)
      BY <1>3 DEF IInv
    <3> QED BY <3>1, <3>2 DEF Stage, At, ActionsOf
  <2> QED BY <2>1, <2>2
<1>4. replayFailures' = 0 => Sound'
  <2>1. SUFFICES ASSUME replayFailures' = 0 PROVE Sound'
    OBVIOUS
  <2>2. Sound
    BY <2>1 DEF IInv
  <2>3. ASSUME NEW m \in Loops PROVE Begins(view[m], journal)'
    <3>1. view'[m] = view[m] \/ view'[m] = <<>>
      BY <2>3 DEF IInv, Types
    <3>2. Len(journal) \in Nat
      BY DEF IInv, Types
    <3> QED BY <2>2, <2>3, <3>1, <3>2 DEF Sound, Begins
  <2>4. ASSUME NEW m \in Loops PROVE Current(m)'
    <3>1. Current(m)
      BY <2>2, <2>4 DEF Sound
    <3>2. CASE m = l
      BY <1>0, <3>2 DEF Current, IInv, Types
    <3>3. CASE m # l
      BY <1>0, <3>1, <3>3 DEF Current, IInv, Types, At, Prepared
    <3> QED BY <3>2, <3>3
  <2> QED BY <2>2, <2>3, <2>4 DEF Sound, Folds
<1> QED BY <1>1, <1>2, <1>3, <1>4 DEF IInv

\* Only a loop without a handle, or with the newest one and the selected history
\* before it, claims an epoch; every other handle is older than the new one.
LEMMA ClaimKeeps ==
    ASSUME IInv, NEW l \in Loops, Claim(l),
           UNCHANGED <<journal, view, replayFailures>>,
           \/ Reopen(l) /\ mode[l] = "ready"
           \/ Open(l)
    PROVE  IInv'
<1>0. \E t \in Transactions :
         /\ t.stage = "replay"
         /\ tx' = [tx EXCEPT ![l] = t]
         /\ \/ mode' = mode /\ mode[l] = "ready" /\ t.act \in Actions
            \/ mode' = [mode EXCEPT ![l] = "opening"] /\ t.act = Genesis
  <2>1. CASE Reopen(l) /\ mode[l] = "ready"
    <3>1. tx[l] \in Transactions /\ tx[l].act \in Actions
      BY <2>1 DEF Reopen, At, IInv, Types, Stage
    <3>2. [tx[l] EXCEPT !.stage = "replay"] \in Transactions
      BY <3>1 DEF Transactions, Stages
    <3>3. [tx[l] EXCEPT !.stage = "replay"].stage = "replay"
          /\ [tx[l] EXCEPT !.stage = "replay"].act \in Actions
      BY <3>1 DEF Transactions
    <3>4. tx' = [tx EXCEPT ![l] = [tx[l] EXCEPT !.stage = "replay"]]
      BY <2>1 DEF Reopen, IInv, Types
    <3> QED BY <2>1, <3>2, <3>3, <3>4 DEF Reopen
  <2>2. CASE Open(l)
    <3>1. PICK k \in Calls : tx' = [tx EXCEPT ![l] =
                    [stage |-> "replay", act |-> Genesis, call |-> k]]
      BY <2>2 DEF Open
    <3>2. [stage |-> "replay", act |-> Genesis, call |-> k] \in Transactions
      BY DEF Transactions, Stages
    <3> QED BY <2>2, <3>1, <3>2 DEF Open
  <2> QED BY <2>1, <2>2
<1>1. Types'
  <2>1. mode' \in [Loops -> {"down", "opening", "ready"}]
    BY <1>0 DEF IInv, Types
  <2>2. epoch' \in Nat /\ handle' \in [Loops -> Nat]
    BY DEF IInv, Types, Claim
  <2>3. tx' \in [Loops -> {None} \cup Transactions]
    BY <1>0 DEF IInv, Types
  <2> QED BY <2>1, <2>2, <2>3 DEF IInv, Types
<1>2. Handles'
  BY DEF IInv, Types, Handles, Claim
<1>3. ASSUME NEW m \in Loops PROVE Stage(m)'
  <2>1. CASE m = l
    <3>1. handle'[l] # 0
      BY DEF Claim, IInv, Types
    <3>2. tx'[l].stage = "replay" /\ tx'[l] # None
      BY <1>0, CommitLoopAssumption DEF IInv, Types
    <3> QED BY <1>0, <2>1, <3>1, <3>2 DEF IInv, Types, Stage, At
  <2>2. CASE m # l
    <3>1. /\ mode'[m] = mode[m] /\ tx'[m] = tx[m] /\ handle'[m] = handle[m]
          /\ view'[m] = view[m]
      BY <1>0, <2>2 DEF IInv, Types, Claim
    <3>2. Stage(m)
      BY <1>3 DEF IInv
    <3> QED BY <3>1, <3>2 DEF Stage, At, ActionsOf
  <2> QED BY <2>1, <2>2
<1>4. replayFailures' = 0 => Sound'
  <2>1. SUFFICES ASSUME replayFailures' = 0 PROVE Sound'
    OBVIOUS
  <2>2. Sound
    BY <2>1 DEF IInv
  <2>3. ASSUME NEW m \in Loops PROVE Begins(view[m], journal)'
    BY <2>2, <2>3 DEF Sound, Begins
  <2>4. ASSUME NEW m \in Loops PROVE Current(m)'
    <3>1. CASE m = l
      <4>1. tx'[l].stage = "replay" /\ tx'[l] # None
        BY <1>0, CommitLoopAssumption DEF IInv, Types
      <4> QED BY <3>1, <4>1 DEF Current, At
    <3>2. CASE m # l
      BY <2>4, <3>2 DEF Current, Claim, IInv, Types, Handles
    <3> QED BY <3>1, <3>2
  <2> QED BY <2>2, <2>3, <2>4 DEF Sound, Folds
<1> QED BY <1>1, <1>2, <1>3, <1>4 DEF IInv

\* A record behind the history it was prepared on, for an action that is new to
\* it, extends the history soundly.
LEMMA AppendFolds ==
    ASSUME NEW j \in Seq(Records), NEW r \in Records, Folds(j), r.base = Len(j),
           r.act \notin ActionsOf(j),
           \A p, q \in DOMAIN j : j[p].act = j[q].act => p = q
    PROVE  /\ Append(j, r) \in Seq(Records)
           /\ Folds(Append(j, r))
           /\ \A p, q \in DOMAIN Append(j, r) :
                 Append(j, r)[p].act = Append(j, r)[q].act => p = q
           /\ \A v \in Seq(Records) : Begins(v, j) => Begins(v, Append(j, r))
<1> DEFINE a == Append(j, r)
<1>1. /\ a \in Seq(Records) /\ Len(a) = Len(j) + 1 /\ Len(j) \in Nat
      /\ DOMAIN a = 1..(Len(j) + 1) /\ DOMAIN j = 1..Len(j)
  OBVIOUS
<1>2. /\ \A i \in 1..Len(j) : a[i] = j[i]
      /\ a[Len(j) + 1] = r
  OBVIOUS
<1> HIDE DEF a
<1>3. Folds(a)
  BY <1>1, <1>2 DEF Folds
<1>4. ASSUME NEW p \in DOMAIN a, NEW q \in DOMAIN a, a[p].act = a[q].act
      PROVE  p = q
  <2>1. \A i \in 1..Len(j) : j[i].act # r.act
    BY <1>1 DEF ActionsOf
  <2> QED BY <1>1, <1>2, <1>4, <2>1
<1>5. ASSUME NEW v \in Seq(Records), Begins(v, j) PROVE Begins(v, a)
  <2>1. Len(v) \in Nat
    OBVIOUS
  <2> QED BY <1>1, <1>2, <1>5, <2>1 DEF Begins
<1> QED BY <1>1, <1>3, <1>4, <1>5 DEF a

\* A prepared record is a record.
LEMMA PreparedType ==
    ASSUME Types, NEW l \in Loops, tx[l] # None
    PROVE  /\ Prepared(l) \in Records
           /\ Prepared(l).base = Len(view[l]) /\ Prepared(l).act = tx[l].act
<1>1. tx[l] \in Transactions /\ Len(view[l]) \in Nat
  BY DEF Types
<1>2. tx[l].act \in Actions \cup {Genesis}
  BY <1>1 DEF Transactions
<1> QED BY <1>1, <1>2 DEF Prepared, Records

\* The write of a current writer extends the selected history by a record
\* prepared on all of it; another writer's frame is not selected.
LEMMA WriteKeeps ==
    ASSUME IInv, NEW l \in Loops, Write(l)
    PROVE  IInv'
<1> USE DEF IInv
<1>0. tx[l] # None /\ tx[l].stage = "append" /\ tx[l] \in Transactions
      /\ handle[l] # 0 /\ mode[l] # "down"
  BY DEF Write, At, Refuses, Types, Stage
<1>1. PICK ok \in BOOLEAN, left \in BOOLEAN :
         /\ ok => left
         /\ journal' = IF left /\ handle[l] = epoch
                       THEN Append(journal, Prepared(l)) ELSE journal
         /\ IF mode[l] = "opening" /\ ~ok
            THEN GiveUp(l)
            ELSE /\ tx' = [tx EXCEPT ![l].stage = IF ok THEN "ack" ELSE "reopen"]
                 /\ UNCHANGED <<mode, handle, call>>
  BY DEF Write
<1> DEFINE t == [tx[l] EXCEPT !.stage = IF ok THEN "ack" ELSE "reopen"]
<1>t. /\ t \in Transactions /\ t # None /\ t.act = tx[l].act
      /\ t.stage = IF ok THEN "ack" ELSE "reopen"
  BY <1>0, CommitLoopAssumption DEF Transactions, Stages
<1>u. GiveUp(l) \/ (tx' = [tx EXCEPT ![l] = t] /\ UNCHANGED <<mode, handle>>)
  BY <1>1 DEF Types
<1> HIDE DEF t
<1>2. UNCHANGED <<epoch, view, replayFailures>>
  BY DEF Write
<1>3. \A m \in Loops \ {l} : /\ mode'[m] = mode[m] /\ tx'[m] = tx[m]
                             /\ handle'[m] = handle[m]
  BY <1>1 DEF Types, GiveUp
<1>4. \/ /\ mode'[l] = "down" /\ tx'[l] = None /\ handle'[l] = 0
      \/ /\ mode'[l] = mode[l] /\ handle'[l] = handle[l]
         /\ tx'[l] = t
         /\ mode[l] = "opening" => ok
  BY <1>1 DEF Types, GiveUp, t
<1>5. Prepared(l) \in Records /\ Prepared(l).base = Len(view[l])
      /\ Prepared(l).act = tx[l].act
  BY <1>0, PreparedType
<1>6. Types'
  <2>1. journal' \in Seq(Records)
    BY <1>1, <1>5 DEF Types
  <2>2. mode' \in [Loops -> {"down", "opening", "ready"}]
    BY <1>u DEF Types, GiveUp
  <2>3. handle' \in [Loops -> Nat]
    BY <1>u DEF Types, GiveUp
  <2>4. tx' \in [Loops -> {None} \cup Transactions]
    <3>1. CASE GiveUp(l)
      BY <3>1 DEF Types, GiveUp
    <3>2. CASE tx' = [tx EXCEPT ![l] = t]
      BY <1>t, <3>2 DEF Types
    <3> QED BY <1>u, <3>1, <3>2
  <2> QED BY <1>2, <2>1, <2>2, <2>3, <2>4 DEF Types
<1>7. Handles'
  <2>1. \A m \in Loops : handle'[m] = handle[m] \/ handle'[m] = 0
    BY <1>3, <1>4
  <2>2. epoch' = epoch /\ epoch \in Nat /\ Handles
    BY <1>2 DEF Types
  <2> QED BY <2>1, <2>2 DEF Handles
<1>8. ASSUME NEW m \in Loops PROVE Stage(m)'
  <2>1. CASE m = l
    <3>1. Stage(l) /\ view'[l] = view[l]
      BY <1>2
    <3> QED BY <1>0, <1>t, <1>4, <2>1, <3>1 DEF Stage, At
  <2>2. CASE m # l
    BY <1>2, <1>3, <1>8, <2>2 DEF Stage, At, ActionsOf
  <2> QED BY <2>1, <2>2
<1>9. ASSUME replayFailures' = 0 PROVE Sound'
  <2>1. Sound
    BY <1>2, <1>9
  <2>2. Current(l)
    BY <2>1 DEF Sound
  <2>3. CASE ~(left /\ handle[l] = epoch)
    <3>1. journal' = journal
      BY <1>1, <2>3
    <3>2. ASSUME NEW m \in Loops PROVE Current(m)'
      <4>1. CASE m = l
        <5>1. CASE ok
          BY <1>1, <1>2, <1>4, <2>3, <4>1, <5>1 DEF Current
        <5>2. CASE ~ok
          BY <1>t, <1>4, <4>1, <5>2 DEF Current, At
        <5> QED BY <5>1, <5>2
      <4>2. CASE m # l
        BY <1>2, <1>3, <2>1, <3>1, <3>2, <4>2 DEF Sound, Current, At, Prepared
      <4> QED BY <4>1, <4>2
    <3> QED BY <1>2, <2>1, <3>1, <3>2 DEF Sound, Folds, Begins
  <2>4. CASE left /\ handle[l] = epoch
    <3>1. view[l] = journal /\ journal' = Append(journal, Prepared(l))
      BY <1>0, <1>1, <2>2, <2>4 DEF Current, At
    <3>2. tx[l].act \notin ActionsOf(journal)
      <4>1. CASE mode[l] = "ready"
        BY <1>0, <3>1, <4>1 DEF Stage, At
      <4>2. CASE mode[l] = "opening"
        BY <1>0, <3>1, <4>2 DEF Stage, ActionsOf
      <4> QED BY <1>0, <4>1, <4>2 DEF Types
    <3>3. /\ Folds(journal')
          /\ \A i, j \in DOMAIN journal' : journal'[i].act = journal'[j].act => i = j
          /\ \A v \in Seq(Records) : Begins(v, journal) => Begins(v, journal')
      BY <1>5, <2>1, <3>1, <3>2, AppendFolds DEF Sound, Types
    <3>4. ASSUME NEW m \in Loops PROVE Begins(view[m], journal)'
      BY <1>2, <2>1, <3>3, <3>4 DEF Sound, Types, Begins
    <3>5. ASSUME NEW m \in Loops PROVE Current(m)'
      <4>1. CASE m = l
        <5>1. view'[l] = view[l]
          BY <1>2
        <5>2. tx'[l] = t => Prepared(l)' = Prepared(l)
          BY <1>t, <5>1 DEF Prepared
        <5> QED BY <1>t, <1>4, <3>1, <4>1, <5>1, <5>2 DEF Current, At
      <4>2. CASE m # l
        BY <1>0, <1>2, <1>3, <2>4, <3>5, <4>2 DEF Current, Handles
      <4> QED BY <4>1, <4>2
    <3> QED BY <3>3, <3>4, <3>5 DEF Sound, Folds
  <2> QED BY <2>3, <2>4
<1> QED BY <1>6, <1>7, <1>8, <1>9

\* An acknowledged record is the last one of the selected history: nothing was
\* appended behind it, since no other loop held the newest handle.
LEMMA AcknowledgeKeeps ==
    ASSUME IInv, NEW l \in Loops, Acknowledge(l)
    PROVE  IInv'
<1> USE DEF IInv
<1>0. /\ tx[l] # None /\ At(l, "ack") /\ handle[l] = epoch /\ handle[l] # 0
      /\ mode[l] # "down"
  BY DEF Acknowledge, At, Stage
<1>1. /\ view' = [view EXCEPT ![l] = Append(view[l], Prepared(l))]
      /\ mode' = [mode EXCEPT ![l] = "ready"]
      /\ tx' = [tx EXCEPT ![l] = None]
      /\ UNCHANGED <<journal, epoch, handle, replayFailures>>
  BY DEF Acknowledge, Finish, Types
<1>2. Prepared(l) \in Records
  BY <1>0, PreparedType
<1>3. Append(view[l], Prepared(l)) \in Seq(Records)
  BY <1>2 DEF Types
<1>4. Types'
  BY <1>1, <1>3 DEF Types
<1>5. Handles'
  BY <1>1 DEF Handles
<1>6. ASSUME NEW m \in Loops PROVE Stage(m)'
  <2>1. CASE m = l
    BY <1>0, <1>1, <2>1 DEF Stage, At, Types
  <2>2. CASE m # l
    <3>1. /\ mode'[m] = mode[m] /\ tx'[m] = tx[m] /\ handle'[m] = handle[m]
          /\ view'[m] = view[m]
      BY <1>1, <2>2 DEF Types
    <3>2. Stage(m)
      BY <1>6
    <3> QED BY <3>1, <3>2 DEF Stage, At, ActionsOf
  <2> QED BY <2>1, <2>2
<1>7. ASSUME replayFailures' = 0 PROVE Sound'
  <2>1. Sound
    BY <1>1, <1>7
  <2>2. journal = Append(view[l], Prepared(l))
    BY <1>0, <2>1 DEF Sound, Current
  <2>3. view'[l] = journal /\ tx'[l] = None
    BY <1>1, <2>2 DEF Types
  <2>4. ASSUME NEW m \in Loops PROVE Begins(view[m], journal)' /\ Current(m)'
    <3>1. CASE m = l
      <4>1. journal' = journal /\ journal \in Seq(Records)
        BY <1>1 DEF Types
      <4> QED BY <2>3, <3>1, <4>1 DEF Begins, Current, At
    <3>2. CASE m # l
      <4>1. /\ tx'[m] = tx[m] /\ view'[m] = view[m] /\ mode'[m] = mode[m]
        BY <1>1, <3>2 DEF Types
      <4>2. Begins(view[m], journal) /\ Current(m)
        BY <2>1 DEF Sound
      <4> QED BY <1>1, <4>1, <4>2 DEF Begins, Current, At, Prepared
    <3> QED BY <3>1, <3>2
  <2> QED BY <1>1, <2>1, <2>4 DEF Sound, Folds
<1> QED BY <1>4, <1>5, <1>6, <1>7

\* A recovered loop holds all of the selected history, and so does one that has
\* opened a journal with records in it or is about to write the first one.
LEMMA SnapshotKeeps ==
    ASSUME IInv, NEW l \in Loops, mode[l] # "down", At(l, "replay"),
           view' = [view EXCEPT ![l] = journal],
           UNCHANGED <<journal, epoch, handle, replayFailures>>,
           \/ /\ mode' = [mode EXCEPT ![l] = "ready"]
              /\ tx' = [tx EXCEPT ![l] = None]
           \/ /\ mode[l] = "opening" /\ mode' = mode /\ journal = <<>>
              /\ tx' = [tx EXCEPT ![l].stage = "append"]
    PROVE  IInv'
<1> USE DEF IInv
<1> DEFINE t == [tx[l] EXCEPT !.stage = "append"]
<1>0. tx[l] # None /\ tx[l] \in Transactions
  BY DEF At, Types
<1>1. /\ t \in Transactions /\ t # None /\ t.act = tx[l].act /\ t.stage = "append"
  BY <1>0, CommitLoopAssumption DEF Transactions, Stages
<1>2. \/ /\ mode' = [mode EXCEPT ![l] = "ready"]
         /\ tx' = [tx EXCEPT ![l] = None]
      \/ /\ mode[l] = "opening" /\ mode' = mode /\ journal = <<>>
         /\ tx' = [tx EXCEPT ![l] = t]
  BY DEF Types
<1> HIDE DEF t
<1>3. view'[l] = journal /\ handle' = handle
  BY DEF Types
<1>4. \/ mode'[l] = "ready" /\ tx'[l] = None
      \/ /\ mode[l] = "opening" /\ mode'[l] = "opening" /\ journal = <<>>
         /\ tx'[l] = t
  BY <1>2 DEF Types
<1>5. \A m \in Loops \ {l} :
         mode'[m] = mode[m] /\ tx'[m] = tx[m] /\ view'[m] = view[m]
  BY <1>2 DEF Types
<1>6. Types'
  <2>1. mode' \in [Loops -> {"down", "opening", "ready"}]
    BY <1>2 DEF Types
  <2>2. tx' \in [Loops -> {None} \cup Transactions]
    BY <1>1, <1>2 DEF Types
  <2> QED BY <2>1, <2>2 DEF Types
<1>7. Handles'
  BY DEF Handles
<1>8. ASSUME NEW m \in Loops PROVE Stage(m)'
  <2>1. CASE m = l
    BY <1>0, <1>1, <1>3, <1>4, <2>1 DEF Stage, At
  <2>2. CASE m # l
    BY <1>3, <1>5, <1>8, <2>2 DEF Stage, At, ActionsOf
  <2> QED BY <2>1, <2>2
<1>9. ASSUME replayFailures' = 0 PROVE Sound'
  <2>1. Sound
    BY <1>9
  <2>2. ASSUME NEW m \in Loops PROVE Begins(view[m], journal)' /\ Current(m)'
    <3>1. CASE m = l
      BY <1>1, <1>3, <1>4, <3>1 DEF Begins, Current, At, Types
    <3>2. CASE m # l
      <4>1. Begins(view[m], journal) /\ Current(m)
        BY <2>1 DEF Sound
      <4> QED BY <1>3, <1>5, <3>2, <4>1 DEF Begins, Current, At, Prepared
    <3> QED BY <3>1, <3>2
  <2> QED BY <2>1, <2>2 DEF Sound, Folds
<1> QED BY <1>6, <1>7, <1>8, <1>9

\* An append that is not acknowledged leaves the transaction to its recovery.
LEMMA SupersededKeeps ==
    ASSUME IInv, NEW l \in Loops, mode[l] = "ready", At(l, "ack"),
           tx' = [tx EXCEPT ![l].stage = "reopen"],
           UNCHANGED <<journal, epoch, mode, handle, view, replayFailures>>
    PROVE  IInv'
<1> USE DEF IInv
<1> DEFINE t == [tx[l] EXCEPT !.stage = "reopen"]
<1>0. tx[l] # None /\ tx[l] \in Transactions
  BY DEF At, Types
<1>1. /\ t \in Transactions /\ t # None /\ t.act = tx[l].act /\ t.stage = "reopen"
  BY <1>0, CommitLoopAssumption DEF Transactions, Stages
<1>2. tx' = [tx EXCEPT ![l] = t]
  BY DEF Types
<1> HIDE DEF t
<1>3. Types'
  BY <1>1, <1>2 DEF Types
<1>4. Handles'
  BY DEF Handles
<1>5. \A m \in Loops : Stage(m)'
  BY <1>0, <1>1, <1>2 DEF Stage, At, ActionsOf, Types
<1>6. ASSUME replayFailures' = 0 PROVE Sound'
  <2>1. Sound
    BY <1>6
  <2>2. ASSUME NEW m \in Loops PROVE Current(m)'
    BY <1>1, <1>2, <2>1, <2>2 DEF Sound, Current, At, Prepared, Types
  <2> QED BY <2>1, <2>2 DEF Sound, Folds, Begins
<1> QED BY <1>3, <1>4, <1>5, <1>6

\* close() gives up the handle of a loop with no transaction.
LEMMA CloseKeeps ==
    ASSUME IInv, NEW l \in Loops, Close(l)
    PROVE  IInv'
<1> USE DEF IInv
<1>0. /\ handle' = [handle EXCEPT ![l] = 0] /\ tx[l] = None /\ mode[l] = "ready"
      /\ UNCHANGED <<journal, epoch, mode, view, tx, replayFailures>>
  BY DEF Close
<1>1. Types'
  BY <1>0 DEF Types
<1>2. \A m \in Loops : handle'[m] = handle[m] \/ handle'[m] = 0
  BY <1>0 DEF Types
<1>3. epoch' = epoch /\ epoch \in Nat
  BY <1>0 DEF Types
<1>4. Handles'
  BY <1>2, <1>3 DEF Handles
<1>5. \A m \in Loops : Stage(m)'
  BY <1>0 DEF Stage, At, ActionsOf, Types
<1>6. ASSUME replayFailures' = 0 PROVE Sound'
  <2>1. Sound
    BY <1>0, <1>6
  <2>2. ASSUME NEW m \in Loops PROVE Current(m)'
    BY <1>0, <1>2, <2>1, <2>2 DEF Sound, Current, At, Prepared
  <2> QED BY <1>0, <2>1, <2>2 DEF Sound, Folds, Begins
<1> QED BY <1>1, <1>4, <1>5, <1>6

LEMMA InitIInv == Init => IInv
<1> SUFFICES ASSUME Init PROVE IInv
  OBVIOUS
<1>1. Types
  BY CommitLoopAssumption DEF Init, Types
<1>2. Handles
  BY DEF Init, Handles
<1>3. \A l \in Loops : Stage(l)
  BY DEF Init, Stage, At
<1>4. Sound
  BY DEF Init, Sound, Folds, Begins, Current, At
<1> QED BY <1>1, <1>2, <1>3, <1>4 DEF IInv

LEMMA NextIInv == IInv /\ [Next]_vars => IInv'
<1> SUFFICES ASSUME IInv, [Next]_vars PROVE IInv'
  OBVIOUS
<1>0. \A l \in Loops : Stage(l) /\ Types
  BY DEF IInv
<1>1. CASE UNCHANGED vars
  BY <1>1, Quiet DEF vars
<1>2. ASSUME NEW l \in Loops, NEW k \in Calls, NEW r \in Requests, Ingest(l, k, r)
      PROVE  IInv'
  BY <1>2, CommitInputKeeps DEF Ingest
<1>3. ASSUME NEW l \in Loops, NEW k \in Calls, Submit(l, k) PROVE IInv'
  BY <1>3, CommitInputKeeps DEF Submit
<1>4. ASSUME NEW l \in Loops, NEW k \in Calls, Reconcile(l, k) \/ CallPort(l, k)
      PROVE  IInv'
  BY <1>4, Quiet DEF Reconcile, CallPort
<1>5. ASSUME NEW l \in Loops, InstallFails(l) PROVE IInv'
  BY <1>5, EndKeeps DEF InstallFails, Finish, At
<1>6. ASSUME NEW l \in Loops, Refused(l) PROVE IInv'
  <2>1. mode[l] = "ready"
    BY <1>0, <1>6 DEF Refused, Refuses, At, Stage, Types
  <2> QED BY <1>6, <2>1, EndKeeps DEF Refused, Finish, At
<1>7. ASSUME NEW l \in Loops, Write(l) PROVE IInv'
  BY <1>7, WriteKeeps
<1>8. ASSUME NEW l \in Loops, Acknowledge(l) PROVE IInv'
  BY <1>8, AcknowledgeKeeps
<1>9. ASSUME NEW l \in Loops, Superseded(l) PROVE IInv'
  <2>1. CASE mode[l] = "opening"
    BY <1>9, <2>1, GiveUpKeeps DEF Superseded
  <2>2. CASE mode[l] = "ready"
    BY <1>9, <2>2, SupersededKeeps DEF Superseded
  <2>3. mode[l] \in {"opening", "ready"}
    BY <1>0, <1>9 DEF Superseded, At, Stage, Types
  <2> QED BY <2>1, <2>2, <2>3
<1>10. ASSUME NEW l \in Loops, Reopen(l) PROVE IInv'
  <2>1. mode[l] = "ready"
    BY <1>0, <1>10 DEF Reopen, At, Stage, Types
  <2> QED BY <1>10, <2>1, ClaimKeeps DEF Reopen
<1>11. ASSUME NEW l \in Loops, ReopenFails(l) PROVE IInv'
  <2>1. mode[l] = "ready"
    BY <1>0, <1>11 DEF ReopenFails, At, Stage, Types
  <2> QED BY <1>11, <2>1, EndKeeps DEF ReopenFails, Finish, At
<1>12. ASSUME NEW l \in Loops, Recover(l) PROVE IInv'
  <2>1. mode' = [mode EXCEPT ![l] = "ready"] /\ tx' = [tx EXCEPT ![l] = None]
    BY <1>0, <1>12 DEF Recover, Finish, Types
  <2> QED BY <1>12, <2>1, SnapshotKeeps DEF Recover
<1>13. ASSUME NEW l \in Loops, RecoverFails(l) PROVE IInv'
  <2>1. CASE UNCHANGED replayFailures /\ ~Folds(journal)
    <3>1. replayFailures # 0 /\ replayFailures \in Nat
      BY <2>1 DEF IInv, Sound, Types
    <3> QED BY <1>13, <2>1, <3>1, EndKeeps DEF RecoverFails, Finish, At
  <2>2. CASE replayFailures' = replayFailures + 1
    <3>1. replayFailures' # 0 /\ replayFailures' \in Nat
      BY <1>0, <1>13, <2>2 DEF Types
    <3> QED BY <1>13, <3>1, EndKeeps DEF RecoverFails, Finish, At
  <2> QED BY <1>13, <2>1, <2>2 DEF RecoverFails
<1>14. ASSUME NEW l \in Loops, Open(l) PROVE IInv'
  BY <1>14, ClaimKeeps DEF Open
<1>15. ASSUME NEW l \in Loops, OpenReplay(l) PROVE IInv'
  <2>1. CASE GiveUp(l) /\ UNCHANGED view
    BY <1>15, <2>1, GiveUpKeeps DEF OpenReplay
  <2>2. CASE view' = [view EXCEPT ![l] = journal] /\ UNCHANGED handle
             /\ journal = <<>> /\ tx' = [tx EXCEPT ![l].stage = "append"]
             /\ UNCHANGED mode
    BY <1>15, <2>2, SnapshotKeeps DEF OpenReplay
  <2>3. CASE view' = [view EXCEPT ![l] = journal] /\ UNCHANGED handle
             /\ mode' = [mode EXCEPT ![l] = "ready"]
             /\ tx' = [tx EXCEPT ![l] = None]
    BY <1>15, <2>3, SnapshotKeeps DEF OpenReplay
  <2> QED BY <1>15, <2>1, <2>2, <2>3 DEF OpenReplay, Finish
<1>16. ASSUME NEW l \in Loops, Close(l) PROVE IInv'
  BY <1>16, CloseKeeps
<1>17. ASSUME NEW l \in Loops, Crash(l) PROVE IInv'
  BY <1>17, GiveUpKeeps DEF Crash
<1> QED
  BY <1>1, <1>2, <1>3, <1>4, <1>5, <1>6, <1>7, <1>8, <1>9, <1>10, <1>11, <1>12,
     <1>13, <1>14, <1>15, <1>16, <1>17 DEF Next

\* The invariant holds in every behaviour of the loops.
THEOREM Invariance == Spec => []IInv
BY InitIInv, NextIInv, PTL DEF Spec

\* However many loops append, recover, are superseded or crash, replay accepts the
\* journal as long as every recovery (recoverAfterUncertainAppend) could read it.
THEOREM JournalAlwaysFolds == Spec => []JournalFolds
<1>1. IInv => JournalFolds
  BY DEF IInv, Sound, JournalFolds
<1> QED BY <1>1, Invariance, PTL

\* Under the same condition no action identity is committed by two records.
THEOREM CommitsOnce == Spec => []OneRecordPerAction
<1>1. IInv => OneRecordPerAction
  BY DEF IInv, Sound, OneRecordPerAction
<1> QED BY <1>1, Invariance, PTL

\* Under the same condition the state a loop prepares on is a part of the selected
\* history, and all of it when the loop holds the newest handle.
THEOREM MemoryAlwaysHistory == Spec => []MemoryIsHistory
<1>1. IInv => MemoryIsHistory
  <2> SUFFICES ASSUME IInv, replayFailures = 0, NEW l \in Loops
      PROVE /\ Begins(view[l], journal)
            /\ /\ mode[l] = "ready" /\ handle[l] = epoch /\ handle[l] # 0
               /\ tx[l] = None \/ At(l, "append")
               => view[l] = journal
    BY DEF MemoryIsHistory
  <2>1. Begins(view[l], journal) /\ Current(l)
    BY DEF IInv, Sound
  <2> QED BY <2>1 DEF Current
<1> QED BY <1>1, Invariance, PTL
=============================================================================
