------------------------------ MODULE Authority ------------------------------
(***************************************************************************)
(* The semantic authority of the rebuild (next/authority): how one run's   *)
(* state answers a stimulus.                                               *)
(*                                                                         *)
(* prepare() admits a stimulus by turning it into facts, folds the facts,  *)
(* asks the outcome seam whether the run is finished, derives the commands *)
(* that the new state calls for, and assembles one record; folding that    *)
(* record again on replay must reach the same state.  A stimulus that is   *)
(* refused at any of these points leaves the run as it is.                 *)
(*                                                                         *)
(* run is the state that fold() rebuilds.  An artifact root is the tree it *)
(* names, an index is the set of its keys, and the root of the evidence    *)
(* index is the function it authenticates.  An index keeps a complete hot  *)
(* page only up to HotLimit entries; past that a lookup needs a proof page *)
(* that travels with the stimulus.  A caller's stimulus carries the pages  *)
(* the caller chose (here: the ones needed), the dispatcher's carries none.*)
(* The actions index grows with every record; it is counted, up to the     *)
(* first entry that no longer fits, only when CountActions says so.        *)
(***************************************************************************)
EXTENDS Integers, FiniteSets, Sequences, SequencesExt

CONSTANTS
    Atoms,          \* requirement atoms
    BaseWork,       \* work items that callers declare
    RootOf,         \* the plan root a work item was issued under
    VerifyTree,     \* the tree a verify-candidate item checks, None for others
    Candidates,
    TreeOf,         \* the tree of a candidate
    Publications,
    Findings,
    KindOf,         \* "blocking", "advisory" or "planning-gap"
    None,
    Scopes,         \* what a run may be about: the facts of the records it is
                    \* opened on, and the candidates, publications and
                    \* findings that callers name
    HotLimit,       \* MAX_HOT_INDEX_VALUES
    CountActions    \* whether the length of the actions index is modelled

Trees == {TreeOf[c] : c \in Candidates}
PlanRoots == {RootOf[w] : w \in BaseWork}
Verifiers == {w \in BaseWork : VerifyTree[w] # None}

Publish(p, t) == <<"publish", p, t>>
MovedHead(c) == <<"moved", c>>
Corrector(f) == <<"fix", f>>

Published == {Publish(p, t) : p \in Publications, t \in Trees}
AllFindings == Findings \cup {MovedHead(c) : c \in Published}
Blocking(f) == f \notin Findings \/ KindOf[f] = "blocking"
Correctors == {Corrector(f) : f \in {g \in AllFindings : Blocking(g)}}
Work == BaseWork \cup Correctors
Reserve(w) == <<"reserve", w>>
Evidence(w) == <<"evidence", w>>
Commands == {Reserve(w) : w \in Work} \cup {Evidence(w) : w \in Verifiers}
            \cup Published

ASSUME AuthorityAssumption ==
    /\ RootOf \in [BaseWork -> PlanRoots]
    /\ TreeOf \in [Candidates -> Trees]
    /\ VerifyTree \in [BaseWork -> Trees \cup {None}]
    /\ KindOf \in [Findings -> {"blocking", "advisory", "planning-gap"}]
    /\ None \notin Trees \cup Candidates \cup PlanRoots
    /\ \A s \in Scopes : /\ s.candidates \subseteq Candidates
                         /\ s.publications \subseteq Publications
                         /\ s.findings \subseteq Findings
    /\ HotLimit \in Nat /\ CountActions \in BOOLEAN

VARIABLES
    scope,          \* one of Scopes, for good
    run

vars == <<scope, run>>

Requirements == [need : 0 .. Cardinality(Atoms), root : SUBSET Atoms,
                 sealed : BOOLEAN]
Plans == [root : PlanRoots, integrator : BaseWork]
Done == "done"
Pubs == [id : Publications, cand : Candidates,
         status : {"intended", "desired-head", "head-moved"},
         tree : Trees \cup {None}]
Evidences == [Verifiers -> {"none", "green", "red"}]
Attestations == [cand : Candidates, pub : Publications, manifest : Candidates,
                 root : Evidences, evidence : Verifiers]

TypeOK ==
    /\ run.req = None \/ run.req \in Requirements
    /\ run.atoms \subseteq Atoms /\ run.disp \subseteq run.atoms
    /\ run.work \subseteq Work /\ run.out \in [Work -> Trees \cup {None, Done}]
    /\ run.plan = None \/ run.plan \in Plans
    /\ run.cand \in Candidates \cup {None} /\ run.cands \subseteq Candidates
    /\ run.pub = None \/ run.pub \in Pubs
    /\ run.pubs \subseteq Publications
    /\ run.att = None \/ run.att \in Attestations
    /\ run.gap \in BOOLEAN
    /\ run.open \subseteq AllFindings /\ run.cleared \subseteq AllFindings
    /\ run.blocking \in Nat
    /\ run.evid \in Evidences
    /\ run.issued \subseteq Commands /\ run.settled \subseteq Commands
    /\ run.suspended \in BOOLEAN /\ run.actions \in 0 .. HotLimit + 1
    /\ run.terminal \in {"none", "t1", "t2"}

InitialState ==
    [req |-> None, atoms |-> {}, disp |-> {}, work |-> {},
     out |-> [w \in Work |-> None], plan |-> None, cand |-> None, cands |-> {},
     pub |-> None, pubs |-> {}, att |-> None, gap |-> FALSE, open |-> {},
     cleared |-> {}, blocking |-> 0, evid |-> [w \in Verifiers |-> "none"],
     issued |-> {}, settled |-> {}, suspended |-> FALSE, terminal |-> "none",
     actions |-> 0]

\* phase is "execution" exactly from the acceptance of the plan on.
Planning(s) == s.plan = None

Accepted(s, w) == s.out[w] # None
CandTree(s) == IF s.cand = None THEN None ELSE TreeOf[s.cand]
Observed(s) == {w \in Verifiers : s.evid[w] # "none"}
Hot(index) == Cardinality(index) <= HotLimit

\* lookupIndex(): a key is proved present or absent by a complete hot page or
\* by a page the stimulus carries.
Proved(index, pages) == Hot(index) \/ pages

-----------------------------------------------------------------------------
\* The facts.  Each operator is one case of applySemanticFact(): the states
\* the fact leads to, none when the fold rejects it.

If(ok, s) == IF ok THEN {s} ELSE {}

RequirementsBound(s, n) ==
    If(s.req = None,
       [s EXCEPT !.req = [need |-> n, root |-> s.atoms, sealed |-> FALSE]])

AtomDeclared(s, a) ==
    If(s.req # None /\ ~s.req.sealed /\ a \notin s.atoms,
       [s EXCEPT !.atoms = @ \cup {a}])

AtomInventorySealed(s) ==
    If(s.req # None /\ ~s.req.sealed /\ Cardinality(s.atoms) = s.req.need,
       [s EXCEPT !.req.root = s.atoms, !.req.sealed = TRUE])

\* Mutant: any atom is dispositioned, declared or not.
AtomDispositionedUnknown(s, a, root, implementers) ==
    If(s.plan # None /\ s.plan.root = root, [s EXCEPT !.disp = @ \cup {a}])

\* Which meanings are legal for which kind of atom is not modelled;
\* implementers is the work an implemented-by disposition names.
AtomDispositioned(s, a, root, implementers) ==
    If(/\ s.req # None /\ s.req.sealed
       /\ a \in s.atoms /\ a \notin s.disp
       /\ s.plan # None /\ s.plan.root = root
       /\ implementers \subseteq {w \in s.work \cap BaseWork : RootOf[w] = root},
       [s EXCEPT !.disp = @ \cup {a}])

WorkDeclared(s, w) ==
    If(/\ Planning(s) \/ s.plan.root = RootOf[w]
       /\ w \notin s.work,
       [s EXCEPT !.work = @ \cup {w}])

\* A correction is issued under the plan that is current, and there is one plan.
PlanRootOf(s, w) == IF w \in BaseWork THEN RootOf[w] ELSE s.plan.root

\* Only the integration owner's output is ever compared with anything: its
\* output root with the candidate's tree, its accounted diff with the reviewed
\* one.  t is the tree of a candidate when both match it, Done when one does not.
WorkOutputAccepted(s, w, t) ==
    If(/\ s.plan # None /\ s.plan.root = PlanRootOf(s, w)
       /\ w \in s.work /\ ~Accepted(s, w),
       [s EXCEPT !.out[w] = IF w = s.plan.integrator THEN t ELSE Done])

\* The author is kept by the code and, like the integration owner, is declared
\* work; no decision depends on which item it is.
PlanRootAccepted(s, root, author, integrator) ==
    If(Planning(s) /\ {author, integrator} \subseteq s.work,
       [s EXCEPT !.plan = [root |-> root, integrator |-> integrator]])

\* Mutant: a gap is accepted over outstanding commands.
PlanningGapAcceptedEarly(s, f, atoms, contradiction) ==
    If(/\ Planning(s) /\ s.req # None /\ s.req.sealed
       /\ f \notin s.open \cup s.cleared,
       [s EXCEPT !.open = @ \cup {f}, !.gap = TRUE])

\* atoms are the ones a planning gap cites; a contradiction cites two.
PlanningGapAccepted(s, f, atoms, contradiction) ==
    If(/\ Planning(s) /\ s.req # None /\ s.req.sealed
       /\ Hot(s.issued \cup s.settled) /\ s.issued = {}
       /\ atoms \subseteq s.atoms
       /\ contradiction => Cardinality(atoms) >= 2
       /\ f \notin s.open \cup s.cleared,
       [s EXCEPT !.open = @ \cup {f}, !.gap = TRUE])

AdvisoryAccepted(s, f) ==
    If(f \notin s.open \cup s.cleared, [s EXCEPT !.open = @ \cup {f}])

\* The finding, the correction work and the counter, in one fact.
BlockingAccepted(s, f, owner, pages) ==
    If(/\ s.plan # None /\ owner \in s.work
       /\ Proved(s.work, pages) /\ Proved(s.open \cup s.cleared, pages)
       /\ Corrector(f) \notin s.work
       /\ f \notin s.open \cup s.cleared,
       [s EXCEPT !.work = @ \cup {Corrector(f)}, !.open = @ \cup {f},
                 !.blocking = @ + 1])

\* Mutant: a finding that is cleared already is cleared again.
FindingClearedAgain(s, f) ==
    If(f \in s.open \cup s.cleared /\ (Blocking(f) => s.blocking > 0),
       [s EXCEPT !.open = @ \ {f}, !.cleared = @ \cup {f},
                 !.blocking = IF Blocking(f) THEN @ - 1 ELSE @])

FindingCleared(s, f) ==
    If(f \in s.open /\ (Blocking(f) => s.blocking > 0),
       [s EXCEPT !.open = @ \ {f}, !.cleared = @ \cup {f},
                 !.blocking = IF Blocking(f) THEN @ - 1 ELSE @])

\* Mutant: evidence about a tree that is no longer the candidate's is refused.
EvidenceObservedCurrent(s, w, exit, pages) ==
    If(s.evid[w] = "none" /\ VerifyTree[w] = CandTree(s),
       [s EXCEPT !.evid[w] = exit])

EvidenceObserved(s, w, exit, pages) ==
    If(Proved(Observed(s), pages) /\ s.evid[w] = "none",
       [s EXCEPT !.evid[w] = exit])

CandidateAccepted(s, c, root) ==
    If(/\ s.plan # None /\ s.plan.root = root
       /\ c \notin s.cands,
       [s EXCEPT !.cand = c, !.cands = @ \cup {c}, !.att = None])

PublicationIntended(s, p, c) ==
    If(s.cand = c /\ p \notin s.pubs,
       [s EXCEPT !.pub = [id |-> p, cand |-> c, status |-> "intended",
                          tree |-> None],
                 !.pubs = @ \cup {p}])

PublicationObserved(s, p, t, status, pages) ==
    If(/\ s.pub # None /\ s.pub.id = p /\ s.cand # None
       /\ t = CandTree(s)
       /\ Proved(s.pubs, pages) /\ s.pub.status = "intended",
       [s EXCEPT !.pub.status = status, !.pub.tree = t,
                 !.att = IF status = "head-moved" THEN None ELSE @])

\* A publish command of the publication itself may still be outstanding.
FinalAttestationsRecorded(s, a) ==
    If(/\ s.cand = a.cand /\ s.pub # None /\ s.pub.id = a.pub
       /\ a.root = s.evid
       /\ Hot(s.issued \cup s.settled)
       /\ \A c \in s.issued : c[1] = "publish" /\ c[2] = a.pub,
       [s EXCEPT !.att = a])

\* foldDomainFact(), for a fact given as a tuple headed by its kind.
FoldFact(s, f, pages) ==
    CASE f[1] = "requirements-bound" -> RequirementsBound(s, f[2])
      [] f[1] = "atom-declared" -> AtomDeclared(s, f[2])
      [] f[1] = "atom-inventory-sealed" -> AtomInventorySealed(s)
      [] f[1] = "atom-dispositioned" -> AtomDispositioned(s, f[2], f[3], f[4])
      [] f[1] = "work-declared" -> WorkDeclared(s, f[2])
      [] f[1] = "work-output-accepted" -> WorkOutputAccepted(s, f[2], f[3])
      [] f[1] = "plan-root-accepted" -> PlanRootAccepted(s, f[2], f[3], f[4])
      [] f[1] = "planning-gap" -> PlanningGapAccepted(s, f[2], f[3], f[4])
      [] f[1] = "advisory" -> AdvisoryAccepted(s, f[2])
      [] f[1] = "blocking" -> BlockingAccepted(s, f[2], f[3], pages)
      [] f[1] = "finding-cleared" -> FindingCleared(s, f[2])
      [] f[1] = "evidence-observed" -> EvidenceObserved(s, f[2], f[3], pages)
      [] f[1] = "candidate-accepted" -> CandidateAccepted(s, f[2], f[3])
      [] f[1] = "publication-intended" -> PublicationIntended(s, f[2], f[3])
      [] f[1] = "publication-observed" ->
             PublicationObserved(s, f[2], f[3], f[4], pages)
      [] f[1] = "final-attestations-recorded" ->
             FinalAttestationsRecorded(s, f[2])

AfterFacts(s, facts, pages) ==
    LET after[n \in 0..Len(facts)] ==
            IF n = 0 THEN {s}
            ELSE UNION {FoldFact(t, facts[n], pages) : t \in after[n - 1]}
    IN after[Len(facts)]

-----------------------------------------------------------------------------
\* eligibleOutcomeForState(): T2 stops the planning of an impossible task, T1
\* finishes a run.

CoverageComplete(s) ==
    /\ s.req # None /\ s.req.sealed
    /\ Hot(s.atoms) /\ Hot(s.disp)
    /\ s.atoms \subseteq s.disp

FinalEvidenceGreen(s, pages) ==
    /\ s.att # None /\ s.cand # None
    /\ Proved(Observed(s), pages) /\ s.evid[s.att.evidence] = "green"
    /\ Proved(s.issued \cup s.settled, pages)
    /\ Evidence(s.att.evidence) \in s.settled
    /\ VerifyTree[s.att.evidence] = CandTree(s)

\* Mutant: T1 does not ask for the accepted output of every work item.
T1ChecksWithoutWork(s, pages) ==
    /\ CoverageComplete(s) /\ s.atoms # {}
    /\ FinalEvidenceGreen(s, pages)
    /\ s.plan # None /\ s.pub # None
    /\ s.out[s.plan.integrator] = CandTree(s)
    /\ s.pub.cand = s.cand /\ s.blocking = 0
    /\ s.pub.status = "desired-head" /\ s.pub.tree = CandTree(s)
    /\ s.att.cand = s.cand /\ s.att.pub = s.pub.id /\ s.att.root = s.evid

T1Checks(s, pages) ==
    /\ s.req # None /\ s.req.sealed /\ s.req.root = s.atoms
    /\ s.atoms # {} /\ Cardinality(s.disp) = Cardinality(s.atoms)
    /\ s.req.need = Cardinality(s.atoms) /\ CoverageComplete(s)
    /\ FinalEvidenceGreen(s, pages)
    /\ s.plan # None /\ s.pub # None
    /\ s.att.manifest = s.cand
    /\ Proved(s.work, pages) /\ s.out[s.plan.integrator] = CandTree(s)
    /\ s.pub.cand = s.cand
    /\ s.work # {} /\ Hot(s.work) /\ \A w \in s.work : Accepted(s, w)
    /\ ~s.gap
    /\ s.blocking = 0
    /\ s.pub.status = "desired-head" /\ s.pub.tree = CandTree(s)
    /\ s.att.cand = s.cand /\ s.att.pub = s.pub.id /\ s.att.root = s.evid

Outcome(s, pages) ==
    IF Planning(s) /\ s.gap /\ Hot(s.issued \cup s.settled) /\ s.issued = {}
    THEN "t2"
    ELSE IF T1Checks(s, pages) THEN "t1" ELSE "none"

-----------------------------------------------------------------------------
\* deriveReaction(): the commands a state calls for.  A command is named by
\* what it does, and publishing by the publication and the tree.

ReserveCommands(s) == {Reserve(w) : w \in {v \in s.work : ~Accepted(s, v)}}

EvidenceCommands(s) ==
    {Evidence(w) : w \in {v \in s.work \cap Verifiers :
                            ~Accepted(s, v) /\ VerifyTree[v] = CandTree(s)}}

PublicationCommands(s) ==
    IF s.pub # None /\ s.cand # None /\ s.pub.status = "intended"
    THEN {Publish(s.pub.id, CandTree(s))}
    ELSE {}

\* Mutant: only outstanding commands are known, settled ones are issued again.
ReactionForgetful(s) ==
    IF s.suspended THEN {}
    ELSE (ReserveCommands(s) \cup EvidenceCommands(s) \cup PublicationCommands(s))
            \ s.issued

Reaction(s) ==
    IF s.suspended THEN {}
    ELSE (ReserveCommands(s) \cup EvidenceCommands(s) \cup PublicationCommands(s))
            \ (s.issued \cup s.settled)

\* Deriving needs the whole work index, and every new key a proof of absence.
ReactionProved(s, pages) ==
    LET known == s.issued \cup s.settled
    IN \/ s.suspended
       \/ /\ Hot(s.work)
          /\ \/ pages \/ Reaction(s) = {}
             \/ Cardinality(known \cup Reaction(s)) <= HotLimit + 1

-----------------------------------------------------------------------------
\* prepare(): admission, the outcome of the facts alone, the reaction, and the
\* record's own transition, which settles the command first.

Settle(s, c) ==
    IF c = None THEN s
    ELSE [s EXCEPT !.issued = @ \ {c}, !.settled = @ \cup {c}]

\* universalRejection() and, for an observation, issuedObservationCommand().
Admissible(s, c, pages) ==
    /\ s.terminal = "none"
    /\ s.actions <= HotLimit \/ pages
    /\ c # None => c \in s.issued /\ Proved(s.issued \cup s.settled, pages)

\* insertAction(); the count stops at the first entry past the hot page.
InsertAction(s) ==
    IF CountActions /\ s.actions <= HotLimit
    THEN [s EXCEPT !.actions = @ + 1]
    ELSE s

\* Mutant: a settlement carries no outcome.
AssembleNoOutcome(p, t, pages) ==
    {InsertAction([t EXCEPT !.issued = @ \cup Reaction(p),
                            !.terminal = IF p = t THEN Outcome(p, pages)
                                         ELSE "none"])}

\* p is the state after the facts alone, t the one after the settlement too.
Assemble(p, t, pages) ==
    LET outcome == Outcome(p, pages)
        commands == IF outcome = "none" THEN Reaction(p) ELSE {}
        u == [t EXCEPT !.issued = @ \cup commands]
    IN IF /\ outcome = "none" => ReactionProved(p, pages)
          /\ Outcome(u, pages) = outcome
       THEN {InsertAction([u EXCEPT !.terminal = outcome])}
       ELSE {}

Prepare(s, facts, c, pages) ==
    IF Admissible(s, c, pages)
    THEN UNION {UNION {Assemble(p, t, pages) :
                         t \in AfterFacts(Settle(s, c), facts, pages)} :
                  p \in AfterFacts(s, facts, pages)}
    ELSE {}

\* foldAll(): the state that the records of a journal rebuild.
Init ==
    /\ scope \in Scopes
    /\ run \in FoldLeft(LAMBDA states, f :
                           UNION {Prepare(s, <<f>>, None, TRUE) : s \in states},
                       {InitialState}, scope.prefix)

\* A caller's stimulus carries the pages it needs and settles no command.
Decide(fact) == run' \in Prepare(run, <<fact>>, None, TRUE)

\* Boundary requests.
BindRequirements ==
    \E n \in 0 .. Cardinality(Atoms) : Decide(<<"requirements-bound", n>>)

DeclareAtom == \E a \in Atoms : Decide(<<"atom-declared", a>>)

SealAtomInventory == Decide(<<"atom-inventory-sealed">>)

DeclareWork == \E w \in BaseWork : Decide(<<"work-declared", w>>)

IntendPublication ==
    \E p \in scope.publications, c \in scope.candidates :
        Decide(<<"publication-intended", p, c>>)

\* workValue(): a submission names a work item that has no accepted output,
\* and the plan root that item was issued under.
Submitters == {w \in run.work : ~Accepted(run, w)}
SubmittedRoots == {PlanRootOf(run, w) : w \in Submitters}

AcceptPlan ==
    \E root \in SubmittedRoots, author \in BaseWork, integrator \in BaseWork :
        Decide(<<"plan-root-accepted", root, author, integrator>>)

DispositionAtom ==
    \E root \in SubmittedRoots, a \in Atoms, implementers \in SUBSET BaseWork :
        Decide(<<"atom-dispositioned", a, root, implementers>>)

AcceptWorkOutput ==
    \E w \in Submitters, t \in {TreeOf[c] : c \in scope.candidates} \cup {Done} :
        Decide(<<"work-output-accepted", w, t>>)

\* correctionFact(): the corrector is the work item the finding is about, the
\* plan's author or its integration owner.
AcceptFinding ==
    /\ Submitters # {}
    /\ \E f \in scope.findings :
        \/ /\ KindOf[f] = "planning-gap" /\ Planning(run)
           /\ \E atoms \in SUBSET Atoms \ {{}}, contradiction \in BOOLEAN :
                 Decide(<<"planning-gap", f, atoms, contradiction>>)
        \/ /\ KindOf[f] = "advisory"
           /\ Decide(<<"advisory", f>>)
        \/ /\ KindOf[f] = "blocking" /\ run.plan # None
           /\ \E owner \in BaseWork \cup Correctors : Decide(<<"blocking", f, owner>>)

ClearFinding ==
    /\ Submitters # {}
    /\ \E f \in run.open \cup run.cleared : Decide(<<"finding-cleared", f>>)

AcceptCandidate ==
    \E root \in SubmittedRoots, c \in scope.candidates :
        Decide(<<"candidate-accepted", c, root>>)

\* An attestation names the evidence index as it stands; any other root is stale.
RecordFinalAttestations ==
    /\ Submitters # {}
    /\ \E c, m \in scope.candidates, p \in scope.publications, v \in Verifiers :
          Decide(<<"final-attestations-recorded",
                   [cand |-> c, pub |-> p, manifest |-> m, root |-> run.evid,
                    evidence |-> v]>>)

\* observationFacts(): the facts of the answers a port can give to a command.  A
\* publication that finds the head moved raises a blocking finding as well.
Answers(s, c) ==
    CASE c[1] = "reserve" -> {<<>>}
      [] c[1] = "evidence" ->
             {<<<<"evidence-observed", c[2], exit>>>> : exit \in {"green", "red"}}
      [] c[1] = "publish" ->
             {<<<<"publication-observed", c[2], c[3], "desired-head">>>>}
             \cup IF s.plan = None \/ s.cand = None THEN {}
                  ELSE {<<<<"publication-observed", c[2], c[3], "head-moved">>,
                          <<"blocking", MovedHead(c), s.plan.integrator>>>>}

\* The dispatcher reports an answer without proof pages.
ObserveCommand ==
    \E c \in run.issued : \E facts \in Answers(run, c) :
        run' \in Prepare(run, facts, c, FALSE)

RunReplayCompleted == run' \in Prepare(run, <<>>, None, TRUE)

\* assembleLifecycle(): the operator's records have no facts and no reaction.
OperatorSuspend ==
    /\ Admissible(run, None, TRUE) /\ ~run.suspended
    /\ run' = InsertAction([run EXCEPT !.suspended = TRUE])

OperatorResume ==
    /\ Admissible(run, None, TRUE) /\ run.suspended
    /\ run' = InsertAction([run EXCEPT !.suspended = FALSE])

Stimulus ==
    \/ BindRequirements \/ DeclareAtom \/ SealAtomInventory \/ DeclareWork
    \/ IntendPublication \/ AcceptPlan \/ DispositionAtom \/ AcceptWorkOutput
    \/ AcceptFinding \/ ClearFinding \/ AcceptCandidate
    \/ RecordFinalAttestations \/ ObserveCommand \/ RunReplayCompleted
    \/ OperatorSuspend \/ OperatorResume

Next == Stimulus /\ UNCHANGED scope

Spec == Init /\ [][Next]_vars

-----------------------------------------------------------------------------
\* A publish command the run has moved past: another publication or another
\* candidate is current, or the publication has been observed.
Overtaken(c) ==
    /\ c[1] = "publish"
    /\ ~ (/\ run.pub.id = c[2] /\ run.pub.status = "intended"
          /\ CandTree(run) = c[3])

\* Every answer a port can give to an outstanding command is admitted while the
\* actions index is hot, so a command of a running run never waits for ever for
\* a settlement the authority would refuse.  In particular the outcome seam,
\* which sees the facts without the settlement, never disagrees with the
\* record's own transition.  Only overtaken publish commands are refused.
AnswersAdmitted ==
    run.terminal = "none" /\ run.actions <= HotLimit =>
        \A c \in run.issued : \A facts \in Answers(run, c) :
            Overtaken(c) \/ Prepare(run, facts, c, FALSE) # {}

\* The same of a run of any length: "decisions require root-bound proof pages
\* when the needed value is not hot" (next/authority/model/run-state.ts), so an
\* answer the dispatcher reports can be admitted whatever the run's age.
EveryAnswerAdmitted ==
    run.terminal = "none" =>
        \A c \in run.issued : \A facts \in Answers(run, c) :
            Overtaken(c) \/ Prepare(run, facts, c, FALSE) # {}

\* A run that is eligible for T1 or T2 has committed it: no sequence of
\* submissions, settlements, suspensions and late findings leaves a finished
\* run open ("an eligible T1/T2 must commit atomically with its enabling
\* consequences", evolution/fold.ts).
EligibleIsTerminal == Outcome(run, TRUE) = run.terminal

\* A finished run delivers what its terminal claims: every blocking finding it
\* ever accepted is cleared and its correction work accepted, and the tree that
\* was published is the integration owner's output and passed a verification.
T1Delivers ==
    run.terminal = "t1" =>
        /\ \A f \in run.open \cup run.cleared :
              Blocking(f) => f \in run.cleared /\ Accepted(run, Corrector(f))
        /\ \E v \in Verifiers :
              /\ VerifyTree[v] = run.pub.tree /\ run.evid[v] = "green"
              /\ run.out[run.plan.integrator] = run.pub.tree

\* The counter that T1 reads is the number of open blocking findings, and each
\* blocking finding, open or cleared, came with its correction work item.
BlockingAccounted ==
    /\ run.blocking = Cardinality({f \in run.open : Blocking(f)})
    /\ run.work \cap Correctors =
          {Corrector(f) : f \in {g \in run.open \cup run.cleared : Blocking(g)}}

\* A command identity is issued once and settled once, and an evidence command
\* is settled together with its evidence.
SettledOnce ==
    /\ run.issued \cap run.settled = {}
    /\ \A v \in Verifiers :
          (Evidence(v) \in run.settled) <=> (run.evid[v] # "none")

\* A planning gap stops the run in the record that accepts it, with no command
\* outstanding and no plan.
GapStops ==
    run.gap => run.terminal = "t2" /\ run.issued = {} /\ run.plan = None

=============================================================================
