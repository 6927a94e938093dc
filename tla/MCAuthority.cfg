SPECIFICATION Spec
CONSTANTS
    a1 = a1
    w1 = w1
    v1 = v1
    r1 = r1
    c1 = c1
    c2 = c2
    t1 = t1
    t2 = t2
    p1 = p1
    p2 = p2
    f1 = f1
    g1 = g1
    d1 = d1
    None = None
    Atoms <- MCAtoms
    BaseWork <- MCBaseWork
    RootOf <- MCRootOf
    VerifyTree <- MCVerifyTree
    TreeOf <- MCTreeOf
    KindOf <- MCKindOf
    HotLimit = 32
    Candidates = {c1, c2}
    Publications = {p1, p2}
    Findings = {f1, g1, d1}
    Scopes <- MCScopes
    CountActions = FALSE
INVARIANTS TypeOK EligibleIsTerminal SettledOnce GapStops AnswersAdmitted T1Delivers BlockingAccounted
SYMMETRY MCSymmetry
CHECK_DEADLOCK FALSE
