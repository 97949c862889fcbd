SPECIFICATION FairSpec
CONSTANTS
    Drafts = {d1, d2, broken}
    Parses = {d1, d2}
    None = None
    MaxLoads = 6
    Findings = {f1, f2}
    Unverified = Unverified
    N = 3
    Tasks = {t1, t2}
INVARIANTS SaveIsChecked OneChain LabelsFresh RoundCovers
PROPERTIES SnapshotsAdvance ButtonsReturn
