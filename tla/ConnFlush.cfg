CONSTANTS
    Locked = {w1, w2}
    Immediate = {}
    Implicit = {flush}
    NoOwner = NoOwner
SPECIFICATION Spec
INVARIANT CommittedIsStored
