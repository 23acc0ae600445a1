\* Edits, transitions, approvals, signatures and renderings of one document.
SPECIFICATION Spec
CONSTANTS
    s1 = s1  s2 = s2
    Slots <- MCSlots
    Actors = {ana, luis}
    MaxVersions = 2
SYMMETRY MCSymmetry
INVARIANTS SignedHasSignature RowsBounded
PROPERTY FrozenAfterReview
CHECK_DEADLOCK FALSE
