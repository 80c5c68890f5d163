CONSTANTS
    s1 = s1
    s2 = s2
    SecRules = {s1, s2}
    Specs <- MCAuto
    BadSpecs = {}
    Ranges = {}
    DefaultRange <- MCDefaultRange
    Edits = {"create", "lease"}
    MaxEdits = 4
    MaxStale = 1
SYMMETRY MCSymmetry
SPECIFICATION Spec
INVARIANTS AutoIDsUnique
PROPERTIES StickyStable
CHECK_DEADLOCK FALSE
