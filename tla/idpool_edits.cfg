CONSTANTS
    s1 = s1
    s2 = s2
    SecRules = {s1}
    Specs <- MCBags
    BadSpecs <- MCBad
    Ranges <- MCLargerRange
    DefaultRange <- MCSmallRange
    Edits = {"create", "spec", "delete", "lock", "range", "datafile", "lookup"}
    MaxEdits = 3
    MaxStale = 1
SPECIFICATION FairSpec
INVARIANTS TypeOK
PROPERTIES StickyStable GrantInRange EventuallyAssigned EventuallyDeleted
CHECK_DEADLOCK FALSE
