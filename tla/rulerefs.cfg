CONSTANTS
    RuleSets <- MCRuleSets
    SecRules <- MCSecRules
    SecActions <- MCSecActions
    Wafs <- MCWafs
    NsOf <- MCNsOf
    NameOf <- MCNameOf
    OrderOf <- MCOrderOf
    IDsOf <- MCIDsOf
    Labelled = {"r1", "r2"}
    SharedNs = {2}
    WafRefs <- MCWafRefs
    Specs <- MCSpecs
    StartGraphs <- MCStartGraphs
    MaxEdits = 2
SPECIFICATION Spec
INVARIANTS TypeOK ResolvesChains OrderCanonical IdleCovers
PROPERTIES RuleSetSettles SecActionSettles DeletionCompletes
CHECK_DEADLOCK FALSE
