SPECIFICATION MCSpec
CONSTANTS
    Wafs <- MCWafs
    Gateways <- MCGateways
    Routes <- MCRoutes
    InstalledAPIs <- MCInstalled
    RuleLines <- MCRuleLines
    Threshold = 6
    OTelHost = TRUE
    WafSpecs <- MCSpecs
    Starts <- MCStarts
    ObsStates <- MCObsStates
    HMACs = {"h1", "h2", "h3", "h4", "h5", "h6"}
    SecretNameOf <- MCSecretNameOf
    Images <- MCImages
    Objects <- MCObjects
    Access <- MCAccess
    SARBroken = {"cyd"}
    FilesOf <- MCFiles
    Disabled = {}
    AuthMode = "requestheader"
    MaxBody = 2
    MaxLines = 20
    Slots = {s1, s2, s3}
    Loads <- MCLoads
    Chans = {1, 2, 3, 4}
    PerNS <- MCPerNS
    GlobalMax <- MCGlobalMax
    maxNSSemEntries = 1
    MaxInFlight = 2
    MaxCompiles = 1
    MaxHandlers = 3
INVARIANTS Types AtRestServes HMACAgrees HookSound SlotsBalanced 
PROPERTIES ImplementsRegistry SingletonCovers
SYMMETRY Symmetry
CHECK_DEADLOCK FALSE
