CONSTANTS
    PhraseLists = {"p1", "p2"}
    IPLists = {"i1"}
    ConfigMaps = {"c1", "c2"}
    BinaryMaps = {"c2"}
    Wafs = {"w1", "w2"}
    HomeOf <- MCHomeOf
    StockFiles = {"s"}
    LinesOf <- MCLinesOf
    PolicyOf <- MCPolicyOf
    PacksOf <- MCPacksOf
    ListSpecs <- MCListSpecs
    StartSpecs <- MCStartSpecs
    MaxChunks = 4
    MaxUserSteps = 2
SPECIFICATION Spec
INVARIANTS TypeOK RestIsCurrent RestOwnsAlone RestInjects ProbeAgrees PublishedClosed
PROPERTIES FilesConverge
CHECK_DEADLOCK FALSE
