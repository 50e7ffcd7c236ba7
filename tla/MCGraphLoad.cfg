SPECIFICATION Spec
CONSTANTS
    Titles <- MCTitles
    Names <- MCNames
    TypeMap <- MCTypeMap
    TypeRules <- MCTypeRules
    RecipeTitle <- MCRecipeTitle
    Suffixed <- MCSuffixed
    Contents <- MCContents
    Redirects <- MCRedirects
    Broken = Broken
    NoPage = NoPage
    NoTitle = NoTitle
    BatchSize = 2
    MaxChanges = 1
    MaxLoads = 2
    MaxDepth = 3
    MaxRenderDepth = 2
    RawItems <- MCRawItems
\* Behaviours stop at MaxChanges changes and MaxLoads loads.
CHECK_DEADLOCK FALSE
INVARIANTS
    GraphIsSound
    ReferencesAccountedFor
    LoadHoldsTheGraph
    SameGraphIsExact
    LeavesAreRaw
    TotalsCountEveryLeaf
    QueriesAgree
