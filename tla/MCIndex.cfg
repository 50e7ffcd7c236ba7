SPECIFICATION AllSpec
CONSTANTS
    b1 = b1
    b2 = b2
    b3 = b3
    b4 = b4
    none = none
    Builds = {b1, b2, b3, b4}
    WikiOf <- MCWikiOf
    WidthOf <- MCWidthOf
    Pages <- MCPages
    Versions <- MCVersions
    Earlier = {b3, b4}
    NoArticle = none
    Articles <- MCArticles
    MaxTokens = 4
    MinChars = 6
    DropSections = {"See also"}
    NotArticles = {"file"}
    Canonical <- MCCanonical
    Known = {"iron"}
    Wiki = "w"
    Entities = {"iron"}
    NoTemplate = NoTemplate
    Graph = Graph
    Decided <- MCDecided
    Forced = {"graph"}
    Comparable = FALSE
    FactTokens = {6}
    TokenBudget = 12
    MinPassageTokens = 2
    HeadingChars = 4
    TopK = 2
    MinFilteredHits = 2
    Batch = 3
    RequestSize = 2
    Dimensions = 1
    Answers <- MCAnswers
    Casefold <- MCCasefold
    Indexes <- MCIndexes
    Queries <- MCQueries
    KValues = {1, 2, 3}
    Latencies <- MCLatencies
    Labels <- MCLabels
    SetSize = 2
    Blank = ""
    Stripped <- MCStripped
    Lower <- MCLower
    Terms <- MCTerms
    MinScore = 1
    Graphs <- MCGraphs
    Ranks <- MCRanks
    Asked <- MCAsked
\* Every build ends, and the question.
CHECK_DEADLOCK FALSE
INVARIANTS
    OneBuild
    PassagesFitTheBudget
    HitsAreOfOneBuild
    EvidenceIsHonest
    IndexHoldsTheArticle
    MeasuresAreExact
    NamesAreResolvedHonestly
PROPERTIES
    BuildsEnd
