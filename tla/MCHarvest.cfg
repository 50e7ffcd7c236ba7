SPECIFICATION FairSpec
CONSTANTS
    NumPages = 2
    NumTitles = 4
    Translated = {3}
    Namespaces <- TwoNamespaces
    NamespaceOf <- LastApart
    BatchSize = 2
    Limits <- SmokeThenFull
    Cuts <- SomeCuts
    TemplateEdits = TRUE
    Failures = {"api", "db", "kill"}
    MaxRev = 3
    MaxRuns = 2
    NoPage = NoPage
    NoTitle = NoTitle
    NoRow = NoRow
\* Behaviours stop at MaxRev changes and MaxRuns crawls.
CHECK_DEADLOCK FALSE
INVARIANTS
    NoHalfWrittenPage
    SavesNeverCollide
    Mirrored
    RerunFetchesNothing
    UncutRunsAreClosed
    TallyOfSuccess
PROPERTIES
    CrawlEnds
