SPECIFICATION Spec
CONSTANTS
    NumPages = 2
    NumTitles = 2
    Translated = {}
    Namespaces <- OneNamespace
    NamespaceOf <- AllInMain
    BatchSize = 2
    Limits <- SmokeThenFull
    Cuts = {}
    TemplateEdits = FALSE
    Failures = {"db"}
    MaxRev = 2
    MaxRuns = 2
    NoPage = NoPage
    NoTitle = NoTitle
    NoRow = NoRow
\* Behaviours stop at MaxRev changes and MaxRuns crawls.
CHECK_DEADLOCK FALSE
INVARIANTS
    RunsAreClosed
