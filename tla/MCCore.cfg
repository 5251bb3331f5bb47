SPECIFICATION CoreSpec
CONSTANTS
    t1 = t1
    t2 = t2
    Threads = {t1, t2}
    Lengths = {1, 2}
    Files <- SmallFiles
    Texts = {0, 1, 2, 3, 4}
    Columns = {"amount", "id", "note"}
    MaxFindings = 3
    Conforms <- SomeConforms
    Value <- SomeValues
    Datasets <- SomeDatasets
    Rules <- SomeRules
    RuleFiles <- SomeRuleFiles
    Key = "id"
    Versions <- KeyedDatasets
    InitialLimit = 1
    MaxFileBytes = 2
    MaxRecords = 1
INVARIANTS
    LoadingExact
    ValidatedExactly
    ComparedExactly
SYMMETRY Interchangeable
CHECK_DEADLOCK FALSE
