SPECIFICATION FairSpec
CONSTANTS
    Ids <- MixedIds
    Corpus <- MixedCorpus
    BatchSize = 2
    Limits = {2, 9}
    MaxRetries = 1
    MaxRuns = 3
    MaxFaults = 2
INVARIANTS
    RecordsAreTrue
    ReportIsTrue
PROPERTIES
    StepsRespectRecords
    Convergence
