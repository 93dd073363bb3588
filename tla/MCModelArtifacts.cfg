\* Rebuilt splits, trainings, and a prediction that loads beside them.
CONSTANTS
    Days <- MCDays
    ExpectedDays <- MCExpected
    Reports <- MCReports
    Epochs = 2
    Validations <- MCValidations
    Scripts = {"baseline", "world_model", "lengths", "multistep"}
    MaxBundles = 1
    MaxRuns = 2
    None = None
SPECIFICATION ArtifactsSpec
INVARIANTS
    SavedIsBest
    NeverSawTheTestDay
    CacheServesDisk
CHECK_DEADLOCK FALSE
