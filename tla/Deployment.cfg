SPECIFICATION Spec
CONSTANTS
    r1 = r1
    r2 = r2
    Releases <- MCReleases
    First = r1
    Boot = Boot
    None = None
    Scenarios <- MCScenarios
INVARIANTS
    DeploymentTypeOK
    ReleasedPairServes
    CompensatedPairServes
    OperatorChangeKept
    MigratedBeforeServed
    WorkerSingleton
    WebLeadsWorker
    RecoveryFilesNamePrior
CHECK_DEADLOCK FALSE
