CONSTANTS
    Job = {j1, j2, j3}
    Worker = {w1, w2}
    Owner = owner
    NoJob = NoJob
SPECIFICATION LiveSpec
PROPERTIES
    ImplementsExecutor
    SubmittedRuns
    DestructorReturns
