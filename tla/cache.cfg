SPECIFICATION Spec
CONSTANTS
    job1 = job1
    job2 = job2
    job3 = job3
    Jobs = {job1, job2, job3}
    LastDay = 3
    PerDay = 2
    MonthDays = 2
    FirstNow = 3
    LastNow = 4
    Listed = 3
    HotTime = 0
    MaxFaults = 1
    None = None
SYMMETRY JobSymmetry
INVARIANTS
    TypeOK
    FilesAreWhole
    AnswersAreTrue
CHECK_DEADLOCK FALSE
