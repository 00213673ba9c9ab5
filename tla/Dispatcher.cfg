SPECIFICATION DFairSpec
CONSTANTS
    b1 = b1  b2 = b2  s1 = s1  s2 = s2
    Jobs <- MCJobs
    StreamJobs <- MCStreamJobs
    MaxPending = 1
    MaxInflight = 2
    NoJob = NoJob
INVARIANTS PermitsBalance OnePlace
PROPERTY AcceptedJobsAnswered
