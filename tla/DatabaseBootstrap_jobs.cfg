CONSTANTS
    j1 = j1
    j2 = j2
    Jobs <- MCJobs
    MaxFaults = 2
SPECIFICATION Spec
SYMMETRY MCSymmetry
INVARIANTS
    PassMeansReady
    MembershipIsTakenBack
PROPERTIES
    SchemaIsOnlyMigrated
