SPECIFICATION RuntimeSpec
CONSTANTS
    Id = {1, 2, 3}
    Trajectory = {t1, t2}
    NoTrajectory = NoTrajectory
    Worker = {w1, w2}
    SessionId = {s1}
    NoSession = NoSession
    Requested = {s1}
    SessionTrajectory = t1
    OtherArchive <- MCOtherArchive
    MaxReceipts = 3
    MaxAdvances = 1
CONSTRAINT AgentBound
INVARIANTS
    AgentTypeOK
    NoReceiptForgotten
    CalmSessionIsAStory
    SessionArchivePasses
    LinearGraphStateIsTheRecord
    VerdictIsExact
PROPERTIES
    RunSpec
    AuditEnds
CHECK_DEADLOCK FALSE
