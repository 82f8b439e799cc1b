SPECIFICATION Spec
CONSTANTS
    User = User
    Late = Late
    StackEmpty = StackEmpty
    Unknown = Unknown
    Classes <- MCClasses
    Names <- MCNames
    CommandLines <- MCCommandLines
    Kinds <- MCKinds
    MaxReports = 3
    MaxPasses = 3
    MaxHolds = 2
    MaxPushes = 2
CONSTRAINT
    Apart
INVARIANTS
    TypeOK
    VerdictIsExplained
    OnePassSpeaks
    ShownInOrder
    MacrosFollowTheirMessage
    ShownUnlessDropped
    NoUndeadAfterErrors
    PassesStartAlike
PROPERTY
    SpeculationSeesErrors
CHECK_DEADLOCK FALSE
