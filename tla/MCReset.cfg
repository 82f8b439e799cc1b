SPECIFICATION Spec
CONSTANTS
    User = User
    Late = Late
    StackEmpty = StackEmpty
    Unknown = Unknown
    Classes <- MCClasses
    Names <- MCNames
    CommandLines <- MCCommandLines
    Kinds <- MCKinds
    MaxReports = 1
    MaxPasses = 2
    MaxHolds = 0
    MaxPushes = 2
PROPERTY
    ResetRestores
CHECK_DEADLOCK FALSE
