SPECIFICATION Spec
CONSTANTS
    Inputs <- MCInputs
    General <- MCGeneral
INVARIANTS
    TypeOK
    LabelsExact
    FetchesAll
    OnlyKnownPanics
PROPERTY
    OneLineEach
CHECK_DEADLOCK FALSE
