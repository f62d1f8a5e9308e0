SPECIFICATION DevicesFair
CONSTANT Modes = {"none", "master", "slave"}
INVARIANTS
    DevicesTypeOK
    OnlyTimerUsesFreed
    WrongBufferMissed
    LastKeyComes
PROPERTIES
    SlaveFollows
    WfiResumes
    MasterStops
    ShutdownEnds
CHECK_DEADLOCK FALSE
