SPECIFICATION DevicesFair
CONSTANT Modes = {"none"}
PROPERTY TestExits
CHECK_DEADLOCK FALSE
