SPECIFICATION Spec
CONSTANTS
    Commands = {"status", "down"}
PROPERTIES
    HeartbeatKeepsState
