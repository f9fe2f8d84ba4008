SPECIFICATION Spec
CONSTANTS
    Modes = {"none", "nitro", "fresh", "takeover"}
    MaxMessage = 2
    Frame <- MCFrame
    MaxFrames = 3
INVARIANTS MessagesWhole StampedByLastByte LimitKept InflaterInStep
CHECK_DEADLOCK FALSE
