CONSTANT MaxLen = 1000
SPECIFICATION Spec
CHECK_DEADLOCK FALSE
INVARIANT FramesDecode
