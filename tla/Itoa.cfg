SPECIFICATION Spec
CONSTANT Half = 128
INVARIANT PrintsArgument
CHECK_DEADLOCK FALSE
