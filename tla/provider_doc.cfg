SPECIFICATION Spec
CONSTANTS
    MaxRetries = 2
    MaxCalls = 2
INVARIANT OneVerdict
CHECK_DEADLOCK FALSE
