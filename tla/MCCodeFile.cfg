SPECIFICATION Spec
INVARIANT LoadsWhatWasWritten
CHECK_DEADLOCK FALSE
