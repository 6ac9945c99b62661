SPECIFICATION Spec
INVARIANT OneRecordPerDecision
CHECK_DEADLOCK FALSE
