SPECIFICATION Spec
INVARIANT SuccessIsNotReportedFailed
CHECK_DEADLOCK FALSE
