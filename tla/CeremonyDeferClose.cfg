CONSTANT DeferClose = TRUE
SPECIFICATION Spec
INVARIANT CloseSparesPeer
CHECK_DEADLOCK FALSE
