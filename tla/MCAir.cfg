SPECIFICATION Spec
CHECK_DEADLOCK FALSE
CONSTANT Telegrams <- MCTelegrams
INVARIANT OnlyWhatWasSent
INVARIANT StillHeard
