CONSTANTS
  MaxAsks = 2
  MaxDisposals = 2
SPECIFICATION FairSpec
INVARIANTS TypeOK NothingPendingAfterFailure AnswersMatch NothingOutlivesAction
PROPERTIES CancelledWriteEndsInstance ImplementsServer ActionsEnd TeardownEnds
CHECK_DEADLOCK FALSE
