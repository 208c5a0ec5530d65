SPECIFICATION Spec
CHECK_DEADLOCK FALSE
INVARIANT RaisedUntilTaken
INVARIANT TakenByOne
INVARIANT LinesSettle
INVARIANT NothingAfterCancel
PROPERTY CompletionSignalled
PROPERTY ResetReturns
