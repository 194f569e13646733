SPECIFICATION FairSpec
CONSTANT MaxAttempts = 5
INVARIANTS QuietEntryIsExact ConfirmedOnceUnlessLost
PROPERTY EntryEnds
