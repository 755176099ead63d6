SPECIFICATION FairSpec
CONSTANTS
    Kinds = {"text", "foreign", "long"}
    Replayed = {"text"}
    ResyncStreak = 2
    QueueLength = 2
    MaxUpdates = 2
    MaxReplays = 2
    MaxRestarts = 1
INVARIANTS TypeOK OneArrivalPerTurn
PROPERTIES ImplementsMailbox NoBacklogAfterSync EveryUpdateTaken
