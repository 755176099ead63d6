SPECIFICATION FairSpec
CONSTANTS
    MaxBootFailures = 4
    WifiMaxRetry = 2
    MaxUnwritten = 1
    MaxTrouble = 2
INVARIANTS TypeOK SafeModeOnlyAfterUnstable LoopsAreStopped
PROPERTIES StableOnlyOnline BootEnds
