SPECIFICATION BoardSpec
CONSTANTS
    AllowedPins = {}
    MinPin = 4
    MaxPin = 6
    FlashPins = {6}
    SensorPins = {4, 6}
    MinInterval <- MCMinInterval
    StartLow = 1
    MaxRetries = 2
    Addresses = 2
    MaxTime = 6
INVARIANTS BoardTypeOK ReadingIsTheSensors
PROPERTIES ReadsSpaced
