SPECIFICATION FairStreamSpec
CONSTANTS
    Take = 2
    MaxEvents = 5
    MaxDrops = 2
    MaxReopens = 1
INVARIANTS NoGap NoRepeat
PROPERTY Delivered
CHECK_DEADLOCK FALSE
