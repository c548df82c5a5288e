CONSTANTS
    a = a
    b = b
    playing = playing
    paused = paused
    None = None
    Viewers <- MCViewers
    Statuses <- MCStatuses
    First = paused
    Refused <- OnlyA
    MaxActs = 2
    ClientCap = 1
SPECIFICATION FairSpec
PROPERTIES
    EventuallySame
