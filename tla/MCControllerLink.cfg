SPECIFICATION FairLinkSpec
CONSTANTS
    MaxIncarnations = 2
    MaxEpoch = 2
    MaxDials = 4
PROPERTIES
    OnlyDeadLinksAreReplaced
    ViewCatchesUp
