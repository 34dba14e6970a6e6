SPECIFICATION Spec
CONSTANTS
    WordBits = 2
    Formats <- MCFormats
    Messages <- MCMessages
    BufLen = 2
    MaxTime = 16
    MaxSent = 2
    MaxSetups = 4
PROPERTIES
    StartsAtEdges
