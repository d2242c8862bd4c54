CONSTANTS
    card1 = card1
    card2 = card2
    prose = prose
    draft = draft
    verse = verse
    blank = blank
    broken = broken
    None = None
    Cards = {card1, card2}
    Contents = {prose, broken}
    BadContents = {broken}
    Size <- MCSize
    Sample <- MCSample
    Pages <- MCSlips
    QueueLength = 2
    BufferedOffsets = 2
    BlockOffsets = 4
    MaxSession = 2
    MaxGeneration = 3
    MaxModified = 0
SPECIFICATION FairSpec
PROPERTY WritesOwnCard
CHECK_DEADLOCK FALSE
PROPERTY BuildEnds 
