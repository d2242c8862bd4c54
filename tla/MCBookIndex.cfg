CONSTANTS
    card1 = card1
    card2 = card2
    prose = prose
    draft = draft
    verse = verse
    blank = blank
    broken = broken
    None = None
    Cards = {card1}
    Contents = {prose, draft, verse, broken, blank}
    BadContents = {broken}
    Size <- MCSize
    Sample <- MCSample
    Pages <- MCPages
    QueueLength = 2
    BufferedOffsets = 1
    BlockOffsets = 1
    MaxSession = 2
    MaxGeneration = 2
    MaxModified = 1
SPECIFICATION Spec
INVARIANT  ReadyIndexSound  SavedProgressTrue 
PROPERTY KeepsPlace
CHECK_DEADLOCK FALSE
