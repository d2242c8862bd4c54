SPECIFICATION FairSpec
CONSTANTS
    first = first
    second = second
    novel = novel
    comic = comic
    atlas = atlas
    None = None
    Cards = {first, second}
    Shelf <- TwoShelves
    Epubs = {comic}
    Covered = {comic}
    Faults = TRUE
    Choices = {}
    MaxGeneration = 2
    MaxStatuses = 1
    MaxActivation = 1
    MaxSerial = 0
    MaxOpens = 0
PROPERTIES BooksCatchesUp
