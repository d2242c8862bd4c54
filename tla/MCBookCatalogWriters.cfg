SPECIFICATION Spec
CONSTANTS
    first = first
    second = second
    novel = novel
    comic = comic
    atlas = atlas
    None = None
    Cards = {first}
    Shelf <- OneShelf
    Epubs = {comic}
    Covered = {comic}
    Faults = FALSE
    Choices = {{}, {"txt", "epub"}}
    MaxGeneration = 1
    MaxStatuses = 1
    MaxActivation = 3
    MaxSerial = 0
    MaxOpens = 1
INVARIANTS OneCacheWriter
