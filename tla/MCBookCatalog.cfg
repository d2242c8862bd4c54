SPECIFICATION EitherSpec
CONSTANTS
    first = first
    second = second
    novel = novel
    comic = comic
    atlas = atlas
    None = None
    Cards = {first, second}
    Shelf <- TwoShelves
    Epubs = {comic}
    Covered = {comic}
    Faults = FALSE
    Choices = {{}, {"txt", "epub"}}
    MaxGeneration = 3
    MaxStatuses = 1
    MaxActivation = 3
    MaxSerial = 1
    MaxOpens = 1
ACTION_CONSTRAINT Either
INVARIANTS  QuietWhenIdle SavedCatalogSound CatalogComplete ShownOfCard
