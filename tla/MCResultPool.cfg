SPECIFICATION FairSpec
CONSTANTS
    PoolSize = 3
    GenerationLimit = 3
    ReferenceMask = 3
    listing = listing
    chunk = chunk
    Contents <- MCContents
    NoContent = NoContent
    NoHandle = NoHandle
INVARIANTS
    RefsExact
PROPERTIES
    StoreSpec
    PoolRecovers
