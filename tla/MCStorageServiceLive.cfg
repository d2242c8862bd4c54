SPECIFICATION FairSpec
CONSTANTS
    StableSamples = 2
    StatusQueueLength = 1
    RequestQueueLength = 1
    MaxGeneration = 1
    index = index
    BookTasks = {index}
    Monitor = Monitor
    Worker = Worker
    Nobody = Nobody

CHECK_DEADLOCK FALSE

PROPERTIES
    GateOpens
    CardNoticed
