SPECIFICATION Spec
CONSTANTS
    StableSamples = 1
    StatusQueueLength = 1
    RequestQueueLength = 1
    MaxGeneration = 3
    index = index
    BookTasks = {index}
    Monitor = Monitor
    Worker = Worker
    Nobody = Nobody
CHECK_DEADLOCK FALSE
INVARIANTS
    GateProtects
    NoCrossCardResult
    StatusCatchesUp
