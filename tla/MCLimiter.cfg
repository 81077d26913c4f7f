CONSTANTS
  Requests = {r1, r2, r3}
  Cancellable = {r1, r2, r3}
  Ceiling = 2
  BytesPerSlot = 2
  Readings <- AnyReading
SPECIFICATION MCSpec
INVARIANTS SlotsAccounted CeilingRespected
PROPERTIES RefinesSemaphore CancelledReturns CalmServed
