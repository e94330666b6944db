SPECIFICATION Spec
CONSTANTS
  Streams <- AllStreams
  READ_BUFFER_SIZE = 16
  FallOff <- FallsThrough
INVARIANTS NeverEarly WaitsOnlyForMore HeadAsSent BodyExact
CHECK_DEADLOCK FALSE
