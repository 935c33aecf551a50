SPECIFICATION Spec

CONSTANTS
  Streams = {"tab", "wall"}
  Channels = {"event", "metrics"}
  SUBSCRIBER_QUEUE_SIZE = 2
  MaxPublished = 3

CHECK_DEADLOCK FALSE

INVARIANTS
  NewestKept
  InOrder
  Accounted

PROPERTIES
  DeadStreamsLeave
