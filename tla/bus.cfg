CONSTANTS
  c1 = c1
  c2 = c2
  Client = {c1, c2}
  QueueSize = 2
  MaxEvents = 4
SPECIFICATION Spec
INVARIANTS
  TypeOK
  QueueIsNewest
  ReceivedInOrder
  OnlyLiveSubscribers
PROPERTIES
  SkipsOnlyWhenOverrun
  StreamCatchesUp
  ImplementsWindow
