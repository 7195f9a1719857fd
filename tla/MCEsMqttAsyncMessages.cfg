\* One VM thread, two Paho threads, a queue that refuses posts.
CONSTANTS
  v1 = v1
  p1 = p1
  p2 = p2
  a = a
  b = b
  Nil = Nil
  Zero = Zero
  NoThread = NoThread
  VMThreads <- MCOneVMThread
  PahoThreads <- MCTwoPahoThreads
  Objects <- MCObjects
  Types <- MCTypes
  Targets <- MCTargets
  HeapAddress <- MCHeapAddress
  MaxCalls = 2
  MaxRegistrations = 2
  QueueSize = 2
  MayRunOut = TRUE
  Half = 6
SPECIFICATION FairSpec
INVARIANTS
  TypeOK
  NoTornTarget
  RealTimeOrder
  NeverTwice
  PointersSurvive
  ArgumentsIntact
PROPERTIES
  CallsReturn
  PostedIsEvaluated
  ImplementsChannel
CHECK_DEADLOCK FALSE
