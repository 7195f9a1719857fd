\* The callback of an MQTT 5 disconnect.
CONSTANTS
  v1 = v1
  p1 = p1
  p2 = p2
  a = a
  b = b
  Nil = Nil
  Zero = Zero
  NoThread = NoThread
  VMThreads <- MCOneVMThread
  PahoThreads <- MCOnePahoThread
  Objects <- MCObjects
  Types <- MCDisconnected
  Targets <- MCOneTarget
  HeapAddress <- MCHeapAddress
  MaxCalls = 2
  MaxRegistrations = 2
  QueueSize = 2
  MayRunOut = TRUE
  Half = 6
SPECIFICATION Spec
INVARIANTS
  ArgumentsOfDisconnected
CHECK_DEADLOCK FALSE
