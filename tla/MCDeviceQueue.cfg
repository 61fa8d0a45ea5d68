CONSTANTS
  tracker = tracker
  hung = hung
  Devices <- MCDevices
  Healthy <- MCHealthy
  MaxItems = 4
SPECIFICATION FairSpec
INVARIANTS
  TypeOK
  OneAtATime
  NoLostWakeup
PROPERTIES
  ImplementsSerialExecutor
  EveryItemIsHandled
