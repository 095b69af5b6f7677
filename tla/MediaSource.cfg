SPECIFICATION Spec
CONSTANTS
  NoConfig = "unset"
  MaxEvents = 2
  GraphEvents = {"DEVICE_LOST"}
  Offers <- MCOffers
  Devices <- MCDevices
  DeviceNames = {"", "cam", "mic"}
  SourcePins <- MCSourcePins
  Requests <- MCRequests
  Manual <- MCManual
INVARIANTS
  TypeOK
  SamplesDescribed
  ConfigsAgree
  BlobsReturned
  DialogsOnce
PROPERTIES
  CallbacksOnlyWhileRunning
  EndNoticed
CHECK_DEADLOCK FALSE
