SPECIFICATION Spec
CONSTANTS
  NoConfig = "unset"
  MaxEvents = 2
  GraphEvents = {"DEVICE_LOST"}
  Offers <- MCOffers
  Devices <- MCDevices
  DeviceNames = {"", "cam", "mic"}
  SourcePins <- MCSourcePins
  Requests <- MCRequests
  Manual <- MCManual
INVARIANT
  BlobsFreedOnce
CHECK_DEADLOCK FALSE
