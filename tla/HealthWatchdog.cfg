CONSTANTS
  ha = ha
  vlm = vlm
  preprocessor = preprocessor
  f4 = f4
  f7 = f7
  NoMode = NoMode
  Checks <- MCChecks
  Critical = {ha}
  ModeOf <- MCModeOf
  Threshold = 1
  RingSize = 1
  Entities = {"camera"}
  Handlers = {"loop"}
  MaxTicks = 3
  MaxFaults = 1
  MaxBackoff = 1
SPECIFICATION MCSpec
INVARIANT CompleteRoundIsAccurate
PROPERTY OutageReachesTheGate
PROPERTY DeliveriesAreInOrder
PROPERTY ClientReconnects
