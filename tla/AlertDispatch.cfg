CONSTANTS
  smoke = smoke
  parcel = parcel
  hush = hush
  prowler = prowler
  floodlight = floodlight
  Household <- MCHousehold
  Prefs <- MCPrefs
  Rules = {smoke, parcel, hush, prowler, floodlight}
  Rule <- MCRule
  Alerts = {"a1"}
  Situations <- MCSituations
  Services = {"light.turn_on", "lock.lock", "lock.unlock", "siren.turn_on", "tts.speak", "fan.turn_on"}
  ModeSets <- MCModeSets
  MaxDeliver = 2
  MaxAsks = 2
  MaxShifts = 2
  CameraEntities <- MCEntities
  Sensors <- MCSensors
  Forms <- MCForms
  WithSource <- MCWithSource
  EnvDevices <- MCEnv
  MaxChanges = 1
  MaxFaults = 1
  Reconciles = {"periodic", "handler"}
SPECIFICATION MCSpec
CHECK_DEADLOCK FALSE
PROPERTY GateOnlyTightens
PROPERTY EscalatesOnce
PROPERTY AnswerStands
PROPERTY NoOlderUrl
PROPERTY CacheIsFollowed
