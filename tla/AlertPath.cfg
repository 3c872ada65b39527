CONSTANTS
  Alerts = {"porch"}
  Tests = {"test"}
  Kind <- MCKind
  Windows <- MCWindows
  ServiceLists <- MCServiceLists
  Selected <- MCSelected
  Policy <- MCPolicy
  Rules <- MCRules
  Fires <- MCFires
  MaxEntries = 1
  MaxFailures = 1
  MaxAlertEdits = 1
  MaxAlertRestarts = 1
  EventIds = {"e"}
  ActorIds = {"ann", "bob"}
  DecisionIds = {"d"}
  StorePolicies = {"p"}
  OtherPolicies = {"q"}
  Cameras = {"porch"}
  Notes <- MCNotes
  Keys <- MCKeys
  Looks = {"x", "y"}
  Likeness <- MCLikeness
  Kinds = {"dismissal"}
  Ttls = {3}
  Weights = {500}
  Thresholds = {50, 200}
  Records <- MCRecords
  Step = 5
  MaxTime = 10
  MaxRequests = 4
  None = None
  Null = Null
SPECIFICATION MCSpec
CHECK_DEADLOCK FALSE
INVARIANT StoresAgree
INVARIANT BackendsAgree
PROPERTY MetaIsMerged
PROPERTY OnlyCitationsRescue
