CONSTANTS
  Requests = {"porch1", "porch2"}
  Key <- MCKey
  On <- MCOn
  Recs = {"first", "again", "later", "weak"}
  Incident <- MCIncident
  Action <- MCAction
  Fit = {"first", "again", "later"}
  Required <- MCRequired
  MaxEdits = 1
  MaxRestarts = 1
  NoRequest = NoRequest
SPECIFICATION FairSpec
CHECK_DEADLOCK FALSE
INVARIANT RevertsAreOnRecord
INVARIANT IncidentsAgree
PROPERTY RevertsDrain
