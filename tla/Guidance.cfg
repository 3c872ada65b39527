CONSTANTS
  front = front
  kitchen = kitchen
  ghost = ghost
  Users = {"resident"}
  Tabs = {"tab1", "tab2"}
  Classes = {"rule", "dismissal_policy", "preference"}
  Names = {front}
  Areas = {kitchen}
  KnownAreas = {kitchen}
  MaxToolRounds = 1
  MaxUtterances = 2
  MaxCommits = 2
  MaxSessions = 2
  MaxPageEdits = 1
SPECIFICATION GuidanceFairSpec
CHECK_DEADLOCK FALSE
INVARIANT AuditIsTrue
PROPERTY HistoryIsKept
PROPERTY WithdrawnStaysSo
