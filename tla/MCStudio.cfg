SPECIFICATION StudioSpec
CONSTANTS
  Items = {1, 2}
  MaxVersion = 2
  MaxRequests = 2
  Cards = {c1}
  Columns = {"inbox", "doing"}
  MaxEdits = 1
  MaxCalls = 2
  ApprovalIds = {1}
  Filters = {"all", "approved"}
  MaxQueries = 2
  MaxNotices = 2
  Tabs = {"chat", "delegations", "runs"}
  DeepLinks <- MCDeepLinks
  MaxHistory = 4
  MaxText = 6
  LineTexts = {"a", "b"}
  MaxLines = 4
  MAX_DIFF_LINES = 3
INVARIANTS
  StudioTypeOK
  SettledListIsServers
  ShownIsSelected
  NothingStaysBusy
  BoardSettles
  PendingIsAwaited
  KeepsTrying
  TabIsMounted
  UrlShowsTab
  ChunksDoNotMatter
  DiffRebuildsBoth
CHECK_DEADLOCK FALSE
