SPECIFICATION PartsSpec
CONSTANTS
  Accounts = {owner, guest}
  Requests = {r1, r2}
  MaxKeys = 1
  MaxTokens = 3
  MaxRequests = 4
  Tabs = {t1, t2}
  Beats = {b1, b2}
  None = None
  DefaultWindow <- MCDefaultWindow
  Windows <- MCWindows
  Latency = 1
  MaxTime = 8
  MaxDoubled = 2
  AfkTabs = {t1, t2}
  MaxMounts = 4
  WebTabs = {t1}
  WebCalls = {c1, c2}
  Admins = {root, ally}
  Members = {}
  MaxPairs = 3
  MaxCalls = 3
  Dirs = {"config", "plugins"}
  Names = {"a.yml", "b.yml"}
  FileOps = {o1, o2}
  MaxFileOps = 3
  Subjects = {"settings", "u1"}
  OneByOne = {"settings"}
  Fields = {"a", "b"}
  Values = {0, 1}
  Empty = Empty
  MaxEdits = 1
  MaxPresses = 2
  Starred = {"s1", "s2"}
  Clicks = {c1, c2}
  MaxClicks = 3
CHECK_DEADLOCK FALSE
INVARIANTS
  SpentOnce PasswordEndsSessions AdminRemains KeysCapped
  EarnRate NotPushedAside RefreshOnce StashIsOwn EditsGoBack
  FormShowsSubject  FavoritesSettle
