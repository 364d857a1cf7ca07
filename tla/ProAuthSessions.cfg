SPECIFICATION SettingsSpec
CONSTANTS
  cli = cli
  server = server
  Process = {cli, server}
  MaxLogins = 2
  MaxRefreshes = 1
  MaxLost = 1
  Editors = {cli}
  Keys = {"registry_url", "registry_files", "registry_max_bytes"}
  Given <- MCGiven
  TokenUrls <- MCTokenUrls
  Answers <- MCAnswers
  Files = {1, 2}
  Overlays <- MCOverlays
  Starts <- MCStarts
  DefaultRegistry <- MCDefaultRegistry
  Usual = 2
  Before <- MCBefore
  LoginWork = 3
  ChangeWork = 2
  MaxWork = 7
INVARIANTS
  SessionSurvives
  SettingsStick
  RefreshTakesEffect
PROPERTIES
  SessionChangesHands
  PendingSurvives
