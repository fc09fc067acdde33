SPECIFICATION OperatorSpec
CONSTANTS
  v1 = v1
  v2 = v2
  Camera <- MCCamera
  Scopes <- MCScopes
  Modes = {TRUE}
  LostReplies = TRUE
  Outages = TRUE
  NoCamera = NoCamera
  MaxMoves = 2
INVARIANT ResultsTruthful
PROPERTIES OnlineUntouched FailuresNamed SiteConverges
