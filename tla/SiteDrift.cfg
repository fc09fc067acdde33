SPECIFICATION OperatorSpec
CONSTANTS
  v1 = v1
  v2 = v2
  Camera <- MCCamera
  Scopes <- MCScopes
  Modes = {TRUE}
  LostReplies = FALSE
  Outages = FALSE
  NoCamera = NoCamera
  MaxMoves = 0
PROPERTIES DriftHandled
