SPECIFICATION FairSpec
CONSTANTS
  Conn = {a1, a2, a3}
  MaxConnections = 2
  NoConn = NoConn
INVARIANTS
  BooksKept
  JoinsStartedThreads
PROPERTY
  EverythingEnds
