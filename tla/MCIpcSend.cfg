SPECIFICATION FairSpec
CONSTANTS
  k1 = k1
  k2 = k2
  Connections = {k1}
  NoConnection = NoConnection
  Topics <- TwoTopics
  Zero = Zero
  Requests <- Dialogue
  HeaderSize = 2
  MsgSize = 3
  EventsMax = 2
  BufMax = 2
  InboxMax = 4

PROPERTY SendsEnd
