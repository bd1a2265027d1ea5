SPECIFICATION FairSpec
CONSTANTS
  Conns = {c1, c2}
  Brief = {c2}
  None = None
  Base = 2
  Width = 1
  MessageSize = 1
  ServerMessageSize = 1
INVARIANTS
  FrameIsWhole
  CountsAgree
  ActiveIsOpen
  ListIsSound
PROPERTIES
  ClientEnds
CHECK_DEADLOCK FALSE
