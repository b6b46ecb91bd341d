\* Two clients, five lines and room for three.
SPECIFICATION FairSpec
CONSTANTS
  Readers = {c1, c2}
  MaxBuffer = 3
  MaxLines = 5
  Faults = {"disconnect", "cancel", "restart"}
CHECK_DEADLOCK FALSE
INVARIANTS
  TypeOK
  InOrderOnce
  NothingSkipped
PROPERTIES
  LinesArrive
  StreamEnds
