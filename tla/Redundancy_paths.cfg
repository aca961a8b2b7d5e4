\* More messages than the ring holds, sequence number 0 among them; either path,
\* both or none may lose and refuse, both duplicate.
SPECIFICATION FairSpec
CONSTANTS
  Message = {0, 1, 2}
  RingSize = 2
  Copies = 2
PROPERTIES ImplementsWindow OnlyDuplicatesDropped OnePathIsEnough
CHECK_DEADLOCK FALSE
