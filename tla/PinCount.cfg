\* A queue: destruction waits only when it finds pins
SPECIFICATION FairSpec
CONSTANTS
  Users = {u1, u2, u3, u4}
  Destroyer = Destroyer
  NoThread = NoThread
  ChecksFirst = TRUE
INVARIANTS
  PinsProtect
PROPERTIES
  DestructionEnds
