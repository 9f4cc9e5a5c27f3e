CONSTANTS
  KB_BUFSIZE = 3
  Keys = {42, 54, 58, 30, 170}

SPECIFICATION FairSpec

INVARIANT ShiftNotStuck

PROPERTIES
  ImplementsFifo
  KeyDelivered
