SPECIFICATION Spec
CONSTANTS
  Clients = {c1, c2}
  Emails = {e1}
  Mobiles = {m1}
  None = None
  FirstId = 999999
  Lifetime = 1
  MaxUsers = 2
  MaxRequests = 5
  MaxSends = 2
  MaxNow = 1
  MaxFaults = 1
SYMMETRY Symmetry
INVARIANTS
  TypeOK
  DuplicateOnlyByRace
  CodeUsedOnce
  IssuedIsAccepted
  AsIfSerial
  OwnerIsTokenUser
CHECK_DEADLOCK FALSE
