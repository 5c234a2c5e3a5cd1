SPECIFICATION FairSpec
CONSTANTS
  EventsPerSend = 2
  MaxEvents = 4
INVARIANTS TypeOK NoSilentStall SentInOrder HandshakeFirst Inv
PROPERTIES CaughtUp KeepsSession
CHECK_DEADLOCK FALSE
