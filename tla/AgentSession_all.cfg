SPECIFICATION FairSpec
CONSTANTS
  Forwarded = {f1}
  NoForwarded = NoForwarded
  DeregisterAttempts = 2
  MaxJobs = 1
  MaxBeats = 1
  MaxFaults = 2
INVARIANTS
  TypeOK
  IdleIsBelieved
  OnlyForwardingMixes
  ExecutedOncePerHandout
PROPERTIES
  SessionIsReplaced
  SignalStops
