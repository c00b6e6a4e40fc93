CONSTANTS
  Decisions <- SmallDecisions
SPECIFICATION TurnSpec
INVARIANTS OptedOutIsStopped SoldIsVerified  DeferralIsNotRefusal
PROPERTIES NeverBackwards
