SPECIFICATION FairSession
CONSTANTS
  MaxOpens = 4
  Patience = {TRUE, FALSE}
INVARIANT ResourcesFollowTrace
PROPERTIES PatientUserIsServed
\* The user may stop after MaxOpens traces.
CHECK_DEADLOCK FALSE
