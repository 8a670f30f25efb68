SPECIFICATION OneSpec
CONSTANTS
  Limit = 4
  RetryCount = 3
  Controllers = 2
  Reports <- OddReports
  Made <- SerialNumbers
CHECK_DEADLOCK FALSE
INVARIANT OneTypeOK
INVARIANT ThreeSuffice
INVARIANT GreetedOnce
INVARIANT OutcomeIsEarned
INVARIANT RepeatsAfterFailures
INVARIANT ShowsSerialNumbers
INVARIANT OnlyTheRestIsLost
PROPERTY ProgramEnds
