\* Fourteen sequence numbers of a twelve-valued word, through a ring of six slots;
\* more room than the window field can hold.
CONSTANTS
  Modulus = 12
  IndexModulus = 32
  MAX_WINDOW = 3
  Isn = 7
  Capacity = 5
  Length = 12
SPECIFICATION Spec
INVARIANTS IntervalsApart PendingIsKept AckIsFirstGap
PROPERTIES KeepsPromise WindowNeverRetreats
\* After a reset the reader takes what is left, and nothing more happens.
CHECK_DEADLOCK FALSE
