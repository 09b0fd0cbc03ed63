SPECIFICATION PolledSpec
CONSTANTS
  Capacity = 1
  ChatSends <- OneOfEach
  MaxEvents = 2
PROPERTY DeadlineCloses
CHECK_DEADLOCK FALSE
