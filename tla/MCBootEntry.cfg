CONSTANTS
  Cases <- MCCases
  Slack <- MCSlack
  NewSig = 7
  OptSizes <- MCOptSizes
  Others <- MCOthers
SPECIFICATION Spec
CHECK_DEADLOCK FALSE
INVARIANTS BufferRight HdRight FullPathFaithful OptRoundTrip AppendRight
PROPERTY SigOnlyWhenAsked
