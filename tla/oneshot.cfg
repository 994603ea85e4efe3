\* Two URLs, one of them given twice, two probers, one slot, channels of one
\* snapshot, a terminal with room for every row.
CONSTANTS
  Given <- MCGiven
  Dead = {2}
  MaxProbers = 2
  Slots = 1
  Backlog = 1
  Height = 5
SPECIFICATION FairSpec
INVARIANTS
  PlanIsWhole
  CodeIsOutcome
  ScreenIntact
  LastFrameSettled
PROPERTIES
  SignalExits
CHECK_DEADLOCK FALSE
