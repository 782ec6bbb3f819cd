CONSTANTS
  p1 = p1
  p2 = p2
  e1 = e1
  e2 = e2
  e3 = e3
  Producers <- MCProducers
  Events <- MCEvents
  Size = 2
  IgnoreFullOptions = {TRUE, FALSE}
  None = None
SPECIFICATION FairSpec
INVARIANTS NoDataRace OnlyFullAborts ExactlyOnce CountAccurate
PROPERTIES ImplementsPool QueuedEventsRun
CHECK_DEADLOCK FALSE
