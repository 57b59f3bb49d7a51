\* Two calls of one interface and one of the other are under way.
SPECIFICATION FairSpec
CONSTANTS
  Calls = {s1, s2, c1}
  AtServer = {s1, s2}
INVARIANTS CountedIsThere NothingLeft
PROPERTY StopEnds
\* the service may be stopped and the calls gone
CHECK_DEADLOCK FALSE
