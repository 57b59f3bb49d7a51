\* Three workers, one caller, two packets; CreateThread may fail, timeouts come
\* at any time.
SPECIFICATION FairSpec
CONSTANTS
  Threads = {t1, t2, t3}
  Calls = {c1}
  MaxWork = 2
INVARIANTS CounterExact NeverAbandoned SomeWaiter
PROPERTIES PacketTaken OneLeft
