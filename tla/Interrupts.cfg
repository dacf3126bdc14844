\* Two machines sharing the counters of two signals.
SPECIFICATION FairSpec
CONSTANTS
  Machines = {m1, m2}
  m1 = m1
  m2 = m2
  MAX_SIGNAL = 2
  MaxSent = 2
INVARIANTS TypeOK EventMatchesCounts EverySignalAccounted DeliveredIsThere
PROPERTIES ConsumeEnds ServesEachSignalOnce
