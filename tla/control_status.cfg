\* Two slaves, one push, two changes, lost replies or new keys.
SPECIFICATION LiveSpec
CONSTANTS
  s1 = s1
  s2 = s2
  Slave = {s1, s2}
  NoSlave = NoSlave
  NoEntry = NoEntry
  NoCard = NoCard
  MaxPushes = 1
  MaxEvents = 2
INVARIANTS
  ShownIsCurrent
PROPERTIES
  CardsSettle
\* Without slaves or without a key there is nothing to do.
CHECK_DEADLOCK FALSE
