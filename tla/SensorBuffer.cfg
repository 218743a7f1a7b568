\* Two producers of two items each, so that items of one producer follow each
\* other, against two consumers: both condition variables have two waiters.
CONSTANTS
  p1 = p1
  p2 = p2
  c1 = c1
  c2 = c2
  closer = closer
  Producers = {p1, p2}
  Consumers = {c1, c2}
  Closers = {closer}
  Capacity = 2
  MaxPush = 2
  MaxWaits = 1
SPECIFICATION FairSpec
INVARIANTS
  Accounting
  NoLostWakeup
PROPERTIES
  ImplementsChannel
  PushReturnsOrIsOvertaken
  EveryItemDelivered
  ShutdownEndsConsumers
