SPECIFICATION FairSpec
CONSTANTS
  t1 = t1
  s1 = s1
  s2 = s2
  m1 = m1
  m2 = m2
  m3 = m3
  Threads = {t1}
  Subscribers = {s1, s2}
  Msgs = {m1, m2, m3}
  Channels = {1}
  Types = {"array", "image"}
  ChannelOf <- OneChannel
  TypeOf <- MixedTypes
  Capacity = 2
INVARIANTS TypeOK OneCallback SemaphoreAccounted InOrder
PROPERTIES PublishReturns BusyEnds
CHECK_DEADLOCK FALSE
