SPECIFICATION FairSpec
CONSTANTS
  s1 = s1
  s2 = s2
  Subscribers <- MCSubscribers
  Capacity = 2
  ChannelSize = 1
  MaxEvents = 4
INVARIANTS QueueIsRecent DeliveredOnce GoneTakesAtMostOne
PROPERTY GoneRetires
CHECK_DEADLOCK FALSE
