SPECIFICATION FairSpec
CONSTANTS
  Topic <- Topics
  NSlot = 4
  SlotTopic <- TableTopics
  DeviceSlot <- Tagged
  QueueTopic <- DayTopics
  AutoRefresh = FALSE
  MaxDays = 1
  CountdownStart = 0
  Interval = 1
  ReconnectDelay = 1
  MaxMsgs = 3
INVARIANTS
  TypeOK
  NoLostWakeup
  Ledger
  InOrder
  OnlyInSession
  
PROPERTIES
  
  EventuallyActedOn
  SignalEnds
CHECK_DEADLOCK FALSE
