SPECIFICATION HandlersSpec
CONSTANTS
  FOs <- MCFOs
  Orders <- MCOrders
  orderOf <- MCOrderOf
  Manual = {"manual"}
  Messages <- MCMessages
  Workers = {w1, w2}
  MaxFailures = 2
  MaxCrashes = 1
  m1 = m1
  StartOrder <- TwoTopics
  NoReroute = {"sftp-messages"}
  Msgs = {}
  Published <- ThreeKinds
  MaxConsumers <- ConsumersPerTopic
  MaxFaults = 2
INVARIANTS
  OpenedIsSettled
PROPERTIES
  NotShippedOnceCancelled
  EventsEnd
CHECK_DEADLOCK FALSE
