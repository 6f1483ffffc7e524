SPECIFICATION ConsumersSpec
CONSTANTS
  m1 = m1
  StartOrder <- TwoTopics
  NoReroute = {"sftp-messages"}
  Msgs = {m1}
  Published <- ThreeKinds
  MaxConsumers <- ConsumersPerTopic
  MaxFaults = 2
  FOs <- MCFOs
  Orders <- MCOrders
  orderOf <- MCOrderOf
  Manual = {"manual"}
  Messages <- MCMessages
  Workers = {w1, w2}
  MaxFailures = 2
  MaxCrashes = 1
INVARIANTS
  OrphansAreWatched
  StartsInOrder
PROPERTIES
  MessagesHandled
CHECK_DEADLOCK FALSE
