CONSTANTS
  Producers = {p1, p2}
  NoProducer = NoProducer
  PacketCount = 4
  MaxBatch = 5
  MaxPackets = 9
SPECIFICATION FairSpec
INVARIANTS DeliveredIntact
PROPERTIES ImplementsFifo EveryReservationExecuted
CHECK_DEADLOCK FALSE
