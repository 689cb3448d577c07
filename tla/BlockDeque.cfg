SPECIFICATION FairSpec
CONSTANTS
    Producers = {p1, p2, p3}
    Consumers = {c1, c2, c3}
    Capacity = 2
INVARIANTS WithinCapacity ConsumersNotified ProducersNotified NoConsumerSleepsInClosed
PROPERTIES CloseReleasesConsumers PushGetsSpace
