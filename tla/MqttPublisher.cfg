CONSTANTS
    Slots <- OneSensor
    Channels = {"sensor1"}
    PerDevice = 1
    PerChannel = 1
    Values = {0, 1}
    None = None
    Cap = 3
    PumpMax = 1
    Heartbeat = 2
    Period = 1
    Wrap = 3
    Changes = 2
SPECIFICATION Spec
INVARIANTS TypeOK BaselineIsNewest PolicyKnowsLink
PROPERTIES OnlyTelemetryIsLost BrokerCatchesUp
