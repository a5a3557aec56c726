CONSTANTS
    Slots <- TwoSensors
    Channels = {"sensor1", "sensor2"}
    PerDevice = 1
    PerChannel = 2
    Values = {0}
    None = None
    Cap = 4
    PumpMax = 2
    Heartbeat = 2
    Period = 1
    Wrap = 3
    Changes = 1
SPECIFICATION Spec
PROPERTY FullSetRecurs
