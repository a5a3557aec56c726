CONSTANT Changes = 5
SPECIFICATION Spec
INVARIANTS ConnectedIsReal SessionNotOverlooked
PROPERTIES SessionsSubscribe OffMeansOff
