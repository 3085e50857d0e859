SPECIFICATION Spec
CONSTANTS RING_SIZE = 12  RING_HIGH = 5  RING_LOW = 1  Trigger = 2  Lag = 1  MaxSent = 12
INVARIANTS TypeOK Contiguous HeldBackOnlyWhenFull
PROPERTIES NoOverrun PeerGoesOn
