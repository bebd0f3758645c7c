SPECIFICATION Spec
CONSTANTS
    IMs = {im1, im2}
    Announced <- AllNamedIm2
    im1 = im1
    im2 = im2
    MaxLost = 1
INVARIANTS
    RingIsServed
    PanicNeedsLoss
PROPERTIES
    FoundIsRegistered
\* The process ends with a panic, and the gate is closed for good.
CHECK_DEADLOCK FALSE
