\* Raw mode with readers that take the processor, cooked mode with readers that do not.
CONSTANTS
    IBUFLEN = 3
    OBUFLEN = 3
    EBUFLEN = 4
    Readers = {r}
    Writers = {w}
    Text = {"x"}
    Counts = {0, 2}
    Settings <- MCSettings
    AnyInterrupt = FALSE
    MaxHung = 1
    r = r
    w = w
SPECIFICATION Spec
INVARIANTS RingsCounted
PROPERTIES KeyboardPromise  OutputDrains
