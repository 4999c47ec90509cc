SPECIFICATION Spec
CONSTANTS
    app = app
    lib = lib
    hub = hub
    ui = ui
    drv = drv
    File <- MCFile
    Texts <- MCTexts
    Nearness <- MCNearness
    Registrar = {"on"}
    Dispatcher = {"fire"}
    Controller = {}
    Addon <- MCAddon
    EventFanoutCap = 2
    Noisy = {"poll"}
    MaxEdits = 2
    MaxFailures = 1
INVARIANTS
    SynthesizedCurrent
    EdgesJustified
    CallsKept
CHECK_DEADLOCK FALSE
