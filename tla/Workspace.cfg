\* Two panels, crashes between any two writes, damage while closed.
SPECIFICATION Spec
CONSTANT
    PanelCount = 2
INVARIANTS
    TypeOK
    PanelStatesValid
    PinsMatchLayout
PROPERTIES
    RoundTrip
