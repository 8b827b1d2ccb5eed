SPECIFICATION Spec
CONSTANTS
    t1 = t1
    t2 = t2
    t3 = t3
    pane1 = pane1
    Task = {t1}
    NoTask = NoTask
    Deps <- MCNoDeps
    MaxDispatch = 3
    Remote = {2}
    Handle = {h1}
    NoHandle = NoHandle
    PaneOf <- MCOwnPane
    Gate = {}
    OperatorStatus = {}
INVARIANTS
    SettledIsRevoked
PROPERTIES
    SettledStaysSettled
