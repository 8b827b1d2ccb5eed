SPECIFICATION CrashSpec
CONSTANTS
    t1 = t1
    pane1 = pane1
    Task = {t1}
    NoTask = NoTask
    Deps <- MCNoDeps
    MaxDispatch = 2
    Remote = {}
    Handle = {h1, h2}
    NoHandle = NoHandle
    PaneOf <- MCReminted
    Gate = {g1}
    OperatorStatus = {"completed"}
INVARIANTS
    SettledIsRevoked
    ContextOnlyTerminalIsExclusive
