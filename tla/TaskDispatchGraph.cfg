SPECIFICATION CreatedSpec
CONSTANTS
    t1 = t1
    t2 = t2
    t3 = t3
    pane1 = pane1
    Task = {t1, t2, t3}
    NoTask = NoTask
    Deps <- MCJoin
    MaxDispatch = 2
    Remote = {2}
    Handle = {h1}
    NoHandle = NoHandle
    PaneOf <- MCOwnPane
    Gate = {}
    OperatorStatus = {"completed"}
INVARIANTS
    NoStrandedTask
    IInv
PROPERTIES
    PromotedWhenDepsCompleted
