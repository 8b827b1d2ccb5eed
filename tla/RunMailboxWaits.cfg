SPECIFICATION FairSpec
CONSTANTS
    h1 = h1
    h2 = h2
    h3 = h3
    w1 = w1
    w2 = w2
    c1 = c1
    c2 = c2
    pane1 = pane1
    pane2 = pane2
    MaxRun = 1
    MaxGeneration = 2
    MaxMessage = 2
    MaxDelivery = 3
    Limit = 1
    Handle = {h1, h3}
    NoHandle = NoHandle
    PaneOf <- MCPaneOf
    Worker = {w1}
    NoWorker = NoWorker
    RunOf <- MCOneRun
    Federated = {}
    Check = {c1, c2}
    Wake <- MCWake
INVARIANTS
    NobodyWaitsBesideMail
    SupersededIsRead
PROPERTIES
    EveryCheckEnds
