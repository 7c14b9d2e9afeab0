CONSTANTS
    s1 = s1  s2 = s2  h1 = h1  h2 = h2  e1 = e1  p1 = p1  p2 = p2  p3 = p3  p4 = p4
    Source = {s1, s2}
    Host = {h1, h2}
    Server = {e1}
    DaqHost <- OneDaqHost
    StateHost <- OneStateHost
    EccServer <- OneServer
    ServerHost <- OneServerHost
    PanelSource = s1
    Pipe = {p1, p2}
    NoPipe = NoPipe
    NoHost = NoHost
    NoSource = NoSource
    MaxRun = 2
    PipesBreak = FALSE
    StartsFail = FALSE
    Retry = FALSE
    RingSize = 1
    MaxFrames = 1
    MaxLost = 1
    MaxInit = 0
    Prompt = TRUE
SPECIFICATION FlowSpec
INVARIANTS
    FlowTypeOK EventsInRuns EndsMatchBegins RunsComplete RunsInOrder
PROPERTIES
    BeginsSeen
