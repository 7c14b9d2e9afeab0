CONSTANTS
    s1 = s1  s2 = s2  s3 = s3  h1 = h1  h2 = h2  e1 = e1  e2 = e2
    p1 = p1  p2 = p2  p3 = p3  p4 = p4
    Source = {s1, s2}
    Host = {h1, h2}
    Server = {e1, e2}
    DaqHost <- SharedDaqHost
    StateHost <- SplitStateHost
    EccServer <- SharedServer
    Pipe = {p1, p2, p3}
    NoPipe = NoPipe
    NoHost = NoHost
    NoSource = NoSource
    MaxRun = 2
    PipesBreak = TRUE
    StartsFail = TRUE
    Retry = TRUE
SPECIFICATION FairSpec
PROPERTIES
    TransitionsConclude
