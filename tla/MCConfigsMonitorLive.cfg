CONSTANTS
    routeRule = routeRule
    destinationPolicy = destinationPolicy
    c1 = c1
    c2 = c2
    h1 = h1
    h2 = h2
    NoConfig = NoConfig
    ConfigTypes <- MCConfigTypes
    Keys <- MCKeys
    Contents <- MCContents
    Handlers <- MCHandlersLive
    MaxWrites <- MCMaxWritesLive

SPECIFICATION FairSpec


PROPERTY HandlersEventuallySeeStore
PROPERTY StopQuiescesMonitor
