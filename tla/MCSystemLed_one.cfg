\* One script after the other, a driver that refuses one of the panel's colours,
\* oopses, reboots and power cuts.
CONSTANTS
    Writer = {w1}
    PanelColors = {"blue", "white"}
    Rejects = {"white"}
    Power = TRUE
    PowerCuts = TRUE
SPECIFICATION FairSpec
INVARIANTS TypeOK LitWhenCached CacheIsTrue
PROPERTY LedFollowsHealth
