\* Two runs of led-status at a time and nothing from the panel.
CONSTANTS
    Writer = {w1, w2}
    PanelColors = {}
    Rejects = {}
    Power = FALSE
    PowerCuts = FALSE
SPECIFICATION Spec
INVARIANT CachedRedIsShown
