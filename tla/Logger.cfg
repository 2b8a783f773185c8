CONSTANTS
    Threads = {t1}
    Targets = {f1, f2}
    Observers = {o1}
    None = None
    Mods = 2
    Top = 2
    Fault = 1
    Terminal = TRUE
    MaxChanges = 3
SPECIFICATION Spec
INVARIANTS TypeOK AboveLevelSilent Delivered LoggerInv
PROPERTIES UsesLive
SYMMETRY AnyTarget
