CONSTANTS
    None = None
    Keys = {"k1", "k3", "e1", "e2"}
    TaskOf <- TaskOfKey
    KindOf <- KindOfKey
    Procs = {"p", "q"}
    MaxPolicy = 2
    MaxForeign = 1
    MaxStops = 1
SPECIFICATION AnySpec
INVARIANTS
    
    EffectOnce
    IntegratedIsReal

    
CHECK_DEADLOCK FALSE
