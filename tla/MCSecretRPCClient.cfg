CONSTANTS
    Caps = {c1, c2, c3}
    MovesEarly = FALSE
SPECIFICATION ClientFairSpec
INVARIANTS
    ContextIsFilled
PROPERTY EveryGetMainSettles
