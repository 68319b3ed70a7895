CONSTANTS
    Caps = {c1, c2, c3}
    MovesEarly = TRUE
SPECIFICATION ClientSpec
INVARIANT ImplIsFound
