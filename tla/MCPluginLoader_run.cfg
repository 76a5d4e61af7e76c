\* Two plugins, two calls, one chain; two hooks in a process's life.
SPECIFICATION Spec
CONSTANTS
    Plugins = {p1, p2}
    Priorities = {1, 2}
    Chains = {c1}
    MaxHooks = 2
    Callers = {x1, x2}
    None = None
SYMMETRY Symmetry
INVARIANTS TypeOK HooksAreTracked NoneRepeated 
PROPERTIES NoneSkipped
