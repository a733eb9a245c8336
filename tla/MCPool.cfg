SPECIFICATION Spec
CONSTANTS
    Backends = {b1}
    MaxIdle = 2
    IdleTimeout = 1
    Queries = {q1, q2}
    Refillers = {r1}
    Main = main
    Conns = {1, 2, 3, 4, 5, 6, 7}
    None = None
SYMMETRY Symmetry
INVARIANTS TypeOK OneOwner IdleBounded MisledBounded
PROPERTY DropsOnlyOld
