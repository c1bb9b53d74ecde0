CONSTANTS
    Senders = {p1, p2}
    Receivers = {r1, r2}
    Streams = {s1, s2}
    Resettable = {s1}
    Cancellable = {r1}
    MaxSends = 3
    None = None
SPECIFICATION Spec
SYMMETRY Symmetry
INVARIANTS
    OpenedAsSealed
CHECK_DEADLOCK FALSE
