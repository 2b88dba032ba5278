SPECIFICATION Spec
CONSTANTS
    Publishers = {p1, p2}
    Stoppers = {s1}
    None = None
INVARIANT ProducerAfterEnsure
