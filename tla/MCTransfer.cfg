CONSTANTS
    Senders = {s1, s2}
    Clients = {c1, c2}
    None = None
    PartMax = 2
    Sizes = {0, 3}
    Width = 16
    MaxFiles = 2
SPECIFICATION Spec
SYMMETRY Symmetry
INVARIANTS
    
    AssertsNeedMixing
    WritesBounded
