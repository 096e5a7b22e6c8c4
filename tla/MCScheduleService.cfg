SPECIFICATION Spec
CONSTANTS
    Calls = {c1, c2, c3}
    Owners = {u1, u2}
    Kinds = {"timer", "recurring"}
    None = None
    Garbage = Garbage
    MaxRestarts = 1
    MaxFailures = 1
SYMMETRY Symmetry
CONSTRAINT FewSaves
INVARIANTS
    ListedIsArmed
    FileIsImage
    TriggeredOnce
CHECK_DEADLOCK FALSE
