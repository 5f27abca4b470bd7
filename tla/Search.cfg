SPECIFICATION Spec
CONSTANTS
    Blocks = {1, 2, 3, 4, 5}
    Graphs <- SharedLeaves
    Widths = {0, 1, 3}
    Counts = {0, 1, 2, 3}
    MaxConcurrent = 2
    MaxFaults = 1
INVARIANTS
    ExactWhenAdmissible
    ExhaustedHonest
    LoadsRight
PROPERTIES
    SearchReturns
