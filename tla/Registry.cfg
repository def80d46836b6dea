SPECIFICATION Spec
CONSTANTS
    b1 = b1
    b2 = b2
    b3 = b3
    b4 = b4
    b5 = b5
    Names = {b1, b2, b3, b4, b5}
    Libs = {"lib"}
    MaxSources = 2
    MaxMessages = 5
SYMMETRY Alike
INVARIANTS MapsAgree WellFounded LibraryKept
PROPERTIES MessagesSurvived
