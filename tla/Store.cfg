CONSTANTS
    Passwords = {p1, p2}
    Default = Default
    Absent = Absent
    Bodies <- MCBodies
    MaxPosts = 2
    MaxFaults = 2
SPECIFICATION Spec
INVARIANTS
    TypeOK
    DefaultRetired
    PasswordKnown
    SavedSurvives
    ErrorKeepsPassword
CHECK_DEADLOCK FALSE
