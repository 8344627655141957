CONSTANTS
    Absent = Absent
    Programs <- MCPrograms
    Originals <- MCOriginals
    Units <- MCUnits
    Versions <- MCVersions
    Includes = {"common-auth"}
    PamDirs = {"lib"}
    MaxClicks = 4
    MaxChanges = 1
    MaxFaults = 1
    MaxLogins = 1
    MaxPasswords = 1
SPECIFICATION Spec
INVARIANTS SystemRestored LoginsDecided
CHECK_DEADLOCK FALSE
