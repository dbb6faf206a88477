\* see README.md, section 3
CONSTANTS
    Files <- MCFiles
    Record = record
    VersionFile = 3
    Releases = {1, 2}
    c1 = c1
    c2 = c2
    Contents = {c1, c2}
    Local = local
    Absent = absent
    Bundle <- MCBundle
    LateInterrupts = FALSE
SPECIFICATION Spec
INVARIANT RunningIsWhole
PROPERTIES AtomicInstallation EditsKept
