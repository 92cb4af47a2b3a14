SPECIFICATION Spec
CONSTANTS
    Absent = Absent
    Empty = Empty
    Malformed = Malformed
    Torn = Torn
    None = None
    t1 = t1
    t2 = t2
    peer = peer
    here = here
    there = there
    url = url
    p1 = p1
    p2 = p2
    pasted = pasted
    KeyVar = KeyVar
    Installed = Installed
    Procs = {p1, p2}
    Tables = {t1, t2}
    Configs <- MCConfigs
    Envs <- MCEnvs
    EnvTemplate = Absent
    Commands <- MCCommands
    Detected <- MCDetected
    Menu <- MCMenu
    Machines <- MCMachines
    MaxEdits = 1
    MaxRuns = 2
    MaxDeaths = 1
INVARIANTS
    ConfigIsWhole
    CuratedIsLeftAlone
    ExitIsHonest
    InitSatisfiesDoctor
PROPERTIES
    OthersKept
    ReplacedWithConsent
SYMMETRY MCSymmetry
CHECK_DEADLOCK FALSE
