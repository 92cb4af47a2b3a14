SPECIFICATION MCSpec
SYMMETRY ProcessSymmetry
CHECK_DEADLOCK FALSE
CONSTANTS
    s1 = s1
    s2 = s2
    p1 = p1
    p2 = p2
    accounts = accounts
    contacts = contacts
    Serves <- MCServes
    Terminals <- MCTerminals
    Tables <- MCTables
    Categories <- MCCategories
    Floor <- MCFloor
    Docs <- MCDocs
    FlagBlocks <- MCFlagBlocks
    OtherBlock <- MCOtherBlock
    Overrides <- MCOverrides
    Classified <- MCClassified
    MaxSaves = 2
    MaxRows = 7
    StreamLimit = 2
    PageLimit = 2
INVARIANTS
    VerdictsAreEnforced
    ProofVerifies
    StreamIsGapless
    PagesMissNothing
PROPERTY
    FloorSurvivesCommands
