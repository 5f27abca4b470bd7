SPECIFICATION Spec
CONSTANTS
    RankErrors = 4
    MaxValues = 8
    Penalty = 8
INVARIANTS
    ModelExact
    CutsAccurate
    DivisionsOptimal
    CampaignHonest
    HierarchyHonest
PROPERTY TrainerContract
CHECK_DEADLOCK FALSE
