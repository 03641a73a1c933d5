CONSTANTS
    Rounds = 2
    SlotCount = 3
    CommitteeSize = 1
    CommitteeLimit = 2
    ByteBits = 2
    BlockBits = 4
    WordBits = 2
    LabelBits = 2
    ValidatorCount = 8
    SecondsPerSlot = 14
    ByzantineThreshold = 25
    ProposerScoreBoost = 40
    LastEpoch = 3
    Lookahead = 2
    Prover <- MCProver
    Worlds <- MCWorlds
    BenchSizes <- MCBenchSizes
    BenchSeeds <- MCBenchSeeds
SPECIFICATION Spec
CHECK_DEADLOCK FALSE
INVARIANTS
    WitnessesAreAccepted
    WeightIsTheChains
    WindowIsItsBatches
    OnChainAnchored
    ScheduleIsRunnable
