SPECIFICATION ServingSpec
CONSTANTS
    flux = flux  bucket = bucket  domain = domain  base = base  bonus = bonus
    r1 = r1  r2 = r2  g1 = g1  k1 = k1  k2 = k2
    a = a  b = b  bad = bad  def = def  zero = zero
    Empty = Empty  Absent = Absent  Plain = Plain  NULL = NULL
    Keys <- MCKeys
    Secrets <- MCSecrets
    EnvKeys <- MCEnvKeys
    FluxKey = flux
    BaseURLKey = base
    BonusKey = bonus
    R2Keys <- MCR2Keys
    Values <- MCValues
    Legal <- MCLegal
    DefaultURL = def
    Zero = zero
    EncKeys <- MCEncKeys
    Envs <- MCEnvs
    Bodies <- MCBodies
    Requests <- MCRequests
    Gens <- MCGens
    MaxStarts = 2
    MaxFaults = 1
INVARIANTS
    TypeOK
    RunningServerReads
    LoneReloadIsLive
    DeliveredImageIsKept
    OneConfigurationPerCall
PROPERTIES
    SeedNeverOverwrites
    CallsEnd
CHECK_DEADLOCK FALSE
