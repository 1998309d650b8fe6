CONSTANTS
    cpu = cpu
    ram = ram
    Metrics <- MC_Metrics
    Samples <- MC_Samples
    Scales <- MC_Scales
    Offsets <- MC_Offsets
    MaxSamples = 2
SPECIFICATION Spec
INVARIANT TypeOK
PROPERTY QueryReturnsRetainedSamples
