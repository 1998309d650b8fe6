CONSTANTS
    m1 = m1
    m2 = m2
    none = none
    Machines <- MC_Machines
    NoMachine = none
    MaxSlices <- MC_MaxSlices
SPECIFICATION Spec
INVARIANT NoSessionLeakAtPrompt
