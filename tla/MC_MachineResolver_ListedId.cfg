CONSTANTS
    Chars <- MC_Chars
    Uuids <- MC_Uuids
    Names <- MC_Names
    Tokens <- MC_Tokens
    MaxMachines <- MC_MaxMachines
SPECIFICATION Spec
INVARIANT ListedIdResolves
