SPECIFICATION FLSpec
CONSTANTS
    Regions <- Descending
    Header = 3
    MinPayload = 4
    PtrSize = 4
    SizeMod = 256
    Requests = {0, 21, 254}
INVARIANT Tiled
PROPERTIES FreeCoalesces ImplementsAllocator
