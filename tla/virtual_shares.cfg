SPECIFICATION Spec
CONSTANTS
    pri = pri
    pri2 = pri2
    ext = ext
    vir = vir
    Primaries = {pri}
    Externals = {ext}
    Virtuals = {vir}
    PrimaryModes = {"suspend"}
    ExternalModes = {"on"}
    ExtStart = 1
    VirtStart = 1
    Setters = {}
    OneByOne = TRUE
    MidRefresh = {}
    UseDpu = TRUE
    Drm = FALSE
    MayFail = {}
PROPERTIES VirtualYields
