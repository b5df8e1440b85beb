SPECIFICATION Spec
CONSTANTS
    pri = pri
    pri2 = pri2
    ext = ext
    vir = vir
    Primaries = {pri}
    Externals = {ext}
    Virtuals = {vir}
    PrimaryModes = {"on"}
    ExternalModes = {}
    ExtStart = 0
    VirtStart = 1
    Setters = {}
    OneByOne = TRUE
    MidRefresh = {}
    UseDpu = TRUE
    Drm = FALSE
    MayFail = {"driver"}
PROPERTIES VirtualYields
