SPECIFICATION Spec
CONSTANTS
    pri = pri
    pri2 = pri2
    ext = ext
    vir = vir
    Primaries = {pri}
    Externals = {ext}
    Virtuals = {}
    PrimaryModes = {"on"}
    ExternalModes = {"on"}
    ExtStart = 1
    VirtStart = 1
    Setters = {"displayFrame", "other"}
    OneByOne = TRUE
    MidRefresh = {"layer"}
    UseDpu = FALSE
    Drm = FALSE
    MayFail = {}
INVARIANTS PanelFresh
