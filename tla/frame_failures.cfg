SPECIFICATION Spec
CONSTANTS
    pri = pri
    pri2 = pri2
    ext = ext
    vir = vir
    Primaries = {pri}
    Externals = {ext}
    Virtuals = {}
    PrimaryModes = {"on"}
    ExternalModes = {"on", "off"}
    ExtStart = 0
    VirtStart = 1
    Setters = {}
    OneByOne = TRUE
    MidRefresh = {"hotplug"}
    UseDpu = FALSE
    Drm = FALSE
    MayFail = {"assign", "present"}
INVARIANTS OffIsBlank
