SPECIFICATION Spec
CONSTANTS
    pri = pri
    pri2 = pri2
    ext = ext
    vir = vir
    Primaries = {pri}
    Externals = {ext}
    Virtuals = {}
    PrimaryModes = {"on", "off", "suspend"}
    ExternalModes = {"on", "off"}
    ExtStart = 0
    VirtStart = 1
    Setters = {"displayFrame"}
    OneByOne = TRUE
    MidRefresh = {"power", "hotplug"}
    UseDpu = FALSE
    Drm = FALSE
    MayFail = {}
INVARIANTS TypeOK HandshakeHonoured PrimaryOffIsBlank
PROPERTIES ShowsOnlyWhenActive
