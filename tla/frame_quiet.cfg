SPECIFICATION Spec
CONSTANTS
    pri = pri
    pri2 = pri2
    ext = ext
    vir = vir
    Primaries = {pri, pri2}
    Externals = {ext}
    Virtuals = {}
    PrimaryModes = {"on"}
    ExternalModes = {"on"}
    ExtStart = 2
    VirtStart = 1
    Setters = {"displayFrame", "other"}
    OneByOne = TRUE
    MidRefresh = {}
    UseDpu = FALSE
    Drm = FALSE
    MayFail = {}
INVARIANTS PanelAssigned PanelFresh NoLostGeometry
PROPERTIES StartFramesHidden
