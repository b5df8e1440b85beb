SPECIFICATION ResourcesSpec
CONSTANTS
  pri = pri
  ext = ext
  b1 = b1
  b2 = b2
  b3 = b3
  c1 = c1
  c2 = c2
  still = still
  Display = {pri, ext}
  Type = {pri, ext}
  TypeOf <- OwnType
  ContentOf <- ExternalChanges
  Buf = {b1, b2, b3}
  NumDst = 2
  LateChange = FALSE
  Toggled = {ext}
  MaxJobs = 2
  MayFail <- Fails
  None = None
  low = low
  mid = mid
  top = top
  tint = tint
  hdr = hdr
  gpu = gpu
  raw = raw
  Top = 3
  Kind = {low, mid, top, tint, hdr, gpu, raw}
  Stacks <- SmallStacks
  Priority <- KindPriority
  Opaque = {low, mid, top, hdr, gpu, raw}
  Asked = {gpu}
  Rejected = {raw}
  Blendable = {low, mid, gpu, raw}
  Dynamic = {hdr}
  MaxDynamic = 1
  Overlay = {b1, b2, b3}
  Single = {scaler}
  Graphics = {scaler}
  Blender = blender
  MaxSources = 3
  MaxWindow = 2
  Word = 16
  MaxTries = 16
  NoBlock = NoBlock
SYMMETRY Symmetry
INVARIANTS TypeOK DestinationReleased ShownIsCurrent RingOwned
INVARIANTS AssignmentTypeOK BlocksExclusive EveryLayerShown InOrder WindowsFit RetriesEnd
