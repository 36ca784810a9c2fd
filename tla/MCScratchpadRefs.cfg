SPECIFICATION ScratchpadSpec
CONSTANTS
  c1 = c1
  c2 = c2
  c3 = c3
  m1 = m1
  m2 = m2
  m3 = m3
  Clients = {c1, c2}
  Monitors = {m1, m2}
  NoClient = NoClient
  NoMon = NoMon
  Tags <- OneTag
  ParentOf <- NoParents
  Rules <- OnlyNoRule
  TagArgs <- NoMasks
  LayoutArgs = {}
  DefaultLayout = "dwindle"
  WorkspaceLayouts <- NoWorkspaceLayouts
INVARIANT ScratchpadRefsMapped
CHECK_DEADLOCK FALSE
