SPECIFICATION LayoutsSpec
CONSTANTS
  c1 = c1
  c2 = c2
  c3 = c3
  m1 = m1
  m2 = m2
  m3 = m3
  Clients = {c1, c2}
  Monitors = {m1}
  NoClient = NoClient
  NoMon = NoMon
  Tags <- TwoTags
  ParentOf <- NoParents
  Rules <- OnlyNoRule
  TagArgs <- TagTwo
  LayoutArgs = {"floating", "dwindle", "monocle"}
  DefaultLayout = "dwindle"
  WorkspaceLayouts <- NoWorkspaceLayouts
INVARIANTS TopFocus LayerFollowsState LeavesAreTiled MonocleShowsOne
PROPERTY FocusStaysShown
