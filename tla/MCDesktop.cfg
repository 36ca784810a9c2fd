SPECIFICATION DesktopSpec
CONSTANTS
  c1 = c1
  c2 = c2
  c3 = c3
  m1 = m1
  m2 = m2
  m3 = m3
  Clients = {c1, c2}
  Monitors = {m1, m2, m3}
  NoClient = NoClient
  NoMon = NoMon
  Tags <- TwoTags
  ParentOf <- NoParents
  Rules <- PlainOrOutput
  TagArgs <- TagTwo
  LayoutArgs = {}
  DefaultLayout = "master"
  WorkspaceLayouts <- NoWorkspaceLayouts
SYMMETRY Twins
INVARIANTS TypeOK FocusFollows SceneShowsTags NoOrphans UpdateMonsSettles
PROPERTY OutputsKeepTags
