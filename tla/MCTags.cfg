SPECIFICATION TagsSpec
CONSTANTS
  c1 = c1
  c2 = c2
  c3 = c3
  m1 = m1
  m2 = m2
  m3 = m3
  Clients = {c1, c2}
  Monitors = {m1}
  NoClient = NoClient
  NoMon = NoMon
  Tags <- TwoTags
  ParentOf <- Dialog
  Rules <- PlainOrVideo
  TagArgs <- BackAndForth
  LayoutArgs = {"dwindle", "monocle"}
  DefaultLayout = "dwindle"
  WorkspaceLayouts <- SecondMonocle
INVARIANTS FocusFollows SceneShowsTags
