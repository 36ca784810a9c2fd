\* One editor, every way of saving.
CONSTANTS
  Inodes = {i1, i2, i3}
  Editors = {e1}
  Styles = {"inplace", "rename", "backup", "recreate"}
  Loadable = {old, new}
  Broken = {bad}
  Part = part
  NoFile = nofile
SPECIFICATION FairSpec
INVARIANTS TypeOK WatchFollows NoSaveUnseen
PROPERTIES SavesArrive ReloadsSettle
