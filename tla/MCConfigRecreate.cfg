\* One editor that deletes the file and writes it anew.
CONSTANTS
  Inodes = {i1, i2, i3}
  Editors = {e1}
  Styles = {"recreate"}
  Loadable = {old, new}
  Broken = {}
  Part = part
  NoFile = nofile
SPECIFICATION Spec
INVARIANT RecreatedIsWatched
