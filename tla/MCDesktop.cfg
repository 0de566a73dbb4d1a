\* The explorer goes through two directories, the user through all views.
SPECIFICATION Spec
CONSTANTS
  d1 = d1
  d2 = d2
  link = link
  f1 = f1
  Dirs = {d1, d2}
  Paths = {d1, d2, link}
  Canonical <- MCCanonical
  NoPath = NoPath
  Files = {f1}
  MaxEntries = 2
  MaxTrail = 4
  ClientMount = link
  WorkspaceLists <- MCWorkspaceLists
  ViewIDs = {"Auth", "Login", "FileExplorer", "Settings", "Workspace", "Activity", "Services", "Default"}
  Registered = {"Auth", "Login", "FileExplorer", "Services"}
  NoView = NoView
INVARIANTS
  TypeOK
  SelectionIsShown
PROPERTIES
  ImplementsTrail
  FramesShowAViewAndEnd
CHECK_DEADLOCK FALSE
