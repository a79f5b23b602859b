SPECIFICATION RepoSpec
CONSTANTS
  c1 = c1
  c2 = c2
  Urls = {"https", "ssh"}
  Folders = {"f"}
  FolderOf <- OneFolder
  Clients = {c1, c2}
  MaxIds = 2
  MissionIds = {"m"}
  Projects = {"p", "q"}
  Later = {"q"}
  Callers = {c1, c2}
  Names <- BranchNames
  Older <- OlderNames
  Threads = {c1, c2}
  Edits = {e1, e2}
  Syncs = {c1, c2}
  MaxStashes = 3
SYMMETRY Interchangeable
INVARIANTS OneEntryPerSource MissionsKept FailedAddUndone
PROPERTIES LocalWorkKept
CHECK_DEADLOCK FALSE
