SPECIFICATION WebSpec
CONSTANTS
  None = None
  MaxOps = 3
  Issues = {1, 2}
  Board <- MCBoard
  Hidden = {}
  Starts <- MCStarts
  Opened = {1}
  r1 = r1
  Slots = {r1}
  PageSize = 1
  root = root
  reply = reply
  Comments = {root, reply}
  ParentOf <- MCParentOf
  Texts = {"a", "b"}
  FirstText = "a"
  CommentSlots = {1}
  Born <- MCBorn
  w1 = w1
  w2 = w2
  Workspaces = {w1, w2}
  Views = {{"labels"}, {"issues"}, {"pins"}}
  Prefixes = {"label", "workspace"}
  UserMutations = {"updateLabel", "reorderPins", "saveName"}
  s1 = s1
  s2 = s2
  Sessions = {s1, s2}
  Existing = {s1}
  Scenarios <- MCScenarios
  MaxWire = 1
INVARIANTS WebTypeOK BoardExact DetailExact TimelineExact WorkspaceExact
INVARIANTS DirectoryExact  MessagesExact UnreadShown
CHECK_DEADLOCK FALSE
