SPECIFICATION Spec
CONSTANTS
  d1 = d1
  d2 = d2
  k1 = k1
  k2 = k2
  k3 = k3
  ann = ann
  bot = bot
  Nil = Nil
  NewKey = NewKey
  Ids = {d1, d2}
  Names <- MCNames
  Titles = {"t1"}
  Actors = {ann, bot}
  Keys = {k1, k2, k3}
  Edits <- MCEdits
  Boards <- MCBoards
  MaxNodes = 3
  MaxEdges = 2
  MaxGroups = 2
  MaxVersion = 5
SYMMETRY Symmetric
INVARIANTS
  HistoryFaithful
  RetriesAnswered
  CanGoBack
  BoardsStayEditable
CHECK_DEADLOCK FALSE
