\* A session of a few events in one tab, with failures, reloads and a moving list.
SPECIFICATION MCSpec
CONSTANTS
  None = None
  Feeds = {"field", "changes"}
  PageSize = 1
  Already = 2
  MaxPublished = 3
  MaxWithdrawn = 1
  MaxFailures = 1
  Questions = {q1}
  Blank = blank
  MaxAsks = 2
  Products = {p1, p2}
  Filters = {"", "shrink"}
  Sections = {"ask"}
  MaxHistory = 4
  MaxEvents = 3
INVARIANTS
  TypeOK
  NoChangeLost
  OneLiveQuestion
  BackIsTheArticle
  DrawerShowsItsProduct
PROPERTIES
  DrawerKeepsThePlace
  AskSettles
  ArticleRecovers
CHECK_DEADLOCK FALSE
