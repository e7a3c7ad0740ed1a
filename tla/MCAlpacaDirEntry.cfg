SPECIFICATION JournalSpec
CONSTANTS
  Worlds = {"submit"}
  MaxBody = 0
  Journals <- MCJournals
  Refs <- MCRefs
  Symbols <- MCSymbols
  Orders <- MCOrders
  NoOrder = NoOrder
  MaxEntries = 2
  MaxLines = 5
  Procs = {p1, p2}
  NoProc = NoProc
  MaxPosition = 2
  Faults = {"kill", "power"}
  FsyncPersistsEntry = FALSE
  MaxPosts = 2
INVARIANT
  AtMostOncePost
