SPECIFICATION JournalSpec
CONSTANTS
  Worlds = {"submit", "read"}
  MaxBody = 3
  Journals <- MCJournals
  Refs <- MCRefs
  Symbols <- MCSymbols
  Orders <- MCOrders
  NoOrder = NoOrder
  MaxEntries = 2
  MaxLines = 5
  Procs = {p1, p2}
  NoProc = NoProc
  MaxPosition = 2
  Faults = {"torn", "fsync", "dirfsync", "kill", "power", "net"}
  FsyncPersistsEntry = TRUE
  MaxPosts = 2
INVARIANTS
  AtMostOncePost
  WrittenAhead
  NoAmbiguityWhileOpen
  AcknowledgedWasAccepted
  ExposureWithinLimit
  JournalReplayable
  AcceptsExactlyReplayable
  TableIsJournal
PROPERTY
  PostOnlyWhenResolved
  ImplementsContract
  SubmissionSettles
