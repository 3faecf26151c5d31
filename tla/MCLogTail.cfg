SPECIFICATION FairSpec
CONSTANTS
  f1 = f1
  f2 = f2
  File = {f1, f2}
  First = f1
  NoFile = NoFile
  Link = Link
  Dir = Dir
  Unset = Unset
  MaxLine = 2
  MaxHalf = 1
  Batch = 2
  MaxEvents = 2
  Events = {"rename", "unlink", "truncate", "link", "toggle", "reload", "rollback"}
INVARIANTS NoSplice HistoryNotReplayed
PROPERTIES Attached CaughtUp
