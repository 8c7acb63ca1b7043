\* One job, a pane that may hold its file through every try of a rename.
CONSTANTS
  None = None
  Tries = 2
  MaxDone = 2
  MaxUpdates = 2
  MaxReuse = 1
SPECIFICATION FairSpec
INVARIANTS TypeOK LastWordStands ShownIsTrue
PROPERTIES Settles
