SPECIFICATION FairSpec
CONSTANTS
  Keys = {a, b}
  Orderly = {TRUE, FALSE}
  PageLimit = 2
  Limits = {None, 0, 1, 3, 4, 6}
  Starts = {None, 1}
  None = None
  Null = Null
  Longest = 5
  Erratic = 2
INVARIANTS
  TypeOK
  ExactlyWhatWasAsked
PROPERTIES
  NoPageTwice
  PagesEnd
CHECK_DEADLOCK FALSE
