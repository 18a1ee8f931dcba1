CONSTANTS
  root = root
  link = link
  xterm = xterm
  Sources <- Pages
  Vendor <- JustXterm
  Root = root
  Links <- JustLink
  Requests <- FourRequests
  MaxBuild = 2
CHECK_DEADLOCK FALSE
SPECIFICATION Spec
INVARIANTS
  OnlyTimeoutsServeOldSources
  FetchedIsKept
PROPERTIES
  StaysOpenable
  CachedIsAnswered
