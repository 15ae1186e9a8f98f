SPECIFICATION FairSpec
CONSTANTS
  Refresh = 2
  MaxMutes = 1
  None = None
INVARIANTS FreshWhileVisible StampIsTrue MuteShowsUnlessOvertaken
PROPERTIES Converges
