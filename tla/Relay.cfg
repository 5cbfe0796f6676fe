CONSTANTS
  MaxFeeds = 2
  MaxSends = 1
SPECIFICATION FairSpec
INVARIANT EarlyUnwindAnnounced
PROPERTY ImplementsHandover
PROPERTY DrainedBeforeFeed
PROPERTY RelayEnds
