SPECIFICATION FairSpec
CONSTANTS
  Streams = {r1, r2}
  MaxSessions = 2
  MaxStreams = 2
  MaxPerSession = 1
  Ttl = 1
  MaxIssued = 4
INVARIANTS CountAgrees
PROPERTIES NoFrameAfterRevocation SessionlessStreamsEnd
