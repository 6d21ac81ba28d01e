CONSTANTS
    Workers = {w1, w2, w3}
    NoWorker = NoWorker
SPECIFICATION FairSpec
INVARIANTS TypeOK WorkersAccountedFor
PROPERTIES DisconnectStaysDown DisconnectReleases Reconnects
