CONSTANTS
    Workers = {w1, w2}
    NoWorker = NoWorker
SPECIFICATION Spec
INVARIANT WantedIsMonitored
