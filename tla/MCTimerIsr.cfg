SPECIFICATION FairSpec
CONSTANT Durations = {1, 2, 3, 5}
INVARIANTS TypeOK Punctual StoppedNotRaised
PROPERTIES Fires AtomicSpec
