CONSTANTS
    Readers <- MCReaders
    TTL = 2
    MaxTime = 3
    MaxVersion = 2
    NoEntry = NoEntry
SPECIFICATION Spec
PROPERTY CacheNeverRegresses
