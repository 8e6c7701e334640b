SPECIFICATION MCSpec
CONSTANTS
  Size = 3
  Producers = {p1, p2}
  Elements = {a, b}
  MaxBlock = 3
  BitTicks = 3
  DataBits = 3
  StopBits = 1
  Parities = {"even", "none"}
  Words <- MCWords
  Capacity = 1
  IsrCapacity = 2
  PerByte = 2
  Jitter = 0
  Latency = 1
  MaxUnread = 2
  Dates <- MCDates
  SquareWaves <- MCSquareWaves
  Countdowns <- MCCountdowns
  Offsets <- MCOffsets
  Places = {0, 7}
  Contents = {0, 170}
  MaxCalls = 3
  Interfaces = {"i2c", "hardware", "software"}
  Modes = {0, 1, 2, 3}
  RegTypes = {0, 1, 2, 3}
  Addresses <- MCAddresses
  Values <- MCValues
  Slices <- MCSlices
  Fillings <- MCFillings
INVARIANTS QueueIsFifo ReadsWhatIsWritten ChipDoesAsAsked RegisterAsGiven
SYMMETRY Symmetry
