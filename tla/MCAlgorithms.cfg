SPECIFICATION MCSpec
CONSTANTS
  Years <- MCYears
  Moments <- MCMoments
  ChipDates <- MCChipDates
  BuildDate <- MCBuildDate
  Junk <- MCJunk
  Bytes <- MCBytes
  Damages <- MCDamages
  Bauds <- MCBauds
  MaxLength = 2
  FileLength = 6
  Requests <- MCRequests
  LastRecord = 2
  Guard = 1
  Space = 4
  Existing <- MCExisting
  Bits = {0, 1, 2, 3}
  On = {2, 3}
  Lists <- MCLists
  MaxWords = 2
  MaxBits = 3
  ByteBits = 2
  Octet = 10
  MaxRwWrites = 2
  Capacity = 12
  Words <- MCWords
  Masks <- MCMasks
  OwnRegisters <- MCOwnRegisters
INVARIANTS CalendarAgrees PublishedTimeIsTrue FrameIsGuarded TransferIsExact SuccessMeansDone
PROPERTIES NeverSetBack
