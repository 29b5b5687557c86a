SPECIFICATION Spec
CONSTANTS
  StreamId = s1
  EntityDocument <- MCEntityDocument
  Rules <- MCRules
  Threshold = {1, 100}
  FrameLimit = {0, 2, 5}
  MaxFrames = 3
  Document <- MCDocument
  KeyOrder <- MCKeyOrder
  max_patch_size = 3
  ChunkedAbove = 1
  LargeAbove = 2
  HugeAbove = 3
  Data <- MCData
  Sample <- MCSample
  InitialStrategy <- MCInitialStrategy
  Size <- MCSize
  Numeral <- MCNumeral
  min_string_length = 3
  min_frequency_count = 1
  min_net_savings = 10
  run_length_threshold = 3
  min_numeric_sequence_size = 3
  MaxIndex = 3
  MAX_RLE_COUNT = 4
  MAX_DELTA_ARRAY_SIZE = 5
  MAX_DECOMPRESSED_SIZE = 4
  MaxExact = 128
  MaxFloat = 1024
CHECK_DEADLOCK FALSE
INVARIANTS
  EmissionsAccounted
  FramesCarryExtraction
  ReconstructsDocument
  CompressionRoundTrips
PROPERTY NothingUnlearned
