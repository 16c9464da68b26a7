SPECIFICATION SplitSpec
CONSTANTS
  split_size = 1200
  header_size = 12
  Lengths = {1200, 1201, 2376, 2400}
INVARIANT AllBytesSent
