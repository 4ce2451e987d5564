SPECIFICATION Spec
CONSTANTS
  Streams = {s1}
  Batches = {}
  U64Max = 5
  Capacity = 3
PROPERTIES
  BacksOffOnDisconnect
