CONSTANTS
  W = 5
  RoundsUp = {}
  GroupBits = 1
  MaxBytes = 3
  MaxCount = 7
  V2 = V2
  V2Compressed = V2Compressed
  ZlibSize = 2
  MaxPayload = 3
  Sources <- MCSources
  Streams <- MCStreams
SPECIFICATION Spec
INVARIANTS
  RoundTrip
  NumbersExact
  DecodersAgree
  DecodedSound
  BytesIdentical
