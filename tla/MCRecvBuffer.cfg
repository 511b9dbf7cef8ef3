CONSTANTS
  FixedSize = 3
  BufferSize = 7
  RecvMax = 5
  MaxPackets = 3
  MaxConns = 2
SPECIFICATION FairSpec
INVARIANT TypeOK
INVARIANT NoByteDropped
INVARIANT PacketsAligned
PROPERTY ChannelSpec
PROPERTY CompletePacketsHandled
