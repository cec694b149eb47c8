SPECIFICATION FairGatewaySpec
CONSTANTS
  k1 = k1
  k2 = k2
  s1 = s1
  s2 = s2
  s3 = s3
  Sockets = {k1, k2}
  Streams = {s1, s2, s3}
  SocketOf <- MCSocketOf
  Channels = {ch1, ch2}
  MaxClients = 3
  MaxConnects = 2
INVARIANTS
  GatewayTypeOK
  StarvedOnlyByLostCallOrReplacement
PROPERTIES
  BookRecovers
  SubscriberIsFed
