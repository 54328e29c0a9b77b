SPECIFICATION FairSpec
CONSTANTS
  Crc <- MCCrc
  Devices <- MCDevices
  Frames <- MCFrames
  Noise <- MCNoise
  NoFrame = NoFrame
  NoPayload = NoPayload
  MaxFaults = 2
  MaxRx = 6
  MaxAsked = 2
INVARIANTS
  TypeOK
  PeersAgree
PROPERTIES
  StaysInStep
  WholeFramesHeard
  OnlyFramesHeard
  BackInStep
