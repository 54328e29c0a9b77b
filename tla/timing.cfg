SPECIFICATION FairSpec
CONSTANTS
  CharTime = 1
  Threshold = 5
  RxIdle = 2
  turnaround_delay = 3
  send_wait_time = 10
  RequestLen = 2
  ResponseLens <- ShortAndLong
  MaxLatency = 6
  Wrap = 28
  MaxPause = 1
  Slack = 1
INVARIANTS
  TypeOK
PROPERTIES
  NeverCut
  NeverInterrupts
  FramesSent
