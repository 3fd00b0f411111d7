SPECIFICATION Spec
CONSTANTS
  Holders = {h1, h2, h3}
  Creator = h1
  Signallers = {t1, t2}
  Callbacks = {c1, c2, c3}
  MaxDepth = 2
  Transitions = {tr1, tr2}
  Scenes = {A, B}
  Input = input
  MaxCalls = 4
  MaxActions = 2
  Frames = 2
  MediaFaults = {"seek"}
  MaxMediaCalls = 3
  MaxPlayed = 3
  MAX_ASYNC_FRAMES = 3
  MAX_UNUSED_FRAME_DURATION = 2
  MaxAllocated = 4
  MaxHeld = 1
  NUM_TEXTURES = 2
  MaxTick = 9
  MaxCount = 2
  Sources = {s1, s2}
  AUDIO_OUTPUT_FRAMES = 2
  MAX_BUFFERING_TICKS = 4
  AudioBlock = 2
  Jump = 2
  FirstTick = 10
  MaxAudioTime = 14
  MaxLate = 7
  MaxJumps = 1
  Outputs = {o1, o2}
  AudioEncoder = audio
  BlockSize = 2
  framesize = 3
  FrameTime = 3
  Apart = 3
  MaxPairTime = 9
  MaxPairStarts = 3
  MaxMixes = 2
  VideoPeriod = 3
  AudioPeriod = 2
  KeyInterval = 3
  Starts = {1, 2, 3, 4, 5, 6, 7, 8}
  MaxVideo = 5
  MaxAudio = 6
  Encoders = {v, a}
  Delay = 1
  Preserve = TRUE
  RetryMax = 1
  Restart = FALSE
  MaxDelayTime = 4
  MaxDelayStarts = 2
  MaxStops = 2
  drop_threshold = 0
  pframe_drop_threshold = 1
  CheckFrom = 5
  MaxFrames = 6
  MaxLosses = 1
INVARIANTS NeverRevived FreedInTime EveryoneIsCalled CountedAsShown
INVARIANTS PlaysAsAsked FramesInPlace FramesInStep  TrueTime
INVARIANTS  StreamsWhole EndIsClean StreamUsable
PROPERTIES NeverCalledAfter
CHECK_DEADLOCK FALSE
