SPECIFICATION Spec
CONSTANTS
  SPEEDS = {1, 4, 20, 2000}
  MAX_CYCLES_PER_TICK = 20000
  FrameTimes = {83, 167, 333, 9000}
  MaxFrames = 4
INVARIANT SpeedMeansWhatItSays
