----------------------------- MODULE MCVideoOut -----------------------------
\* Guest programs for the runs of VideoOut: calls that bear on each other.
EXTENDS VideoOut

Program(c, b) == [calls |-> c, buffers |-> b]
FrameProgram == Program({"eop"}, {0, 1})
AllPrograms ==
  {FrameProgram, Program({"eop", "flip"}, {0}), Program({"flip", "rate", "reset"}, {0}),
   Program({"flip", "event", "wait"}, {}), Program({"edge", "hrtimer", "wait"}, {}),
   Program({"level", "poll", "wait"}, {}), Program({"timer", "poll", "wait"}, {}),
   Program({"small", "hrtimer", "wait"}, {})}
TimersOnly == {Program({"hrtimer"}, {})}
=============================================================================
