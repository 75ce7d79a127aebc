\* A window of 4 replenished every 2 deliveries of up to 3 frames; counters wrap at 6.
SPECIFICATION FairSpec
CONSTANTS
  Width = 6
  InitialCredit = 4
  Threshold = 2
  MaxFrames = 3
INVARIANTS
  Verbatim
  WindowSound
PROPERTIES
  NeverStuck
