SPECIFICATION FairSpec
CONSTANTS
  Indexes = {1}
  Resolutions = {"HD", "FULL"}
  DefaultResolution = "HD"
  Slices <- MCSlices
  PublishTicks = 2
  MaxCaptures = 1
  MaxPublishes = 2
  MaxRestarts = 1
INVARIANTS  PublishedIsWritten
 
