SPECIFICATION Spec
CONSTANTS
  Requests = {r1, r2}
  QueueCap = 1
SYMMETRY Symmetry
INVARIANTS TypeOK OneWarningPerEpisode RequestIngestedFirst EnvelopesAccountedFor ReturnsWithNothingHeld
PROPERTY TapsTheWire
CHECK_DEADLOCK FALSE
