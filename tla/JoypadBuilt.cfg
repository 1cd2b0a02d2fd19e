SPECIFICATION BuiltSpec
CONSTANTS
  Keys = {"A", "UP"}
  Fingers = {1}
  Places <- Places1
  MaxEvents = 2
INVARIANTS
  HeldKeyReads
CHECK_DEADLOCK FALSE
