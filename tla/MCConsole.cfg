\* Two text rows of two cells above the telemetry row, lines of four characters;
\* the farewell starts below the frame buffer, as (12, 33) does on 40 by 30.
CONSTANTS
  Cols = 2
  FbRows = 3
  RowCap = 2
  Limit = 4
  Keys = {a}
  FarewellX = 1
  FarewellY = 3
  FarewellLength = 2
  TelemetryLength = 2
  MaxLine = 6
  Blank = Blank
  Telemetry = Telemetry
  Lost = Lost
  NewLine = NewLine
  Return = Return
  Backspace = Backspace
SPECIFICATION Spec
INVARIANTS TypeOK DrawsInFrame LineShown EchoIsBuffer
CHECK_DEADLOCK FALSE
