CONSTANTS
  Lengths = {0, 40, 4096}
  Extras = {0, 150}
  FieldSets = {{}, {"text"}, {"title", "summary", "text"}}
  PlainFooter = 300
SPECIFICATION Spec
CHECK_DEADLOCK FALSE
INVARIANT TelegramNeedsNoCut
