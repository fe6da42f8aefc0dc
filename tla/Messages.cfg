CONSTANTS
  Lengths = {0, 40, 998, 3796, 4096}
  Extras = {0, 150}
  FieldSets = {{}, {"text"}, {"name"}, {"text", "name"}, {"title", "summary", "text"}, {"headline", "description", "name", "categories"}}
  PlainFooter = 300
SPECIFICATION Spec
CHECK_DEADLOCK FALSE
INVARIANTS TextSurvives SameKind SkippedForLength
