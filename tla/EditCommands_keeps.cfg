SPECIFICATION Spec
CONSTANTS
  Slides = 2
  Locals = 2
  Histories = 1
  Others = 1
  Drags = 1
INVARIANT ShowsSession
INVARIANT DragIsOneStep
PROPERTY AnswersKeepEdits
PROPERTY UndoComesAfter
CHECK_DEADLOCK FALSE
