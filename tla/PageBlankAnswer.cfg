\* Two workers ask for the page at the same time; nothing fails.
SPECIFICATION Spec
CONSTANTS
  w1 = w1
  w2 = w2
  Page = Page
  ErrorPage = ErrorPage
  Null = Null
  Empty = Empty
  Threads <- TwoWorkers
  Size <- Growing
  Faults <- NoFaults
INVARIANT EveryAnswerHasStatus
