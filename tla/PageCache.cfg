\* Two workers, a page that is made shorter and then longer, and every fault.
SPECIFICATION Spec
CONSTANTS
  w1 = w1
  w2 = w2
  Page = Page
  ErrorPage = ErrorPage
  Null = Null
  Empty = Empty
  Threads <- TwoWorkers
  Size <- Sizes
  Faults <- AllFaults
SYMMETRY Workers
INVARIANTS TypeOK HydratedIsPage NeverStale LoneRequestServed
