\* Two years, two retries, three choices of the reader and one upload, with and without the develop mode.
SPECIFICATION Spec
CONSTANTS
  y1 = y1
  y2 = y2
  Years <- TwoYears
  Changes = 1
  MaxRetries = 2
  Clicks = 3
  Posts = 1
INVARIANTS TypeOK OneAttempt GivesUpLate
PROPERTIES ImplementsShownYear AlwaysAnswered
CHECK_DEADLOCK FALSE
