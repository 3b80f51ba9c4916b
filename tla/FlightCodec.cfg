\* Six flights, from the smallest numbers to numbers beyond their fields; room for one, two or all of them.
SPECIFICATION Spec
CONSTANTS
  smallest = smallest
  largest = largest
  overflown = overflown
  rounded = rounded
  brief = brief
  glitch = glitch
  Hashes <- AllHashes
  Flown <- SomeFlown
  Rooms = {36, 50, 84, 400}
INVARIANTS TypeOK ShownAsPosted WholeOrMarked
