SPECIFICATION Spec
CONSTANTS
  Cap <- MCCap
  Clients <- MCClients
  Answers <- MCAnswers
  ReceivePackets = 3
  ReceiveBuffer = 17
  SendPackets = 3
  SendBuffer = 8
  BodyBase = 4
  Beyond = 1
  Word = 64
  ShortFirst = FALSE
INVARIANTS
  TypeOK
  ParserMeetsGrammar
  HeadEndAgrees
  BodyWholeUnlessLimit
  AnswerInOrder
  AnswerDelivered
PROPERTY
  ConnectionEnds
CHECK_DEADLOCK FALSE
