\* Pages of up to two parts in the body and two in the script, and pages for every kind of class.
SPECIFICATION Spec
CONSTANTS
  Culls <- Links
  Components <- TheComponents
  Scripts <- TheScripts
  Values <- TheValues
  Keys <- TheKeys
  Variants <- TheVariants
  Mappings <- TheMappings
  Alphas <- TheAlphas
  Pages <- ThePages
  MaxClasses = 6
  Chunk = 12
  Room = 3
  RuleBytes <- TheRuleBytes
  OtherBytes = 1
  Longest = 2
  Garbage = "garbage"
  MaxTries = 1
INVARIANTS TypeOK CulledAsListed AssembledAsMeant StyledAsMeant ServesWhatItTook
CHECK_DEADLOCK FALSE
