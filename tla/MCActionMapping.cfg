SPECIFICATION MappingSpec
CONSTANTS
  NKeys = 6
  NButtons = 3
  MaxKeys = 4
  MaxButtons = 2
  MostKeys = 5
  Reach = 520
INVARIANTS
  TokensReadBack
  LabelsFaithful
