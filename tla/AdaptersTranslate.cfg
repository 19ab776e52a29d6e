SPECIFICATION Spec
CONSTANTS
  Undefined = Undefined
  Empty = Empty
  Elements <- AllElements
  FormNames <- AllNames
  Texts <- AllTexts
  NumeralOrder <- PlacesOfNumerals
INVARIANTS
  TypeOK
  EnforcesAttributes
  MessageFitsRule
  FieldsOfSameModel
CHECK_DEADLOCK FALSE
