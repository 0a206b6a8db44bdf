\* Seven pages of two fields: remote rules, late fields, resets within resets.
CONSTANTS
  Fields <- TwoFields
  Value = {0, 2, 10}
  Pages <- AllPages
  Methods <- CoreMethods
  WellFormed = {2}
  NonAlpha <- OneNonAlpha
  Free <- FreeNames
  Undefined = Undefined
  Empty = Empty
  NoForm = NoForm
SPECIFICATION Spec
INVARIANTS
  RulesMeanAttributes
  FieldShowsItsVerdict
  SubmittedWasAccepted
PROPERTIES
  ResetLeavesClean
