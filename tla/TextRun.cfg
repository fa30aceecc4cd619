SPECIFICATION Spec
CONSTANTS
  Letter = {"a"}
  Digit = {"1"}
  Dot = "."
  Ascii = {"a", "1", ".", " "}
  Separator = {" "}
  Dict <- DictLines
  UserDict <- UserLines
  StartProb <- StartProbs
  TransProb <- TransProbs
  EmitProb <- EmitProbs
  MinDouble <- MinDoubles
  UrlSize = 12
  Alphabet <- Symbols
  Bound <- Bounds
  SampleText <- Sample
INVARIANTS TextsAreCovered TextsAreCutByWeight LeftOversAreMostProbable DictionariesFindTheirWords RunesLieInTheBytes ResultPagesAreSlices LinksLeadToPages PagesHaveOneUrl TextsAreReadBack SettingsAreTheFiles LimitsAreUsable PagesAreReadAsShown
CHECK_DEADLOCK FALSE
