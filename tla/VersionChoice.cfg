SPECIFICATION Spec
CONSTANTS
  None = None
  Minors <- MCMinors
  Patches <- MCPatches
  MaxTime = 2
  OfferLists <- MCOfferLists
INVARIANT StageIsTheLatest
INVARIANT NewestOnTop
PROPERTY PublishedAsClassified
PROPERTY ShootOnlyRises
