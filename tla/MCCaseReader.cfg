\* Every case of the corpora and every kind of route, read octet by octet.
SPECIFICATION Spec
CONSTANTS
  RouteList <- MCRouteList
  Cases <- MCCases
INVARIANTS
  ValidIsSound
  DamageIsAsNamed
  DetailsAreOnTheWire
  AttributesAreTheRoutes
  SizesAreReal
CHECK_DEADLOCK FALSE
