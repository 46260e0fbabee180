SPECIFICATION Spec
CONSTANTS
  Names = {temp, hum}
  Colors = {color}
  NotFinite = NotFinite
  MaxSignificand = 100
  PowersOfTen = {1, 10, 100}
  NoName = NoName
  Vals <- MCVals
  Clock = {1000, 2000}
  IoErrors = TRUE
  MaxRows = 3
INVARIANTS
  TypeOK
  FetchDeliversWhatWasAsked
  CountAgreesWithFetch
  StoredWithinPrecision
PROPERTIES
  AppendOnly
  SchemaIsCreatedOnce
