SPECIFICATION Spec
CONSTANTS
  Seeds <- MCSeeds
  Payloads <- MCPayloads
  Manufacturers <- MCManufacturers
  Options <- MCOptions
  ExtendedOptions <- MCExtendedOptions
  AppInformations <- MCAppInformations
  Genuine <- MCGenuine
  GenuineKey <- MCGenuineKey
  WrongKey <- MCWrongKey
  Masks <- MCMasks
  Adapters <- MCAdapters
  Measurements <- MCMeasurements
  Images <- MCImages
  Cuts <- MCCuts
  CommandLines <- MCCommandLines
INVARIANTS StructsArriveIntact ZigbeeMessageArrives DeviceIsPairedAsItSaid OnlyGenuineAccepted ReportsUnderstood InputUnderstood
