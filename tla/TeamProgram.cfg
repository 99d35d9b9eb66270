SPECIFICATION Spec
CONSTANTS
  RankN = 4
  Programs <- MCPrograms
INVARIANTS
  RegistryExact
  ResultsExact
  ObjectsLive
  DomainsQuiesced
PROPERTY
  EveryoneFinishes
