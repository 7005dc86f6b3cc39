SPECIFICATION FairSpec
CONSTANTS
  DrainLimit = 1
  SnapshotEvery = 2
  StopAt = 3
  MaxCommands = 2
  MaxFaults = 2
INVARIANTS PauseSurvives JournalMatchesLog CountersMatchTicks LossBound
PROPERTIES ObeysConsole CommandsServed TriggersServed
