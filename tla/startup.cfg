\* Two processes on one empty database, each of which may die or be stopped anywhere.
SPECIFICATION FairSpec
CONSTANTS
  Instances = {s1, s2}
  Environs <- AnyEnviron
  Tables <- UsersAndGenerators
  Keeps <- KeepsUsers
  MaxAttempts = 2  MaxDeaths = 1  MaxStops = 1
INVARIANTS TypeOK SeedIsWhole ServesReady
PROPERTIES SeedsOnce Recovers StopsInTheEnd
