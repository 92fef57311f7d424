\* Does the service come up again after requests the permission matrix allows?
SPECIFICATION FairSpec
CONSTANTS
  Instances = {s1}
  Environs <- Sound
  Tables <- UsersAndGenerators
  Keeps <- KeepsUsers
  MaxAttempts = 1  MaxDeaths = 1  MaxStops = 0
PROPERTIES ComesUp
