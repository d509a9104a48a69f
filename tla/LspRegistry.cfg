SPECIFICATION FairSpec
CONSTANTS
  u = u
  v = v
  go = go
  Users = {u, v}
  Nobody = Nobody
  Names = {go}
  MaxClients = 2
  Worlds <- FewWorlds
INVARIANTS TypeOK NoServerLost CallersAreServed
CHECK_DEADLOCK FALSE
PROPERTIES RestartIsFresh CallsReturn RemovedServersEnd
