CONSTANTS
  MaxManagers = 2
  MaxConns = 2
  Idxs = {1}
  Attempts = 2
SPECIFICATION FairSpec
INVARIANTS TypeOK AgentConnectedOnce AgentsAuthenticated AlwaysServed
PROPERTIES LoopsEnd
CHECK_DEADLOCK FALSE
