SPECIFICATION Spec
CONSTANTS
  Worlds <- MCWorlds
  Commands <- MCCommands
  EditedTo <- MCEditedTo
  Probes <- MCProbes
  FnoxEnv <- MCFnoxEnv
CHECK_DEADLOCK FALSE
INVARIANT ServedAsStated
INVARIANT FailClosed
INVARIANT HeldIsServed
INVARIANT NearestFileWins
