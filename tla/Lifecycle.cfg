SPECIFICATION Spec
CONSTANTS
  SlugOf <- MCSlug
  StackShape = 2
  KnownTools = {"vim", "emacs"}
  Workspaces = {"a", "b"}
  Hosts <- MCHosts
  Configs <- MCConfigs
  Disks <- MCDisks
  EditedTo <- MCEditedTo
  Registries <- MCRegistries
  Commands <- MCCommands
  MaxCommands = 2
  MaxEdits = 1
CHECK_DEADLOCK FALSE
 
INVARIANT TwinAnswered
INVARIANT Recovered
PROPERTY OnlyAsAsked
