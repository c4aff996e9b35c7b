SPECIFICATION DFairSpec
CONSTANTS
  Stacks <- MCStacks
  Roles <- MCRoles
  Word <- MCWord
  Unset = Unset
  MaxHostFaults = 4
  MaxWrites = 2
CHECK_DEADLOCK FALSE
INVARIANTS VolumeKeepsWrites ReadyMeansInitialised
PROPERTIES EnabledHostServes
