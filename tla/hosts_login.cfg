SPECIFICATION DFairSpec
CONSTANTS
  Stacks <- MCStacks
  Roles <- MCRoles
  Word <- MCWord
  Unset = Unset
  MaxHostFaults = 1
  MaxWrites = 1
CHECK_DEADLOCK FALSE
INVARIANTS AccessSecretsWork
