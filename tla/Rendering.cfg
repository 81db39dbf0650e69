\* Any order of the lists and maps, references that come, change and go.
SPECIFICATION Spec
CONSTANTS
  Worlds <- MCWorlds
  SecretRefs <- MCSecretRefs
  ScriptRefs <- MCScriptRefs
  KeyOf <- MCKeyOf
  Addresses = {1, 2}
  MaxContent = 2
  MaxChanges = 2
INVARIANT TypeOK
PROPERTIES
  Faithful
  NoPermutations
  FailsForCause
CHECK_DEADLOCK FALSE
