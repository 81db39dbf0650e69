\* The tested behaviour that the code does not have: see the findings.
SPECIFICATION Spec
CONSTANTS
  Worlds <- SyslogMaxSize
  SecretRefs <- MCSecretRefs
  ScriptRefs <- MCScriptRefs
  KeyOf <- MCKeyOf
  Addresses = {1, 2}
  MaxContent = 2
  MaxChanges = 0
PROPERTY NoPermutations
CHECK_DEADLOCK FALSE
