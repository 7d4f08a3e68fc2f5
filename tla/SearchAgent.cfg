SPECIFICATION Spec
CONSTANTS
  Slots = {1}
  Requests = {1, 2, 3}
  MaxDeaths = 1
  Providers = {1, 2, 3}
  SecretOf <- MCSecretOf
  Needs = {2}
  Pages <- MCPages
  Secrets = {"k", "l"}
  None = None
  Deep = Deep
  Google = Google
  Limits = {1, 2}
  MaxWrites = 2
  MaxClears = 1
INVARIANTS
  SlotServesOne
  SlotsComeBack
  SavedIsReadable
PROPERTIES
  SearchSettles
CHECK_DEADLOCK FALSE
