\* One profile launches while its proxies, its assignment and the vault change.
SPECIFICATION Spec
CONSTANTS
  p1 = p1
  x1 = x1
  x2 = x2
  e1 = e1
  e2 = e2
  NoProxy = NoProxy
  Profiles = {p1}
  Proxies = {x1, x2}
  Endpoints = {e1, e2}
  EnvVaultPath = TRUE
SYMMETRY Sym
INVARIANTS RequiredIsNeverDirect ProxiedAsChecked 
