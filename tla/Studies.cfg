SPECIFICATION MCSpec
CONSTANTS
  p = p
  c = c
  bank = bank
  pulse = pulse
  dns = dns
  user = user
  w1 = w1
  w2 = w2
  Scenes = {"rules", "listed", "queue", "file", "fair"}
  Domains = {p, c}
  Apps = {bank, pulse}
  Catalog <- MCCatalog
  CatalogKind <- MCKind
  Named <- MCNamed
  Purpose <- MCPurpose
  Expected <- MCExpected
  Sensitive = {bank}
  SharedMin = 2
  EvidenceKept = 2
  Handlers = {dns}
  Requests = {user}
  Workers = {w1, w2}
  Hints = {"green", "red"}
  Stopper = Stopper
INVARIANTS
  TypeOK
  NothingLost
PROPERTIES
  ColoursStand
  WorkEnds
