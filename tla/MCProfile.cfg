CONSTANTS
  m1 = m1
  m2 = m2
  Channels = {m1, m2}
  K01 = k01
  AnyMs = any_ms
  b1 = b1
  b2 = b2
  Boxes = {b1, b2}
  Tokened = {b1}
  ClanItem = clan_item
  Catalogues <- MCCatalogues
  Worlds <- MCWorlds
  MaxBatch = 3
  MaxCommands = 2
  MaxEvents = 1
  NULL = NULL
SPECIFICATION Spec
SYMMETRY MCSymmetry
CHECK_DEADLOCK FALSE
INVARIANTS
  BatchIsOfTheBox
  MoneyAgrees
  ItemsAgree
