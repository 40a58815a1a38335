CONSTANTS
  CacheSize = 2
  Holder = {h1, h2}
  Content = {zero, v}
  Zero = zero
  Nobody = Nobody
  MaxPages = 3
  MaxTime = 8
SPECIFICATION Spec
INVARIANTS
  TypeOK
  GuardsStayPut
  PinsAreGuards
PROPERTIES
  ImplementsPageStore
