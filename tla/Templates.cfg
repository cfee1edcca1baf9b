SPECIFICATION TemplatesSpec
CONSTANTS
  MaxCached = 2
  Blank = blank
  Ids = {blank, a, b, c}
  MaxRegs = 4
INVARIANTS
  CacheIsLRU
  RenderedAsRegistered
