SPECIFICATION RegistrySpec
CONSTANTS
  Goroutines = {g1, g2}
  Bounds <- MCBounds
  Reports <- MCReports
  MaxCalls = 2
INVARIANTS RegistryExact ScrapeSkew
PROPERTIES SwapsGetThrough
