SPECIFICATION AcpiSpec
CONSTANT AcpiSets <- MCAcpiSets
INVARIANT RedistributorsFound
CHECK_DEADLOCK FALSE
