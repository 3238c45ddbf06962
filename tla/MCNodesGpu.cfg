\* A node without a GPU.
SPECIFICATION Spec
CONSTANTS
  a1 = a1 a2 = a2 a3 = a3 auditor = auditor
  Authorities = {a1, a2, a3}
  Signers = {a1, a2, a3, auditor}
  Auditor = auditor
  Countries = {20, 231, 528}
  Architectures = {0, 1, 9}
  CountryInputs = {0, 20, 231, 487, 528, 999}
  ArchitectureInputs = {0, 9, 10, 255}
  Quantities = {0, 1}
INVARIANTS GpusAreDeclared
CHECK_DEADLOCK FALSE
