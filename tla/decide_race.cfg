\* Two requests decide one approval; nothing else goes wrong.
SPECIFICATION Spec
CONSTANTS
  Jobs = {1, 2, 3}
  Handlers = {h1, h2}
  NoJob = NoJob
  Submitted = {"plan"}
  Faults = {}
SYMMETRY Symmetry
PROPERTIES
  DecidesOnlyPending
