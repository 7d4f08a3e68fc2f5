\* One request on each side of a reload that finds every file unchanged.
CONSTANTS
  Dispatches = {d1, d2}
  Reloads = {x1}
  Builtins = {openai}
  Extensions = {ext}
  Flaky = {ext}
  Edited = {}
  MaxVersion = 1
  MaxGeneration = 2
SPECIFICATION Spec
INVARIANTS
  NoModuleShutInUse
\* A closed process stops.
CHECK_DEADLOCK FALSE
