\* A provider failure announced by the finish event.
SPECIFICATION Spec
CONSTANTS
  MaxContent = 0
  MaxEnds = 2
  Scripts <- MCScripts
  MaxChunk = 6
INVARIANT BrokenOffFails
