SPECIFICATION Spec
CONSTANTS
  Page = {p, q}
  p = p
  q = q
  MaxStreams = 2
  MaxEvents = 2
PROPERTY ToldOfChanges
