SPECIFICATION Spec
CONSTANTS
  Saves = {s1, s2}
  Forms <- MCForms
  None = None
  Accepted <- MCAccepted
  Recognised = {"k1"}
  Alias = "alias"
  Strip <- MCStrip
SYMMETRY Threads
INVARIANT
  StoredAsProbed
