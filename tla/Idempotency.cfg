SPECIFICATION FairSpec
CONSTANTS
  Calls = {c1, c2, c3}
  Slots = {s1, s2}
  Hashes = {h1, h2}
  Null = Null
INVARIANTS TypeOK RecordHasResource OneResourcePerLife ReplayFaithful
PROPERTIES Implements EveryCallEnds
