CONSTANTS
  a = a
  s = s
  t = t
  Addrs = {a}
  Slots = {s, t}
  Values = {0, 1}
  Zero = 0
  None = None
  Puts <- InboxSlot
SPECIFICATION Spec
INVARIANT
  TypeOK
  OverlayIsPostState
