SPECIFICATION Spec
CONSTANTS
  r1 = r1
  r2 = r2
  r3 = r3
  local = local
  plain = plain
  m1 = m1
  sdr = sdr
  hdr = hdr
  Request = {r1, r2, r3}
  Grade = {local, plain}
  Mask = {m1}
  MaskOf <- MCMaskOf
  NoMask = NoMask
  Context = {sdr, hdr}
  MaxFrames = 1
  Scenarios <- All
INVARIANT NothingStale
INVARIANT FlightsMatchOwners
INVARIANT MasksShared
PROPERTY Ends
CHECK_DEADLOCK FALSE
