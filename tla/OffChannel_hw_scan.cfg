SPECIFICATION Spec
CONSTANTS
  i1 = i1  i2 = i2  c0 = c0  c1 = c1  r1 = r1  r2 = r2  r3 = r3
  Ifaces = {i1, i2}
  Chans = {c0, c1}
  NoChan = NoChan
  Oper = c0
  Requests <- MCRequests
  NoRequest = NoRequest
  Rocs = {r1, r2, r3}
  IfaceOf <- MCIfaceOf
  ChanOf <- MCChanOf
  HwBands = 2
  Drivers <- MCDelayed
INVARIANTS HwScanOwned
