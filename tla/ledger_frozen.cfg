SPECIFICATION Spec
CONSTANTS
  Op = Op
  Op2 = Op2
  Miner = Miner
  Alice = Alice
  Commons = Commons
  d1 = d1
  d2 = d2
  m = m
  z = z
  c = c
  y = y
  x = x
  w = w
  e1 = e1
  e2 = e2
  n = n
  q = q
  k = k
  v = v
  Commitment = {d1, d2, m, z, c, y, x, w, e1, e2, n, q, k, v}
  Shape <- MCShape
  Owner <- MCOwner
  Value <- MCValue
  Tagged = {e1, e2, n, q, k, v}
  Capacity = 3
  AnchorWindow = 2
  Wallet = {Op, Op2, Miner, Alice, Commons}
  GenesisMaster = {Op, "no master"}
  Winner = Miner
  Sharer = Op
  Premine <- MCPremine
  Rotation <- MCRotation
  Reward = 6
  SharerCut = 3
  DevFee = 1
  Tithe = 1
  MaxSupply = 22
  Fee = 1
  Denomination = {2}
  Networks = {"g2"}
  ActivationHeight = 2
  Payments <- MCPayments
  MaxHeight = 7
  MaxOffers = 3
INVARIANT NotesStayPayable
