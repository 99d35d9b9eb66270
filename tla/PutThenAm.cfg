SPECIFICATION FairSpec
CONSTANTS
  Ops = {1, 2, 3, 4}
  MaxPuts = 2
  SrcRank <- SrcRankOf
  CmdSize <- CmdSizeOf
  Packed = {4}
  Long = {1, 4}
  Replying = {1, 3, 4}
  SrcCb = {4}
  PartMax = 2
  NonceMod = 2
  RankMod = 2
  Addrs = {a1, a2}
  Nil = Nil
INVARIANT ReassemblyExact
PROPERTIES KeepsPromise PutsComplete
