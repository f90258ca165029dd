SPECIFICATION Spec
CONSTANTS
  Requests <- MCRequests
  Ranges <- MCRanges
  Width <- MCWidth
  Addrs <- MCAddrs
  Subs <- MCSubs
  Powers <- MCPowers
  DefaultSub = 4
  DefaultPower = 20
  DefaultFreq = 21
  DefaultBw = 2
  Static <- MCStatic
  GarbageIds <- MCGarbage
  Texts <- MCTexts
  Sizes <- MCSizes
  Load <- MCLoad
  CrcLimit = 100
INVARIANT
  AwakenIdFits
