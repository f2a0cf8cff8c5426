SPECIFICATION Spec
CONSTANTS
  MM = 3
  PP <- MCPP
  TT = 2
  ExchFrames <- MCExchFrames
  DownFrames <- MCDownFrames
  Decoded <- MCDecoded
  Messages <- MCMessages
  Configs <- MCConfigs
  KeyValues = {"k", "k2"}
  Rewritten = {17}
  Rssis = {9}
  MaxFrames = 2
  MaxSent = 1
INVARIANTS
  StatsInv
  DeliveredAsSent
  CorrectsUnlessZero
