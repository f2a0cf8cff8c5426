SPECIFICATION Spec
CONSTANTS
  N = 3
  Senders = {g1, g2, g3, g4}
  Rssis = {1, 2}
  PongMax = 2
  Params <- MCParams
  Size <- MCSize
  Rem <- MCRem
  Loc <- MCLoc
  Restr <- MCRestr
  Values <- MCValues
  Default <- MCDefault
  TransLen = "L7TRANSMIT_LENGTH_MAX"
  Cmds <- MCCmds
  Fw = 2
  Hw = 1
  Now = 50
  ProgMin = 10
  ProgMax = 60
  Day = 10
  DeltaMin = 2
  Local = {"RF_UPLINK_CHANNEL", "L7TRANSMIT_LENGTH_MAX"}
  MaxPings = 1
  PingAfter = {"none", "EXECINSTPING"}
  AskAfter = {"EXECINSTPING", "other"}
SYMMETRY SenderSymmetry
INVARIANTS
  AnnouncedFits
  AdmInv
PROPERTIES
  RemoteChangesLegal
  ReadIsAllowed
