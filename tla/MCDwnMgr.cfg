SPECIFICATION Spec
CONSTANTS
  Day = 10
  Campaigns <- MCCampaigns
  InitDelayMin = 1
  NetFails = TRUE
  MaxTime = 35
INVARIANTS
  DwnInv
PROPERTIES
  WindowsInCampaign
  Ends
