CONSTANTS
  Image <- MCImage
  Options <- MCOptions
  Part <- MCPart
  MaxFaults = 1
  Cut = {0, 5}
  UNINSTALL_DATA_MAX = 256
  SectorCells = 10
  BlockGuess <- MCBlockGuess
  LbGuess <- MCLbGuess
  NMbr = 2
  NGpt = 3
  Primary = 3
  Secondary = 2
  MinStart = 3
  MinSize = 20
  MaxLba = 50
  Boot <- MCBoot
  Stage2 <- MCStage2
SPECIFICATION InstSpec
CHECK_DEADLOCK FALSE
INVARIANT FailedInstallUndone
