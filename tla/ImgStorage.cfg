SPECIFICATION Spec
CONSTANTS
  BlockNb = 9
  LineNb = 3
  Images = {3, 8, 9, 10}
  FlashFails = TRUE
INVARIANTS
  CompleteIsWhole
  ImgInv
PROPERTIES
  WrittenOnce
