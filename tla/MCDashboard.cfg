CONSTANTS
  Tiles = {a, b}
  Unknown = {odd}
  Averages = {1, 2}
  MaxHistory = 2
  MaxLog = 2
  NoTile = NoTile
  MaxMessages = 3
SPECIFICATION PageSpec
CHECK_DEADLOCK FALSE
INVARIANT ViewsAgree
 
