SPECIFICATION Spec
CONSTANTS
  PlayerID = {0, 1}
  MissileID = {31, 32, 33}
  localPlayerID = 0
  lowestMissileID = 32
  MissingFile = {"grass", "missile"}
  Node = {"hull", "canopy"}
  root = "hull"
  children <- MCchildren
  meshes <- MCmeshes
  MeshKinds <- MCMeshKinds
  FpsInterval = 2
  disableFog = TRUE
INVARIANT TypeOK
INVARIANT LooksAlike
INVARIANT WellLit
INVARIANT DepthTested
INVARIANT InItsPlace
INVARIANT OwnTexture
INVARIANT EachShownOnce
