------------------------------ MODULE Renderer ------------------------------
(***************************************************************************)
(* The client's drawing: RenderingEngine::render and everything it calls   *)
(* (sky, terrain, the objects of renderList, the panel), and the objects   *)
(* that updates add to its lists between two frames (Game::updateObject).  *)
(*                                                                         *)
(* Each drawing function leaves OpenGL in some state, and the next starts  *)
(* from it: how a thing looks could depend on what was drawn before.  The  *)
(* engine starts with its files loaded (Startup says what happens if they  *)
(* are not); positions, sizes and vertices are left out, and every object  *)
(* is within the radars' range.  Only one thread draws.                    *)
(***************************************************************************)
EXTENDS GL, FiniteSetsExt

CONSTANTS
  PlayerID, MissileID,   \* ids of objects the server sends
  localPlayerID,
  lowestMissileID,       \* 32: Missile asserts that its id is not below
  MissingFile,           \* images and models that are not there
  Node, root, children,  \* the aircraft's hierarchy of nodes
  meshes,                \* the meshes of each node
  MeshKinds,             \* bound: kinds of meshes of an aircraft
  FpsInterval,           \* 20: frames between two readings of the clock
  disableFog

(* What recursive_render and apply_material ask of a mesh.                 *)
MeshKind == [normals : BOOLEAN, colors : BOOLEAN, twosided : BOOLEAN, wireframe : BOOLEAN]

ASSUME RendererAssumption ==
  /\ localPlayerID \in PlayerID /\ MeshKinds \subseteq MeshKind
  /\ root \in Node /\ children \in [Node -> Seq(Node)] /\ FpsInterval \in Nat \ {0}

ObjectID == PlayerID \cup MissileID
None == -1               \* a part that is no object's

Mesh == UNION {ToSet(meshes[nd]) : nd \in Node}

(* The aircraft's nodes are a tree, and each mesh is in it once, as in     *)
(* data/staticmodels/F-16.dae: there each geometry is instanced once.      *)
ASSUME HierarchyAssumption ==
  /\ IsFiniteSet(Node) /\ \A nd \in Node : meshes[nd] \in Seq(Mesh)
  /\ \E height \in [Node -> 0 .. Cardinality(Node)] :
       \A nd \in Node : \A i \in DOMAIN children[nd] : height[children[nd][i]] < height[nd]
  /\ \A p, q \in Node : \A i \in DOMAIN children[p], j \in DOMAIN children[q] :
       children[p][i] = children[q][j] => p = q /\ i = j
  /\ \A p, q \in Node : \A i \in DOMAIN meshes[p], j \in DOMAIN meshes[q] :
       meshes[p][i] = meshes[q][j] => p = q /\ i = j
  /\ \A p \in Node : root \notin ToSet(children[p])

VARIABLES
  gl,
  renderList,            \* ids of the engine's objects, head first
  objList,               \* ids of the panel's objects, head first
  objects,               \* ids that playerList or missileList has an object for
  phase,                 \* of the main loop: "events", "objects" or "aborted"
  renobj,                \* what is left of renderList in this frame
  renderCount,
  frame,                 \* 0, 1, and 2 for every frame from the second on
  mesh,                  \* the aircraft's meshes
  looks                  \* history: how parts looked from the second frame on

engineVars == <<gl, phase, renobj, renderCount, frame, looks>>
listVars == <<renderList, objList, objects>>
vars == <<engineVars, listVars, mesh>>

-----------------------------------------------------------------------------
(* Textures                                                                *)

INVALID_TEXTURE_ID == <<"invalid", 0>>

(* Each user of an image has a texture of its own, or none if the file is  *)
(* not there.                                                              *)
texid(file, user) ==
  IF file \in MissingFile THEN INVALID_TEXTURE_ID ELSE <<file, user>>

(* Loading leaves the new texture bound.                                   *)
LoadTexture(file, user) ==
  IF file \in MissingFile THEN <<>> ELSE <<BindTexture(<<file, user>>)>>

-----------------------------------------------------------------------------
(* Sky and terrain                                                         *)

skybox_fn == <<"right", "left", "top", "bottom", "back", "front">>

(* The order of SkyBox::render.  The bottom has a texture, but no face.    *)
SkyFace == <<"front", "back", "top", "left", "right">>

SkyBoxLoad ==
  FlattenSeq([i \in DOMAIN skybox_fn |-> LoadTexture(skybox_fn[i], 0)])

SkyBoxRender ==
  <<Color(Plain("white"), 0), Enable("CULL_FACE"), Enable("TEXTURE_2D")>>
    \o FlattenSeq([i \in DOMAIN SkyFace |->
         <<BindTexture(texid(SkyFace[i], 0)), Draw(None, "sky", SkyFace[i])>>])
    \o <<Disable("TEXTURE_2D"), Disable("CULL_FACE")>>

TerrainList ==
  <<Color(Plain("white"), 10), Enable("TEXTURE_2D"), BindTexture(texid("grass", 0)),
    Draw(None, "terrain", "ground")>>

Initialize == LoadTexture("grass", 0) \o SkyBoxLoad

TerrainRender ==
  <<Enable("CULL_FACE"), Enable("TEXTURE_2D"), BindTexture(texid("grass", 0))>>
    \o TerrainList \o <<Disable("TEXTURE_2D"), Disable("CULL_FACE")>>

RenderFog == IF disableFog THEN <<>> ELSE <<Enable("FOG")>>

(* gluPerspective, then gluLookAt at the local player.                     *)
SetView ==
  <<MatrixMode("PROJECTION"), LoadIdentity, MultMatrix(<<"perspective">>),
    MatrixMode("MODELVIEW"), LoadIdentity>>

followCam == <<"camera", localPlayerID>>
CameraUpdate == <<MultMatrix(followCam)>>

-----------------------------------------------------------------------------
(* The aircraft's model                                                    *)

(* Two-sided meshes are culled, the others are not.                        *)
apply_material(m) ==
  <<Diffuse(<<"material", m>>),
    PolygonMode(IF mesh[m].wireframe THEN "line" ELSE "fill"),
    IF mesh[m].twosided THEN Enable("CULL_FACE") ELSE Disable("CULL_FACE")>>

LightIfNormals(m) == IF mesh[m].normals THEN Enable("LIGHTING") ELSE Disable("LIGHTING")

TrackWithoutColors(m) ==                         \* variant: the test turned round
  IF mesh[m].colors THEN Disable("COLOR_MATERIAL") ELSE Enable("COLOR_MATERIAL")
TrackIfColors(m) ==
  IF mesh[m].colors THEN Enable("COLOR_MATERIAL") ELSE Disable("COLOR_MATERIAL")

RenderMesh(id, m) ==
  apply_material(m)
    \o <<LightIfNormals(m), TrackIfColors(m)>>
    \o (IF mesh[m].colors THEN <<Color(<<"vertex", m>>, 10)>> ELSE <<>>)
    \o <<Draw(id, "model", m)>>

recursive_render(id) ==
  LET render[nd \in Node] ==
        <<PushMatrix, MultMatrix(<<"node", nd>>)>>
          \o FlattenSeq([i \in DOMAIN meshes[nd] |-> RenderMesh(id, meshes[nd][i])])
          \o FlattenSeq([i \in DOMAIN children[nd] |-> render[children[nd][i]]])
          \o <<PopMatrix>>
  IN render[root]

LoadModel ==
  <<Disable("TEXTURE_2D"), Disable("BLEND"), Enable("LIGHTING"), Enable("LIGHT0"),
    Enable("DEPTH_TEST"), Enable("NORMALIZE")>>

strModelMap == <<"F-16", "missile">>
loadModels ==
  FlattenSeq([i \in DOMAIN strModelMap |->
    IF strModelMap[i] \in MissingFile THEN <<>> ELSE LoadModel])

ModelDone ==
  <<Disable("LIGHT0"), Disable("LIGHTING"), Disable("DEPTH_TEST"), Disable("NORMALIZE"),
    Disable("CULL_FACE")>>

(* Left out: glColorMaterial, which has tracked colours set the diffuse    *)
(* material of front faces only, and the two-sided light model.  diffuse   *)
(* so stands for the front faces, which are those the properties are about.*)
StaticModelRender(id) ==
  <<Enable("CULL_FACE"), Enable("LIGHTING"), Enable("LIGHT0"), Enable("DEPTH_TEST"),
    Enable("NORMALIZE")>> \o recursive_render(id) \o ModelDone

-----------------------------------------------------------------------------
(* The objects                                                             *)

NewFlame(id) == LoadTexture("flame", id)

BindOnce(id) == <<>>                             \* variant: bound when loaded
FlameBind(id) == <<BindTexture(texid("flame", id))>>

FlameRender(id) ==
  <<Enable("BLEND"), BlendFunc("over"), Enable("ALPHA_TEST"), AlphaFunc("GREATER_HALF"),
    Enable("TEXTURE_2D")>> \o FlameBind(id)
    \o <<Color(Plain("white"), 10), Draw(id, "flame", "nozzle"), Color(Plain("white"), 7), Draw(id, "flame", "flame"),
         Disable("BLEND"), Disable("ALPHA_TEST"), Disable("TEXTURE_2D")>>

At(id)       == <<"at", id>>
YawPitch(id) == <<"yawpitch", id>>
Roll(id)     == <<"roll", id>>

(* All aircraft share one model; each has a flame of its own.              *)
NewPlayer(id) == NewFlame(id)

PlayerRender(id) ==
  <<PushMatrix, MultMatrix(At(id)), PushMatrix, MultMatrix(YawPitch(id)),
    PushMatrix, MultMatrix(Roll(id)), PushMatrix>>
    \o StaticModelRender(id) \o FlameRender(id)
    \o <<PopMatrix, PopMatrix, PopMatrix, PopMatrix>>

NewMissile(id) == NewFlame(id)

NoDepth == <<Disable("TEXTURE_2D")>>             \* variant: depth test taken as on
MissileStart == <<Enable("DEPTH_TEST"), Disable("TEXTURE_2D")>>

OnePop == <<PopMatrix>>                          \* variant
MissileDone == <<PopMatrix, PopMatrix>>

MissileRender(id) ==
  <<PushMatrix, MultMatrix(At(id)), Disable("BLEND"), MultMatrix(YawPitch(id)), PushMatrix>>
    \o MissileStart
    \o <<Color(Plain("steel"), 10), Draw(id, "missile", "body"),
         Color(Plain("pink"), 10), Draw(id, "missile", "cone"),
         Color(Plain("red"), 10), Draw(id, "missile", "fins"), Enable("BLEND"),
         Color(Plain("black"), 10), Draw(id, "missile", "smoke"), Color(Plain("grey"), 0),
         Disable("TEXTURE_2D")>>
    \o FlameRender(id) \o MissileDone

ObjectRender(id) == IF id \in PlayerID THEN PlayerRender(id) ELSE MissileRender(id)

-----------------------------------------------------------------------------
(* The panel                                                               *)

Marks(radar) == [i \in DOMAIN objList |-> Draw(objList[i], radar, "mark")]

Heading(radar) == IF radar = "horizontal" THEN <<PushMatrix, MultMatrix(<<"heading">>)>> ELSE <<>>

RadarRender(radar) ==
  <<PushMatrix, MultMatrix(<<"place", radar>>)>> \o Heading(radar)
    \o <<Enable("TEXTURE_2D"), Enable("BLEND"), Color(Plain("white"), 7),
         BindTexture(texid("radarbg", radar)), Draw(None, radar, "screen"),
         Disable("TEXTURE_2D"), Disable("BLEND"),
         Enable("BLEND"), Color(Plain("green"), 10), Draw(None, radar, "glow"),
         Disable("BLEND"), Color(Plain("green"), 10), Draw(None, radar, "line")>>
    \o Marks(radar)
    \o (IF radar = "horizontal" THEN <<PopMatrix>> ELSE <<>>) \o <<PopMatrix>>

fpsTexture == <<"fps", 0>>

RenderTextObject ==
  <<Enable("ALPHA_TEST"), Enable("BLEND"), BlendFunc("over"), AlphaFunc("GEQUAL_ZERO"),
    Enable("TEXTURE_2D"), BindTexture(fpsTexture), Draw(None, "panel", "text"),
    Disable("BLEND"), Disable("ALPHA_TEST"), Disable("TEXTURE_2D")>>

createTexture == <<BindTexture(fpsTexture)>>
(* There is a new texture if the text is another.                          *)
SetText(new) == IF new THEN createTexture ELSE <<>>

NewRadarMap(radar) == LoadTexture("radarbg", radar)

(* The text's texture is made when its font and its first text are there.  *)
NewPanel == NewRadarMap("horizontal") \o NewRadarMap("vertical") \o SetText(TRUE)

PanelRender ==
  <<Disable("DEPTH_TEST"), PushMatrix, MatrixMode("PROJECTION"), LoadIdentity, MultMatrix(<<"ortho">>),
    MatrixMode("MODELVIEW"), LoadIdentity,
    Disable("TEXTURE_2D"), Color(Plain("white"), 10), Draw(None, "panel", "line")>>
    \o RadarRender("vertical") \o RadarRender("horizontal")
    \o RenderTextObject \o <<PopMatrix>>

-----------------------------------------------------------------------------
(* The main loop                                                           *)

(* How a part of one kind of object looks, apart from its place and from   *)
(* which object's texture it has.                                          *)
Seen(d) ==
  [part    |-> <<IF d.part.obj = None THEN "" ELSE IF d.part.obj \in PlayerID
                 THEN "player" ELSE "missile", d.part.of, d.part.name>>,
   on      |-> d.on, rgb |-> d.rgb, a |-> d.a, texture |-> d.texture[1],
   blend   |-> d.blend, alpha |-> d.alpha, fill |-> d.fill]

(* initGame.                                                               *)
Init ==
  /\ mesh \in [Mesh -> MeshKinds]
  /\ gl = Run(GLInitial, Initialize \o NewPanel \o loadModels \o NewPlayer(localPlayerID))
  /\ renderList = <<localPlayerID>> /\ objList = <<localPlayerID>>
  /\ objects = {localPlayerID}
  /\ phase = "events" /\ renobj = <<>> /\ renderCount = 0 /\ frame = 0
  /\ looks = {}

AddObject(list, id) == <<id>> \o list

NewObject(id, calls) ==
  /\ gl' = Run(gl, calls)
  /\ objects' = objects \cup {id}
  /\ renderList' = AddObject(renderList, id)
  /\ objList' = AddObject(objList, id)

AlwaysNew(id) == TRUE                            \* variant: no test
IsNew(id) == id \notin objects

MissileAsserts(id) == id >= lowestMissileID

(* handleEvents: an object of an update.                                   *)
UpdateObject(id) ==
  /\ phase = "events" /\ IsNew(id)
  /\ \/ id \in PlayerID /\ NewObject(id, NewPlayer(id)) /\ UNCHANGED phase
     \/ id \in MissileID /\ MissileAsserts(id) /\ NewObject(id, NewMissile(id)) /\ UNCHANGED phase
     \/ /\ id \in MissileID /\ ~MissileAsserts(id)
        /\ phase' = "aborted"
        /\ UNCHANGED <<gl, listVars>>
  /\ UNCHANGED <<renobj, renderCount, frame, mesh, looks>>

DepthAssumedOn == <<>>                           \* variant
DepthOn == <<Enable("DEPTH_TEST")>>

(* render, up to the loop over the objects.                                *)
BeginFrame ==
  /\ phase = "events"
  /\ gl' = Run([gl EXCEPT !.drawn = <<>>],
               SetView \o CameraUpdate \o DepthOn
                 \o SkyBoxRender \o RenderFog \o TerrainRender)
  /\ phase' = "objects" /\ renobj' = renderList
  /\ frame' = IF frame = 2 THEN 2 ELSE frame + 1
  /\ UNCHANGED <<listVars, renderCount, mesh, looks>>

RenderObject ==
  /\ phase = "objects" /\ renobj # <<>>
  /\ gl' = Run(gl, ObjectRender(Head(renobj)))
  /\ renobj' = Tail(renobj)
  /\ UNCHANGED <<listVars, phase, renderCount, frame, mesh, looks>>

NeverReset(n) == n + 1                           \* variant
NextCount(n) == (n + 1) % FpsInterval

RenderPanel ==
  /\ phase = "objects" /\ renobj = <<>>
  /\ \E new \in (IF renderCount = FpsInterval - 1 THEN BOOLEAN ELSE {FALSE}) :
       gl' = Run(gl, SetText(new) \o PanelRender)
  /\ renderCount' = NextCount(renderCount)
  /\ phase' = "events"
  /\ looks' = IF frame = 2 THEN looks \cup {Seen(d) : d \in ToSet(gl'.drawn)} ELSE looks
  /\ UNCHANGED <<listVars, renobj, frame, mesh>>

Aborted == phase = "aborted" /\ UNCHANGED vars

Next ==
  \/ \E id \in ObjectID : UpdateObject(id)
  \/ BeginFrame \/ RenderObject \/ RenderPanel
  \/ Aborted

Spec == Init /\ [][Next]_vars

-----------------------------------------------------------------------------
(* Properties                                                              *)

TypeOK ==
  /\ gl.on \subseteq Capability
  /\ renderList \in Seq(ObjectID) /\ objList \in Seq(ObjectID)
  /\ objects \subseteq ObjectID
  /\ phase \in {"events", "objects", "aborted"}
  /\ renobj \in Seq(ObjectID)
  /\ renderCount \in 0 .. FpsInterval - 1 /\ frame \in 0 .. 2
  /\ mesh \in [Mesh -> MeshKind]

(* Whatever was drawn before it, in this frame or in earlier ones, and     *)
(* wherever its object is in the list, a part always looks the same: the   *)
(* same capabilities, colour, material and functions.  The first frame is  *)
(* left out: it is drawn with the lights that load switched on.            *)
LooksAlike == \A p, q \in looks : p.part = q.part => p = q

(* Only the aircraft's meshes are lit, and of these only those that have   *)
(* normals: none of the switches the model needs reaches what is drawn     *)
(* after it, or what is drawn before it in the next frame.                 *)
OnlyMeshesLit ==
  frame = 2 => \A d \in ToSet(gl.drawn) :
    "LIGHTING" \in d.on <=> d.part.of = "model" /\ mesh[d.part.name].normals

OfModel(i) == gl.drawn[i].part.of = "model"
(* The mesh that the model draws last.                                     *)
LastMesh == Last(Run(GLInitial, recursive_render(localPlayerID)).drawn).part.name

(* The mesh drawn before has colours: it is the aircraft's, or the last of *)
(* the aircraft before, even if that is in the last frame.                 *)
AfterColors(i) ==
  LET before == {j \in 1 .. i - 1 : OfModel(j)}
  IN  mesh[IF before = {} THEN LastMesh ELSE gl.drawn[Max(before)].part.name].colors

(* A lit mesh has its own material or, if it has colours, these.  A mesh   *)
(* without colours may have lost its material to the mesh drawn before it, *)
(* as apply_material comes before COLOR_MATERIAL is disabled, but only to  *)
(* one that has colours; nothing else that is drawn changes a material.    *)
OwnMaterial ==
  \A i \in DOMAIN gl.drawn :
    LET d == gl.drawn[i]
    IN OfModel(i) /\ mesh[d.part.name].normals =>
         IF mesh[d.part.name].colors THEN d.rgb = <<"vertex", d.part.name>>
         ELSE d.rgb = <<"material", d.part.name>> \/ AfterColors(i)

(* Both: the model's lights shine on what they should and on nothing else. *)
WellLit == OnlyMeshesLit /\ OwnMaterial

OfPanel(part) == part.of \in {"panel", "vertical", "horizontal"}

(* "This should be the last element as we disable depth buffer": the world *)
(* is drawn with the depth test, except for the flames of aircraft, whose  *)
(* model has switched it off; the panel is drawn without, over all of it.  *)
DepthTested ==
  \A i \in DOMAIN gl.drawn :
    LET d == gl.drawn[i]
    IN /\ "DEPTH_TEST" \in d.on <=>
             ~OfPanel(d.part) /\ ~(d.part.of = "flame" /\ d.part.obj \in PlayerID)
       /\ OfPanel(d.part) => \A j \in DOMAIN gl.drawn : j > i => OfPanel(gl.drawn[j].part)

PathTo[nd \in Node] ==
  LET parents == {p \in Node : nd \in ToSet(children[p])}
  IN  Append(IF parents = {} THEN <<>> ELSE PathTo[CHOOSE p \in parents : TRUE], <<"node", nd>>)

PlaceOf(part) ==
  LET id == part.obj
      object == <<followCam, At(id), YawPitch(id)>>
  IN CASE part.of \in {"sky", "terrain"} -> <<followCam>>
       [] part.of = "missile" -> object
       [] part.of = "flame"   -> IF id \in PlayerID THEN Append(object, Roll(id)) ELSE object
       [] part.of = "model"   -> Append(object, Roll(id)) \o
                                   PathTo[CHOOSE nd \in Node : part.name \in ToSet(meshes[nd])]
       [] part.of = "panel"   -> <<>>
       [] part.of = "vertical"   -> <<<<"place", "vertical">>>>
       [] part.of = "horizontal" -> <<<<"place", "horizontal">>, <<"heading">>>>

(* Every part of the world is seen from the camera, at the place of its    *)
(* own object and of no other, and the panel is not seen from the camera:  *)
(* pushes and pops of all objects match, and none is left over.            *)
InItsPlace ==
  /\ \A d \in ToSet(gl.drawn) :
       /\ d.view = PlaceOf(d.part)
       /\ d.proj = IF OfPanel(d.part) THEN <<<<"ortho">>>> ELSE <<<<"perspective">>>>
  /\ phase = "events" => \A m \in DOMAIN gl.stack : Len(gl.stack[m]) = 1

TextureOf(part) ==
  CASE part.of = "sky"      -> texid(part.name, 0)
    [] part.of = "terrain"  -> texid("grass", 0)
    [] part.of = "flame"    -> texid("flame", part.obj)
    [] part.of \in {"vertical", "horizontal"} /\ part.name = "screen" -> texid("radarbg", part.of)
    [] part.of = "panel" /\ part.name = "text" -> fpsTexture
    [] OTHER -> NoTexture

(* Textures are loaded between frames, and the text's in the middle of     *)
(* one, and each load leaves its own bound: what is drawn with a texture   *)
(* is all the same drawn with the one loaded for it, and with none when it *)
(* has none.                                                               *)
OwnTexture == \A d \in ToSet(gl.drawn) : d.texture = TextureOf(d.part)

Times(id, of) ==
  Cardinality({i \in DOMAIN gl.drawn : /\ gl.drawn[i].part.obj = id
                                       /\ gl.drawn[i].part.of = of
                                       /\ gl.drawn[i].part.name \in {"flame", "mark"}})

(* Every frame shows every object the client knows once, and the panel     *)
(* marks the same objects, once on each radar.                             *)
EachShownOnce ==
  /\ phase = "objects" /\ renobj = <<>> => \A id \in objects : Times(id, "flame") = 1
  /\ phase = "events" => \A id \in objects, radar \in {"vertical", "horizontal"} :
                           Times(id, radar) = Times(id, "flame")
=============================================================================
