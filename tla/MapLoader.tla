----------------------------- MODULE MapLoader -----------------------------
(***************************************************************************)
(* The map file: loadMap (src/src/Map/MapLoader.cpp) and the list of       *)
(* object descriptions it fills (Map.h, Map.cpp), as operators.            *)
(*                                                                         *)
(* A file is what the XML parser makes of it.  Every element is asserted   *)
(* to have the name expected at its place and followed without a test if   *)
(* it is missing, so the program ends either way; elements after the       *)
(* expected ones are passed over.  A number that does not parse is         *)
(* reported and left as new gave it, which is any number.  loc stands for  *)
(* all the numbers an object starts its flight with.                       *)
(***************************************************************************)
EXTENDS Integers, SequencesExt

CONSTANTS
  ObjID,       \* ids of objects
  Location,    \* where an object starts
  NULL

(* The header's elements, and the elements inside of these and of objects. *)
HeaderParts  == <<"name", "size", "camera", "skybox", "terrain">>
CameraParts  == <<"look", "up", "distance", "angle", "vertangle", "height">>
SkyBoxParts  == <<"dir">>
TerrainParts == <<"file", "texture">>
ObjectParts  == <<"type", "id", "location", "direction", "model", "initialvelocity", "accel",
                  "maxspeed", "minspeed", "minanglerot", "maxanglerot">>

objtypes_arr == {"invalid", "player", "static"}

ObjInfo == [type : objtypes_arr, id : ObjID, loc : Location]

(* What the parser finds in an object's element, and in a file.            *)
Element ==
  [parts : Seq(STRING), type : STRING, id : ObjID \cup {NULL}, loc : Location \cup {NULL}]

MapFile ==
  [header : Seq(STRING), camera : Seq(STRING), skybox : Seq(STRING), terrain : Seq(STRING),
   name : STRING, objects : Seq(Element)]

-----------------------------------------------------------------------------

(* Elements found where others are expected.                               *)
Read(expected, found) == IsPrefix(expected, found)

readInt(text)     == IF text = NULL THEN ObjID ELSE {text}
readTriplet(text) == IF text = NULL THEN Location ELSE {text}

(* The table has more entries than names, and a type that is none of these *)
(* is compared with the empty ones all the same.                           *)
lookupObjType(text) == text \in objtypes_arr

(* What may come of an object's element; nothing if the program ends.      *)
readObject(e) ==
  IF Read(ObjectParts, e.parts) /\ lookupObjType(e.type)
  THEN {[type |-> e.type, id |-> i, loc |-> l] : i \in readInt(e.id), l \in readTriplet(e.loc)}
  ELSE {}

readHeader(file) ==
  /\ Read(HeaderParts, file.header) /\ Read(CameraParts, file.camera)
  /\ Read(SkyBoxParts, file.skybox) /\ Read(TerrainParts, file.terrain)

(* The descriptions in the file's order.                                   *)
readMap(file) ==
  {d \in [DOMAIN file.objects -> UNION {readObject(e) : e \in ToSet(file.objects)}] :
     /\ readHeader(file)
     /\ \A i \in DOMAIN file.objects : d[i] \in readObject(file.objects[i])}

Abort      == [result |-> "aborted", objects |-> <<>>]
NoMap      == [result |-> "NULL", objects |-> <<>>]
MapOf(d)   == [result |-> "map", objects |-> d]

loadMap(file) ==
  IF file = NULL THEN {NoMap}
  ELSE IF readMap(file) = {} THEN {Abort} ELSE {MapOf(d) : d \in readMap(file)}

-----------------------------------------------------------------------------
(* The list of descriptions                                                *)

InsertLast(list, o) == Append(list, o)           \* variant: kept in file order
insertObjInfo(list, o) == <<o>> \o list
objList(map) ==
  LET after[n \in 0 .. Len(map.objects)] ==
        IF n = 0 THEN <<>> ELSE insertObjInfo(after[n - 1], map.objects[n])
  IN  after[Len(map.objects)]

(* The first match from the head, or else the head.                        *)
getObj(map, type, id) ==
  LET list  == objList(map)
      found == {i \in DOMAIN list : list[i].type = type /\ list[i].id = id}
  IN  IF found # {} THEN list[Min(found)] ELSE IF list # <<>> THEN Head(list) ELSE NULL
=============================================================================
