----------------------------- MODULE MCStartup -----------------------------
(***************************************************************************)
(* Instances of Startup for TLC.  Key maps of two lines are read beside    *)
(* the usual map file and the others beside an empty key map: what the key *)
(* map says changes nothing for the rest of the start.                     *)
(*                                                                         *)
(* Two keys, the name UNKNOWN of kmap and a name that is not in it; two    *)
(* functions, one that is another with a character more, and texts that    *)
(* are none.                                                               *)
(***************************************************************************)
EXTENDS Startup

MCkmap    == [w |-> 2, F2 |-> 1, UNKNOWN |-> 0]
MCKeyText == DOMAIN MCkmap \cup {"W"}

MCfuncarr  == [INVALID |-> 0, FIRE1 |-> 1, QUIT |-> 2]
MCFuncText == DOMAIN MCfuncarr \cup {"QUITS", ""}
MCChop     == [f \in MCFuncText |-> IF f = "QUITS" THEN "QUIT" ELSE ""]

Object(type, id, loc) == [parts |-> ObjectParts, type |-> type, id |-> id, loc |-> loc]

Whole(name, objects) ==
  [header |-> HeaderParts, camera |-> CameraParts, skybox |-> SkyBoxParts,
   terrain |-> TerrainParts, name |-> name, objects |-> objects]

Described == {Object("player", 0, "here"), Object("player", 0, "there"),
              Object("player", 1, "here"), Object("static", 1, "there")}
Usual == Whole("default", <<Object("player", 0, "here"), Object("player", 1, "there")>>)

Odd == {Object("player", NULL, "here"), Object("player", 0, NULL), Object("rock", 0, "here"),
        [Object("player", 0, "here") EXCEPT !.parts = Front(ObjectParts)]}

MCDocument ==
  {NULL, Usual, Whole("renamed", <<Object("player", 0, "here")>>),
   [Usual EXCEPT !.header = Tail(HeaderParts)], [Usual EXCEPT !.camera = <<>>],
   [Usual EXCEPT !.header = Append(HeaderParts, "object")]}
    \cup {Whole("default", o) : o \in SeqOf(Described, 2) \cup [1 .. 1 -> Odd]
                                        \cup {<<d, e>> : d \in Described, e \in Odd}}

MCMaxLinesWith ==
  [d \in MCDocument |-> IF d = Usual THEN MaxLines ELSE 0]
=============================================================================
