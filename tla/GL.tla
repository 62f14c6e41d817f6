--------------------------------- MODULE GL ---------------------------------
(***************************************************************************)
(* OpenGL as the client's drawing code (src/src/Client: RenderingEngine,   *)
(* Objects, Panel) uses it: one state that every call changes and that     *)
(* stays as it is until the next call, and the picture, the sequence of    *)
(* parts drawn, each with the state it was drawn in.                       *)
(*                                                                         *)
(* A drawing function is the sequence of calls it makes.  A matrix is the  *)
(* sequence of the transforms multiplied into it; a part stands for all    *)
(* vertices between two changes of state.                                  *)
(***************************************************************************)
EXTENDS Integers, SequencesExt

Capability ==
  {"DEPTH_TEST", "BLEND", "ALPHA_TEST", "TEXTURE_2D", "CULL_FACE", "FOG",
   "LIGHTING", "LIGHT0", "NORMALIZE", "COLOR_MATERIAL"}

NoTexture   == <<"none", 0>>
Plain(name) == <<"plain", name>>

(* The calls                                                               *)

Enable(c)       == [call |-> "Enable", arg |-> c]
Disable(c)      == [call |-> "Disable", arg |-> c]
Color(rgb, a)   == [call |-> "Color", arg |-> [rgb |-> rgb, a |-> a]]
Diffuse(rgb)    == [call |-> "Diffuse", arg |-> rgb]
PolygonMode(m)  == [call |-> "PolygonMode", arg |-> m]
BlendFunc(f)    == [call |-> "BlendFunc", arg |-> f]
AlphaFunc(f)    == [call |-> "AlphaFunc", arg |-> f]
BindTexture(t)  == [call |-> "BindTexture", arg |-> t]
MatrixMode(m)   == [call |-> "MatrixMode", arg |-> m]
LoadIdentity    == [call |-> "LoadIdentity", arg |-> <<>>]
MultMatrix(x)   == [call |-> "MultMatrix", arg |-> x]
PushMatrix      == [call |-> "PushMatrix", arg |-> <<>>]
PopMatrix       == [call |-> "PopMatrix", arg |-> <<>>]
Draw(obj, of, name) == [call |-> "Draw", arg |-> [obj |-> obj, of |-> of, name |-> name]]

(* A new context.                                                          *)
GLInitial ==
  [on |-> {}, color |-> [rgb |-> Plain("white"), a |-> 10], diffuse |-> Plain("grey"),
   fill |-> "fill", blend |-> "replace", alpha |-> "always", texture |-> NoTexture,
   mode |-> "MODELVIEW",
   stack |-> [MODELVIEW |-> <<<<>>>>, PROJECTION |-> <<<<>>>>],
   drawn |-> <<>>]

Top(gl, mode) == Last(gl.stack[mode])

(* What of the state shows in a part: colour and lights as far as they are *)
(* used, the texture and the functions of what is enabled.                 *)
Look(gl, part) ==
  LET lit   == "LIGHTING" \in gl.on
      mixed == gl.on \cap {"BLEND", "ALPHA_TEST"} # {}
  IN [part    |-> part,
      on      |-> gl.on \ ({"COLOR_MATERIAL"} \cup IF lit THEN {} ELSE {"LIGHT0", "NORMALIZE"}),
      rgb     |-> IF lit THEN gl.diffuse ELSE gl.color.rgb,
      a       |-> IF mixed THEN gl.color.a ELSE 10,
      texture |-> IF "TEXTURE_2D" \in gl.on THEN gl.texture ELSE NoTexture,
      blend   |-> IF "BLEND" \in gl.on THEN gl.blend ELSE "off",
      alpha   |-> IF "ALPHA_TEST" \in gl.on THEN gl.alpha ELSE "off",
      fill    |-> gl.fill,
      view    |-> Top(gl, "MODELVIEW"),
      proj    |-> Top(gl, "PROJECTION")]

(* While COLOR_MATERIAL is enabled the diffuse material is the colour, and *)
(* a call to set it does nothing.                                          *)
Tracking(gl) == "COLOR_MATERIAL" \in gl.on

(* A pop of the last matrix is an error and does nothing.                  *)
Exec(gl, c) ==
  CASE c.call = "Enable"       -> [gl EXCEPT !.on = @ \cup {c.arg},
                                    !.diffuse = IF c.arg = "COLOR_MATERIAL" THEN gl.color.rgb ELSE @]
    [] c.call = "Disable"      -> [gl EXCEPT !.on = @ \ {c.arg}]
    [] c.call = "Color"        -> [gl EXCEPT !.color = c.arg,
                                    !.diffuse = IF Tracking(gl) THEN c.arg.rgb ELSE @]
    [] c.call = "Diffuse"      -> [gl EXCEPT !.diffuse = IF Tracking(gl) THEN @ ELSE c.arg]
    [] c.call = "PolygonMode"  -> [gl EXCEPT !.fill = c.arg]
    [] c.call = "BlendFunc"    -> [gl EXCEPT !.blend = c.arg]
    [] c.call = "AlphaFunc"    -> [gl EXCEPT !.alpha = c.arg]
    [] c.call = "BindTexture"  -> [gl EXCEPT !.texture = c.arg]
    [] c.call = "MatrixMode"   -> [gl EXCEPT !.mode = c.arg]
    [] c.call = "LoadIdentity" -> [gl EXCEPT !.stack[gl.mode] = Append(Front(@), <<>>)]
    [] c.call = "MultMatrix"   -> [gl EXCEPT !.stack[gl.mode] = Append(Front(@), Append(Last(@), c.arg))]
    [] c.call = "PushMatrix"   -> [gl EXCEPT !.stack[gl.mode] = Append(@, Last(@))]
    [] c.call = "PopMatrix"    -> [gl EXCEPT !.stack[gl.mode] = IF Len(@) > 1 THEN Front(@) ELSE @]
    [] c.call = "Draw"         -> [gl EXCEPT !.drawn = Append(@, Look(gl, c.arg))]

Run(gl, calls) ==
  LET after[n \in 0 .. Len(calls)] == IF n = 0 THEN gl ELSE Exec(after[n - 1], calls[n])
  IN  after[Len(calls)]
=============================================================================
