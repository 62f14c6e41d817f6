------------------------------ MODULE Startup ------------------------------
(***************************************************************************)
(* Client and server from their first instruction to the game: main of     *)
(* both programs (src/src/Client/main.cpp, src/src/Server/main.cpp), with  *)
(* -s as one process and the child it forks.  The client may find any      *)
(* file wrong; it needs the server's port open before it joins, and waits  *)
(* for nothing to see to that.                                             *)
(*                                                                         *)
(* The kernel is modelled from the calls both programs make: one process   *)
(* at a time can bind the port, a join to a port nobody has bound comes    *)
(* back as an error, and a join that was not read when the port is closed  *)
(* is lost without one.  Another process may have the port; it answers     *)
(* when and how it likes.                                                  *)
(***************************************************************************)
EXTENDS KeymapLoader, MapLoader

CONSTANTS
  Document,        \* what maps/default.map may be, NULL if it cannot be parsed
  MapName,         \* names in map files
  defaultName,     \* the one that is also the name of a file in maps/
  MaxLinesWith,    \* bound: lines of the key map beside each map file
  NumAICs          \* 7: AI players, who take the first slots

ASSUME StartupAssumption ==
  /\ defaultName \in MapName /\ NumAICs \in Nat
  /\ MaxLinesWith \in [Document -> 0 .. MaxLines]
  /\ Document \ {NULL} \subseteq MapFile
  /\ \A d \in Document \ {NULL} : d.name \in MapName

VARIABLES
  mapFile,         \* maps/default.map, which both programs read
  client,          \* where the client's main is, or how it ended
  srvpid,          \* "none" (-1) or "own"
  killed,          \* history: what Quit has killed
  join,            \* what became of the client's join
  mapName,         \* from the welcome
  server,          \* where the child's main is, or how it ended
  port,            \* who has bound the server's port
  map,             \* the server's map
  started          \* the description each player was started from, in order of slots

clientMain == <<client, srvpid, killed, mapName>>
serverMain == <<server, map, started>>
launchVars == <<vars, mapFile, clientMain, join, serverMain, port>>

LaunchInit ==
  /\ Init
  /\ mapFile \in Document
  /\ client = "main" /\ srvpid = "none" /\ killed = {} /\ mapName = NULL
  /\ join = "none" /\ port \in {"nobody", "other"}
  /\ server = "none" /\ map = NoMap /\ started = <<>>

-----------------------------------------------------------------------------
(* The client                                                              *)

(* What the end of the child closes.                                       *)
ServerEnds ==
  /\ server' = "ended"
  /\ port' = IF port = "own" THEN "nobody" ELSE port
  /\ join' = IF join = "atOwn" THEN "lost" ELSE join

QuitUntested ==                                  \* variant: srvpid not tested
  /\ client' = "quit"
  /\ killed' = killed \cup {IF srvpid = "own" THEN "own" ELSE "everyone"}
  /\ IF srvpid = "own" /\ server # "ended" THEN ServerEnds ELSE UNCHANGED <<server, port, join>>
  /\ UNCHANGED <<srvpid, mapName, map, started>>
(* Whichever way the program exits, from the call of atexit on.            *)
Quit ==
  /\ client' = "quit"
  /\ IF srvpid = "own" THEN killed' = killed \cup {"own"} ELSE UNCHANGED killed
  /\ IF srvpid = "own" /\ server # "ended" THEN ServerEnds ELSE UNCHANGED <<server, port, join>>
  /\ UNCHANGED <<srvpid, mapName, map, started>>

GoTo(c) ==
  /\ client' = c
  /\ UNCHANGED <<srvpid, killed, mapName, join, serverMain, port>>

fork_server ==
  /\ client' = "video"
  /\ \/ srvpid' = "own" /\ server' = "child"
     \/ UNCHANGED <<srvpid, server>>              \* no -s, or fork failed
  /\ UNCHANGED <<killed, mapName, join, map, started, port>>

SetVideo == GoTo("map") \/ Quit

LoadDefaultMap ==
  \E m \in loadMap(mapFile) :
    \/ m.result = "NULL" /\ Quit
    \/ m.result = "aborted" /\ GoTo("crashed")
    \/ m.result = "map" /\ GoTo("keymap")

ReadKeymap ==
  \/ Len(lines) < MaxLinesWith[mapFile] /\ \E l \in Line : ReadLine(l)
  \/ EndOfFile

Sent == CASE port = "nobody" -> "refused" [] port = "own" -> "atOwn" [] port = "other" -> "atOther"
Connect ==
  \/ Quit                                         \* a socket call fails
  \/ /\ client' = "recv" /\ join' = Sent
     /\ UNCHANGED <<srvpid, killed, mapName, serverMain, port>>

RefusalMissed == join = "welcome" /\ GoTo("reload")  \* variant
doHandshake ==
  \/ join = "welcome" /\ GoTo("reload")
  \/ join \in {"refused", "noWelcome"} /\ Quit

(* The file is looked for under the name in the welcome, and no map is     *)
(* followed as if it were one.                                             *)
LoadNamedMap ==
  \E m \in loadMap(IF mapName = defaultName THEN mapFile ELSE NULL) :
    GoTo(IF m.result = "map" THEN "terrain" ELSE "crashed")

TerrainFile == {"none", "no heights", "narrow", "good"}

(* Without a file, free is given the pointer the constructor did not set;  *)
(* a terrain of less than eight columns divides by zero.  Initialize goes  *)
(* on with the terrain loaded or not.                                      *)
LoadTerrain ==
  \E f \in TerrainFile :
    \/ f \in {"none", "narrow"} /\ GoTo("crashed")
    \/ f \in {"none", "no heights", "good"} /\ GoTo("panel")

(* A font that cannot be opened exits the program.                         *)
NewPanel == GoTo("playing") \/ Quit

ClientStep ==
  /\ \/ /\ \/ client = "main" /\ fork_server
           \/ client = "video" /\ SetVideo
           \/ client = "map" /\ LoadDefaultMap
           \/ client = "keymap" /\ err # "reading" /\ GoTo("connect")
           \/ client = "connect" /\ Connect
           \/ client = "recv" /\ doHandshake
           \/ client = "reload" /\ LoadNamedMap
           \/ client = "terrain" /\ LoadTerrain
           \/ client = "panel" /\ NewPanel
        /\ UNCHANGED vars
     \/ /\ client = "keymap" /\ ReadKeymap
        /\ UNCHANGED <<clientMain, join, serverMain, port>>
  /\ UNCHANGED mapFile

UserQuits ==
  /\ client = "playing" /\ Quit
  /\ UNCHANGED <<vars, mapFile>>

-----------------------------------------------------------------------------
(* The server                                                              *)

(* The child has no exit handlers yet: if exec fails, it kills nobody.     *)
Exec ==
  \/ server' = "main" /\ UNCHANGED <<map, started, port, join>>
  \/ ServerEnds /\ UNCHANGED <<map, started>>

LoadServerMap ==
  \E m \in loadMap(mapFile) :
    \/ m.result = "map" /\ server' = "bind" /\ map' = m /\ UNCHANGED <<started, port, join>>
    \/ m.result # "map" /\ ServerEnds /\ UNCHANGED <<map, started>>

(* A bind that fails is not noticed until the first loop follows aiModule. *)
Bind ==
  \/ /\ port = "nobody"
     /\ port' = "own" /\ server' = "aijoin"
     /\ UNCHANGED <<map, started, join>>
  \/ port = "other" /\ ServerEnds /\ UNCHANGED <<map, started>>

(* Its flight starts with the description it is given, which must be one.  *)
NewPlayer(o) == o # NULL /\ started' = Append(started, o)

addPlayer(answer) ==
  LET o == getObj(map, "player", Len(started))
  IN \/ o = NULL /\ ServerEnds /\ UNCHANGED <<started, mapName>>
     \/ /\ NewPlayer(o)
        /\ answer
        /\ UNCHANGED <<server, port>>

aiClientJoin ==
  \/ Len(started) < NumAICs /\ addPlayer(UNCHANGED <<join, mapName>>)
  \/ /\ Len(started) = NumAICs /\ server' = "serving"
     /\ UNCHANGED <<started, port, join, mapName>>

welcomeClient ==
  join = "atOwn" /\ addPlayer(join' = "welcome" /\ mapName' = mapFile.name)

ServerStep ==
  /\ \/ /\ \/ server = "child" /\ Exec
           \/ server = "main" /\ LoadServerMap
           \/ server = "bind" /\ Bind
        /\ UNCHANGED mapName
     \/ /\ \/ server = "aijoin" /\ aiClientJoin
           \/ server = "serving" /\ welcomeClient
        /\ UNCHANGED map
  /\ UNCHANGED <<vars, mapFile, client, srvpid, killed>>

-----------------------------------------------------------------------------
(* Other processes                                                         *)

OtherStarts == port = "nobody" /\ port' = "other" /\ UNCHANGED <<join, mapName>>

OtherStops ==
  /\ port = "other" /\ port' = "nobody"
  /\ join' = IF join = "atOther" THEN "lost" ELSE join
  /\ UNCHANGED mapName

OtherAnswers ==
  /\ port = "other" /\ join = "atOther"
  /\ \/ join' = "welcome" /\ mapName' \in MapName
     \/ join' = "noWelcome" /\ UNCHANGED mapName
  /\ UNCHANGED port

OtherStep ==
  /\ OtherStarts \/ OtherStops \/ OtherAnswers
  /\ UNCHANGED <<vars, mapFile, client, srvpid, killed, serverMain>>

LaunchNext == ClientStep \/ UserQuits \/ ServerStep \/ OtherStep

(* Both mains run on; nobody has to quit or to start another server.       *)
LaunchFairness == WF_launchVars(ClientStep) /\ WF_launchVars(ServerStep)

LaunchSpec == LaunchInit /\ [][LaunchNext]_launchVars /\ LaunchFairness

-----------------------------------------------------------------------------
(* Properties                                                              *)

ClientPlaces == {"main", "video", "map", "keymap", "connect", "recv", "reload", "terrain",
                 "panel", "playing", "quit", "crashed"}

LaunchTypeOK ==
  /\ TypeOK
  /\ mapFile \in Document
  /\ client \in ClientPlaces /\ srvpid \in {"none", "own"} /\ mapName \in MapName \cup {NULL}
  /\ join \in {"none", "atOwn", "atOther", "welcome", "noWelcome", "refused", "lost"}
  /\ server \in {"none", "child", "main", "bind", "aijoin", "serving", "ended"}
  /\ port \in {"nobody", "own", "other"}
  /\ map \in [result : {"NULL", "map"}, objects : Seq(ObjInfo)]
  /\ started \in Seq(ObjInfo)

(* A client that has quit, wherever in its start, has left no server       *)
(* behind, and it never kills anything but the server it forked: not when  *)
(* it forked none, nor when the fork failed.                               *)
QuitEndsOwnServer ==
  /\ client = "quit" => server \in {"none", "ended"}
  /\ killed \subseteq {"own"}

(* A player starts from the last description of a player with its slot's   *)
(* number in the file; if there is none, from the last description of the  *)
(* file, whatever it describes.                                            *)
StartsFromItsDescription ==
  \A i \in DOMAIN started :
    LET mine == {k \in DOMAIN map.objects :
                   map.objects[k].type = "player" /\ map.objects[k].id = i - 1}
    IN  started[i] = map.objects[Max(IF mine # {} THEN mine ELSE DOMAIN map.objects)]

Settled ==
  \/ client \in {"playing", "quit", "crashed"}
  \/ client = "recv" /\ join \in {"lost", "atOther"}

(* In the end the client plays or has ended, or waits for an answer: from  *)
(* a stranger, or to a join that nobody has read when its server ended.    *)
(* In particular a join that comes before the port is open, and a join     *)
(* that comes while the AI players take their slots, are not waited for.   *)
LaunchSettles == <>[]Settled
=============================================================================
