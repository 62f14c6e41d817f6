# Scramblejet: a TLA+ model of the game server and its clients

Scramblejet (ScRamble) is a multi-player 3D flight game in C++. A server
process keeps the players and missiles, moves them every 20 ms, sends everybody
the positions over UDP and takes key events back. A client process draws the
world, collects key presses and answers pings. This directory holds TLA+
modules of that program, TLC configurations that check them on small instances
and TLAPS proofs for all instances. Paths below are relative to `src/src/`.

## 1. Inventory

| Component | State it keeps | Operations | Hard behaviour |
|---|---|---|---|
| Game loop and object tables (`Server/GamingEngine`) | `playerList[32]`, `missileList[256]`, the intrusive lists `sentObjList`, `moveObjList` | `addPlayer`, `removePlayer`, `addMissile`, `startGame` (tick, serialise, broadcast, wait, receive) | one player in three places; memory reuse; missiles are never removed; a buffer of 1500 bytes; the wait time |
| Game server (`Server/GamingServer`) | `cliinfo[32]`, `curloopnum`, the socket, `aiModule` | `initialize`, `aiClientJoin`, `handleIncomingPackets`, `processIncomingPacket`, `welcomeClient`, `getEventList`, `dispatchPing`, `broadcastUpdates` | datagrams lost, repeated and reordered; time-out in loops; a full table; a failed bind |
| Server objects (`Server/Objects`) | flight data, `num_missiles`, `id` | `handleEvent`, `launchMissile`, `doTick`, `serializeState` | one missile per event whatever its count |
| AI module (`Server/AI`) | `aic[32]` | `startNewClient`, `run` | follows `playerList` without testing it |
| Wire protocol (`protocol.h`) | - | five datagrams | one-byte object id, no length check, serial number unused |
| Gaming client (`Client/GamingClient`) | `connected`, `networkUpdateCounter`, the socket | `Connect`, `doHandshake`, timer callback, `sendEventList`, `handleNetworkEvents` | timer thread beside the main thread; one blocking `recv`; an update falls through into the ping case |
| Event map (`Client/GamingClient/EventMap.*`, `funcids.*`) | `funcArr`, `ev2funcid`, `timestamp` | `keyDown`, `keyUp`, `serializeEvMap`, `updateTimer`, `loadKeymap` | shared by two threads without a lock |
| Client game and objects (`Client/Game`, `Client/Objects`) | players and missiles by wire id | `updateObject`, `updatePlayer`, `updateMissile` | ids from 16 on are taken for missiles, `Missile` asserts ids from 32 on |
| Map (`Map`) | object descriptions, last one first | `loadMap`, `insertObjInfo`, `getObj` | assertions instead of errors; numbers that do not parse; a look-up that answers with another description, or none |
| Programs (`Server/main.cpp`, `Client/main.cpp`) | `srvpid` | start-up, `fork_server`, `Quit` | the client forks a server and does not wait for it; results ignored; `Quit` as an exit handler |
| Rendering, panel (`Client/RenderingEngine`, `Client/Panel`, `render` of `Client/Objects`) | OpenGL's state, `renderList`, `objList`, `renderCount` | loading, `render`, `addObject` | each function starts from the state the last one left; textures loaded between frames and within one |
| Code generator (`codegen`) | - | Perl script, run by hand | - |
| First versions (`GamingEngine`, `GamingClient`, `Objects`, `RenderingEngine`) | - | not built by `Makefile` | - |

How they interact:

    Client/main -- forks --> Server/main
    Server/main: loadMap -> new GamingEngine -> new Server -> initialize -> startGame
    startGame (one thread, for ever):
        doTick of players and missiles      Objects
        serializeState of both lists        protocol
        broadcastUpdates -> UDP             Server, then AIModule::run -> Player::handleEvent
        handleIncomingPackets(wait_time)    Server: join -> addPlayer
                                                    event list -> Player::handleEvent -> addMissile
                                                    ping answer -> lastresp
                                                    every 300 loops: ping or removePlayer
    Client main thread: SDL events -> EventMap; UDP -> Game::updateObject, ping answer
    Client timer thread: EventMap::updateTimer; every second call sendEventList

What makes each part correct: the server's tables name the same slots and are
never followed to a deleted player; a client has one slot, is told which, is
listed in every update while it is in the game and is dropped only when pings
stay unanswered; ids on the wire tell objects apart; the AI keeps to its own
players; a key press reaches the server once; an update names objects the
client can file; the parsers leave no half-built table behind; a start that
fails ends, with the server it forked; a thing looks the same whatever was drawn
before it.

## 2. Plan

In this order, the most important behaviour first:

1. `Protocol`, `GamingEngine`, `GameServer`, abstract `Roster`: the server. **Done.**
2. `GameServerProofs`: the server's inductive invariant. **Done.**
3. `EventMap`: the client's two threads, access by access. **Done.**
4. `GameClient` and `GameSystem`: handshake, network events and object filing,
   composed with the server over the loopback. **Done.**
5. `KeepaliveProofs`, `RosterProofs`, `EventMapProofs`. **Done**, see section 6.
6. `LoopTimer`, `KeymapLoader` and proofs about both. **Done.**
7. `MapLoader`, `Startup` and `StartupProofs`: both programs from `main` to the
   game, the map file, the forked server. **Done.**
8. `GL` and `Renderer`: the client's drawing as changes of OpenGL's state. **Done.**
9. `SystemProofs`: the safety of `GameSystem` for any number of clients and any
   buffers, and the server's theorems carried over to the system. **Done.**
10. `RendererProofs`: the picture of every frame, for any number of objects and
    any hierarchy of nodes, and how its parts look from frame to frame. **Done.**
11. The intrusive lists (`sentObjList`, `renderList`) as a heap of links that
    implements the sequences of `GamingEngine`.

## 3. Modules

**`Protocol`** holds the sizes that decide whether an update fits its buffer,
the one-byte object id (`UChar`) and the server's datagrams as records. Version
and magic checks appear as "a datagram that fails them is ignored".

**`GamingEngine`** is the object tables. A pointer is a member of `PlayerRef` or
`NULL`; `heap` says which player it points to, and a deleted reference may be
handed out again. An intrusive list is a sequence, head first: `addSentObject`
is `Cons`, `removeSentObject` is `RemoveFirst`. `missileList` starts with any mix
of `NULL` and garbage, because the constructor does not clear it. Position and
attitude are left out: nothing kept in the model depends on them.

**`GameServer`** is the server process. It has one thread, so `phase` is its
program counter:

| phase | code | actions |
|---|---|---|
| `init` | `Server::initialize` up to `bind` | `BindOk`, `BindFails` |
| `aijoin` | its loop over the AI clients | `AiClientJoin`, `AiClientsJoined` |
| `tick` | `startGame` up to the wait, `broadcastUpdates`, `AIModule::run` | `Tick` |
| `recv` | the `select` loop | `RecvJoin`, `RecvPingResp`, `RecvEventList`, `RecvIgnored`, `SelectTimeout`, `SelectFails` |
| `events` | `getEventList`, one event per step | `HandleNextEvent`, `EventListDone` |
| `check` | the loop over the client table | `CheckClient` (`KickClient`, `DispatchPing`), `EndLoop` |

Peers are left open: in `recv` any address may have sent any datagram of the
protocol (an event list that holds as many entries as it counts, which
`getEventList` does not compare with the datagram's length). This
covers loss, repetition and reordering at once, and clients that crash or come
back. `out` is what the last step sent. `fault` is the first thing the process
did that C++ gives no meaning to (a write to slot -1, a deleted player, a full
packet buffer, the missing AI module, overflow of `curloopnum`); the model stops
there because nothing can be promised after it. `heard` and `pinged` are history
variables; no guard reads them. Operators marked "variant" are plausible
mistakes, used to show that the properties notice them; no specification uses
them.

**`Roster`** is what the server promises, without its tables: slots that are
free, held by the AI or held by one address; a newcomer gets a free slot and is
told which, a member that asks again is told the one it has, only humans are
expelled, and an announcement tells every human the same list of the slots in
use. `GameServer` maps `cliinfo` to the roster and `out` to its mail.

**`EventMap`** is the client's key state, shared without a lock by the main
thread (`keyDown`, `keyUp`) and the SDL timer thread (`updateTimerCb`,
`serializeEvMap`). A step is one access to a word the other thread may write:

| thread | places | code |
|---|---|---|
| main | `connecting`, `idle`, `stamp`, `enter`, `load`, `store`, `exited` | `Connect`; `keyDown` line by line, `happened++` as a load and a store; `keyUp` in one step; `Quit` |
| timer | `idle`, `scan`, `read`, `restamp`, `copy`, `clear` | `updateTimerCb`, then one function id of `serializeEvMap` after the other: test, read the stamp, write it back; or test, copy `happened`, set it to 0 |

`keyUp` is one step because it writes `inprogress` and `reset`, of which the
timer thread only reads the first. The build is not optimised (`-g3`), so every
access of the source is one of the program. `counted`, `reported`, `raced`,
`unreported` and `kept` are history variables. The clock is unset by the
constructor and starts at any value; it is kept modulo `INT_VALUES`, the counts
on the wire modulo `USHORT_VALUES`.

**`GameClient`** is the main thread of each client process: the one join it
sends, the handshake, the filing of an update's ids as players or missiles, the
answer to updates and pings. An id past `playerList` is written into
`missileList`, which follows it in memory, at an entry no update uses: that is
what the build does, and the model says so.

**`GameSystem`** runs `GameServer` and the `GameClient`s over the kernel's
loopback, because `Game::initGame` connects to the constant 127.0.0.1: a socket
keeps its datagrams in order and drops those that find its buffer full, and a
port that is not open refuses. The server's `recv` phase takes the head of
`toServer`, and its `select` times out only when that is empty and may fail at any time; every datagram a
step puts into `out` or `sent` goes to the receiver's buffer. A client may quit
or die at any moment. `asked` is a history variable.

**`LoopTimer`** is the length of a loop of the server: two readings of the clock
around the tick, the wait computed from their microseconds, and the `select`s
that use it up. `select` is Linux's, which the program is built for: it carries
whole seconds out of `tv_usec` and leaves in `tm` the time it did not wait. The
clock never runs backwards. `began`, `worked`, `handled` and `gameBegan` are
history variables.

**`KeymapLoader`** is `loadKeymap`, one `fgets` per step, from any file: a line is
a comment, blank, without a colon, or a key's and a function's text, ended by a
newline or not. `kmap` and `funcarr` are constants, names outside them are texts
like any other. Key -1 writes the word before `ev2funcid`, which is the upper half
of `timestamp`; since `EventMap` lets the clock start anywhere, what it does with
the table stays covered. `TypeOK` is what `EventMap` assumes of its `ev2funcid`.

**`MapLoader`** is `loadMap` and the list of descriptions, as operators. A file is
what the XML parser makes of it: the names of the elements found at each place,
and the texts of those the rest depends on (`NULL` for a number that does not
parse). `readMap` is the set of what may come of a file: nothing if an assertion
fails or a missing element is followed, and more than one reading if a number
is left as `new` gave it. `insertObjInfo` puts each description at the head;
`getObj` answers with the first match, or else with the head, or `NULL`.

**`Startup`** is both programs up to the game, as they go with `-s` and without.
`client` and `server` are their places, or how they ended:

| place | code | steps |
|---|---|---|
| `main`, `video`, `map` | `Client/main.cpp` | `fork_server`, `SetVideo`, `LoadDefaultMap` |
| `keymap` | `GamingClient::initialize` | `ReadKeymap`, the steps of `KeymapLoader` |
| `connect`, `recv` | `Connect`, `doHandshake` | `Connect` (the join is sent), `doHandshake` |
| `reload`, `terrain`, `panel` | `Game::initGame` | `LoadNamedMap`, `LoadTerrain`, `NewPanel` |
| `playing`; `quit`, `crashed` | main loop; how it ended | `UserQuits` |
| `child`, `main`, `bind` | the server after the fork, `Server/main.cpp`, `initialize` | `Exec`, `LoadServerMap`, `Bind` |
| `aijoin`, `serving` | `aiClientJoin`, `welcomeClient` | `addPlayer` |

The kernel is what both programs take it for: a port that one process at a time
can bind, a join that comes back as an error from a port nobody has, and one
that is lost without a sound when the server that held it ends. Another process
may have the port, come, go, answer or not. `crashed` is an assertion, a pointer
followed that is none, a bad `free` or a division by zero, wherever the code has
one on the way. `killed` and `started` are history variables. `EventMap`'s timer,
which `initialize` starts, is left to `EventMap`, whose `Connect` is this module's.

**`GL`** is OpenGL as far as the client uses it: the switches, colour, material,
texture, fill and matrix stacks that calls change and that stay until the next
call, and the picture, a sequence of parts, each with the state it was drawn in.
A function that draws is the sequence of its calls. A matrix is the list of
transforms multiplied into it; vertices are left out. It is external: what it
says of each call is what the code relies on.

**`Renderer`** is everything the client calls OpenGL for, call by call: loading
(`initGame`), then frames, one object of `renderList` per step, and between
frames the objects that updates add (`Game::updateObject`). The aircraft's
hierarchy of nodes and its meshes are constants, and what `recursive_render` and
`apply_material` ask of a mesh is chosen at the start. The texture of each user
of an image is its own; images and models may be missing. Files are otherwise
whole here: what a bad one does is in `Startup`. `looks` is a history variable.

**`MCGameServer`**, **`MCEventMap`**, **`MCGameSystem`**, **`MCStartup`** and
**`MCRenderer`** give the constants values for TLC.

## 4. Runs

| run | what it asks | bounds |
|---|---|---|
| `server_slots` | `TablesAgree`, `ListedOnce`, `AIClientsStay`, `OneSlotPerAddress`, `UpdateListsMembers`, `WelcomeNamesOwnSlot`, `SilentClientsDropped`, `KickOnlyAfterPing`, `ImplementsRoster` | 3 slots, 1 AI client, 3 addresses, 4 player references, 10 loops, `lastresp` unset to -9, 0 or 9 |
| `server_missiles` | `TypeOK`, `NoBadPlayer`, `WireIdsUnique`, `OnlySenderPays` | 2 addresses, 4 missile slots, 3 missiles per player, room for 7 objects in a packet, 4 loops |
| `server_unpinged` | `EveryKickAfterPing` (violated) | 2 slots, 1 address |
| `events` | `TypeOK`, `UnracedPressesCounted`, `HeldReportsShareOneTick`, `PressesPickedUp`, `HeldFunctionsReported` | 2 keys that fire, 2 that accelerate, 3 presses, a clock of 4 values, counts of 4 |
| `events_lost_press` | `NoPressLost` (violated) | 2 keys that fire, 1 that quits, 3 presses |
| `system_play` | `PlaysOwnSlot`, `HandshakeMeetsWelcome`, `UpdatesKeepAlive` | 3 slots, 1 AI client, 2 clients, 4 loops, buffers of 2 datagrams |
| `system_objects` | `SystemTypeOK`, `ObjectsFiledRight`, `EnteredClientPlays` | 1 client that fires 2 missiles, 2 missile slots that may hold garbage, 3 loops |
| `system_high_slot` | `ClientNeverAborts` (violated) | as `system_play`; the client takes 2 ids for players, the server 3 |
| `timer_length` | `TypeOK`, `LoopsTakeTheirTime`, `LoopLength` | a period of 3 in seconds of 7, ticks of up to 9, 2 packets per loop, 24 units of time |
| `startup` | `LaunchTypeOK`, `BoundAsRead`, `QuitEndsOwnServer`, `StartsFromItsDescription`, `LaunchSettles` | 4 key texts, 5 function texts, 2 lines; map files of up to 2 objects; 1 AI player, 1 client |
| `startup_bad_key` | `StopsAtFirstBadLine` (violated) | as `startup` |
| `render` | `TypeOK`, `LooksAlike`, `WellLit`, `DepthTested`, `InItsPlace`, `OwnTexture`, `EachShownOnce` | 2 aircraft of 2 meshes of 8 kinds, 3 missile ids of which one is refused, a text every 2 frames |

Why the bounds are enough. With three addresses and one AI client for three
slots the table fills up, a join meets a full table, and slots and references
are reused after a kick. Ten loops with a check every second loop and thresholds
1 and 2 let a client be pinged, answer, fall silent again, be pinged and be
kicked. With four missile slots, some taken by garbage, the table runs out
while players can still fire, and the packet overflows. Addresses and player
references are interchangeable in the code, so they are symmetric; slots are
not, they are searched in order.

In the event runs two keys of one function are what it takes to release one key
while the other still holds the function. Three presses are enough to hold it with
one key, press the other, release either and hold it again, and for two presses
to meet the timer thread in every place it may be in. The clock wraps and
starts anywhere, and so do the counts. A clock and counts of 4 values tell the 3 of a
function that is held from the 1 or 2 of one pressed since, and from what a stamp
one report too old would give; that the counts are narrower than the clock, as in
the code (16 and 32 bits), is left to the proofs.

In `system_play` two clients and the AI client use all three slots, the third of
which the client does not take for a player's, as in the code, where these
numbers are 16 and 32; four loops see a client dropped and its slot given to the
other. Buffers of two datagrams fill up, so answers, updates and joins get lost.
`EnteredClientPlays` is asked with one client: what another sends can only delay the
server's loop or keep a join out of its buffer, and the property is about a client
whose join got in.

In `timer_length` a tick may be shorter or longer than the period and than a
second, and cross one change of second or two, or none.

In `startup` two lines are enough for a key to be bound twice, and for a good
line to follow a bad one or come before it; for longer files there is the proof.
Key maps of two lines are read beside the usual map file and no lines beside the
others (`MaxLinesWith`): nothing of the start depends on what the key map says,
so this leaves no case out. The AI player takes slot 0 and the client slot 1; with two
objects a file may describe a slot twice, not at all, as something else, or with
a number that does not parse. It has one client, because each client starts for
itself; what several do to one server is in `GameSystem`.

In `render` two aircraft and two missiles meet in every order in the list, and
each follows each, within a frame and from one frame to the next. A mesh has
normals or none, colours or none and is two-sided or not; meshes that are
two-sided are those drawn as lines, since neither switch is read by anything
else. The first mesh's node has the second's as a child, so pushes nest. The
text changes in every second frame (20 in the code) or keeps its texture. The
frame counter ends at "from the second on", as no property tells later frames
apart. Marks are always within the radars' range. The images of the ground and
the model of the missile are missing, as they are in `data/`.

`INT_MAX` bounds `curloopnum`; the code's own bound is that of an `int` and
reaching it is undefined there too, so the bound is a fault and not a guard.
`MaxPresses` bounds the key presses of a run, `SocketBuffer` the buffers, `MaxTime`
the time at which a loop may begin, `MaxWork`, `MaxHandling` and `MaxPackets` what
a loop takes, `MaxLines` and `MaxLinesWith` the key map, `MeshKinds` the meshes.
Deadlock is checked in all runs but `startup`, where both programs may be over
and no other process has to come: a step for "the process has ended" stands for
a program that is over in the others.

**What `server_unpinged` shows.** `welcomeClient` leaves `lastresp` unassigned.
If a client joins in a loop that ends with a check and the memory held a small
value, the check finds it silent for longer than both thresholds and removes it
at once. The comment there reads "Even pings were unhelpful... kill it". In
`KickOnlyAfterPing` the same is said of clients that have been heard once, and
holds.

**What `events_lost_press` shows.** The timer thread copies `happened` into the
list and sets it to 0 in two steps; a press stored in between is in no list. (If
the store of an older value comes last, presses are sent twice.) The comment on
these fields reads "This is used for single events which need to be picked up".
`UnracedPressesCounted` says that nothing else loses or repeats a press.

**What `events` shows of held functions.** A report counts both the tick of its stamp and its own
(`timestamp - stamp + 1`), and its own is the next stamp. So the report of a
function held since the last one shares exactly one tick with it: it sends 3 for
every 2 ticks.
`HeldReportsShareOneTick` says that this is all that is counted twice, and that
nothing is left out, whichever thread runs when. No doc or comment says that
ticks are counted once, so there is no disagreement to show.

**What `system_high_slot` shows.** The server numbers players from 0 to 31, the
client files ids from 16 on as missiles, and `Missile` asserts that its id is 32
or more. The update that first lists a slot from 16 on aborts every client that
takes it. `ObjectsFiledRight` says what the assertion saves: no client ever shows
a player as a missile.

**What `startup` shows.** A start comes to an end in one of three ways
(`LaunchSettles`): the client plays, the client ends, or it waits for an answer
that nobody will send, because a stranger has the port or the server ended with
the join unread. `doHandshake` sends one join and has no time-out; the server's
branch for repeated joins ("reattempting to join") has no user in this
repository. A join that comes too early, before the forked server has bound the
port, is not such a case: the kernel refuses it and the client exits, and with
it the server (`QuitEndsOwnServer`). Only a crash of the client, which runs no
exit handler, leaves a server behind. `StartsFromItsDescription` says what the
list built head first means for the file: the last description of a slot
counts, and a slot without one starts from the last description of all, a static
object's included.

**What `startup_bad_key` shows.** A key name that is not in `kmap` has the number
-1, and the loader tests for 0, `SDLK_UNKNOWN`. So the message "Invalid Event map
format in key" is never printed for such a line: the word before the table is written,
the load goes on, and its 0 does not mean that every line was good.
`StopsAtFirstBadLine` takes the loader's messages at their word. `BoundAsRead` says
what holds: every known key has the function of the last line accepted for it.

**What `render` shows.** Nothing a thing's looks depend on is left to what was
drawn before it, except in the first frame, which is drawn with the lights that
loading the model switched on, and with `WellLit`'s exception: a mesh without
colours keeps the colour of the coloured mesh before it, because
`apply_material` is called before `GL_COLOR_MATERIAL` is disabled. An aircraft's
flame is drawn without the depth test, which its model has switched off; a
missile's is drawn with it. `apply_material` culls two-sided materials and no
others, which is the wrong way round; no property claims either. Lights and materials are those of
front faces: the two-sided light model, and that colours are tracked on front faces
only, are left out.

**Noted while modelling.** The comments say that 750 loops are "Approx 10 secs" and
1500 "Approx 20 secs"; a loop is never shorter than 20 ms (`LoopsTakeTheirTime`), so
they are 15 and 30 seconds at least. `LoopLength` says what else a loop may take:
the wait is computed from microseconds alone, so a loop whose tick sees the second
change waits a second too long. `AIModule::run` passes over a missile without moving to the next object
of the update; as players come first, it then only reads that missile again.
`Missile::render` keeps three times a width of 0.01 in an `int`. `data/` has no
`missile.dae`, so no missile has a model, and none is drawn with one.

## 5. Fairness

The safety properties need none. `events` assumes weak fairness of the timer
thread, which SDL calls every 10 ms for as long as the process lives, and of the
main thread inside `keyDown`, which waits for nothing. Nothing obliges the main
thread to connect or the user to press or release a key, and the properties have
the exit of the program as an alternative. The system runs assume weak fairness of
the server's `startGame`, a `while (true)`, and of each client's main loop once
the program is started; both wait in `select` and `recv` only, which the model
has as guards. Starting and quitting a client are not fair. `startup` assumes weak
fairness of both mains, which run straight on and wait in `recv` only; not of the
user and not of other processes, so that a stranger on the port may keep silent.
A key map is bounded, so the client reaches its end.

## 6. Proofs

`GameServerProofs` proves, for all table sizes, peers and loop parameters that
satisfy the assumptions in the modules:

| theorem | property |
|---|---|
| `TypeCorrect` | `TypeOK` |
| `TablesAlwaysAgree` | `TablesAgree` |
| `PlayersListedOnce` | `ListedOnce` |
| `NeverReadsBadPlayer` | `NoBadPlayer` |
| `AISteersOnlyItsOwn` | `AIClientsStay` |
| `AddressHasOneSlot` | `OneSlotPerAddress` |

The other proof modules add:

| theorem | property |
|---|---|
| `DroppedAfterPing` | `KickOnlyAfterPing`, if `maxPingWaitloopTime >= checkCliStatusEverySecs` (1500 and 300 in the code) |
| `DroppedInTime` | `SilentClientsDropped` |
| `WelcomesNameOwnSlots` | `WelcomeNamesOwnSlot` |
| `UpdatesListMembers` | `UpdateListsMembers` |
| `ServerImplementsRoster` | `ImplementsRoster` |
| `WireIdsTellObjectsApart` | `WireIdsUnique` |
| `SenderPays` | `OnlySenderPays` |
| `EventMapTypeCorrect` | `TypeOK` of `EventMap` |
| `PressesCounted` | `UnracedPressesCounted` |
| `HeldReportsOverlapByOne` | `HeldReportsShareOneTick` |
| `TimerTypeCorrect` | `TypeOK` of `LoopTimer` |
| `CountedLoopLength` | `LoopLength` |
| `LoopsNeverHurry` | `LoopsTakeTheirTime` |
| `KeymapTypeCorrect` | `TypeOK` of `KeymapLoader` |
| `KeysBoundAsRead` | `BoundAsRead` |
| `LaunchLoadsKeymap` | `LaunchSpec` implements `KeymapLoader`'s `Spec` |
| `LaunchTypeCorrect` | `LaunchTypeOK` |
| `OwnServerEnded` | `QuitEndsOwnServer` |
| `LaunchBindsKeys` | `BoundAsRead` of the whole start |
| `PlayersStartAsDescribed` | `StartsFromItsDescription` |
| `SystemRunsServer` | `SystemSpec` implements `GameServer`'s `Spec` |
| `SystemKeepsRoster` | `ImplementsRoster` of the whole system |
| `SystemTypeCorrect` | `SystemTypeOK` |
| `EveryoneSteersItsOwn` | `PlaysOwnSlot` |
| `WelcomeComesFirst` | `HandshakeMeetsWelcome` |
| `UpdatesAreAnswered` | `UpdatesKeepAlive` |
| `ClientsFileRight` | `ObjectsFiledRight` |
| `RendererTypeCorrect` | `TypeOK` of `Renderer` |
| `EveryPartHasItsTexture` | `OwnTexture` |
| `DepthTestIsAsMeant` | `DepthTested` |
| `EveryPartIsInItsPlace` | `InItsPlace` |
| `EveryObjectIsShownOnce` | `EachShownOnce` |
| `TheModelIsLitAsMeant` | `WellLit` |
| `PartsAlwaysLookAlike` | `LooksAlike` |

Assumptions: table sizes are natural numbers with `MAX_CLIENT_ID <=
MIN_MISSILE_ID <= MAX_MISSILE_ID <= UCHAR_VALUES` (32, 32, 256 and 256 in the
code), a check period of at least one loop, and that `NULL` and `AI` are not
addresses, references or records. The system's theorems also assume how the
client divides the ids (`IdRangesAssumption`): it takes those below 16 for players,
which is not above the server's first missile id (32) and less than a byte holds,
and it refuses missiles below 32, which is not below the server's slots. `EventMap`'s assume that an `int` holds
`updateInterval` (2) and that the counts on the wire divide it; `Startup`'s that a
document that parses has the parts `MapLoader` reads; `Renderer`'s that the nodes of
the aircraft are a finite tree and that each mesh is in it once, as in
`data/staticmodels/F-16.dae` (`HierarchyAssumption`).

The invariant `IInv` is the conjunction of the properties of the first
table with three facts
about the program position: an event list is handled only for a human
(`SenderPlays`), AI clients join only once the AI module exists
(`AIModuleReady`) and AI clients are exactly those without an address
(`AIAddresses`). They are needed because `NoBadPlayer` is not inductive alone:
an event list follows `playerList[cid]`, which is safe because `cid` was looked
up by address, which only finds humans, whose players exist by `TablesAgree`; the
AI follows `playerList[c]`, which is safe because AI slots are never kicked.
`TablesAgree` and `ListedOnce` need each other: a new player's reference is not
in the list because every listed reference is in the table and so allocated.
Two lemmas on lists without repetition, for `Cons` and `RemoveFirst`, come first;
then one lemma per group of steps shows that it preserves `IInv`.

**System.** `SystemRunsServer` needs least: a step of the system is a step of
`GameServer` or leaves its variables alone (`SystemStepIsServerStep`), since what
a client may have put into the server's socket is among what the open peers may
send. All theorems about the server so hold among real clients. The others rest
on `CInv`, which is `IInv`, `QuietPhases` and, for each client `a`:

- `PortFound`: who is in the game, or holds anything but a refusal, found the
  port open; otherwise a client could be refused while it is known.
- `JoinsOnce`: a join under way is the only datagram of an address that the
  server does not know and has sent nothing; so the welcome it brings is the
  first thing in the client's buffer, and there is room for it.
- `Newcomers`: before its join a client is unknown, has sent nothing and been
  sent nothing.
- `WelcomeFirst`: a client in its handshake that the server knows has the welcome
  in front. Updates and pings, sent to all that are known, only come after it.
- `WelcomesHold`, `SlotsHold`: a welcome under way, and the slot a client took from
  one, name the only slot the table can have for it. They stay true of a client
  that was dropped, since nobody joins twice; that is why they speak of the
  slots it *may* have.
- `AskedBefore`: nothing was answered in a loop that is still to come.

`HandshakeMeetsWelcome` follows from `JoinsOnce` and `WelcomeFirst`, `PlaysOwnSlot`
from `SlotsHold`. `UpdatesKeepAlive` is inductive beside them because an answer
either stays in the server's buffer or is read, and then `lastresp` is the
present loop. `ObjectsFiledRight` needs the types of the ids in the buffers, which
is why `SystemTypeOK` bounds them by the ranges the server draws them from.
The client's three phases are followed one lemma per step (`Starts`, `Enters`,
`Ends`, `Plays` and `Sends` say what a step does to one client), for the datagrams
one step sends, the kernel's `Accept` is taken apart once (`Delivers`).

**Keep-alive.** A client is dropped in the check of some loop n that the period
divides. `UnpingedPassed` says that a client heard and not pinged since was not
silent at any check made so far, `HeardPassed` that one still in the table was not
dead at any; `Checked` says which checks have been made, in the middle of a scan
too. At the check that drops an unpinged client, the check one period before must
have found it silent, if the ping grace is a period or more, and then it was
pinged. The same step bounds how long a silent client stays. The only arithmetic
needed is that multiples of the period are a period apart.

**Roster.** The lemma `PlayerIdsExact` says that the list the loop serialises,
read through the heap, holds the ids of the table's players, and `QuietPhases`
that `out` is empty in the phases `init`, `aijoin` and `events`; each server step is then a step of `Roster`
or leaves its variables alone.

**Missiles.** `MissilesFiled` says that the id of every flying missile is a used
entry of `missileList`, or -1 and then only once the table is used up, and that
ids are distinct until then; so ids, cut to a byte, stay apart from each other
and from the players'.

**Event map.** `EInv` adds to `TypeOK` and `UnracedPressesCounted` where the timer thread may be
(`TimerPlaced`) and that the value a thread has copied is still the one stored,
unless the function is in `raced` (`CopiesFresh`). `UnracedPressesCounted` is not
inductive without it: a store of a stale copy would break the sum.

`HInv` is for the ticks of held functions. A function is in progress for as many
keys as are down (`KeysCounted`), a stamp is no older than the ticks that are not
reported (`StampsRecent`), and just as old if the function was held since its last
report (`KeptReported`), so that the next count is of those ticks and of the one at
the stamp. The hard case is a `keyDown` that has read the clock and
stores its stamp after the timer thread has moved on (`StampTaken`): nothing was in
progress when it tested, so the only report it can meet is of the same tick.
A held function is in every list, every `updateInterval` ticks, which an `int`
can count, so the clock cannot go round unnoticed (`TimerReports`); that the counts
sent are fewer bits than the clock's does no harm, as the one divides the other
(`UShortRound`).

**Loop timer.** `OnCourse` says that from the tick to the time-out the clock and
the time left for `select` add up to the length `LoopLength` gives. The step that
needs work is the tick: the difference of two microsecond fields is the elapsed
time less a second per change of second (`ReadingsDiffer`). `LoopsTakeTheirTime`
follows loop by loop.

**Key map.** `BoundAsRead` and the types are inductive together; the lemmas follow
what a new line changes for each key (`BoundByLine`, `UnboundByLine`).

**Start.** Every step of the start either is a step of the loader or leaves its
variables alone (`LaunchReadsKeymap`), so what is proved of the loader holds in
every start. `LInv` adds to `LaunchTypeOK` and `QuitEndsOwnServer` that a server
past its map has a file that parses (`MapRead`), which the types of the welcome
need, and that a server exists only if its pid is known (`PidKnown`), without
which `Quit` would miss one; its second part, that a client in `main` has forked
nothing yet, is why the pid is set once. The lemmas go through the client's and the server's
steps one by one.

`StartsFromItsDescription` needs the list `getObj` searches: `ListReversed` says
that inserting at the head leaves the file's descriptions in reverse. It is
proved about the recursive function `objList`, without the library's induction
theorems: the first index at which the claim would fail (`LeastOfNat`, from the
well-foundedness of the naturals) is neither 0 nor one past an index at which it
holds. The first match in the list is then the last in the file (`LastOfFile`).
`NobodyYet` says that no player has started before the map is in memory; after
that the map stays.

**Renderer.** A frame is a run of calls whose number depends on the objects and on
the aircraft's nodes. The first lemmas say what `Run` does: it has a trace
(`RunTrace`), running two sequences one after the other is running both
(`RunConcat`), and a flattened sequence is run part by part (`RunFlatten`); then one
lemma per call says what it changes (`DoesEnable`, ..., `DoesLoadIdentity`). On these
rests one lemma per drawing function, which says from what state it may be called,
what it adds to the picture and what it leaves behind: `FlameDraws`,
`MissileDraws`, `ModelDraws`, `PlayerDraws`, `SkyDraws`, `TerrainDraws`,
`RadarDraws`, `TextDraws`. `recursive_render` is followed down the tree
by the height of its nodes (`NodeDraws`), with the path to a node as
its matrix (`PathDown`). Neither needs the library's induction theorems:
the first call, node or mesh at which a claim would fail is not the first (`Climb`,
`LeastOfNat`).

The invariant is `FrameInv`. Between frames the state is `Idle`: one matrix on each
stack, and nothing left enabled that the sky would be drawn with. Within a frame it
is `Ready`: the camera's matrices alone, and a picture of the world in which every
part is good. `RestOf` and `ShownUpTo` say that the first n objects of the list are
drawn and the rest is left, and `ListsMatch` that both lists hold each known object
once, without which an object could be drawn twice or be missing on a radar.

`WellLit` and `LooksAlike` say what one frame leaves to the next in colours, lights and
functions. `LookInv` adds to `FrameInv` three facts about that state. `Loose` holds
always: `Lit` says of each mesh in the picture what lights and colours it has, that
colours are tracked (`COLOR_MATERIAL`) only if the aircraft's last mesh had colours,
and how polygons are then filled. `Settled` holds once the local player's aircraft
has been drawn: the lights that loading the model switched on are off again, and all
else is as every later aircraft leaves it. `AllMeant` says of the second frame's picture
that each part looks as meant. What is meant (`Style`) can be written down for all but
the aircraft's meshes, whose material may come from the mesh before. For these
it is the picture of one run of the model from a fixed state (`RefPic`), and the proof
compares that run with the actual one, call by call and down the tree: two
runs from states that agree on what the model does not set itself (`Twin`) draw
meshes that look the same, and leave states that agree again. One lemma for each other drawing
function says that it carries these facts on (`SceneryCarries`, `FacesCarry`,
`PanelCarries`, ...), and one for the loads between two frames (`LoadCarries`). That
the model is drawn with the same state each time needs `Foggy` and `White`: the fog
and the colour that the sky and the terrain leave. `LooksAlike` follows, as a part's
name decides its style and each mesh is in `RefPic` once.

Only model-checked: liveness (`PressesPickedUp`, `HeldFunctionsReported`,
`EnteredClientPlays`, `LaunchSettles`), which the prover does not treat.

## 7. Not modelled

Floating point: flight (speed, roll, turning, the AI's steering), positions in
updates and on the screen, vertices, and which marks a radar has in range. A
hazard of those parts that the code has is listed with a note. The Assimp library
under `vendor/` is present only as what it answers about a mesh. The code
generator is a script run by hand that writes skeletons.

The first versions of server, client and objects at the top of `src/` are not
built by the `Makefile` and use packets and fields that `protocol.h` no longer
has, so there is no program to be faithful to.

The heap of list links is planned (section 2). Destructors and operations that
nothing calls (`removeMovableObject`, `removeObject`, `clearRenderList`,
`Disconnect`, `unload`, the camera's moves) are left out. Two clients on
different machines are covered for the server only, whose peers in `GameServer`
may send anything in any order; `GameSystem` and `Startup` follow the address the
client is built with.
