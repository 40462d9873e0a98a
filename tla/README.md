# Verification of caribean-fight-server

The program is a single-threaded room and state-synchronisation server on
boost.asio: players create, join and start rooms over TCP, and a running game
collects one state of each player per tick and broadcasts the collection. These
TLA+ modules model its control; TLC checks them on small instances and TLAPS
proves every invariant, action property and refinement that holds in the runs, for
every value of the constants. Paths below are
relative to `src/src/`.

    tlc -config MCLobby.cfg MCLobby.tla        # one of the runs below
    tlapm SspProofs.tla                        # one of the proof modules

`PROJECT.json` lists the runs, maps each definition to the lines it stands for,
names for each property a broken variant that violates it, and lists the
hazards the properties are for.

## Inventory

| Component | State | Operations | What is hard |
|---|---|---|---|
| Server (`server.hpp`), SessionMgr | two acceptors, session map | HandleAccept, GameHandleAccept, AddSession | two ports, one session per pair of connections; errors end the chains |
| Session chains (`session.cpp` 6-88) | two sockets, `m_rsp`, `m_game_rsp` | Start, HandleRead, HandleWrite and the Game variants | overlapping writes, buffers that outlive or do not outlive a write, `delete this` |
| Packages (`session.cpp` 18, 37, 91-158) | `m_pkg`, `m_game_pkg` | async_read_some into the buffer, the search for a command and its number | buffers never cleared, messages joined and cut by TCP, strings without an end |
| Lobby commands (`session.cpp` 91-158), RoomMgr, Room, GameMgr, Game | rooms, games, player lists, `m_rid` | CREATEROOM, LISTROOM, JOINROOM, STARTGAME | any session may do anything to any room; a game reads its room's list by pointer |
| State synchronisation (`session.cpp` 171-223, `game.cpp` 10-54, `main.cpp`) | `m_state_cache`, `m_cur_state`, `m_state_buf` | UPDATEGAME, Tick, FrameTick | ticks driven by handlers only, several games sharing a player, bounded caches |
| RingQueue (`ring_queue.h`) | `head_`, `tail_`, `storage_` | push, pop, front, back, size, clear | wrap, full against empty |
| Frame, FrameMgr | frame under collection, frame buffer, segments | AddAction, AddFrame, Clear, readers | segment boundaries |
| Frame synchronisation (Fsp) | `m_action_cache`, `m_cur_frame` | FspHandleActionPkg, PopAction, FspCalculateFrame | erasing while iterating; not called by the program at present |
| FixedMemPool, shm_mem (`util/`) | a header and blocks in shared memory | ShmInit, ShmDelete, Init, Alloc, Free, GetNextNode | restarts, double frees, addresses that are no nodes, wrapping arithmetic |
| Pid file and key dump (`util/util.cpp` 244-279, 393-448) | files, a record lock, `init_` | WritePidFile, ShmKeyDump::Init, PushKey | processes that start together, die between two calls, and find each other's files |
| Time and number helpers (`util/`) | `TimeCounter::last_time_` | msbetween, weeks, days, time zone, overflow checks, draws | rounding, wrap-around, wrong units |
| String, calendar and copy helpers (`util/`), earlier servers, echo test programs, boost | - | - | not modelled, see below |

How they interact: `main` runs one asio handler, then `GameMgr::Tick`, for ever.
A handler of Server creates a Session and starts its chains; a handler of a
chain passes the package to `HandlePkg`, which calls RoomMgr and GameMgr or
pushes into the session's cache; a tick pops the caches of a game's players and
writes to their game sockets; each completed write is a handler again, and so
causes a tick. Rooms, games and sessions refer to each other by raw pointers and
nothing but an error on a connection ever deletes a Session.

What makes each part correct, in one sentence: every pair of connections becomes
one session and accepting never stops; each chain has one operation outstanding
and its replies arrive whole; seats are distinct, bounded and permanent and a
room gets one game; every accepted state is broadcast once, in order, to every
player; a package is handled as its first message; the ring is a FIFO; a pool
never hands out a node twice; one server at a time owns the pid file and the dump.

## Modules

| Module | Models | Uses |
|---|---|---|
| `RingQueue`, `BoundedFifo` | the ring; what it promises | RingQueue implements BoundedFifo |
| `Lobby` | RoomMgr, Room, GameMgr, Game and the lobby commands | - |
| `SspLoop`, `StateRelay` | the main loop with state synchronisation; what it promises | SspLoop extends Lobby, implements StateRelay |
| `Acceptor` | Server, SessionMgr | - |
| `SessionIo` | the chains of one session, notifications beside them | - |
| `PkgBuffer` | a connection's bytes, `m_pkg`, and how HandlePkg reads it | ends with the command, where Lobby and SspLoop begin |
| `FrameStore` | Frame, FrameMgr's frame half, its reading side | - |
| `Fsp` | action caches and the picking loop | extends FrameStore |
| `FixedMemPool`, `NodePool` | shared memory and the pool; what it promises | FixedMemPool implements NodePool |
| `ServerFiles` | WritePidFile and ShmKeyDump in several processes | - |
| `TimeHelper`, `NumberHelper`, `DrawOne` | the arithmetic of `util.h`, `zone_time.h`, `rand_util.h` | theorems only |
| `HelperProofs` | theorems about RingQueue and the helpers | extends them |
| `SspProofs` | theorems about Lobby and SspLoop | extends SspLoop |
| `FspProofs` | theorems about FrameStore and Fsp | extends Fsp |
| `AcceptorProofs`, `SessionIoProofs`, `PkgBufferProofs`, `PoolProofs`, `ServerFilesProofs` | theorems about one module each | extends it |
| `MC*` | the instances TLC runs | - |

State and actions carry the names of the code (`m_room_map`, `m_state_cache`,
`HandleAccept`, `FrameTick`). The conventions:

* **One handler is one step.** The program has one thread, so a handler runs to
  its end before another starts. In `Lobby` a step is a whole command, down to
  the push_back; in `SspLoop` a handler and then, one step each, the ticks of
  the games: Tick goes through an unordered_map, so the games come in any order.
* **Pointers.** A Game holds a pointer to its room's list; in the model it holds
  the room's id and looks the list up. That is why a late join shows up in a
  running game, as it does in the code.
* **Packages** are commands with arguments from small sets, rooms that do not
  exist included. The n-th UPDATEGAME of a session is the state n, so lost,
  repeated and reordered states are visible.
* **Frames.** `m_cur_state` is the concatenation of the players' states in seat
  order; a frame in the model is the function from sessions to their states.
* **Addresses** appear in `FixedMemPool` only: a size_t is a number below
  `AddressSpace`, and a sum that leaves it wraps. What the segment itself holds are
  offsets; a process has it mapped at one of `Addresses`.
* **Bytes** appear in `PkgBuffer` only. A keyword keeps its structure (a stem, then
  ROOM or GAME, which makes commands findable in one another's tails) and the
  differences in length, but is shorter; a byte is a symbol.
* **System calls** are the steps of `ServerFiles`, since its processes really run
  at the same time. A file's contents are its bytes where they matter (the pid
  file) and its keys otherwise; a file is called after the process that created it.
* **asio and TCP** are outside the repository. They are modelled as the code
  depends on them (accepts of one acceptor complete in order; async_write sends
  what the socket takes and continues in handlers) and marked external.
* **Broken variants**: operators such as `RoomFull_OffByOne` are used by no
  module. Each replaces a definition to confirm that a property notices.

## Runs

| Run | Instance | Shows |
|---|---|---|
| `ring_queue` | capacity 3, two values | indices in the array; `BackIsLast` across the wrap; the ring implements the FIFO, with the result of every call |
| `lobby` | 3 sessions, 3 rooms for 0, 2 or 3 players | `PlayersDistinct`, `RoomNeverOverfull`, `OneGamePerRoom`, `CreatorSeat`, `SeatStable`; `SeatTold`: the seat numbers in STARTGAME are right and stay right under later joins |
| `ssp` | 2 sessions, 2 rooms, caches of 2, 3 packages in all | `NoDropWhilePlaying`: the push whose result nobody reads never fails in a running game, also when the cache was filled before the game; `RoomForNext`, its reason; `BacklogDrains`: with no further packet the game's own writes drain a backlog; `RelaySpec`: no accepted state lost, repeated or reordered, also when games share players; `SameFeed`: all players are written the same frames, after STARTGAME or from their late join on |
| `acceptor` | 3 clients | `KthToKth`, `GameAheadByOne`, `SessionMapExact`, and that both accept loops go on (`AcceptsGoOn`), with failing accepts and resets |
| `acceptor_cross` | 2 clients | *violation*: a session made of the connections of two players |
| `pkg_buffer` | buffer of 10, messages of 2 to 7 bytes, 3 of them, 2 cuts | `FirstMessageWins`: with messages that end in NUL, what a read between messages does depends on its first message and on nothing that was in the buffer; `AsSentIfNeverShorter`: without NULs, a client is understood if its messages never get shorter, are not joined or cut, leave room for a NUL, and the memory was zero |
| `session_io` | messages of 2 bytes, 3 bytes of socket buffer, 2 packages per connection, 2 notifications | `OneReplyAtATime`, `RepliesWhole`, `IntactWhileKeepingUp`, `ChainGoesOn`, under partial writes and lost connections |
| `fsp` | one or two players, caches of 3, 2 actions picked | `PicksFromEveryone`: erasing while iterating skips nobody |
| `fsp_store` | the same | *violation*: AddFrame refuses a frame that fits the buffer |
| `server_files` | 3 processes, pids of 1 and 2 digits, 2 keys each, 3 seconds | `OneServer`, `PidNamesServer`, `DumpIsOwn`; `KeysKept`: no key is in no file, unless two servers called Init in the same second |
| `mem_pool` | 3 blocks, 1024 addresses | `FreeListExact`, `WalkShowsUsed`, the refinement of NodePool, and `FreeTakesUsed`: of all addresses Free takes back those of the nodes in use and no other, under double frees, a NULL node, exits, re-attachment at another address, and calls that end the process |
| `mem_pool_reattach` | 3 blocks | *violation*: `Init` with `check_header` refuses a pool that `Init` made |

### Why the bounds are enough

* `lobby`: three sessions are the fewest that give a refused join, a stranger's
  STARTGAME and a late join at once; three rooms let each session own one while
  being in others. The theorems have no bounds.
* `ssp`: a cache of 2 is the smallest that can hold a backlog and still have
  room; 3 packages of one session overflow it. Two games with two players can share
  no, one or both players, who then have 3 packages between them. Packages are
  bounded by `MaxPkgs` for a session and `MaxPkgsInAll`, rooms by `MaxRooms`.
* `acceptor`: with three clients a connection can overtake and be overtaken;
  every session beyond the third is in the position of the third.
* `session_io`: with 2 of 3 bytes the second write is cut in the middle and the
  third has to wait, the three cases of a write. `MaxPkgs` and `MaxNtfs` bound
  the packages and notifications.
* `fsp`: caches with none, fewer than, exactly and more than the picked number;
  `kUdpSegmentSize` is 13 so that a frame with two actions (13 bytes) does not
  fit while one with one action (8 bytes) does. `MaxFrameId` bounds frame ids and
  `MaxPlayers` the players; the code's loop skips somebody, if at all, when one is
  erased before another, so two are enough.
* `pkg_buffer`: three messages are a long one, a shorter one read with its tail,
  and one after that; ten bytes are filled by two joined messages, so a read can
  leave no NUL. `MaxSent` and `MaxCuts` bound messages and cut reads.
* `server_files`: a server that dies, its successor, and a rival of the successor;
  a pid of two digits before one of one digit leaves a digit. `MaxPushes` bounds
  the keys and `MaxClock` the seconds, of which one may serve two servers.
* `mem_pool`: three blocks of 24 bytes give free lists of every order. Free is
  called with each of the 1024 addresses. A page is 256 bytes, 16 more than a
  multiple of the block size, as 4096 is. The segment is mapped at one of two pages:
  from the one at 768 the block of a NULL node lies at a block boundary, so that it
  passes for valid, and from the one at 256 it does not.

`CHECK_DEADLOCK FALSE` is set where the system may stop: `acceptor*`, when all
clients have been served or the process has ended, and `session_io`, when the
packages are used up or the session is deleted; `pkg_buffer`, when everything is
read or an exception has ended the server; `server_files`, when all processes have
died. Everywhere else deadlock is checked.

### Fairness

* `SspLoop!FairSpec`: weak fairness of the tick (it never blocks) and of *some*
  completed write (`run_one` returns when there is one): it assumes that at least
  one of the clients that are being written to reads. No packet is assumed to
  arrive and no particular write to complete.
* `Acceptor!Spec`: weak fairness of the handlers and, on each port, of accepting
  a connection that waits while an accept is outstanding; failing accepts are
  allowed and not fair.
* `SessionIo!Spec`: weak fairness of due handlers and of sockets that take more,
  and of a client that reads. The last is an assumption about clients: a client
  that never reads stops its own chain, with or without a bug in the server.

## Proofs

All theorems hold for every value of the constants under the modules' named
assumptions (`CapAssumption`, `LobbyAssumption`, `SspAssumption`,
`AcceptorAssumption`, `SessionIoAssumption`, `PkgAssumption`, `FrameAssumption`,
`FspAssumption`, `PoolAssumption`, `AddressAssumption`, `FilesAssumption`). Most only give the
constants their types. `PkgAssumption` also says that messages are well formed (a
number where the server takes one), and `PoolAssumption` that the node of a block
begins after 8 bytes and the header's size is a multiple of 8, as on a 64-bit
machine; `AddressAssumption` that the segment and one block behind it do not reach
the last address, as user memory does not. The helper modules have no constants.

An invariant is seldom inductive as it stands. What each proof adds, and why:

* **Ring** (`HelperProofs`): `RingTypeInvariant`; `ContentsIsSeq`, that the circular
  reading is a sequence of `Size` elements; `PushAppends` and `PopRemovesHead`,
  from which `RingImplementsFifo` follows step by step; `BackIsLastInvariant`.
* **Lobby** (`SspProofs`): the type invariant (`LobbyTypeInvariant`) comes first.
  The others are proved inductive together with it, one step per command:
  `AddPlayer` keeps a room's seats distinct and bounded (`NobodyTwice`,
  `NoOverfullRoom`); `CreatorHasSeat` needs that room ids are handed out once;
  `AtMostOneGame` needs that a fighting room stays fighting; `SeatsNeverMove` is
  an action property that holds because lists only grow at the end. For
  `SeatNumbersTold`, `NtfsKnown` adds that every message is about a game that
  exists: so a new game's messages are the first about it, and a later join
  leaves the seats told, which are positions in a list that grows at its end.
* **Main loop** (`SspProofs`): `SspTypeInvariant` extends the lobby's.
  `RoomForNext` is the inductive reason why no package is dropped: for each player
  of each game either the game is still to be ticked in this round or the cache
  has a free slot. A handler makes every game due before it can fill a slot, and
  a tick of any game pops its players. `NoStateDropped` follows at the head of
  the loop, where no game is due. `SspImplementsRelay` maps a tick with
  contributors to Publish, a successful push to Accept, a new game to Open, and
  everything else to a stutter; the mapping is the identity on caches and feeds.
  `EverybodySeesTheGame` compares each player's outbox with the game's feed:
  `FeedInv` says that the frames in it are the feed without its first `missed`
  elements, with none missed, and all after the STARTGAME, for whoever was told of
  the game. A tick adds one frame to the feed and one to each player's outbox; a
  late join has missed all there is.
* **Accepting** (`AcceptorProofs`): `KthToKth` needs to know where the accepts are.
  `MainInv`: the main port has exactly one accept under way, the newest session's,
  be it outstanding or completed and not yet handled. `GameInv`: the game port
  owes accepts to the newest sessions in order, and as long as none has failed it
  has served all the others. So whoever is accepted next, on either port, is the
  next connection for the next session (`PeerInv`, `KthSessionKthConnections`);
  `GameAtMostOneAhead` is a consequence. `SessionMapIsExact` also needs that an
  address connects once to a port (`ArrivedOnce`), an assumption about clients
  that the model's `Connect` makes.
* **Chains** (`SessionIoProofs`): `OneReply` is inductive once it is said where the
  one reply is: waiting for the socket or completed and not yet handled, never
  both (`OutstandingIn`). `RepliesAreWhole` needs what is on the wire to agree with
  it: all of the last reply if the chain reads (`Finished`), as much of it as the
  pending write has sent otherwise (`InProgress`). For `IntactUntilStalled`, as
  long as no write has had to wait, nothing is waiting and each completed write
  went out at once, so that no other could come between its bytes (`QuietInv`).
  The sizes of messages and of the socket's buffer are arbitrary.
* **Packages** (`PkgBufferProofs`): lemmas take a message apart (`BodyIs`), show that
  the search finds its own keyword and no other (`FindsOnly`), that substr and stoi
  give its number back (`NumberIs`), and that a buffer is read up to its first NUL
  (`StringIs`); so a message that stands at the beginning of the buffer with a NUL
  behind it is done as meant (`ReadAsSent`). For `FirstOfEachRead` the NUL is the
  message's own. For `LongerAndLonger` it is one the buffer was made with:
  `CleanBehind` says that it is still there behind the longest message so far,
  and `InStep` that the last message read was the longest. Both use that the room
  a client has made shows in the history of what was done (`HandledInv`), which
  decides about the second CREATEROOM. This proof found the condition `NoneFills`:
  a message of exactly `MAX_PKG_SIZE` bytes without a NUL is read on into whatever
  follows `m_pkg` in the session (`session.h` 94).
* **Frames** (`FspProofs`): `FrameTypeInvariant`, and `StoreStaysEmpty`: a first frame
  has to be smaller and larger than a segment at once, so none is ever stored,
  for all sizes of segments and buffers, which is why `fsp_store` finds what it
  finds; `ReadersGetNothing` follows: a client is
  given no position or an empty range, whatever it asks for.
  `NothingStoredBesideFsp` and `FspTypeInvariant` carry this to the frames that
  picking adds. `NobodySkipped` is a proof about a loop: `PickLoop[k]` is its state
  after k turns, and the loop invariant `Asked` says that what is left of the
  working copy is the part of the list not asked yet (shifted by the erased ones)
  and that exactly the players before it have given what they have.
* **Pool** (`PoolProofs`): `FreeListIsExact` needs the free list as a sequence:
  `ChainInv` has a list that runs once through the free blocks, each linked to the
  next; Alloc removes its head or carves a block, Free puts a block in front, and
  each step names the new list. For Free, `ValidAddresses` finds the addresses that
  pass IsValidBlock: the carved blocks, and some whose end wraps, which lie where
  nothing is mapped. So a call that returns has read a block of the pool or none:
  `FreeTakesExactlyUsed` is the invariant, and `FreeIsExact` says the same of the
  steps, whatever the address: what was in use is taken back and the call returns
  0, or it returns -1, or the process ends, and nothing has changed then.
  `PoolRefinesNodePool` follows, with the nodes in use as mapping; a process that
  ends in Free is a stutter of NodePool, which does not promise that a call returns.
  `WalkIsExact` is an induction from the end of the segment: the
  walk from any offset shows the nodes in use from there on.
* **Files** (`ServerFilesProofs`): `OneServer` is not inductive. `LockInv` adds why it
  holds (who writes, or has been let through and lives, holds the lock) and where
  in the calls that is known. From it follows `Alone`: two processes past the lock
  are the same. So between two calls of a server nobody else touches the dump,
  which makes `DumpInv` inductive (a dump that was not there, or was moved, is
  still not there when it is created), and nobody writes the pid file;
  `WrittenFirstLine` is the lemma that an overwritten longer pid leaves the first
  line alone. `NoKeyLost` needs that a backup's name is the second of an Init that
  is past the rename (`BackupInv`), so that no later rename hits it as long as
  Inits are in different seconds, and that every process with a dump is still
  named by a file (`NamedInv`). For any number of processes, deaths and pids of
  any length.
* **Helpers** (`HelperProofs`): `BetweenAccurate` bounds msbetween by the nanoseconds
  between its arguments, and `CounterDrift` carries the bound to the sum of any
  number of laps. The other theorems compare a helper with what its name or
  comment says: `WeekTurnsOnMonday`, `HoursOfADay`, `DayStartsAtItsHour`,
  `TimeZoneRight`, `RefreshedApart`, the four overflow checks (`...Fits`),
  `DrawInRange`, and `NeverZeroDrawn`, whose invariant is that the sum of the
  weights seen is 0 until the first one that is not, which is then taken for sure.
  Four state where they differ: `BetweenDropsMicroseconds`, `SameWeekIsAnother`,
  `LeapYearSince1900` and `WideDrawOutOfRange`.

Induction: the library's induction theorems take an operator as a parameter, which
the provers cannot instantiate. `SetInduction` says the same of a set: one that
holds 0 and with each number the next holds every number. It is proved by counting
(the numbers up to t that are missing would be mapped one to one into a smaller
set by subtracting 1). With it recursive functions can be reasoned about: that
each obeys its own equation (`LoopEquation`, `WalkEquation`, `FirstEquation`), then
what it computes. It stands in each of the three modules that use it, since a
proof module extends the model it is about.

Only model-checked: liveness (`BacklogDrains`, `AcceptsGoOn`, `ChainGoesOn`), which
is out of the prover's reach, and the three violations.

## Findings

Three runs show the code doing something else than it says (see the table above and
`PROJECT.json`): `acceptor_cross`, `mem_pool_reattach`, and `fsp_store`.
`frame_mgr.h` 28 says that AddFrame adds the collected frame; the branches at
`frame_mgr.cpp` 58-67 are the wrong way round for the first one. The run shows it
refusing one frame, `StoreStaysEmpty` proves that it refuses every frame. Further
disagreements seen while modelling, most of them proved:

* `fixed_mem_pool.cpp` 79-81 answers a pointer that is no node with an error. A
  NULL node may end the process instead: its block is at -8, at
  `fixed_mem_pool.h` 179 the sum wraps to less than any address of the segment, the
  remainder at line 185 fits if the blocks have 16 bytes, or, depending on the page,
  24, and line 198 reads the block. `FreeIsExact` says that no other harm is done.
* `shm_mem.cpp` 27-31 takes NULL for the failure of shmat, which is -1: ShmInit
  goes on with that address and its memset ends the process (`ShmInitFails`).
* `game.cpp` 30 says "pick the newest state of each client"; PopState
  (`session.cpp` 188) takes the oldest. `RelaySpec`, which publishes the oldest,
  is what the program does and what the comment at the pop itself says
  (`session.cpp` 187: "use the first one in the ring queue").
* `session.cpp` 174 says that a package is one state. A read may hold parts of
  several; the state pushed is the read, up to the first NUL of the buffer.
* `util.cpp` 300: the msbetween of two timevals subtracts `t1.tv_usec` from itself
  (`BetweenDropsMicroseconds`).
* `util.h` 142 says that everything there minds the time zone. isSameWeek
  (`util.h` 273) does not, and its weeks turn on Thursdays (`SameWeekIsAnother`).
* `util.h` 247: IsLeapYear takes a `tm_year`, which counts from 1900, as if it were
  a year of the calendar (`LeapYearSince1900`).
* `zone_time.h` 158 gives time zones as -12 to 12; the two ends cannot be told
  apart (`TimeZoneRight`).
* `util.h` 372 promises a number between a and b; ranges of 2^31 numbers or more
  overflow (`WideDrawOutOfRange`).
* `util.cpp` 252 opens the pid file without truncating it: only its first line is
  the pid (`PidNamesServer`).
* `session.cpp` 97 says "already in a room", but `m_rid` is set only by creating
  one: a session may join any number of rooms, and create one while in others.
* `room.cpp` 3 says "-1 failed, Not -1 success"; a full room returns -2.
* `game.cpp` 134 calls the second field of STARTGAME `max_players_num`; it is the
  number of players seated.
* `session.cpp` 237 says "drop action" and queues the action all the same.
* Notifications and frames to a client that does not keep up can be torn:
  `IntactWhileKeepingUp` is the strongest such property that holds.

## Not modelled

* The wording of replies, camp rosters, log output, LISTROOM's text.
* What follows undefined behaviour: a Session deleted by `delete this` or by the
  error branch of HandleAccept frees `m_socket` a second time. `Acceptor` and
  `SessionIo` model the way there and stop.
* What follows an exception that leaves the main loop (a malformed number, a
  reset connection): the process ends and nothing was persisted.
* A client that reconnects from the address of an earlier connection: DelSession
  is never called, so AddSession would refuse it, but the end of the earlier
  connection has already run `delete this`.
* What becomes of the rooms and games of a lost connection: every way to lose one
  ends in `delete this`, so a composition of SessionIo and SspLoop would stop at
  the same point as SessionIo alone.
* In `PkgBuffer`: states that spell a command (an UPDATEGAME carries digits only),
  white space, signs and overflow in std::stoi, and what lies behind
  the buffer when it has no NUL (some byte that is not one).
* In `ServerFiles`: a directory that cannot be written, a full disk, short writes;
  the lock a process would lose by closing another descriptor of the pid file,
  which WritePidFile does only when it has no lock; a clock that goes back.
* In the helpers: calendars (localtime, mktime, strptime and what is built on
  them), strings and formatting, byte order (`htonll`), network interfaces
  (`GetInnerIP`), hashes; the width of time_t and of the sum in RandomOne; the
  rounding of doubles. RandomN is a loop of independent draws by ARandRange
  (`DrawInRange`); ProbNChooseOne is left out. memcpy_safe is one comparison.
* `util/singleton.h`: constructs each single instance before main.
* `server_backup.cpp`, `synchoronize_server.cpp`, `echo-server-for-test/`: not
  built with the program; of the echo client, what it writes is an input of
  `PkgBuffer`.
* `3rd/` is boost, all but some 3500 of the 2.1 million lines in the repository: a
  library the program uses, whose behaviour `Acceptor` and `SessionIo` state as
  far as the program depends on it. Of the repository's own lines, the map leaves
  out declarations, output, and the helpers listed above.

## Plan

Done, in order of importance: Lobby, SspLoop on top of it, RingQueue under it,
Acceptor, SessionIo, PkgBuffer between SessionIo and Lobby, FrameStore and Fsp,
FixedMemPool, ServerFiles, the helpers; abstract specifications BoundedFifo,
StateRelay and NodePool; the proofs above.

Every invariant, action property and refinement a run checks is also proved.
Possible next steps, none of which a result above depends on:

1. Safety lemmas for the liveness properties: that whenever a backlog exists a write
   is outstanding (`BacklogDrains`), or that some accept is outstanding or due
   (`AcceptsGoOn`).
2. A refinement of the chains: each as a loop of read, handle, write, with the
   bytes as implementation.
3. The rest of the helpers, as far as they are arithmetic.
