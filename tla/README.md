# Selective-reject file transfer and PDU echo: specification and proofs

The repository holds three course programs: `p1` prints the packets of a
capture file, `p2` echoes length-prefixed messages (PDUs) over TCP, and `project3`
copies a file over UDP with a sliding window and selective reject, under the
errors that the library `libcpe464` injects. Specified here are

- a transfer between one rcopy and its child, in detail (`Transfer`);
- the main server with all rcopys and the children they leave behind (`Listener`);
- the library that injects the errors (`Injector`);
- the echo server of `p2` and its clients (`Echo`);
- the table behind `poll()` that both projects keep (`PollSet`).

Paths below are relative to `src/`.

## 1. Inventory

| Component | Source | State | Operations |
|---|---|---|---|
| rcopy | `project3/rcopy.c` | state of `stateMachine`, `timeout`, `expected`, `highest`, `buffering`, `wroteLastData`, its window, the output file | filename handshake, receive, write, buffer, flush, RR/SREJ, `lastData` |
| main server | `project3/server.c` (`waitFileName`, `processFileName`) | listening socket, opened files, children never waited for | answer a filename by forking a child |
| server child | `project3/server.c` (the rest) | `seqNum`, its window, `timeout`, file position | read and send, RR/SREJ, resend the lowest packet, `lastData` |
| window | `project3/window.c`, `window.h` | ring of packets with `valid` and `dataSize`; `lower`, `current`, `upper` | add, replace, get, remove, in-order run |
| packets | `project3/packet.c`, `packet.h` | none | build, validate |
| error injection | `project3/libcpe464` (`PacketManager`, `MsgEvents`) | constant and random events, seed, numbers drawn, message counter | drop, flip a byte, report |
| its settings | `project3/libcpe464` (`SettingsManager`, `network-hooks.c`) | what the environment has set, `nextSeed` | read the environment, `sendErr_init`, `forkMod` |
| poll set | `project3/pollLib.c`, `p2/pollLib.c` (the same code) | table of descriptors, highest index | add, grow, remove, poll |
| sockets and wrappers | `project3/networks.c`, `safeUtil.c`, `gethostbyname.c` | none | set-up; exit on an error |
| `p1` | `p1/trace.c`, `checksum.c` | none | parse and print |
| p2 PDUs | `p2/lab2.c` | none | `sendPDU`, `recvPDU`: a two-byte length, then the payload |
| p2 server | `p2/server.c` | clients' sockets, poll set | accept, receive a PDU and send it back, drop a client that has left |
| p2 client | `p2/cclient.c` | stdio's buffer, socket | read a line and send it, print what comes back, end with the server |
| p2 set-up | `p2/networks.c`, `safeUtil.c`, `gethostbyname.c` | none | listen, accept, connect; exit on an error |

**Interaction.** rcopy sends its filename to the main server's port. The main
server forks a child that answers from a socket of its own; from then on rcopy
and the child exchange datagrams only with each other. Every datagram goes
through `sendto_Err`, which may drop it or xor one byte with 0xFF. rcopy and
each child are processes of their own: each has its copy of `window.c`'s global.
A filename that is not answered (or answered with a damaged datagram) makes
rcopy close its socket and start again from another one, so the first child is
left behind. The main server, a child and the PDU programs each wait in `pollCall`
on a poll set of their own. A child's library is a copy of the main server's,
made by fork in the middle of its initialisation.

In `p2` one server process serves all clients in turn, from one poll loop with
blocking `send` and `recv`; a client serves its terminal and its socket in the
same way.

**What is hard.** Losses in both directions while both sides retry on their own
timers (1 s in the child, 10 s in rcopy, one second for the filename); a ring
whose slots are reused on the strength of acknowledgements that may be late;
`valid` flags looked up by slot, not by number; a buffer mode left by comparing
two counters; an end in which the last acknowledgement is sent once; children
that nobody reads from any more; descriptors and processes that run out; a poll table
that grows under the clients it watches, and has zeroed entries that stand for
standard input; PDUs that arrive in pieces between those of other clients; ends and
resets of connections at any point of an echo; a library state doubled by fork.

**What makes each component correct.**

- window: a slot never stands for two packets; what may be asked for again is
  still there; `upper - current` never becomes negative.
- rcopy: the file it writes is always a prefix of the original; it ends with
  `wroteLastData` only if the whole file is there; it waits for a packet it has not got.
- child: never more than a window ahead; its window only moves forward; it
  believes the transfer complete only if it is; it ends.
- both: neither waits for the other for ever.
- main server: each request gets one child; what it says of a file is true; the
  children of an rcopy that asked again end, and only one of them is acknowledged.
- error injection: scripted errors are the script's, in every process; at most one
  byte of a datagram is damaged; seeds repeat or differ as asked for.
- `p2`: each client gets back its own messages, whole, once and in order; a client holds
  the server only where blocking calls make it inevitable (`BothWait`); every live client is
  watched; clients notice the server's end.

`PROJECT.json` lists the hazards one by one, at their lines.

## 2. Modules

```
Packet  <- Window <- Network <- Rcopy  \
                            <- Server  /  Transfer <- TransferInv <- TransferProofs <- TransferSafety <- TransferCopy
                                 FileCopy .....'           '-- MCTransfer                    '-- TransferLoss

PollSet <- Listener <- ListenerProofs, MCListener
PollSet, Stream <- EchoServer <- EchoClient <- Echo <- EchoProofs, MCEcho
                                  EchoService ..'           '-- EchoRefinement
Injector <- InjectorInv <- InjectorProofs, MCInjector
```

An arrow is an EXTENDS, dots are a refinement.

| Module | What it models |
|---|---|
| `Packet` | the datagrams: flag, number, payload (a chunk number), checksum; the build functions; the damage one flipped byte does |
| `Window` | `window.c` operation by operation, as functions from a window to a window, with the modulo indexing, the skip loop of `addPacket` and the stale `current` of `removePacket` |
| `Network` | the channels main server <- rcopy, child <- rcopy, rcopy <- child; drop and flip (`processEvents`) under an error budget; bounded overtaking |
| `Rcopy` | `rcopy.c`: one action per receive, send and timeout of the state machine |
| `Server` | `server.c`: filename handling and the child, one action per send, receive and timeout |
| `Transfer` | both processes and the network composed; timing; the properties |
| `FileCopy` | abstract specification: a copy that grows by the next chunks and ends complete or failed |
| `TransferInv` | the inductive invariants: `CommonInv`, which all share; `IInv` for a network that keeps acknowledgements in order, `CopyInv` for one that keeps data in order, `SrejInv` and `LossInv` for one that damages nothing |
| `TransferProofs` | type correctness, for all constants |
| `TransferSafety` | what every step does to `CommonInv`; `IInv` and the safety of both windows, proved |
| `TransferCopy` | `CopyInv`, the safety of the copy and the refinement of `FileCopy`, proved |
| `TransferLoss` | what holds without damage, proved: SREJs can be answered, rcopy waits for what is missing and never aborts |
| `PollSet` | `pollLib.c` function by function; a zeroed entry is reported when standard input hangs up |
| `Listener` | the main server, its children and several rcopys; requests from new sockets, retries, descriptors and processes used up; a transfer is a number of exchanges |
| `ListenerProofs` | the inductive invariant of `Listener` and what follows from it |
| `Injector` | `libcpe464`: settings from the environment and from the program, constant and random events, seeds, fork |
| `InjectorInv`, `InjectorProofs` | the inductive invariant of the library in a program that forks; it and the properties, proved |
| `Stream` | TCP connections carrying the PDUs of `lab2.c`: buffers, backlog, end of stream, reset |
| `EchoServer`, `EchoClient` | `p2/server.c` and `p2/cclient.c`: one action per place where they wait and what follows |
| `Echo` | server, clients, users and kernels composed; the properties |
| `EchoService` | abstract specification: every client gets its messages back in order |
| `EchoProofs` | lemmas about the poll set; the inductive invariant of `Echo`, its types and what follows |
| `EchoRefinement` | the framing invariant of both streams of every client, and the refinement of `EchoService`, proved |
| `MCTransfer`, `MCListener`, `MCInjector`, `MCEcho` | constant values for TLC |

Names with an underscore (`RemovePacket_KeepsValid`) are faulty variants of the
operator they stand before. They are used in no specification: each shows that
the property it is paired with in `PROJECT.json` can fail.

### How code and model correspond

- **A process step** is what the code does between two waits (`pollCall`,
  `recvfrom`). So `STATE_PROCESS_DATA`, `STATE_BUFFER_DATA`, `STATE_BAD_DATA` and
  `STATE_RECEIVE_DATA_TIMEOUT`, which wait for nothing, belong to the action
  that leads to them; `timeout >= TIMEOUT_MAX` at the loop head is `LoopHead`.
  `rTimeout` serves `stateMachine`'s `timeout` and, in `LAST_DATA`, the local one of
  `lastData`: the former is not read again there.
- **The child's `OPEN`, `DRAIN`, `CLOSED`** are the places in `sendAndReceiveData` where it
  reads and sends, polls without blocking, and waits. The drain loop may end at
  any time, since a datagram on its way has not arrived yet.
- **Packets** carry the chunk number for the payload. `header.seqNum` of control
  packets and rcopy's own `seqNum` are never read and left out. `dataSize` is 0 or
  "not 0", which is all `sendto_Err` tells apart. A damaged data packet keeps
  the number its bytes now spell, since `lastData` reads it; nothing else of a
  damaged packet is ever read.
- **`processFileName`** does what the parent and the forked child do up to the
  response. The parent's `window` and `seqNum` never change, so every child starts
  from the initial ones. Children of sockets that rcopy has closed are left
  out: they send to a port nobody owns, and rcopy's new socket receives nothing of
  theirs. A filename datagram that is flipped is thrown out by `waitFileName`: like
  a dropped one.
- **Datagrams to a process that has ended** (`Transfer`) stay in its channel unread.
- **Time** is not measured. `Late` says how many datagrams (or pending replies) may be
  outstanding while a timer expires: 0 means timers far longer than the
  round trip, 1 lets a timeout race one answer. `PollRatio` relates the timers:
  rcopy's 10 s pass only after that many of the child's 1 s polls have expired
  (`idle`). `PollRatio = 0` allows any order.

For the other modules:

- **A request** of `Listener` is the socket it was sent from: `<<rcopy, attempt>>`. No
  port is used again while something is on its way to it. What a child does with
  its window is in `Transfer`; here it is `Rounds` exchanges of data and acknowledgement, the
  last of which stands for the EOF packet and is waited for as in `lastData`.
- **Descriptors** are numbers: 0 to 2 are standard, 3 is the first socket, and a process that
  has `MAX_FD` of them gets no more. `Fopen` fails for a missing file and for want of
  a descriptor, and in the second case the child's `socket()` fails as well, and its first
  send with it: it ends without an answer. Unless
  the library drops that send: then `sendto` is not called, and a child that has its file goes on with
  `socketNum` -1 until something it sends is not dropped, its timeouts are used up, or standard input
  hangs up and `recvfrom` fails. Its `addToPollSet(-1)` writes in front of the poll table, which
  is undefined; the model takes the table for unchanged.
- **`pollCall`** of a poll set, the ready descriptors and the state of standard input is the
  lowest reported index, or `TimedOut`. The programs act on whichever descriptor it
  names, so a zeroed entry is taken for what the code takes it for.
- **Units.** A PDU on a connection is one unit for its two-byte length and one per piece of
  payload. The two bytes of the length are one unit: they are sent in one `send` together with the payload. The
  check of the length against the buffer never fires, as both programs use a `MAXBUF` of
  1024. A stream holds the units in both ends' buffers together, at most `Capacity`.
- **Ends of connections.** A process that ends closes its sockets: FIN if it has read
  everything, otherwise a reset, which may overtake and discard what was under way.
  After a reset `recv` and `send` fail, at which both programs exit.
- **Standard input** of a client is read through stdio: `ReadSizes` is how many chunks
  (lines, or 1023 characters of a longer one) one `read` may complete. What is more than one waits in
  stdio's buffer, which `poll` does not see. 0 stands for a mere piece of a chunk, from a pipe or ended by
  ^D: `getchar` then waits in the middle of the line (`READ`), and the client receives nothing until
  its user goes on.
- **Numbers in the environment** of `Injector` are integers of any size. `strtol` takes the nearest `long`
  (`LONG_MAX`), and `parserLong2Uint32` makes a `uint32_t` of it, so that an entry of a list names
  the message with its number modulo `UINT_RANGE`. The messages' own counter is a `uint32_t` as well.
- **Events.** All constant events run, in order, until one drops the message; then, by chance, one of the random
  ones runs. `flips` counts the bytes that all of them damage, and a flip draws one number more.
- **Random numbers** of `Injector` are a function of the seed and of how many were drawn;
  the functions considered are in `Generators`. A child's state is a copy of the main
  server's at fork. The two calls of `time` in `sendErr_init` are one.

## 3. Runs

| Run | Bounds | Checks |
|---|---|---|
| `loss` | window 3, 5 chunks, 3 losses, 2 timeouts, `Late = 1` | `WaitsForMissing`, `NeverAborts`, `SrejAnswerable`, and their invariant `LossInv`: what holds as long as nothing is damaged or reordered |
| `damage` | window 3, 5 chunks, 2 losses or damages (2 positions in the number), data may overtake one packet, `Late = 1` | types, `IInv`, and the safety of the copy and of both windows |
| `implements` | window 2, 6 chunks, 2 losses or damages, acknowledgements may overtake two, `Late = 1` | `ImplementsFileCopy`: the protocol refines `FileCopy`; and the invariant `CopyInv` behind it |
| `liveness` | window 3, 5 chunks, 5 losses or damages, 3 timeouts, `PollRatio = 3`, the file there or not | `Termination`: both end, although errors may outnumber the timeouts; `Completion`: rcopy ends with the whole file unless it is missing or `TIMEOUT_MAX` errors met the two |
| `listener_safety` | 2 rcopys, up to 2 requests each, 2 exchanges, 3 free descriptors, 4 processes; late timers, kills, hang-up | types, `IInv`, `NotFoundIsTrue`, `OneChildAcknowledged` |
| `listener_liveness` | as above with one file missing, 2 free descriptors, 3 processes; losses, kills, hang-up | `ChildrenEnd`, `RcopysEnd` under fairness |
| `injector` | a server and 2 children, 2 messages each, all kinds of values of the 4 variables (also beyond a `long` of 7 bits and a `uint32_t` of 2 bits), 4 values of a random number, 64 generators, 2 seconds | types, `ScriptedDrops`, `OneFlipAtMost`, `Repeatable`, `SeedsDiffer`, and their invariant `LibraryInv` |
| `echo_safety` | 3 clients, 2 of them with 2 messages each, table of 2 entries that grows, descriptors for 2 clients; kills, hang-up, end of input | types, `IInv`, `ServerEndsForACause`, `OpenClientsWatched` |
| `echo_liveness` | 2 clients, 2 messages each of different lengths, buffers of 1 unit, reads of 0, 1 or 2 lines; kills, ^C at the server | `ImplementsEchoService`; under fairness `EveryMessageEchoed`, `InputIsSent`, `ServerReturns`, `ClientsFollow` |

Deadlock is checked in the runs of `MCTransfer`: the only state without another
step is `Ended`, which is allowed to stutter (`Terminated`). It is not checked in the others, whose
programs really stop: users may type nothing more, and all processes may have ended.

The bounds make the interesting cases happen: with 5 chunks and 3 slots the ring
wraps and two of its slots are reused, a window of 3 has a gap with packets on both sides (with 2
slots and 6 chunks each is used three times, so that a child that runs ahead meets rcopy's ring a lap later),
and two errors suffice for a lost packet whose retransmission or
SREJ is lost as well. `TIMEOUT_MAX` is 10 in the code;
2 or 3 is enough for a timeout to be used up or not. Two requests of each of two rcopys leave a
child behind for each while other children run, and use up descriptors and processes before all
are served. A poll table of 2 entries (10 in the code) grows when the server adds its own
socket, 3, and again for the clients'; three clients are needed for accept to fail with others
watched. The four random events a child can have need four values of a random number. In `injector`
the environment's error rate, 2, is not the program's, 1, so that a run can tell which is in force.

The bounds of `echo_liveness` let each case happen that its properties make a condition of. A connection holds one
unit in each direction, and the messages of a client make five, so that sends and receives stop in the
middle, and client and server can both stand in `send` with everything full (`BothWait`): the server holds one unit more of
each, and the client the rest. A `read` brings two lines, so that the second is read ahead; or no
whole line, so that the client stays in `getchar`, also while the server waits for it in `send` and while the
server ends. `ServerReturns`, `EveryMessageEchoed` and `InputIsSent` say that nothing *else* keeps the server, a
message or the input for ever; `ClientsFollow` needs only the condition about `getchar`. A piece of a line
is only brought to a client in `pollCall` (a bound on the state space): pieces that follow one another and pieces that come while the client is busy add nothing
to being in `getchar`. `Typists` says whose users type: all of them here, two of three in `echo_safety`, where
the third client is there for the poll table and the descriptors.

In `injector` a list has entries of 6 (message 2), of 200 (cut to 127, which is message 3) and negative ones
besides plain ones, so that truncation decides what is dropped.

### Violations

Three runs show where the code does not do what it, its test or the assignment
says. Each is a finding in `PROJECT.json`.

| Run | Property | What happens |
|---|---|---|
| `overtaken` | `WrittenIsPrefix` | with one datagram overtaken in each direction and one lost, rcopy writes chunks 1 2 3 6 3 6, believes the file whole and exits with 0 |
| `empty_slot` | `NeverCrashes` | a lost EOF_ACK of a short file ends the child in `sendto_Err` |
| `reordered` | `Termination` | with data overtaken by two packets, rcopy and child answer each other for ever |

Only `overtaken` corrupts the copy, and it needs both directions out of order: as long as one of
them is in order, `WrittenIsPrefix` and `ImplementsFileCopy` are theorems (section 4).

### Fairness

`FairSpec` adds weak fairness of `RcopyNext` and of `ServerNext`. Each is a process
that the operating system schedules; each always has either something to read, something to
send, or a timer that expires. Nothing is assumed of the network: a run of bad
luck is bounded by `MaxErrors` alone. Which datagram or timer is served first is not
subject to fairness.

`Listener`'s `FairSpec` has weak fairness of each process: the main server, each child, each
rcopy. Losses are unlimited there; that everything still ends is due to the
counted timeouts. `Echo`'s has weak fairness of the server's, of each client's and of each
kernel's step (a reset is delivered sometime). Users and faults are never
obliged to act.

## 4. Proofs

### Transfer

`TransferProofs` proves, for every window size, file, error budget, degree of
reordering and timing,

    THEOREM TypeCorrect == Spec => []TypeOK

`TypeOK` is inductive only together with `TimeoutsLeft` (a process that has not
ended has timeouts left, so that one more stays in range): their conjunction is `TypeInv`.
The proof has one lemma per operator of `Packet`, `Window` and `Network` (what it
returns, given arguments of its type), one per handler, and one step
per action. The window lemmas (`AddPacketLemma`, `RemovePacketLemma`, ...) also state which
slots an operation leaves alone; `SlotInjective` (two numbers less than a ring apart have
different slots) carries the arithmetic.

What rcopy writes is right as long as one of the two directions keeps its order.
`TransferCopy` proves, for every window size, file, error budget, timing, damage in any byte,
and any degree of reordering of the other direction,

    THEOREM CopyIsPrefix == AckReorder = 0 \/ DataReorder = 0 => (Spec => []WrittenIsPrefix)
    THEOREM OverIsWhole  == AckReorder = 0 \/ DataReorder = 0 => (Spec => []OverMeansWhole)
    THEOREM Implements   == AckReorder = 0 \/ DataReorder = 0 => (Spec => ImplementsFileCopy)

The hypothesis cannot be dropped: with both at 1 the run `overtaken` finds a wrong copy.
What relates the two windows needs the acknowledgements in order, since `removePacket` moves the child's
window to whatever number an RR carries (section 5). `TransferSafety` proves, under `AckReorder = 0`,
`UnwrittenIsRetained` (`UnwrittenRetained`), `FlowIsControlled` (`FlowControl`), `BufferIsGenuine`
(`BufferGenuine`), `AcksAreInOrder` (`AcksInOrder`) and `WindowOnlyAdvances` (the action property
`WindowAdvances`).

*The invariants.* None of the properties is inductive. That what rcopy writes is a prefix needs that
what it buffered under a slot is the packet of a number of that slot (`RcopyInv`); that needs every
undamaged datagram under way to be the file's own and already sent (`DataInv`), and that, when it is a
retransmission, needs the child's ring to hold packets of the file (`ServerInv`). `OverInv` says that
an EOF_ACK means the whole file, `NoChild` and `NotBegun` what is still in its initial state when
rcopy opens a new socket. Together these are `CommonInv`. A step breaks it in one place only: `flushWindow`
trusts the valid flag of a slot, and so writes a later packet of that slot if rcopy has buffered one from beyond
its window. Hence `StepCommon`: `CommonInv` is kept if `FitsExpected` holds, which says that whenever the
expected packet can arrive, all that is buffered is within a window of it. Two invariants give `FitsExpected`, for two
different reasons.

- `IInv` (`AckReorder = 0`): rcopy never gets anything from beyond its window. RRs under way
  name numbers that rcopy has reached, in order (`AckInv`), so the child's window starts at one of them, spans one
  ring and holds all that was sent from there on (`WindowInv`). It is checked by TLC in `damage`.
- `CopyInv` (`DataReorder = 0`): the child's window may move back and then never closes again, so that the child
  may run ahead of rcopy's window by any distance, and rcopy does buffer from beyond it. But buffering such a packet
  moves rcopy's `current` above it, and a slot of the child's ring holds the latest packet
  sent from it (`SentInv`), so that whatever is sent, new or again, is less than a ring behind all that was sent before.
  With data in order that holds along the channel and for `current` (`NearInv`): when the expected packet does come,
  nothing from a ring further on has come before it. It is checked by TLC in `implements`.

*The proof.* Lemmas on the ring (`RemoveKeepsRing`, `FlushedAreNext`: each packet
that `flushWindow` fetches is the next to write), on the two channels (`DataExtends`,
`AcksAreSaid`, `AckExtends`, `AckRemoved`), and for each branch for a data packet (`WriteInOrderKeeps`,
`BufferPacketKeeps`, `ReplaceAndFlushKeeps`); then one lemma per action of rcopy and of the child on
`CommonInv`, joined in `StepCommon`. Each handler also has a lemma that says what it does to the channel and to the window
(`ServerReceivesIs`, `ReadFromDiskAndSendIs`, ...), from which `IInv`'s own part (`RcopyWindow`, `ServerWindow`) and `CopyInv`'s
(`RcopyCopy`, `ServerCopy`) follow without opening the handler again. In `Implements`, a step that changes `written`
maps to `Grow`, rcopy's last step to `Complete` or `Fail`, and all else stutters.

### Transfer without damage

Three properties of `loss` hold only when no byte is damaged (`~FlipOn`), since a damaged SREJ may
name any packet and a damaged EOF number sends rcopy to one it never had. `TransferLoss` proves,
with losses and timeouts unrestricted, for every window size and file,

    THEOREM AsksInvariant == AckReorder = 0 /\ ~FlipOn => (Spec => []SrejInv)
    THEOREM LossInvariant == AckReorder = 0 /\ DataReorder = 0 /\ ~FlipOn => (Spec => []LossInv)

and from them `SrejIsAnswerable` (`SrejAnswerable`), `WaitsForWhatIsMissing` (`WaitsForMissing`)
and `RcopyNeverAborts` (`NeverAborts`). The first needs no order of the data.

*The invariants.* That a SREJ can be answered is not inductive: the packet it names must still be
there when it arrives, so no RR in front of it may free that packet. `AskInv` says that the numbers of RRs
and SREJs under way never fall, that each SREJ names a packet between the child's lower end and what
rcopy expects, and that rcopy asks only while it knows a higher one. With `IInv`'s `WindowInv` the slot
then holds that packet. `NeverAborts` needs to know why rcopy's ring has room. With both directions
in order, whatever rcopy does not ask for is new, above all that has come, and rises along the channel
(`DataInOrder`). So rcopy's ring holds only packets below `current`, which while it
buffers is one above `highest`, and never the packet that it expects (`BufferInv`): a hole stays a hole until
its retransmission comes, and `current` stays below the child's window end. When data overtake each
other, `current` may fall behind and `WaitsForMissing` fails.

*The proof.* A step extends a channel by packets from a known set (`Grows`), and takes one packet from it:
`RcopyAsks` and its counterparts for the child say once what that does to `AskInv` and `DataInOrder`. Each
handler then only shows which set it sends from.

### Listener

`ListenerProofs` proves, for every finite set of rcopys and files, every number of retries and
exchanges, every limit of descriptors and processes, and all the faults,

    THEOREM Invariance == Spec => []IInv

and from it `TypeCorrect` (`TypeOK`), `AnswersAreTrue` (`NotFoundIsTrue`) and `OneChildServes`
(`OneChildAcknowledged`). The invariant says besides the types that a process that runs has retries
left (`RetriesLeft`: an rcopy asks once per timeout, so the number of sockets is
bounded), that a child which has a socket for a file that exists also has the file, and that no
denial of such a file is under way (`AnswersTrue`): `fopen` and `socket` are tried one after the other
on the same count of descriptors, so when want of a descriptor makes the first fail
the second fails as well. For the last theorem, `Acknowledged` says that acknowledgements
have only been sent from an rcopy's present socket, and that this socket is its last:
`SEND_FILENAME_TIMEOUT` is reached from no state after the first data.

### Echo

`EchoProofs` first proves what the operators of `PollSet` do to a table (`AddToPollSetLemma`, `RemoveFromPollSetLemma`,
`GrowPollSetLemma`: it stays a table and the set it watches gains or loses one
element; `PollCallLemma`: what is returned is reported by `poll`). From these it
proves, for every number of clients, buffer size, backlog, table size, limit of
descriptors and all the faults, `Spec => []IInv`, `EndsForACause` (`ServerEndsForACause`) and `ClientsWatched`
(`OpenClientsWatched`). The invariant links an end of a connection to the kill that caused it
(`EndsKnown`), so that the server's `removeFromPollSet` meets only clients that have gone, and
keeps each accepted client's descriptor, by its place in the order of acceptance, in the table (`AcceptedWatched`).

It proves `TypeCorrect` (`TypeOK`) too: what a stream holds. `EchoRefinement` proves, for every number of clients and
messages, every assignment of lengths to the messages and all the faults,

    THEOREM StreamsFramed == Spec => []FramingInv
    THEOREM Implements    == Spec => ImplementsEchoService

*The invariant.* That a client gets its own messages back in order is not inductive: a message is
spread over five places, and cut anywhere. A *mark* `<<m, k>>` names unit k of message m, and a
*stretch* is a sequence of units with consecutive marks. While the server runs, `Framed` says that
for each client five places form one stretch: from the unit the client reads next, through the
server's sending direction, what the server is still sending, the client's sending direction and what
the client is still sending, up to the last message it has called `sendPDU` for. It says also
that a program between the two `recv` calls holds the first part of a payload and the length that the
header gave. When the server has ended, what it held is lost, and only the first of the five
is still a stretch, that goes no further than what was sent (`FramedDown`): hence `EchoService`'s
`Truncate`, by a client that meets the end of its stream in a payload, and nothing after it.

*The proof.* A sequence of units has no induction principle here, so a stretch carries the
function from positions to marks, and the one place that needs induction (a whole
payload lies at the head of a stretch) takes the smallest position that differs (`Smallest`,
`StretchPayload`). `Receive` is the second `recv` of `recvPDU`, for both programs. Then one lemma per
action of the server (`HeaderKeepsFramed`, `PayloadKeepsFramed`, `SendKeepsFramed`), of the client and of the
kernels. In `Implements`, `sendPDU` maps to `Send`, the client's last piece of a payload to `Echo`, an end of
stream in one to `Truncate`, the server's end to `End`, and all else stutters.

### Injector

`InjectorProofs` proves, for every number of processes and messages, every environment, error rate and
generator of random numbers,

    THEOREM LibraryInvariant == Spec => []LibraryInv

with `LibraryTypes` (`TypeOK`), `ScriptsAreObeyed` (`ScriptedDrops`), `OneFlip` (`OneFlipAtMost`),
`SeededRunsRepeat` (`Repeatable`) and `SeedsAreDistinct` (`SeedsDiffer`). The assumptions on the constants say what
an environment's variable can be (`EnvironmentAssumption`) and that a generator has a number for each draw of each
seed that can be used (`GeneratorAssumption`); a message costs at most three.

`ScriptsAreObeyed` is about numbers modulo `UINT_RANGE`, for every `UINT_RANGE` and `LONG_MAX`: it says that an entry
which is too big drops other messages than it names. `OneFlip` counts the flips of all constant events and of the random
one; it holds since no way of asking for damage, by the environment or by the program, first or
second time, makes a flip a constant event (`EventsOf`), and at most one random event runs.

*The invariant.* `Repeatable` relates the histories of two children that need not have been alive at the same
time, so it is not enough to compare their present states. Under a seed from the environment `Replayed` says that there is *one*
sequence of draws, indexed by messages sent, such that every child is somewhere along it and has logged what
`ProcessEvents` yields there: a child that is behind will do what the others have done. This needs all children
to have the same rate and random events (`AskedAlike`: the parent was asked once before fork, each child once
more) and the same seed (`SeedsOK`, which also keeps the counter behind `SeedsDiffer`: every seed
given is at most `nextSeed`, and no two children hold the same one). `EventsOf` says that every
event which drops beside a script is the script, through the doubling by fork. `Roles` and `Counted` say who may
send and how many numbers that can have cost. TLC checks it in `injector`.

### Only model-checked

- Liveness, in all modules (fairness and ENABLED are beyond the prover).

Every other property of the passing runs is also a theorem.

## 5. What is not modelled, and what the code does not do

### Not modelled

- **Wrap-around of the 32-bit numbers** (`project3/window.c:87`). The numbers of the model are naturals; it
  takes a file of 2^32 packets, 4 GB with the smallest buffer.
- **The checksum.** `Packet` states what is used of it: one damaged byte is always seen.
- **Errors of system calls** other than those above (`fread`, `fwrite`, `malloc`): the process exits.
- **`recvfrom_Mod`** of libcpe464, which both programs of `project3` reach through `recvfromErr`
  (`project3/safeUtil.c`) and which only logs; **`send_Err`**, which neither calls; and the port, debug
  and autograder settings.
- **The exit code of rcopy**: see below.
- **Starvation in `pollCall`** (`project3/pollLib.c:84`), which serves the lowest descriptor first: lines 8-11 say so
  themselves. Input and messages are finite in the model, so that every client has its turn in the end.
- **`p1`, argument parsing, address lookup, logging.** No protocol state.
- **`windowTests.c`**, which no longer compiles against `window.h`.

### Known limits of the code

The models contain the following behaviours, and the checked properties are stated so
that they allow them. Each was met while modelling.

- *rcopy exits with 0 also when it gives up* (`project3/rcopy.c:777`), which the
  tests take for success. `OverMeansWhole` is about what the processes believe, not the exit code.
- *A late RR moves the window back* (`project3/window.c:61`, `152`): `current` may then be
  above `upper`, and the equality test never closes the window again. `AcksInOrder` and `FlowControl` hold for a
  network that keeps the order of acknowledgements. If data overtake each other as well, the copy may be wrong (run `overtaken`).
- *`current` of rcopy's window is not moved by `removePacket`* (`project3/window.c:90`): `addPacket`'s skip loop, which starts there,
  may clear the flag of the packet just stored. It has to be asked for again.
- *The "Shouldn't happen" exit* (`project3/rcopy.c:380`) does happen after damage in `lastData`, where
  rcopy asks for a number read from a damaged packet. `NeverAborts` is checked without damage.
- *Files stay open in the main server* (`project3/server.c:147`): at the limit of descriptors an rcopy gets no
  answer at all. `NotFoundIsTrue` says that at least it gets no false one.
- *Children are never waited for, and the main server exits when fork fails* (`project3/server.c:160`).
- *A child whose standard input has hung up* waits in `recvfrom` for an rcopy that has gone, as
  `removeFromPollSet` leaves fd 0 in the entry (`project3/pollLib.c:58`); the main server ends. Hence `stdinHup` in `ChildrenEnd`.
- *Children initialised in the same second* draw the same numbers, as project3 asks for `random_flag`
  (`project3/libcpe464/network-hooks.c:195`). Hence `~randomFlag` in `SeedsDiffer`.
- *A list of messages to damage* is accepted and ignored, and switches random damage off
  (`project3/libcpe464/SettingsManager.cpp:240`); *an empty variable* counts as set (`SettingsManager.cpp:113`).
- *An entry of 2^32 or more in a drop list* names another message: a `long` is pushed into a list of
  `uint32_t` (`SettingsManager.cpp:256`). Hence the modulo in `ScriptedDrops`.
- *A scripted drop* keeps `infoSeqNo`, added later, from seeing the message
  (`project3/libcpe464/PacketManager.cpp:125`): its report misses these.
- *The PDU server ends when a connection is reset* (`p2/lab2.c:49-53`): the check for `ECONNRESET` in
  `p2/server.c:65` comes after `recvPDU` has exited. `ServerEndsForACause` lists this cause.
- *The PDU server never closes a client's socket* (`p2/server.c:105`), so accept fails in the end.
- *A zeroed entry of the poll set* makes `pollCall` name descriptor 0 when standard input hangs up
  (`p2/pollLib.c:67`), and the server ends in `recv`.
- *Blocking sends* (`p2/lab2.c:30`): a client whose input does not pause (descriptor 0 comes first, `p2/cclient.c:128`)
  can fill both directions of its connection; it and the server then wait for each other, and all clients with them.
  The run `echo_liveness` reaches this. Hence `SomeWait` in `ServerReturns`, `EveryMessageEchoed` and `InputIsSent`.
- *getchar reads ahead* (`p2/cclient.c:88`): further lines of one `read` wait in stdio's buffer until more input comes.
  Hence `stdio` in `InputIsSent`: at most these lines stay unsent.
- *getchar waits in the middle of a line*, as long as the user or the writer of a pipe does. The client then neither
  prints nor notices the server's end, and holds the server if the server sends it more than the connection takes. Hence
  `InGetchar` in `EveryMessageEchoed`, `ClientsFollow` and `BothWait`.
- *At the end of its input a client* sends messages full of EOF for ever; the model stops at `MaxMsgs`.
- *A client ends with -1*, not with "Server terminated", when the server's end resets the connection (`p2/lab2.c:49`).

## 6. Plan

1. *Transfer* (done): type correctness, the safety properties and the refinement proved.
2. *Listener*, *PollSet*, *Injector*, *Echo* (done): checked; all their safety properties and the refinement of `EchoService` proved.
3. *Proofs* (done): `loss`, the copy under either order, and the refinement of `FileCopy` there. Next: how far data may be overtaken
   before `Completion` fails, by TLC.
4. *SeqWrap*: window arithmetic modulo 2^w for small w, against the naturals.
5. *Checksum*: `in_cksum` over short words against the claim `Packet` makes of it.
