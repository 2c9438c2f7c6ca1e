# permup in TLA+

A verification development beside the source of permup: TLA+ models of the
daemon, of one execute request from end to end, of the client's own run, and of
the configuration files and what is decided from them, checked with TLC on small
instances and, but for liveness, proved with TLAPS for every value of the
constants.

Paths below are relative to the repository (`src/src/...` is the code,
`src/README.md` the project's documentation).

## 1. The system

`permup` is a client that asks a root daemon, `permupd`, over a Unix socket, to
run a command as another user. For every allowed request the daemon forks a
*Child*; the Child opens a pseudo-terminal, forks the command onto its slave
side, watches the first output for a shell's prompt, and passes the master side
to the client with `SCM_RIGHTS`. From then on client and command share a
terminal and the Child waits.

| Component | Source | State it keeps | Operations |
|---|---|---|---|
| event loop | `permupd/daemon.cpp`, `permupd/main.cpp` | poll entries, a buffer per descriptor, `running_`, `globalDaemon` | startup, poll, accept, read, process a buffer, list users, execute, reap, stop |
| socket wrapper | `common/socket.cpp` | a descriptor, the socket's path | create, connect, accept, close, unlink, send |
| Child | `permupd/child.cpp` | connection, both ends of the terminal, the command's process id | set up terminal, fork command, check prompt, pass terminal, timeout, wait |
| client | `permup/client.cpp` | allowed users, a connection | list users, check, password, execute, shovel terminal |
| session store, rate limiter | `permup/session.cpp`, `permup/ratelimit.cpp` | maps in the client's memory | look up, store, expire; count, reset |
| configuration | `common/config.cpp` | six maps, filled once | six loaders, decisions, getters |
| wire protocol | `common/protocol.cpp` | none | build and parse messages |
| utilities | `common/utils.cpp` | none | command matching, times, accounts |

How they meet: client and daemon exchange one request and one answer for each
connection; the Child is a copy of the daemon (its descriptors, its signal
handlers, its memory) and shares the client's connection with it; the command
is a copy of the Child until its `execl`; Child and client hold the same
terminal; signals (SIGTERM, SIGCHLD, SIGPIPE, SIGHUP) arrive between any two
steps. Nothing is persisted but the socket file. There are no threads.

What is hard, and tests would hardly reach:

* one thread serves all clients with blocking reads; descriptor numbers are
  reused while entries for their former use are still walked;
* the answer (daemon) and the terminal (Child) are written to one socket by two
  processes;
* Child and client read one terminal, and an end of file comes only when the
  last holder of the other side has gone, the Child itself included;
* handlers inherited across `fork` act in processes they were not written for;
* a timeout races the client, the command's exit and the handler that reaps it;
* a line-oriented loader decides by braces and keys in an order nobody tested.

`PROJECT.json` lists these as hazards at their lines, with the properties that
would catch each, or the reason why none does yet.

What makes each component correct, in a sentence: the loop never mixes two
connections up and never forgets one; a session passes the terminal on only
after the prompt check, loses no output, and ends; the client sends what its
user asked for, within what the daemon offered, and waits for no daemon for
ever; a group, a command or a user gets the settings written in its block and no
others; a command is matched however it is spelled.

## 2. Modules

| Module | Models | Runs |
|---|---|---|
| `EventLoop` | the daemon's loop, handlers, signals, death and restart; clients as streams of segments | `EventLoop_*.cfg` through `MCEventLoop` |
| `ReplyService` | what a client may rely on, without descriptors and buffers; implemented by `EventLoop` | `EventLoop_Safety.cfg` |
| `ExecSession` | execute requests: client, handler, Child, command, terminal | `ExecSession_*.cfg` through `MCExecSession` |
| `TerminalSession` | one session as its user sees it; implemented by `ExecSession` for each | `ExecSession_Safety.cfg` |
| `Protocol` | what a message is on the wire, and what its readers make of it | with `ClientRun` |
| `ClientRun` | `Client::run` with session store, rate limiter, clock and signals, against one connection's daemon; EXTENDS `Protocol` | `ClientRun.cfg` through `MCClientRun` |
| `PermCfg` | `loadPermissions`, line by line; `isCommandAllowed`; `getAllowedTargetUsers` | `PermCfg_Load.cfg` through `MCConfigLoad`, with the lines of `MCPermCfg` |
| `ConfigLoad` | `Config::load`: the five other loaders after that one, and the getters; EXTENDS `PermCfg` | `PermCfg_Load.cfg` through `MCConfigLoad` |
| `CommandMatch` | `normalizeCommand`, `isCommandMatch` | the same |
| `TimeRanges` | `isTimeInRange`, `isDayInRange`, `isTimeAllowed` | the same |
| `MCDocumented` | the loaders and `Client::run` together, in one history: the daemon answers from what was loaded | `Documented.cfg` |
| `*_proofs` | proofs about the module named; `*Refines_proofs`: that it implements its abstract specification | `tlapm` |

### EventLoop

`fds` is the vector of poll entries after `fds[0]`, each a descriptor and what
poll reported for it; `table` is the daemon's descriptor table (descriptor to
connection), `buf` is `clientBuffers`. One action is one step that another
process can see: `poll` walks the entries one at a time (`PollEntry`), because
two entries for one descriptor may report differently; `Accept`, each branch of
the inner `for` (`ScanHup`, `ScanReadFails`, `ScanRead`, `ScanSkip`), each
outcome of `processClientData` (`NeedMore`, `HandleListUsers`, `HandleDenied`,
`HandleVoid`, `ForkChild`, `ForkFails`), and the parent's write after the fork
(`AnswerExecute`). `LowestFree` is the kernel's choice of a number in accept4.
The blocking `read` is a step that is simply not enabled while there is nothing
to read and the peer is still there.

Startup is cut where a signal can fall: socket bound (`Start`), handlers
installed, `globalDaemon` set, `running_` set. `Sigterm` therefore has three
outcomes: the default action, `Daemon::stop`, nothing. `StartFails` is what is
left of the file when socket, bind or listen fails.

A Child is forked without exec and never closes the server's descriptor. So a
daemon that dies without unlinking its file leaves a socket that still takes
connections, as long as one of its Children lives: `listeners` is who holds
the socket behind the file, and `Connect` asks for one of them, not for a
daemon. A connection queued so ends when the last of them does
(`AbandonQueue`), or when its client gives up; nobody accepts it.

Abstracted: bytes. A client's stream is a sequence of segments of a kind, the
last one of a request marked; every segment carries the connection it was sent
on, which is what `BufferOwnership` looks at. The decision of the handler
(`denied`, `void`) is part of the segment. A buffer that is at least a complete
message is taken up; the abstraction leaves out that the header's fields are
looked at before the payload is complete (a bad magic number closes the
connection a little earlier than the model does). Responses are written in one
step: a client that does not read a response larger than the socket's buffer
would block the daemon, and is not modelled. The listen queue has room for all
connections of an instance (the code asks for 32).

### ExecSession

Each session has a client (`cl`), the messages on its way (`chan`), the set of
holders of the connection's other end (`ends`: the listen queue, the daemon, or
Children, of this session or of another), a Child (`sup`), a command (`cmd`),
and a terminal: holders of the master and of the slave, what the command wrote
and who read it (`produced = swallowed \o shown \o out` is `OutputInOrder`).
An end of file, a hangup and a failing read are the emptiness of one of these
sets (`Held`, `Eof`). As in `EventLoop`, whoever was forked holds a copy of the
listening socket, the Child to its end and the command's process to its `execl`
(`Holding`), so that `Request` and the queue may outlive the daemon. A client
that left before the daemon's poll is dropped unread (`AcceptHungUp`). Messages are `resp`, `err` and `fd`, the byte that carries the
descriptor. The handlers that the Child inherits from the daemon are
`Sigchld`, which reaps behind its back, and `SelectInterrupted`; the handler
that the command inherits until its `execl` is `StopInCopy`.

A chunk of output is a text, one with a NUL, or one that a prompt pattern is in
(`Kinds`). `ShowsPrompt` reads as `std::string output(buffer)` does, up to the
first NUL: output with a NUL ahead of a prompt passes the check, and `ShellGate`
says no more than the code keeps.

Abstracted: the terminal's modes and input; sleep and timers (a timeout may
expire at any time, at once too, as a timeout of nothing or a negative one does);
process ids, so that the `kill` after a reaped command has no target here.

### PermCfg

A line is a record of what the loader's tests see of it: skipped or not, a
colon, braces, the word before the colon and the one after it, the items
between the braces. Actions are the branches of the `while`, in the order in
which the code tries them. `isCommandAllowed` and `getAllowedTargetUsers` are
operators on the loaded map; how a command matches a pattern is the constant
`Matches`, so that what is proved holds of any matching.

### ReplyService and TerminalSession

Two abstract specifications, each the promise of a detailed one.

`ReplyService` knows of a connection only that it waits, that a command was
started for it, or that it is over. A reply answers what the client asked first,
there is at most one, a command is started at most once and before the answer
that says so, and a connection is given up only after its client has left or
asked. `EventLoop` maps to it by `Status` (where a connection is: queue and
descriptor table, or the handler between `fork` and answer), `Job` (its Child)
and `listening` (a socket file, and somebody who holds its socket). Everything about numbers, entries
and buffers is a stutter.

`TerminalSession` knows of a session only the command, where its terminal is
(`kept`, `sent`, `held`, `gone`), and the output. `ExecSession` maps to it by
`Job(s)` and `Terminal(s)`, for each session separately, while the steps of all
of them interleave. TLC cannot take a temporal formula under a quantifier over
sessions as a property, so `ImplementsTerminalSession` is written out as initial
states and steps.

### ClientRun and Protocol

`Client::run` is one thread; `pc` is where it is, cut at each call that waits or
that another process can come between. The daemon is reduced to what it does to
this connection: it answers a request it can read, closes, or dies, at any time
(`EventLoop` has the loop behind that). The terminal is a mode, raw or cooked;
what is shown on it is `ExecSession`'s. `clock` goes on between any two steps, so
that the two looks at a session (`hasValidSession`, `getPassword`) and the two at
`blockedUntil` may fall on either side of an expiry.

`permup` makes one `Client` and calls `run` once. The class keeps passwords and
failures between calls, and those are what `SessionManager` and `RateLimiter`
are for, so that a process here makes up to `RunsPerProcess` runs; a `-l` run on a
`Client` that is already connected is left out, since `fetchAllowedUsers` is then
called on a connection whose state no caller ever leaves behind.

The password is a word: `std::cin >> password` stops at a blank, and what is left
of the line (`typed`) waits for the next prompt of the process. So `my pass`
sends `my`, and the next run sends `pass` without asking. `RequestFaithful` says
whose word goes with which request, not that it is what the user meant.

Of the Child, `ChildFirst` is its byte that may come before the daemon's answer.
The header that it begins is read on without a timeout. The daemon's answer
finishes it (`AnswerSecond`), and so does an end of file; a daemon that dies then,
beside a Child that lives, leaves the client there (`InHeader`, the exception of
`DaemonAwaitedBriefly`).

`Protocol` has a message as a sequence of cells, a 32-bit number or the
characters of one string, each with its size in bytes, and readers that find a
field by adding up lengths. A field that is read across a boundary is `Garbled`.
`given` and `offered` are history: when and for whom a password was typed, and
what the daemon offered last.

Abstracted: partial reads and writes (both sides loop until the whole is there;
what a cut message does to the daemon is in `EventLoop`); the numbers' byte
order; `MAX_PASSWORD_LEN` and the largest payload are constants.

### ConfigLoad, CommandMatch, TimeRanges

A line is again a record of what the tests see, wider than in `PermCfg`: which
of the separators it has, the names before them, and what its value is to
`std::stoi` (digits, the number, the unit). The four loaders of blocks share
their actions; what differs is said by `Opens`, `Sets`, `Assigned`, `Throws` and
`Fresh`. `config` is the local variable, of which `currentTimeout` starts with any
value of its 64 bits (`Garbage`), as it is read uninitialised: one that is no int
among those tried. `Wrap` is what int arithmetic
does here where the product does not fit. An exception ends `Config::load`
(`Abort`). An empty or missing file is one without lines; a file of comments is
not empty, as in the code.

`CommandMatch` has a command as the words that `split` makes of it and a word as
character codes, since flags are taken apart, and since `normalizeCommand` puts
one text together again, which `trim` cuts and `isSubstringMatch` searches: a real
name with a blank in it, which `Canonical` may give, is found word by word then.
`std::sort` is a numbering of the flags: `Place` counts those that are in order
before one, and `Flags` lists them by that number. `MCConfigLoad` assumes that
this is what a sort of the concatenated pieces gives, and TLC evaluates that on
its commands. The module replaces the constant `Matches` of `PermCfg` in the run,
while proofs about `PermCfg` hold for any relation.

`TimeRanges` has the text of a time as whether it is shaped like one (five
characters, a colon in the middle) and what `std::stoi` makes of its two numbers,
an exception included, which leaves `isTimeAllowed` ("throws"). 24:00 is the
minute 1440, which is no minute of a day but may end a range or begin one. A
user's blocks are tried in the order of the groups, and the first that admits or
throws decides.

### MCDocumented

What the README says of files and of the client, and the code does otherwise,
does not fit one component: permissions are loaded by one process, asked of by
another, and a limit in a file concerns a third. The module loads the shipped
files by `ConfigLoad`'s steps and then lets a client, an instance of `ClientRun`,
make four requests, one in each process as `main` does, while the daemon's two
answers come from `getAllowedTargetUsers` and `isCommandAllowed` of what was
loaded. `broken` collects the rules that were not kept.

## 3. Runs

The configurations say `CHECK_DEADLOCK FALSE`, but for `Documented.cfg`: the system
stops when every client has done its part, or when the daemon has exited.

| Run | Question | Bounds |
|---|---|---|
| `eventloop_safety` | Are buffers, entries and connections kept apart, can a read block only because of a stale entry, is one request served for each connection, across signals, a death by SIGPIPE and a restart? | 2 connections, 2 descriptor numbers, 4 scripts (split, pipelined, denied, malformed), 2 starts, 1 SIGTERM |
| `eventloop_live` | Is every connection served, every SIGTERM honoured, every Child reaped? | the same scripts but for the refusal (a close like that of a malformed request, after an answer), 1 descriptor number, so that accept4 fails, SIGPIPE ignored |
| `eventloop_headofline` | Can one silent client block the others? (yes) | 3 connections, 1 of which stops in the middle |
| `session_safety` | Is the prompt check a gate, the output whole and in order, and is each session a `TerminalSession`? | 2 sessions of either kind, `MaxTotal` = 2 chunks, both commands' together, of text, with a NUL or with a prompt |
| `session_ends` | Does a root session end; does a Child that is gone leave anybody behind? | 1 session of each kind, 1 chunk, SIGPIPE fatal |
| `session_pty`, `session_socketfile`, `session_attached`, `session_silent` | disagreements, see below | 1 session |
| `permcfg_load` | What can a file make a loader keep, and what do getters, matching and ranges make of it? | permup.cfg: every file of up to 3 lines over 11 kinds of line, of 4 and 5 over those that matter to groups, the shipped file, the README's example; each other file: up to 3 to 5 lines over its own kinds, and the shipped one; 78 commands of up to 3 words; 8 minutes, every day, ranges over midnight and Sunday, to and from 24:00, times that are none, up to 2 groups |
| `documented` | Are seven rules of the README kept? (no) | one history: the shipped files with `default_n: 9`, four requests of one user |
| `client_run` | Does a run send what was asked, within the offer, with a password of its own, and come back? | 2 processes of 2 runs each, 5 argument sets, 4 lines (the end of the input, a good word, two words, one that is too long), 4 offers, clock to 3, sessions of 2 seconds |

Why the bounds are enough. A descriptor number is reused with two connections,
and two entries for one number need no third; only the blocking of a bystander
needs three. Two sessions suffice for one Child to inherit another's
connection. Two chunks let a read split the output between Child and client.
Four lines hold an opening, a key, a nested list and a closing brace, five a
block without a value between two others, and the real files add the long case;
the files are varied one at a time, because the loaders share no variable. A
session is stored, found, and expired within two runs and three seconds; a
second process finds nothing of the first.

Symmetry (connections, sessions) is used in the safety runs only. `session_socketfile`
is cut down to the steps of a session that its user leaves (`LeavingNext`), all of
them steps of the code.

### Fairness

`EventLoop`: weak fairness of the daemon's steps and of the delivery of
SIGCHLD, which the scheduler and the kernel give; and, for `FairSpec`, of
`Send`: a client that began a request sends all of it, as `sendMessage` does.
`eventloop_headofline` takes that last one away, which is its point. Nothing
makes a client connect, or leave, or a Child exit.

`ExecSession`: weak fairness of client, daemon, Child and kernel, timers
included. Nothing makes a command write or exit, or a user quit.

`ClientRun`: weak fairness of the client's own steps, its five-second timer
included. Nothing is asked of the daemon, the Child, the user or the clock, so
`DaemonAwaitedBriefly` says no more than that a run never hangs on the daemon:
at the password prompt, and once the answer has been read, it waits for others
(`session_silent` shows that this last wait may not end), and so it does in a
header that only the Child has begun.

### Disagreements between code and documentation

Each is a property that TLC refutes (`PROJECT.json`, `findings`):

1. `NoHeadOfLineBlocking` - a stale entry for a reused number makes the daemon
   read a descriptor with nothing in it, and block. It is the only way to get
   there (`BlockedByDuplicate`, in `eventloop_safety`, where that happens too).
2. `PtyReceived` - with `-h root` the Child can be faster than the parent; the
   client takes the byte with the descriptor for part of the header.
3. `SocketFileStays` - a SIGTERM before the command's `execl` runs
   `Daemon::stop` in the copy: the daemon's socket file is unlinked. In the run
   the user leaves after the daemon's answer, and the Child, which cannot pass
   the terminal on, ends its command at once. Without `-h root` nothing sends
   that signal so early (`SocketFileStaysWithoutRoot`).
4. `AttachedNotKilled` - the timeout never notices that the client has the
   terminal, and kills the command.
5. `SessionEnds` - without `-h root`, a command without output leaves the Child
   in a read that never returns, and the client, which has its answer, waiting
   for a terminal.
6. `RulesOfTheManual` - seven rules of the README, by their names in `broken`:
   `whitelist` (4.1: dev may run docker): lists are never loaded, and the shipped
   whitelist admits nothing;
   `substring` (4.1: `rm -r` blocks `rm -rf`): the sort puts `-f` between;
   `hash` (4.3: `#` is a prompt pattern): it is a comment;
   `no_entry` (4.4: a group without an entry has no time restrictions): such a
   group admits nobody, if anything called `isTimeAllowed`;
   `default_n` (4.6: the limit of all users): it is read by nothing;
   `lock` (4.6, 5.8: a user is locked after `n` failures): nothing sets
   `blockedUntil`, and as each `permup` process starts from nothing, neither
   limits nor remembered passwords would ever take effect;
   `root_auth` (3.1, 5.2: `-h root` skips all checks): the client still checks
   the target (`AskedWithinOffer` says what it does keep).

One line of the README is contradicted by a run that passes: `src/README.md:15`
says that zombie processes appear despite SIGCHLD handling. `ZombiesReaped` holds
of the code as it is: every SIGCHLD runs `reapChildren` until no dead Child is
left, whatever the loop is doing, a blocking read included (the handler runs, and
SA_RESTART resumes the read). Only after `stop()` has reset `globalDaemon` is
nothing reaped, and then the daemon exits and init inherits. The processes that
stay are no zombies but Children in the read of item 5, which the README's next
complaint but one, sessions that do not terminate (line 13), describes. The run
assumes the signal's delivery and the daemon's own progress, and clients that
finish what they send.

Seen while modelling, and left without a run: a SIGTERM between the last two
assignments of `initialize` leaves a loop without a socket; a served
connection's entry keeps poll returning POLLNVAL; where SIGPIPE has its default
action a client that leaves early ends the daemon; the socket of a dead daemon
takes connections while one of its Children lives; the output read for the
prompt check is not shown to the user, and a NUL in it hides what follows; a
client that fails before it has the terminal leaves the command running; a Child
inherits other clients' connections (which is why `ChildGoneClientReleased` makes
an exception); a user without a configured group is offered every account (part
of `AllOrNothing`); a command's block without a value takes over the timeout of
another (`TimeoutOrigin`); a password with a blank is cut, and its rest answers
the next prompt; a password that was refused stays remembered; the quotes of the
shipped `permup.time` make its ranges ill-formed, and a time such as `ab:cd` ends
the caller of `isTimeAllowed` with an exception.

## 4. Proofs

TLAPS checks, for every value of the constants that meets the assumptions:

`EventLoop_proofs` (from `EventLoopAssumption`): every property of
`eventloop_safety`, for any number of clients, descriptors, starts and stops and
any scripts. Types come with `Serving`: while a request is served, the loop
index names an entry whose descriptor is open. `Footprint` says in seven cases
what a step does to vector, table and buffers, and the rest is shown from it:

* `BufferOwnership` from `Tagged`: what waits on a connection was sent on it;
* `Monitored` by itself: only the erased entry's descriptor loses an entry;
* `AnswerMeansForked` from `Forked`: between fork and answer the caller has a
  Child, and its buffer an execute request. It is no run's property, since
  `ImplementsReplyService` implies it;
* `BlockedByDuplicate` from `ReadsAhead`: what poll has seen on an entry stays in
  the socket until the loop reads that descriptor, a client that leaves takes
  nothing of it away, and only an entry with that number is a reason to read it.
  `Places` is needed as well, as a connection on two descriptors could be read
  through the other one;
* `NoFreshDrop` from `HangupMeansGone`: a reported hangup belongs to a client
  that has left, or to a number closed since and not reused, because a pass
  accepts before it serves and only once. This is why a stale entry can never
  take down a new connection;
* `SocketFileGone` from `Listening`: `stop()` clears `running_` and removes the
  file together;
* `OneRequestServed` from `Places` (a connection is in the queue or on one
  descriptor, once) and `Streams` (buffer and socket together hold, in order,
  what the client sent, and an open connection has no answer yet).

`ExecSession_proofs` (from `ExecSessionAssumption`): `TypeOK`, `ShellGate`,
`OutputInOrder`, `RootOutputComplete`, `KillAfterExec`. None of the last four
is inductive. The invariant `IInv` says, of each session separately: an accepted
request is served once (while its connection is the daemon's there is no
Child yet); how far the Child is determines what may have been swallowed, who
holds the terminal and whether the command exists; which states of the command
go with which of the Child, and with a pending SIGTERM; and the output's order.
`ShellGate` needs the middle part: the terminal can only be on its way from a
Child past its check, and what that read shows no prompt ahead of a NUL. Every action changes one session and leaves the others'
part alone; a lemma for each action says that it keeps the part, and one lemma
lifts that to all sessions. `SocketFileStaysWithoutRoot` is the other side of the
third finding: the property that `session_socketfile` refutes holds as long as no
session asks for `-h root`, because only such a Child ends its command while
that may still be a copy of the daemon.

`PermCfg_proofs` (from `PermCfgAssumption`, `NoConfigAssumption`): `TypeOK`,
`NoListIsLoaded`, `AllOrNothing`, `ModeFromOwnGroup`. `NoListIsLoaded` needs
that `currentConfig` is unlisted as well; `ModeFromOwnGroup` needs that, within
a group, its opening line is behind `pos` with no closing brace since, and that
a whitelist mode was set after it. `AllOrNothing` follows from `NoListIsLoaded`
at the end of the file.

`EventLoopRefines_proofs` (from `EventLoopAssumption`, on the lemmas of
`EventLoop_proofs`): `ImplementsReplyService`. Every action of the loop is shown
to be one action of `ReplyService`, or to leave `Status`, `Job` and `listening`
alone (`StepAbs`). What that needs of a state is `Refining`: `Forked`, `Places`,
`Streams` and `HangupMeansGone` from above, and two facts more. `NoneHeld`: a
daemon that does not live holds no connection. `Childless`: a connection that
waits, or is not there yet, has no Child; it is shown of the abstract step, so
that no action is looked at twice.

`ExecSessionRefines_proofs` (from `ExecSessionAssumption`, on `IInv`):
`ImplementsTerminalSession`, of each session. Its invariant `Linked` says, of the client's
side, what `IInv` says of the Child's: who holds the master goes with the state of
the client and with the one descriptor that may be under way, a session that was
refused has no Child and no terminal, and the command exists as long as a Child
past its start or a terminal does. A step of another session is a stutter of this one
(`OthersStutter`).

`ClientRun_proofs` (from `ProtocolAssumption` and `ClientRunAssumption`): every
safety property of `client_run`, for any arguments, offers, texts, lines and
session time.

* `RequestReadBack`, `ListReadBack`: what the readers find in a message is what its
  builder put there, for strings of every length up to the limits. The offsets
  are sums of lengths, and each proof walks the cells of the payload once;
* `AskedWithinOffer` from `AskInv`: what is on the wire while the list is awaited
  is a list request and its answer; the daemon closes with its answer, so that
  until the client connects again nobody can change either; and from the check
  on, what was read is the offer. `NothingSent` is where a stale answer would
  show.
* `RequestFaithful` and `RememberedInTime` from `ReqInv`: a password that goes
  with a run is the one `given` has for its pair, and so is each one in a
  session, with the expiry that its time implies. What waits in `typed` is
  texts, and the word that is read is the first of them (`WordRead`).
* `TerminalRestored` by itself, over every way out of a run.

`ConfigLoad_proofs` (from `ConfigLoadAssumption` and that of `PermCfg`): every
property of the five other loaders and their getters, for any files and any width
of int. The lines of a block file are of four kinds (`Passes`, `Opening`,
`Closing`, `Setting`), and `Within` says what is true between two: the loader is in
a block exactly if the file says so (`InsideBlock`), the block was opened by a line
of that name with no brace since, and the local variable is what its lines so far
make of it (`Result`). `SettingsFromOwnBlock` follows at the closing line.
`TimeoutOrigin` needs `LastValue`, which follows the one variable that is not reset
across blocks. `AbortsOnBadNumbers` needs that every line behind was good
(`GoodSoFar`). `SpellingKeepsTimeout` needs that a command matches itself, which
the assumption says of `Matches` and `isCommandMatch` makes true (`MatchesItself`).
`OtherSpellingsKeepTimeout` puts loader and matching together: where `Matches`
is `isCommandMatch` on the texts of some commands, `rm -rf`, `rm -fr` and `rm -r -f`
get the same timeout from any file of which no two entries match them. At the
end of that module, `RangesAreCircular`, from `TimesAssumption`: comparing two ends the
way the code does is comparing distances around a circle, of 1440 or of 7, where
24:00 stands for the last minute of a day as an end and for the first as a start;
and the first group that admits or throws decides.

`CommandMatch_proofs` (from `CommandAssumption`): `SpellingIrrelevant`, for
commands of any length and any `Canonical`. The result of `std::sort` is not
computed by recursion but characterised:

* `Less` is a strict total order on words (`LessIrreflexive`, `LessTransitive`,
  `LessTotal`), so that `Place` numbers the flags one to one (`RankBijection`);
* `FlagsSorted`: `Flags` is in ascending order and has each flag as often as the
  command has it;
* `SortUnique`: there is only one such sequence. `SpellingIrrelevant` is then a
  matter of saying which flag of one spelling is which of the other
  (`SwappedFlags`, `TurnedFlags`, `ApartFlags`). A group with a further dash is not
  among the spellings: `-a-` turned around is `--a`, and `-a-b` taken apart has
  `--b`, which are kept as they are, like any long option.

Checked with TLC only: the liveness properties (`EveryConnectionServed`,
`StopHonoured`, `ZombiesReaped`, `RootSessionEnds`, `ChildGoneClientReleased`,
`DaemonAwaitedBriefly`), because fairness and ENABLED are out of the provers'
reach. Every other property of a passing run is a theorem.

## 5. Not modelled

* `receiveMessage`, `receiveMessageWithFd`, `sendFd`, `handleClient`,
  `authenticateUser`, `forkChild`, `isTargetUserAllowed`, `isAuthUserAllowed`,
  `deserializeMessage`, `invalidateSession`: called by nothing;
  `parseErrorResponse` only fills a text that is printed (`isTimeAllowed` is
  called by nothing either, but is modelled, as the loader behind it is);
* the helpers of `utils.cpp` for files, directories, accounts and random
  strings, which keep no state of the program;
* `permupd -d` (`permupd/main.cpp`: fork, setsid, the standard descriptors closed):
  the daemon that starts after it is the same, but for its descriptors' numbers;
* the command line's getopt and messages; permup-gui, which is not in the
  repository; PAM, which no code calls.

## 6. Plan

Done, in this order: `EventLoop` (everything else depends on the daemon being
there), `ExecSession` (the core of the program), `PermCfg` (who may do what),
their runs and the proofs of their safety properties; then the abstract
specifications of the first two, `ConfigLoad` with `CommandMatch` and
`TimeRanges`, `Protocol` and `ClientRun`; then the proofs that the abstract
specifications are implemented, and those about the client, the loaders and the
matching of commands.

Left: process ids, for the `kill` that follows a reaped command; and a response
larger than the socket's buffer, to a client that does not read.
