----------------------------- MODULE EventLoop -----------------------------
(***************************************************************************)
(* The event loop of permupd (permupd/daemon.cpp): one thread that polls   *)
(* the listening socket and every client descriptor, reads into a buffer   *)
(* per descriptor, and serves the request found there.                     *)
(*                                                                         *)
(* What is kept: the vector of poll entries and the order in which it is   *)
(* walked, the descriptor table with its lowest-free-number reuse, the     *)
(* buffers, which process holds which connection after a fork, signals,    *)
(* and the death and restart of the daemon.  What is abstracted: bytes.  A *)
(* client's stream is a sequence of segments; a request is complete when   *)
(* its last segment is in the buffer.                                      *)
(*                                                                         *)
(* A descriptor that a handler closed keeps its entry in the vector (the   *)
(* handlers call close but cannot reach the vector), so an entry may be    *)
(* stale, and two entries may name one descriptor once it is reused.       *)
(***************************************************************************)
EXTENDS Naturals, Sequences, FiniteSets, SequencesExt

CONSTANTS
    Conns,          \* the connections clients make, one each
    FDs,            \* the descriptor numbers the daemon can give to clients
    Scripts,        \* what a client may send: sequences of segments
    SigpipeFatal,   \* TRUE: SIGPIPE has its default action (started from a
                    \* shell); FALSE: it is ignored (a systemd service)
    MaxStarts,      \* bound: how often the init system starts the daemon
    MaxStops,       \* bound: how many SIGTERMs the administrator sends
    Free            \* not a connection

Kinds == {"list", "exec", "denied", "void"}

ASSUME EventLoopAssumption ==
    /\ FDs \subseteq Nat /\ IsFiniteSet(FDs)
    /\ Free \notin Conns
    /\ SigpipeFatal \in BOOLEAN
    /\ MaxStarts \in Nat /\ MaxStops \in Nat
    \* A request is a run of segments of one kind that ends with a last one.
    /\ \A s \in Scripts : s \in Seq([kind : Kinds, last : BOOLEAN])

VARIABLES
    pc,        \* where the daemon's thread is
    idx,       \* the loop index i over fds
    fds,       \* the vector of poll entries after fds[0]: [fd, re]
    acc,       \* fds[0].revents & POLLIN
    table,     \* the daemon's descriptor table: descriptor -> connection
    buf,       \* clientBuffers
    running,   \* Daemon::running_
    global,    \* globalDaemon is set
    sockfile,  \* the socket file exists
    chld,      \* SIGCHLD is pending for the daemon
    starts,    \* how often the daemon was started
    stops,     \* how many SIGTERMs were sent to it
    script,    \* per connection: the segments its client sends
    sent,      \* per connection: how many of them it has sent
    inq,       \* per connection: segments the daemon has not read yet
    cli,       \* per connection: the client's end, "none", "open", "closed"
    replies,   \* per connection: the answers written by the daemon
    kid,       \* per connection: the Child forked for it
    held,      \* per connection: the connections that Child holds open
    backlog,   \* connections waiting to be accepted
    listeners  \* the Children with a copy of the socket that the file names

loopVars   == <<idx, fds, acc>>
memVars    == <<table, buf>>
flagVars   == <<running, global, sockfile>>
countVars  == <<starts, stops>>
clientVars == <<script, sent, cli>>
vars == <<pc, loopVars, memVars, flagVars, chld, countVars,
          clientVars, inq, replies, kid, held, listeners, backlog>>

Alive  == pc \notin {"down", "exited", "killed"}
InLoop == pc \in {"top", "poll", "accept", "scan", "process", "forked"}
-----------------------------------------------------------------------------
Init ==
    /\ pc = "down" /\ idx = 1 /\ fds = <<>> /\ acc = FALSE
    /\ table = [f \in FDs |-> Free] /\ buf = [f \in FDs |-> <<>>]
    /\ running = FALSE /\ global = FALSE /\ sockfile = FALSE /\ chld = FALSE
    /\ starts = 0 /\ stops = 0
    /\ script \in [Conns -> Scripts]
    /\ sent = [c \in Conns |-> 0] /\ inq = [c \in Conns |-> <<>>]
    /\ cli = [c \in Conns |-> "none"] /\ replies = [c \in Conns |-> <<>>]
    /\ kid = [c \in Conns |-> "none"] /\ held = [c \in Conns |-> {}]
    /\ backlog = <<>> /\ listeners = {}
-----------------------------------------------------------------------------
(* Startup: main, Daemon::initialize, and the entry of Daemon::run. *)

Goto(label) == pc' = label

(* The init system starts permupd; createServer unlinks what is left of    *)
(* the socket file, binds and listens.                                     *)
Start ==
    /\ ~Alive /\ starts < MaxStarts
    /\ starts' = starts + 1
    /\ Goto("bound") /\ sockfile' = TRUE /\ listeners' = {}
    /\ UNCHANGED <<loopVars, memVars, running, global, chld, stops, clientVars,
                   inq, replies, kid, held, backlog>>

(* socket, bind or listen fails: main returns, and ~Daemon calls stop().   *)
StartFails ==
    /\ ~Alive /\ starts < MaxStarts
    /\ starts' = starts + 1
    /\ Goto("exited") /\ sockfile' = FALSE /\ listeners' = {}
    /\ UNCHANGED <<loopVars, memVars, running, global, chld, stops, clientVars,
                   inq, replies, kid, held, backlog>>

InstallHandlers ==
    /\ pc = "bound" /\ Goto("handlers")
    /\ UNCHANGED <<loopVars, memVars, flagVars, chld, countVars, clientVars,
                   inq, replies, kid, held, listeners, backlog>>

SetGlobal ==
    /\ pc = "handlers" /\ Goto("global") /\ global' = TRUE
    /\ UNCHANGED <<loopVars, memVars, running, sockfile, chld, countVars,
                   clientVars, inq, replies, kid, held, listeners, backlog>>

SetRunning ==
    /\ pc = "global" /\ Goto("top") /\ running' = TRUE
    /\ UNCHANGED <<loopVars, memVars, global, sockfile, chld, countVars,
                   clientVars, inq, replies, kid, held, listeners, backlog>>

(* What becomes of the children when their parent is gone: init inherits   *)
(* them, and reaps the dead ones.                                          *)
Inherit(k) ==
    [c \in Conns |-> CASE k[c] = "running" -> "orphan"
                       [] k[c] = "zombie"  -> "reaped"
                       [] OTHER            -> k[c]]

(* The listening socket is closed with backlog still in its queue.  The    *)
(* Children of this daemon inherited the socket, and what is queued hangs  *)
(* on it until the last of them exits.                                     *)
AbandonQueue ==
    /\ backlog' = <<>> /\ UNCHANGED listeners
    /\ held' = [c \in Conns |-> IF kid[c] = "running"
                               THEN held[c] \cup ToSet(backlog) ELSE held[c]]

(* The process is gone, and the kernel closes its descriptors. *)
Die(how) ==
    /\ Goto(how)
    /\ table' = [f \in FDs |-> Free] /\ buf' = [f \in FDs |-> <<>>]
    /\ fds' = <<>> /\ idx' = 1 /\ acc' = FALSE
    /\ running' = FALSE /\ global' = FALSE /\ chld' = FALSE
    /\ AbandonQueue /\ kid' = Inherit(kid)
    /\ UNCHANGED <<starts, clientVars, inq, replies>>
-----------------------------------------------------------------------------
(* Daemon::run *)

LoopTopWithoutTest == \* mutant: while (true)
    /\ pc = "top" /\ Goto("poll") /\ idx' = 1 /\ acc' = (backlog # <<>>)
    /\ UNCHANGED <<fds, memVars, flagVars, chld, countVars, clientVars, inq,
                   replies, kid, held, listeners, backlog>>

(* while (running_), and poll looking at fds[0]. *)
LoopTop ==
    /\ pc = "top" /\ running
    /\ Goto("poll") /\ idx' = 1
    /\ acc' = (backlog # <<>>)
    /\ UNCHANGED <<fds, memVars, flagVars, chld, countVars, clientVars, inq,
                   replies, kid, held, listeners, backlog>>

(* run returns; stop(), called once more by ~Daemon, has nothing left to   *)
(* remove.                                                                 *)
LoopExit ==
    /\ pc = "top" /\ ~running
    /\ Die("exited") /\ UNCHANGED <<sockfile, stops>>

(* What poll reports for a descriptor.  A closed descriptor gives          *)
(* POLLNVAL, which the loop never looks at; a peer that is gone gives      *)
(* POLLHUP, which it looks at first.                                       *)
Revents(fd) ==
    LET c == table[fd] IN
    CASE c = Free -> "nval"
      [] c # Free /\ cli[c] = "closed" -> "hup"
      [] c # Free /\ cli[c] # "closed" /\ inq[c] # <<>> -> "in"
      [] OTHER -> "none"

(* poll walks the entries one after another, so two entries for one        *)
(* descriptor may report differently.                                      *)
PollEntry ==
    /\ pc = "poll" /\ idx <= Len(fds)
    /\ fds' = [fds EXCEPT ![idx].re = Revents(fds[idx].fd)]
    /\ idx' = idx + 1
    /\ UNCHANGED <<pc, acc, memVars, flagVars, chld, countVars, clientVars, inq,
                   replies, kid, held, listeners, backlog>>

(* poll returns when some entry has an event; otherwise it sleeps, and a   *)
(* wakeup, the 1000 ms timeout and EINTR all lead back to the loop's test. *)
PollReturn ==
    /\ pc = "poll" /\ idx > Len(fds)
    /\ Goto(IF acc \/ \E k \in 1..Len(fds) : fds[k].re # "none"
            THEN "accept" ELSE "top")
    /\ UNCHANGED <<loopVars, memVars, flagVars, chld, countVars, clientVars,
                   inq, replies, kid, held, listeners, backlog>>

FreeFDs == {f \in FDs : table[f] = Free}
LowestFree(f) == f \in FreeFDs /\ \A g \in FreeFDs : f <= g

NewEntryUnset(f) == [fd |-> f, re |-> "unset"] \* mutant: revents not cleared
NewEntryReadable(f) == [fd |-> f, re |-> "in"] \* mutant: read at once
NewEntry(f) == [fd |-> f, re |-> "none"]

BufferKept(b, f) == b \* mutant: an old buffer is not replaced
BufferReset(b, f) == [b EXCEPT ![f] = <<>>]

(* accept4 fails when stop() has closed the listening socket or when no    *)
(* descriptor is left; the buffer of a reused number is replaced.          *)
Accept ==
    /\ pc = "accept" /\ Goto("scan") /\ idx' = 1
    /\ IF acc /\ running /\ backlog # <<>> /\ FreeFDs # {}
       THEN \E f \in FDs :
            /\ LowestFree(f)
            /\ table' = [table EXCEPT ![f] = Head(backlog)]
            /\ fds' = Append(fds, NewEntry(f))
            /\ buf' = BufferReset(buf, f)
            /\ backlog' = Tail(backlog)
       ELSE UNCHANGED <<table, fds, buf, backlog>>
    /\ UNCHANGED <<acc, flagVars, chld, countVars, clientVars, inq, replies,
                   kid, held, listeners>>

Entry == fds[idx]
Scanning(re) == pc = "scan" /\ idx <= Len(fds) /\ Entry.re = re

ScanDone ==
    /\ pc = "scan" /\ idx > Len(fds) /\ Goto("top")
    /\ UNCHANGED <<loopVars, memVars, flagVars, chld, countVars, clientVars,
                   inq, replies, kid, held, listeners, backlog>>

ScanSkip ==
    /\ Scanning("none") \/ Scanning("nval")
    /\ idx' = idx + 1
    /\ UNCHANGED <<pc, fds, acc, memVars, flagVars, chld, countVars, clientVars,
                   inq, replies, kid, held, listeners, backlog>>

LeftOpen(t, f) == t \* mutant: close is forgotten
(* Closing a descriptor that is already closed fails and changes nothing. *)
Closed(t, f) == [t EXCEPT ![f] = Free]

EraseLast(v, k) == RemoveAt(v, Len(v)) \* mutant: pop_back
Erase(v, k) == RemoveAt(v, k)

(* close, clientBuffers.erase, fds.erase; i is not advanced. *)
DropEntry ==
    /\ table' = Closed(table, Entry.fd)
    /\ buf' = [buf EXCEPT ![Entry.fd] = <<>>]
    /\ fds' = Erase(fds, idx)
    /\ UNCHANGED <<pc, idx, acc, flagVars, chld, countVars, clientVars, inq,
                   replies, kid, held, listeners, backlog>>

\* mutant: POLLNVAL is taken for a hangup
ScanHupOrNval == (Scanning("hup") \/ Scanning("nval")) /\ DropEntry
ScanHup == Scanning("hup") /\ DropEntry

(* read fails on a descriptor closed earlier in the same pass, and returns *)
(* 0 at end of file.                                                       *)
ReadFails(c) == c # Free => inq[c] = <<>> /\ cli[c] = "closed"

ScanReadFails == Scanning("in") /\ ReadFails(table[Entry.fd]) /\ DropEntry

(* read returns some of what is queued, at most 4096 bytes of it.  The     *)
(* descriptor is blocking: with nothing queued and the peer still there,   *)
(* no action of the daemon is enabled until the peer sends or leaves.      *)
ScanRead ==
    /\ Scanning("in") /\ table[Entry.fd] # Free
    /\ LET c == table[Entry.fd] IN
        \E n \in 1..Len(inq[c]) :
            /\ buf' = [buf EXCEPT ![Entry.fd] = @ \o SubSeq(inq[c], 1, n)]
            /\ inq' = [inq EXCEPT ![c] = SubSeq(@, n + 1, Len(@))]
    /\ Goto("process")
    /\ UNCHANGED <<loopVars, table, flagVars, chld, countVars, clientVars,
                   replies, kid, held, listeners, backlog>>
-----------------------------------------------------------------------------
(* Daemon::processClientData and the two request handlers. *)

(* Where the first complete message of a buffer ends; 0 without one. *)
MessageEnd(b) ==
    IF \E k \in 1..Len(b) : b[k].last
    THEN CHOOSE k \in 1..Len(b) : b[k].last /\ \A j \in 1..(k - 1) : ~b[j].last
    ELSE 0

Buffer == buf[Entry.fd]
Caller == table[Entry.fd]
Requested(kind) ==
    MessageEnd(Buffer) # 0 /\ Buffer[MessageEnd(Buffer)].kind = kind

NeedMore ==
    /\ pc = "process" /\ MessageEnd(Buffer) = 0
    /\ Goto("scan") /\ idx' = idx + 1
    /\ UNCHANGED <<fds, acc, memVars, flagVars, chld, countVars, clientVars, inq,
                   replies, kid, held, listeners, backlog>>

(* The message is taken off the buffer, the handler closes the descriptor, *)
(* and fcntl(fd, F_GETFD) tells processClientData to stop there.           *)
Rest == SubSeq(Buffer, MessageEnd(Buffer) + 1, Len(Buffer))

CloseWith(left) ==
    /\ table' = Closed(table, Entry.fd)
    /\ buf' = [buf EXCEPT ![Entry.fd] = left]
    /\ Goto("scan") /\ idx' = idx + 1
    /\ UNCHANGED <<fds, acc, flagVars, chld, countVars, clientVars, inq, kid,
                   held, listeners, backlog>>

HandlerCloses == CloseWith(Rest)

(* The write loop at the end of a handler, and the close after it.  To a   *)
(* peer that has closed, write raises SIGPIPE or fails with EPIPE.         *)
WriteAndClose(c, answer) ==
    \/ /\ cli[c] = "closed" /\ SigpipeFatal
       /\ Die("killed") /\ UNCHANGED <<sockfile, stops>>
    \/ /\ cli[c] = "closed" /\ ~SigpipeFatal
       /\ HandlerCloses /\ UNCHANGED replies
    \/ /\ cli[c] # "closed"
       /\ HandlerCloses /\ replies' = [replies EXCEPT ![c] = Append(@, answer)]

HandleListUsers ==
    pc = "process" /\ Requested("list") /\ WriteAndClose(Caller, "list")

HandleDenied ==
    pc = "process" /\ Requested("denied") /\ WriteAndClose(Caller, "denied")

VoidKeptOpen == \* mutant: return without close
    /\ pc = "process" /\ Requested("void")
    /\ buf' = [buf EXCEPT ![Entry.fd] = Rest] /\ Goto("scan") /\ idx' = idx + 1
    /\ UNCHANGED <<table, fds, acc, flagVars, chld, countVars, clientVars, inq,
                   replies, kid, held, listeners, backlog>>

(* Closed without an answer: a bad magic number, an oversized length, an   *)
(* unknown type, a malformed payload, a caller without a passwd entry.     *)
(* The first two are found before the message is taken off the buffer.     *)
HandleVoid ==
    /\ pc = "process" /\ Requested("void") /\ UNCHANGED replies
    /\ CloseWith(Rest) \/ CloseWith(Buffer)

(* An allowed execute request: fork.  The Child gets a copy of every       *)
(* descriptor of the daemon, and of the listening socket until stop().     *)
ForkChild ==
    /\ pc = "process" /\ Requested("exec") /\ Goto("forked")
    /\ kid' = [kid EXCEPT ![Caller] = "running"]
    /\ held' = [held EXCEPT ![Caller] = {table[f] : f \in FDs} \ {Free}]
    /\ listeners' = IF running THEN listeners \cup {Caller} ELSE listeners
    /\ UNCHANGED <<loopVars, memVars, flagVars, chld, countVars, clientVars, inq,
                   replies, backlog>>

\* mutant: -1 is taken for a process id, and answered
ForkFailureUnseen ==
    pc = "process" /\ Requested("exec") /\ WriteAndClose(Caller, "exec")
ForkFails ==
    pc = "process" /\ Requested("exec") /\ HandlerCloses /\ UNCHANGED replies

(* The parent's branch after a successful fork. *)
AnswerExecute == pc = "forked" /\ WriteAndClose(Caller, "exec")
-----------------------------------------------------------------------------
(* Signals.  A handler runs between two steps of the thread; SA_RESTART    *)
(* resumes a blocked read.                                                 *)

SocketFileKept == UNCHANGED sockfile \* mutant: no unlink
RemoveSocketFile == sockfile' = FALSE

(* Daemon::stop from the handler: the listening socket and its file go. *)
Stop ==
    /\ running' = FALSE /\ RemoveSocketFile /\ global' = FALSE
    /\ AbandonQueue
    /\ UNCHANGED <<pc, loopVars, memVars, chld, starts, clientVars, inq,
                   replies, kid>>

(* SIGTERM: the default action kills before sigaction; a handler that runs *)
(* before globalDaemon is set, or after stop() has reset it, does nothing. *)
Sigterm ==
    /\ Alive /\ stops < MaxStops /\ stops' = stops + 1
    /\ \/ pc = "bound" /\ Die("killed") /\ UNCHANGED sockfile
       \/ pc # "bound" /\ global /\ Stop
       \/ /\ pc # "bound" /\ ~global
          /\ UNCHANGED <<pc, loopVars, memVars, flagVars, chld, starts,
                         clientVars, inq, replies, kid, held, listeners, backlog>>

ReapOne(k) == \* mutant: one waitpid for each signal
    LET dead == {c \in Conns : k[c] = "zombie"} IN
    [c \in Conns |-> IF dead # {} /\ c = (CHOOSE d \in dead : TRUE)
                     THEN "reaped" ELSE k[c]]

(* SIGCHLD: reapChildren waits until nothing is left to wait for. *)
ReapChildren(k) == [c \in Conns |-> IF k[c] = "zombie" THEN "reaped" ELSE k[c]]

Sigchld ==
    /\ Alive /\ chld /\ chld' = FALSE
    /\ kid' = IF global THEN ReapChildren(kid) ELSE kid
    /\ UNCHANGED <<pc, loopVars, memVars, flagVars, countVars, clientVars, inq,
                   replies, held, listeners, backlog>>

(* A Child exits and its descriptors are closed.  The daemon that forked   *)
(* it gets SIGCHLD, of which at most one is pending.                       *)
KidExits(c) ==
    /\ kid[c] \in {"running", "orphan"}
    /\ kid' = [kid EXCEPT ![c] = IF @ = "running" THEN "zombie" ELSE "reaped"]
    /\ chld' = (chld \/ kid[c] = "running")
    /\ held' = [held EXCEPT ![c] = {}] /\ listeners' = listeners \ {c}
    /\ UNCHANGED <<pc, loopVars, memVars, flagVars, countVars, clientVars, inq,
                   replies, backlog>>
-----------------------------------------------------------------------------
(* The clients: any program that opens the socket. *)

(* connect finds the file and a socket behind it.  After a death that left *)
(* the file, the socket is there while a Child has a copy: the connection  *)
(* is queued, nobody accepts it, and it hangs on those copies.             *)
Connect(c) ==
    /\ cli[c] = "none" /\ sockfile
    /\ cli' = [cli EXCEPT ![c] = "open"]
    /\ \/ Alive /\ backlog' = Append(backlog, c) /\ UNCHANGED held
       \/ /\ ~Alive /\ listeners # {} /\ UNCHANGED backlog
          /\ held' = [d \in Conns |-> IF d \in listeners THEN held[d] \cup {c}
                                                       ELSE held[d]]
    /\ UNCHANGED <<pc, loopVars, memVars, flagVars, chld, countVars, script, sent,
                   inq, replies, kid, listeners>>

(* Somebody has the daemon's end of c: the listen queue, the daemon, or a  *)
(* Child that inherited it.                                                *)
ServerHolds(c) ==
    \/ c \in ToSet(backlog)
    \/ \E f \in FDs : table[f] = c
    \/ \E d \in Conns : c \in held[d]

Send(c) ==
    /\ cli[c] = "open" /\ sent[c] < Len(script[c]) /\ ServerHolds(c)
    /\ LET seg == script[c][sent[c] + 1] IN
        inq' = [inq EXCEPT ![c] = Append(@, [conn |-> c, kind |-> seg.kind,
                                             last |-> seg.last])]
    /\ sent' = [sent EXCEPT ![c] = @ + 1]
    /\ UNCHANGED <<pc, loopVars, memVars, flagVars, chld, countVars, script, cli,
                   replies, kid, held, listeners, backlog>>

(* The client is done, gives up after its own timeout, or is killed. *)
Leave(c) ==
    /\ cli[c] = "open"
    /\ cli' = [cli EXCEPT ![c] = "closed"]
    /\ UNCHANGED <<pc, loopVars, memVars, flagVars, chld, countVars, script, sent,
                   inq, replies, kid, held, listeners, backlog>>
-----------------------------------------------------------------------------
Startup == InstallHandlers \/ SetGlobal \/ SetRunning
Poll    == LoopTop \/ LoopExit \/ PollEntry \/ PollReturn \/ Accept
Scan    == ScanDone \/ ScanSkip \/ ScanHup \/ ScanReadFails \/ ScanRead
Serve   == \/ NeedMore \/ HandleListUsers \/ HandleDenied \/ HandleVoid
           \/ ForkChild \/ ForkFails \/ AnswerExecute
Daemon  == Startup \/ Poll \/ Scan \/ Serve

Next ==
    \/ Start \/ StartFails \/ Daemon \/ Sigterm \/ Sigchld
    \/ \E c \in Conns : KidExits(c) \/ Connect(c) \/ Send(c) \/ Leave(c)

Spec == Init /\ [][Next]_vars

(* The scheduler runs the daemon and delivers its signals. *)
DaemonFairness == WF_vars(Daemon) /\ WF_vars(Sigchld)

(* Clients that finish what they began to send, as sendMessage does. *)
ClientFairness == \A c \in Conns : WF_vars(Send(c))

DaemonSpec == Spec /\ DaemonFairness
FairSpec   == Spec /\ DaemonFairness /\ ClientFairness
-----------------------------------------------------------------------------
(* Properties. *)

Segment(c) == [conn : {c}, kind : Kinds, last : BOOLEAN]
Labels == {"down", "bound", "handlers", "global", "top", "poll", "accept",
           "scan", "process", "forked", "exited", "killed"}

TypeOK ==
    /\ pc \in Labels /\ idx \in Nat \ {0} /\ acc \in BOOLEAN
    /\ fds \in Seq([fd : FDs, re : {"none", "nval", "hup", "in"}])
    /\ table \in [FDs -> Conns \cup {Free}]
    /\ buf \in [FDs -> Seq(UNION {Segment(c) : c \in Conns})]
    /\ running \in BOOLEAN /\ global \in BOOLEAN
    /\ sockfile \in BOOLEAN /\ chld \in BOOLEAN
    /\ starts \in Nat /\ stops \in Nat
    /\ script \in [Conns -> Scripts] /\ sent \in [Conns -> Nat]
    /\ inq \in [Conns -> Seq(UNION {Segment(c) : c \in Conns})]
    /\ cli \in [Conns -> {"none", "open", "closed"}]
    /\ replies \in [Conns -> Seq(Kinds)]
    /\ kid \in [Conns -> {"none", "running", "zombie", "orphan", "reaped"}]
    /\ held \in [Conns -> SUBSET Conns]
    /\ backlog \in Seq(Conns) /\ listeners \subseteq Conns

(* The service that the daemon is for its clients.  A connection is        *)
(* waiting in the listen queue, or while a descriptor names it; once none  *)
(* does, it is over.                                                       *)
Status(c) ==
    CASE cli[c] = "none" -> "none"
      [] cli[c] # "none" /\ pc = "forked" /\ Caller = c -> "started"
      [] cli[c] # "none" /\ ~(pc = "forked" /\ Caller = c)
            /\ (c \in ToSet(backlog) \/ \E f \in FDs : table[f] = c) -> "waiting"
      [] OTHER -> "over"

Job(c) ==
    CASE kid[c] \in {"running", "orphan"} -> "running"
      [] kid[c] \in {"zombie", "reaped"}  -> "gone"
      [] OTHER -> "none"

Service == INSTANCE ReplyService WITH
    status <- [c \in Conns |-> Status(c)], job <- [c \in Conns |-> Job(c)],
    listening <- Alive /\ sockfile

(* The loop implements ReplyService: reused descriptor numbers, stale      *)
(* entries, split and pipelined requests, signals and deaths in the middle *)
(* of a request never show as a second answer, an answer to something the  *)
(* client did not ask first, a second command, or a connection given up    *)
(* for no reason.                                                          *)
ImplementsReplyService == Service!Spec

(* What is in the buffer of an open descriptor was sent on the connection  *)
(* that the descriptor names now, though numbers are reused and entries of *)
(* earlier connections are still walked: no client's bytes are taken for   *)
(* a request of another.                                                   *)
BufferOwnership ==
    \A f \in FDs : table[f] # Free =>
        \A k \in 1..Len(buf[f]) : buf[f][k].conn = table[f]

(* A read that waits for its client: the whole loop waits with it.         *)
Blocked ==
    /\ Scanning("in") /\ table[Entry.fd] # Free
    /\ inq[table[Entry.fd]] = <<>> /\ cli[table[Entry.fd]] # "closed"

(* It can only come from two entries with one number, of which the first   *)
(* has read what poll saw for the second: a stale entry and a new one.     *)
BlockedByDuplicate ==
    Blocked => \E k \in 1..(idx - 1) : fds[k].fd = Entry.fd

(* Every open client descriptor has an entry that poll looks at, so no     *)
(* connection is accepted and then forgotten.                              *)
Monitored ==
    \A f \in FDs : table[f] # Free => \E k \in 1..Len(fds) : fds[k].fd = f

(* The request a client made first. *)
FirstRequest(c) == script[c][MessageEnd(script[c])].kind

(* A connection carries one request: the client gets at most one answer,   *)
(* to the first request it sent, and a Child is forked for it only if that *)
(* was an execute request, however requests are split or pipelined.        *)
OneRequestServed ==
    \A c \in Conns :
        /\ Len(replies[c]) <= 1
        /\ replies[c] # <<>> => replies[c][1] = FirstRequest(c)
        /\ kid[c] # "none" => FirstRequest(c) = "exec"

(* An answer to an execute request follows the fork it reports. *)
AnswerMeansForked ==
    \A c \in Conns : "exec" \in ToSet(replies[c]) => kid[c] # "none"

(* While the daemon lives, it lets go of a connection only when the client *)
(* has left or its first request is complete: an entry left behind by a    *)
(* closed connection never takes down the new one on its number.           *)
NoFreshDrop ==
    [][\A f \in FDs : table[f] # Free /\ table'[f] # table[f] =>
        \/ cli[table[f]] = "closed"
        \/ MessageEnd(buf[f]) # 0
        \/ ~Alive']_vars

(* A daemon that exits by itself takes its socket file with it, so that no *)
(* client connects to a socket nobody listens on.                          *)
SocketFileGone == sockfile => Alive \/ pc = "killed"

Accepted(c) == \E f \in FDs : table[f] = c

(* Every connection that waits to be accepted, or is accepted, is let go   *)
(* of in the end.                                                          *)
EveryConnectionServed ==
    \A c \in Conns : (c \in ToSet(backlog) \/ Accepted(c))
                        ~> ~(c \in ToSet(backlog) \/ Accepted(c))

(* A SIGTERM taken by Daemon::stop ends the daemon. *)
StopHonoured == (InLoop /\ ~running) ~> ~Alive

(* No Child stays a zombie, though one SIGCHLD may stand for several.      *)
(* README.md, under Current Problems, has zombies "despite SIGCHLD         *)
(* handling"; the handling as it is leaves none that stays.                *)
ZombiesReaped == \A c \in Conns : (kid[c] = "zombie") ~> (kid[c] = "reaped")

(* Every complete request is taken up, however slowly other clients send:  *)
(* the parent returns to listening.  The code does not keep this: see the  *)
(* runs.                                                                   *)
NoHeadOfLineBlocking ==
    \A c \in Conns :
        (Accepted(c) /\ MessageEnd(inq[c]) # 0)
            ~> (~Accepted(c) \/ cli[c] = "closed" \/ MessageEnd(inq[c]) = 0)
=============================================================================
