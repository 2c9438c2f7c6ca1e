---------------------------- MODULE ExecSession ----------------------------
(***************************************************************************)
(* An execute request from the moment permup reconnects to the moment its  *)
(* terminal closes: the client (permup/client.cpp), the daemon's handler   *)
(* (permupd/daemon.cpp), the Child it forks to supervise the command       *)
(* (permupd/child.cpp), and the command itself on the slave side of a      *)
(* pseudo-terminal.  Four processes for each session, that meet only in a  *)
(* socket, a terminal and signals.                                         *)
(*                                                                         *)
(* Kept: who holds which end of the socket and of the terminal (an end of  *)
(* file is the last holder letting go), the order of what two processes    *)
(* write to one socket, who reads the command's output, signals and what   *)
(* they interrupt.  Abstracted: bytes of messages, terminal modes, time.   *)
(* The daemon's loop, here only its handler, is the module EventLoop.      *)
(***************************************************************************)
EXTENDS Naturals, Sequences, FiniteSets, SequencesExt

CONSTANTS
    Sessions,       \* the execute requests
    Auths,          \* the -h users to consider, of {"root", "user"}
    MaxOut,         \* bound: the chunks of output a command writes
    SigpipeFatal    \* SIGPIPE kills (started from a shell) or is ignored

ASSUME ExecSessionAssumption ==
    /\ Auths \subseteq {"root", "user"}
    /\ MaxOut \in Nat /\ SigpipeFatal \in BOOLEAN
    /\ Sessions \cap {"idle", "dead", "queue", "daemon"} = {}

VARIABLES
    auth,       \* authUser: isRoot(authUser) or not
    cl,         \* where the client is
    result,     \* how its run ended
    chan,       \* what the daemon and the Child wrote and it has not read
    ends,       \* who was given the other end of its connection
    dm,         \* the daemon: "idle", "dead", or forked for a session
    sockfile,   \* the socket file exists
    sup,        \* where the Child is
    chld,       \* SIGCHLD is pending for the Child
    cmd,        \* the command's process
    term,       \* SIGTERM is pending for the command
    master,     \* holders of the master: "sup", "client", "msg" (in flight)
    slave,      \* holders of the slave: "sup", "cmd"
    produced,   \* all the command has written to the terminal
    out,        \* the part nobody has read
    swallowed,  \* the part checkShellPatterns read
    shown       \* the part the client copied to its standard output

clientVars == <<cl, result>>
daemonVars == <<dm, sockfile>>
ptyVars    == <<master, slave>>
outVars    == <<produced, out, swallowed, shown>>
vars == <<auth, clientVars, chan, ends, daemonVars, sup, chld, cmd, term,
          ptyVars, outVars>>

Kinds == {"text", "nul", "prompt"} \* text with none of both, a NUL, a pattern

Set(f, s, v) == [f EXCEPT ![s] = v]
Add(f, s, x) == [f EXCEPT ![s] = @ \cup {x}]
Del(f, s, x) == [f EXCEPT ![s] = @ \ {x}]

Init ==
    /\ auth \in [Sessions -> Auths]
    /\ cl = [s \in Sessions |-> "idle"] /\ result = [s \in Sessions |-> "none"]
    /\ chan = [s \in Sessions |-> <<>>] /\ ends = [s \in Sessions |-> {}]
    /\ dm = "idle" /\ sockfile = TRUE
    /\ sup = [s \in Sessions |-> "none"] /\ chld = [s \in Sessions |-> FALSE]
    /\ cmd = [s \in Sessions |-> "none"] /\ term = [s \in Sessions |-> FALSE]
    /\ master = [s \in Sessions |-> {}] /\ slave = [s \in Sessions |-> {}]
    /\ produced = [s \in Sessions |-> <<>>] /\ out = [s \in Sessions |-> <<>>]
    /\ swallowed = [s \in Sessions |-> <<>>] /\ shown = [s \in Sessions |-> <<>>]
-----------------------------------------------------------------------------
(* A process that the daemon forks has a copy of every descriptor, the      *)
(* listening socket included: the Child to its end, the command's process  *)
(* to its execl.                                                           *)
SupAlive(s) == sup[s] \notin {"none", "exited"}
Holding(t)  == SupAlive(t) \/ cmd[t] = "preexec"
Listening   == dm # "dead" \/ \E t \in Sessions : Holding(t)

(* Somebody has the other end open, the socket that queues it included. *)
Held(s) ==
    \/ "daemon" \in ends[s]
    \/ "queue" \in ends[s] /\ Listening
    \/ \E t \in Sessions : t \in ends[s] /\ Holding(t)
-----------------------------------------------------------------------------
(* The client: Client::executeCommand and Client::handlePty. *)

(* connect asks for no daemon: a Child's copy of the socket queues as well. *)
Request(s) ==
    /\ cl[s] = "idle" /\ sockfile /\ Listening
    /\ cl' = Set(cl, s, "wait") /\ ends' = Set(ends, s, {"queue"})
    /\ UNCHANGED <<auth, result, chan, daemonVars, sup, chld, cmd, term, ptyVars,
                   outVars>>

(* The client's process ends; a descriptor on its way to it is closed. *)
ClientEnds(s, how) ==
    /\ cl' = Set(cl, s, "done") /\ result' = Set(result, s, how)
    /\ chan' = Set(chan, s, <<>>)
    /\ master' = [master EXCEPT ![s] = @ \ {"client", "msg"}]
    /\ UNCHANGED <<auth, ends, daemonVars, sup, chld, cmd, term, slave>>

CannotConnect(s) ==
    /\ cl[s] = "idle" /\ ~(sockfile /\ Listening)
    /\ ClientEnds(s, "failed") /\ UNCHANGED outVars

Eof(s) == chan[s] = <<>> /\ ~Held(s)

(* poll gives up after 5000 ms without an answer. *)
PollTimeout(s) ==
    /\ cl[s] = "wait" /\ chan[s] = <<>>
    /\ ClientEnds(s, "failed") /\ UNCHANGED outVars

(* The header is read with read(): should the byte that carries the        *)
(* descriptor come first, it is taken for the first byte of the header and *)
(* the descriptor is lost.                                                 *)
ReadResponse(s) ==
    /\ cl[s] = "wait" /\ chan[s] # <<>>
    /\ \/ /\ Head(chan[s]) = "resp"
          /\ cl' = Set(cl, s, "fd") /\ chan' = [chan EXCEPT ![s] = Tail(@)]
          /\ UNCHANGED <<auth, result, ends, daemonVars, sup, chld, cmd, term,
                         ptyVars>>
       \/ Head(chan[s]) = "err" /\ ClientEnds(s, "denied")
       \/ /\ Head(chan[s]) = "fd"
          /\ cl' = Set(cl, s, "shifted") /\ chan' = [chan EXCEPT ![s] = Tail(@)]
          /\ master' = Del(master, s, "msg")
          /\ UNCHANGED <<auth, result, ends, daemonVars, sup, chld, cmd, term,
                         slave>>
    /\ UNCHANGED outVars

(* The rest of the header makes no magic number. *)
ReadShifted(s) ==
    /\ cl[s] = "shifted" /\ chan[s] # <<>>
    /\ ClientEnds(s, "failed") /\ UNCHANGED outVars

ReceivePty(s) ==
    /\ cl[s] = "fd" /\ chan[s] # <<>> /\ Head(chan[s]) = "fd"
    /\ cl' = Set(cl, s, "pty") /\ chan' = [chan EXCEPT ![s] = Tail(@)]
    /\ master' = [master EXCEPT ![s] = (@ \ {"msg"}) \cup {"client"}]
    /\ UNCHANGED <<auth, result, ends, daemonVars, sup, chld, cmd, term, slave,
                   outVars>>

ReadEof(s) ==
    /\ cl[s] \in {"wait", "shifted", "fd"} /\ Eof(s)
    /\ ClientEnds(s, "failed") /\ UNCHANGED outVars

ShowFirstChunk(s) == \* mutant: what the buffer holds beyond the first is lost
    /\ cl[s] = "pty" /\ out[s] # <<>>
    /\ shown' = [shown EXCEPT ![s] = Append(@, Head(out[s]))]
    /\ out' = Set(out, s, <<>>)
    /\ UNCHANGED <<auth, clientVars, chan, ends, daemonVars, sup, chld, cmd, term,
                   ptyVars, produced, swallowed>>

(* A read takes some of the output that waits, as much as its buffer holds. *)
ShowOutput(s) ==
    /\ cl[s] = "pty"
    /\ \E n \in 1..Len(out[s]) :
        /\ shown' = [shown EXCEPT ![s] = @ \o SubSeq(out[s], 1, n)]
        /\ out' = [out EXCEPT ![s] = SubSeq(@, n + 1, Len(@))]
    /\ UNCHANGED <<auth, clientVars, chan, ends, daemonVars, sup, chld, cmd, term,
                   ptyVars, produced, swallowed>>

ShowEndAtHangup(s) == \* mutant: the hangup is looked at before the output
    /\ cl[s] = "pty" /\ slave[s] = {}
    /\ ClientEnds(s, "ended") /\ UNCHANGED outVars

(* read fails once the last holder of the slave is gone. *)
ShowEnd(s) ==
    /\ cl[s] = "pty" /\ out[s] = <<>> /\ slave[s] = {}
    /\ ClientEnds(s, "ended") /\ UNCHANGED outVars

(* End of file on standard input, a signal, a closed terminal window. *)
Quit(s) ==
    /\ cl[s] \in {"wait", "shifted", "fd", "pty"}
    /\ ClientEnds(s, "quit") /\ UNCHANGED outVars
-----------------------------------------------------------------------------
(* The daemon. *)

(* accept4, and the poll that finds the request and no hangup. *)
Accept(s) ==
    /\ dm = "idle" /\ "queue" \in ends[s] /\ cl[s] # "done"
    /\ ends' = Set(ends, s, {"daemon"})
    /\ UNCHANGED <<auth, clientVars, chan, daemonVars, sup, chld, cmd, term,
                   ptyVars, outVars>>

(* A client that left before that poll: POLLHUP, and nothing is read. *)
AcceptHungUp(s) ==
    /\ dm = "idle" /\ "queue" \in ends[s] /\ cl[s] = "done"
    /\ ends' = Set(ends, s, {})
    /\ UNCHANGED <<auth, clientVars, chan, daemonVars, sup, chld, cmd, term,
                   ptyVars, outVars>>

DaemonWritesOnly(s, answer) == \* mutant: no close after the answer
    /\ chan' = IF cl[s] = "done" THEN chan ELSE [chan EXCEPT ![s] = Append(@, answer)]
    /\ dm' = "idle" /\ UNCHANGED ends

(* Write an answer and close.  A client that is gone costs an EPIPE, or    *)
(* the daemon.  What is queued stays while a copy of the socket does.      *)
DaemonWrites(s, answer) ==
    \/ /\ cl[s] # "done"
       /\ chan' = [chan EXCEPT ![s] = Append(@, answer)]
       /\ ends' = Del(ends, s, "daemon") /\ dm' = "idle"
    \/ /\ cl[s] = "done" /\ ~SigpipeFatal
       /\ ends' = Del(ends, s, "daemon") /\ dm' = "idle" /\ UNCHANGED chan
    \/ /\ cl[s] = "done" /\ SigpipeFatal
       /\ ends' = [t \in Sessions |-> ends[t] \ {"daemon"}]
       /\ dm' = "dead" /\ UNCHANGED chan

Requested(s) == dm = "idle" /\ "daemon" \in ends[s]

WrongAnswer == "list" \* mutant: a message of another type
ErrorAnswer == "err"

(* isCommandAllowed says no; with -h root it is not asked. *)
Deny(s) ==
    /\ Requested(s) /\ auth[s] # "root" /\ DaemonWrites(s, ErrorAnswer)
    /\ UNCHANGED <<auth, clientVars, sockfile, sup, chld, cmd, term, ptyVars,
                   outVars>>

(* The Child inherits every connection that the daemon has open. *)
Fork(s) ==
    /\ Requested(s) /\ dm' = s /\ sup' = Set(sup, s, "setup")
    /\ ends' = [t \in Sessions |->
                    IF "daemon" \in ends[t] THEN ends[t] \cup {s} ELSE ends[t]]
    /\ UNCHANGED <<auth, clientVars, chan, sockfile, chld, cmd, term, ptyVars,
                   outVars>>

ForkFails(s) ==
    /\ Requested(s) /\ ends' = Del(ends, s, "daemon")
    /\ UNCHANGED <<auth, clientVars, chan, daemonVars, sup, chld, cmd, term,
                   ptyVars, outVars>>

AnswerExecute(s) ==
    /\ dm = s /\ DaemonWrites(s, "resp")
    /\ UNCHANGED <<auth, clientVars, sockfile, sup, chld, cmd, term, ptyVars,
                   outVars>>
-----------------------------------------------------------------------------
(* The Child: Child::run.  It started with the daemon's signal handlers,   *)
(* so SIGCHLD reaps the command behind its back, and interrupts select but *)
(* not, with SA_RESTART, read.                                             *)

(* cleanup, and exit.  init reaps what the Child did not. *)
ChildExits(s) ==
    /\ sup' = Set(sup, s, "exited")
    /\ master' = Del(master, s, "sup") /\ slave' = Del(slave, s, "sup")
    /\ UNCHANGED ends
    /\ cmd' = [cmd EXCEPT ![s] = IF @ = "exited" THEN "reaped" ELSE @]
    /\ chld' = Set(chld, s, FALSE)

(* kill(commandPid_, SIGTERM): of no effect on a command that has exited. *)
Kill(s) ==
    term' = IF cmd[s] \in {"preexec", "running"} THEN Set(term, s, TRUE) ELSE term

SetupPty(s) ==
    /\ sup[s] = "setup" /\ sup' = Set(sup, s, "fork")
    /\ master' = Set(master, s, {"sup"}) /\ slave' = Set(slave, s, {"sup"})
    /\ UNCHANGED <<auth, clientVars, chan, ends, daemonVars, chld, cmd, term,
                   outVars>>

(* openpty or fork fails: the Child exits without a word to the client. *)
SetupFails(s) ==
    /\ sup[s] \in {"setup", "fork"} /\ ChildExits(s)
    /\ UNCHANGED <<auth, clientVars, chan, daemonVars, term, outVars>>

ForkCommandCheckAll(s) == \* mutant: the check is made for root as well
    /\ sup[s] = "fork" /\ sup' = Set(sup, s, "check")
    /\ cmd' = Set(cmd, s, "preexec") /\ slave' = Add(slave, s, "cmd")
    /\ UNCHANGED <<auth, clientVars, chan, ends, daemonVars, chld, term, master,
                   outVars>>

(* The command's process starts as a copy of the Child.  Without -h root   *)
(* the Child sleeps 800 ms and then checks for a shell's prompt.           *)
ForkCommand(s) ==
    /\ sup[s] = "fork"
    /\ sup' = Set(sup, s, IF auth[s] = "root" THEN "send" ELSE "check")
    /\ cmd' = Set(cmd, s, "preexec") /\ slave' = Add(slave, s, "cmd")
    /\ UNCHANGED <<auth, clientVars, chan, ends, daemonVars, chld, term, master,
                   outVars>>

NoPromptSeen(chunks) == FALSE \* mutant: no pattern is looked for

(* std::string output(buffer) ends at the first NUL. *)
ShowsPrompt(chunks) ==
    \E k \in 1..Len(chunks) :
        /\ chunks[k].kind = "prompt"
        /\ \A j \in 1..(k - 1) : chunks[j].kind # "nul"

CheckWithoutWaiting(s) == \* mutant: a read that does not wait for output
    /\ sup[s] = "check" /\ out[s] = <<>> /\ sup' = Set(sup, s, "send")
    /\ UNCHANGED <<auth, clientVars, chan, ends, daemonVars, chld, cmd, term,
                   ptyVars, outVars>>

(* One blocking read of the master.  What is read is not passed on.  The   *)
(* Child holds the slave as well, so that the read never fails: without    *)
(* output it does not return, not even when the command is gone.           *)
CheckShellPatterns(s) ==
    /\ sup[s] = "check"
    /\ \E n \in 1..Len(out[s]) :
        /\ swallowed' = Set(swallowed, s, SubSeq(out[s], 1, n))
        /\ out' = [out EXCEPT ![s] = SubSeq(@, n + 1, Len(@))]
        /\ \/ /\ ~ShowsPrompt(swallowed'[s])
              /\ sup' = Set(sup, s, "send")
              /\ UNCHANGED <<ends, cmd, chld, term, ptyVars>>
           \/ /\ ShowsPrompt(swallowed'[s])
              /\ Kill(s) /\ ChildExits(s)
    /\ UNCHANGED <<auth, clientVars, chan, daemonVars, produced, shown>>

SendPtyToClient(s) ==
    /\ sup[s] = "send"
    /\ \/ /\ cl[s] # "done"
          /\ chan' = [chan EXCEPT ![s] = Append(@, "fd")]
          /\ master' = Add(master, s, "msg") /\ sup' = Set(sup, s, "select")
          /\ UNCHANGED <<ends, cmd, chld, term, slave>>
       \/ /\ cl[s] = "done" /\ ~SigpipeFatal
          /\ Kill(s) /\ ChildExits(s) /\ UNCHANGED chan
       \/ /\ cl[s] = "done" /\ SigpipeFatal
          /\ ChildExits(s) /\ UNCHANGED <<chan, term>>
    /\ UNCHANGED <<auth, clientVars, daemonVars, outVars>>

(* handleTimeout.  The client never writes to the socket, so select sees   *)
(* only its end of file.                                                   *)
SelectReadable(s) ==
    /\ sup[s] = "select" /\ cl[s] = "done" /\ sup' = Set(sup, s, "reap")
    /\ UNCHANGED <<auth, clientVars, chan, ends, daemonVars, chld, cmd, term,
                   ptyVars, outVars>>

SelectForever(s) == FALSE \* mutant: select without a timeout

(* A timeout of nothing, or a negative one, expires (or fails) at once. *)
SelectTimeout(s) ==
    /\ sup[s] = "select" /\ cl[s] # "done"
    /\ Kill(s) /\ ChildExits(s)
    /\ UNCHANGED <<auth, clientVars, chan, daemonVars, outVars>>

(* The handler reaps the command, select fails with EINTR, and kill is     *)
(* sent to a process id that is no longer the command's.                   *)
SelectInterrupted(s) ==
    /\ sup[s] = "select" /\ chld[s] /\ ChildExits(s)
    /\ UNCHANGED <<auth, clientVars, chan, daemonVars, term, outVars>>

(* Anywhere else the handler reaps, and what it interrupts goes on. *)
Sigchld(s) ==
    /\ SupAlive(s) /\ sup[s] # "select" /\ chld[s]
    /\ chld' = Set(chld, s, FALSE) /\ cmd' = Set(cmd, s, "reaped")
    /\ UNCHANGED <<auth, clientVars, chan, ends, daemonVars, sup, term, ptyVars,
                   outVars>>

(* waitpid without a limit; ECHILD when the handler was first. *)
WaitCommand(s) ==
    /\ sup[s] = "reap" /\ cmd[s] \in {"exited", "reaped"} /\ ChildExits(s)
    /\ UNCHANGED <<auth, clientVars, chan, daemonVars, term, outVars>>
-----------------------------------------------------------------------------
(* The command: Child::executeCommand, and the program it runs. *)

(* setsid, TIOCSCTTY, dup2, execl.  Between fork and execl the process     *)
(* still has the daemon's handlers and its copy of the daemon's memory.    *)
Exec(s) ==
    /\ cmd[s] = "preexec" /\ master[s] # {} /\ cmd' = Set(cmd, s, "running")
    /\ UNCHANGED <<auth, clientVars, chan, ends, daemonVars, sup, chld, term,
                   ptyVars, outVars>>

CommandEnds(s) ==
    /\ cmd' = Set(cmd, s, IF SupAlive(s) THEN "exited" ELSE "reaped")
    /\ chld' = Set(chld, s, SupAlive(s))
    /\ term' = Set(term, s, FALSE)
    /\ slave' = Del(slave, s, "cmd")
    /\ UNCHANGED <<auth, clientVars, chan, ends, daemonVars, sup, master, outVars>>

CommandExits(s) == cmd[s] = "running" /\ CommandEnds(s)

(* No master is left: TIOCSCTTY fails, or SIGHUP arrives. *)
Hangup(s) == cmd[s] \in {"preexec", "running"} /\ master[s] = {} /\ CommandEnds(s)

Terminated(s) == cmd[s] = "running" /\ term[s] /\ CommandEnds(s)

(* SIGTERM before execl runs Daemon::stop in the copy: the socket file is  *)
(* removed, and the command goes on.                                       *)
StopInCopy(s) ==
    /\ cmd[s] = "preexec" /\ term[s]
    /\ term' = Set(term, s, FALSE) /\ sockfile' = FALSE
    /\ UNCHANGED <<auth, clientVars, chan, ends, dm, sup, chld, cmd, ptyVars,
                   outVars>>

Write(s, kind) ==
    /\ cmd[s] = "running" /\ master[s] # {} /\ Len(produced[s]) < MaxOut
    /\ LET chunk == [n |-> Len(produced[s]) + 1, kind |-> kind] IN
        /\ produced' = [produced EXCEPT ![s] = Append(@, chunk)]
        /\ out' = [out EXCEPT ![s] = Append(@, chunk)]
    /\ UNCHANGED <<auth, clientVars, chan, ends, daemonVars, sup, chld, cmd, term,
                   ptyVars, swallowed, shown>>
-----------------------------------------------------------------------------
ClientStep(s) ==
    \/ Request(s) \/ CannotConnect(s) \/ PollTimeout(s) \/ ReadResponse(s)
    \/ ReadShifted(s) \/ ReceivePty(s) \/ ReadEof(s) \/ ShowOutput(s) \/ ShowEnd(s)
DaemonStep(s) ==
    \/ Accept(s) \/ AcceptHungUp(s)
    \/ Deny(s) \/ Fork(s) \/ ForkFails(s) \/ AnswerExecute(s)
ChildStep(s) ==
    \/ SetupPty(s) \/ SetupFails(s) \/ ForkCommand(s) \/ CheckShellPatterns(s)
    \/ SendPtyToClient(s) \/ SelectReadable(s) \/ SelectTimeout(s)
    \/ SelectInterrupted(s) \/ Sigchld(s) \/ WaitCommand(s)
KernelStep(s) == Exec(s) \/ Hangup(s) \/ Terminated(s) \/ StopInCopy(s)
CommandStep(s) == CommandExits(s) \/ \E k \in Kinds : Write(s, k)

Next ==
    \E s \in Sessions :
        ClientStep(s) \/ Quit(s) \/ DaemonStep(s) \/ ChildStep(s)
        \/ KernelStep(s) \/ CommandStep(s)

Spec == Init /\ [][Next]_vars

(* Every process runs, and its timers expire.  Nothing makes the command   *)
(* write or exit, or the user quit.                                        *)
Fairness ==
    \A s \in Sessions :
        /\ WF_vars(ClientStep(s)) /\ WF_vars(DaemonStep(s))
        /\ WF_vars(ChildStep(s)) /\ WF_vars(KernelStep(s))

FairSpec == Spec /\ Fairness
-----------------------------------------------------------------------------
(* Properties. *)

Chunk == [n : Nat, kind : Kinds]

TypeOK ==
    /\ auth \in [Sessions -> Auths]
    /\ cl \in [Sessions -> {"idle", "wait", "shifted", "fd", "pty", "done"}]
    /\ result \in [Sessions -> {"none", "failed", "denied", "ended", "quit"}]
    /\ chan \in [Sessions -> Seq({"resp", "err", "fd"})]
    /\ ends \in [Sessions -> SUBSET (Sessions \cup {"queue", "daemon"})]
    /\ dm \in Sessions \cup {"idle", "dead"} /\ sockfile \in BOOLEAN
    /\ sup \in [Sessions -> {"none", "setup", "fork", "check", "send", "select",
                             "reap", "exited"}]
    /\ chld \in [Sessions -> BOOLEAN] /\ term \in [Sessions -> BOOLEAN]
    /\ cmd \in [Sessions -> {"none", "preexec", "running", "exited", "reaped"}]
    /\ master \in [Sessions -> SUBSET {"sup", "client", "msg"}]
    /\ slave \in [Sessions -> SUBSET {"sup", "cmd"}]
    /\ produced \in [Sessions -> Seq(Chunk)] /\ out \in [Sessions -> Seq(Chunk)]
    /\ swallowed \in [Sessions -> Seq(Chunk)] /\ shown \in [Sessions -> Seq(Chunk)]

(* Without -h root the terminal leaves the Child (on its way, or arrived)  *)
(* only after the command has written something, and the part of it that   *)
(* was read shows no prompt before its first NUL.                          *)
ShellGate ==
    \A s \in Sessions :
        auth[s] # "root" /\ master[s] \cap {"msg", "client"} # {} =>
            /\ swallowed[s] # <<>>
            /\ \A k \in 1..Len(swallowed[s]) :
                  swallowed[s][k].kind = "prompt" =>
                      \E j \in 1..(k - 1) : swallowed[s][j].kind = "nul"

(* Child and client never compete for the command's output: what was       *)
(* swallowed, what was shown and what waits are the output, in its order.  *)
OutputInOrder ==
    \A s \in Sessions : produced[s] = swallowed[s] \o shown[s] \o out[s]

(* With -h root a client that stays to the end sees all of the output.     *)
RootOutputComplete ==
    \A s \in Sessions :
        auth[s] = "root" /\ result[s] = "ended" => shown[s] = produced[s]

(* Without -h root no SIGTERM reaches a command still running the daemon's *)
(* handlers, because the Child waits for output before it can kill.        *)
KillAfterExec ==
    \A s \in Sessions : auth[s] # "root" /\ cmd[s] = "preexec" => ~term[s]

(* What the user sees of the four processes.  The terminal is kept until   *)
(* the Child sends it, or gives up.                                        *)
Job(s) ==
    CASE cmd[s] = "none" -> "none"
      [] cmd[s] \in {"preexec", "running"} -> "live"
      [] OTHER -> "over"

Terminal(s) ==
    IF "client" \in master[s] THEN "held"
    ELSE IF "msg" \in master[s] THEN "sent"
    ELSE IF sup[s] \in {"select", "reap", "exited"} THEN "gone" ELSE "kept"

User(s) == INSTANCE TerminalSession WITH
    auth <- auth[s], result <- result[s], job <- Job(s), terminal <- Terminal(s),
    produced <- produced[s], out <- out[s],
    swallowed <- swallowed[s], shown <- shown[s]

(* Every session, whatever its processes' order and whatever the others    *)
(* do, is a TerminalSession (\A s : User(s)!Spec, in a form for TLC): a     *)
(* refused one runs no command, the terminal is handed over once and past  *)
(* the check, and one that ends of itself has shown its user all output    *)
(* that the check did not take.                                            *)
ImplementsTerminalSession ==
    /\ \A s \in Sessions : User(s)!Init
    /\ [][\A s \in Sessions : UNCHANGED User(s)!vars \/ User(s)!Next]_vars

(* The answer to an execute request comes before its terminal.  The code   *)
(* does not order the two writers: see the runs.                           *)
PtyReceived == \A s \in Sessions : cl[s] # "shifted"

(* A daemon that waits for requests has its socket file.  The code does    *)
(* not keep this: see the runs.                                            *)
SocketFileStays == dm = "idle" => sockfile

(* No SIGTERM for a command whose terminal the client has taken over.  The *)
(* code does not keep this: see the runs.                                  *)
AttachedNotKilled ==
    [][\A s \in Sessions :
        cl[s] = "pty" /\ cmd[s] = "running" => term'[s] = term[s]]_vars

Over(s) == cl[s] = "done" /\ sup[s] = "exited"

(* With -h root a command that is over ends the client's session, and the  *)
(* Child's, whichever of them the handler of SIGCHLD, the timeout and the  *)
(* end of file reach first.                                                *)
RootSessionEnds ==
    \A s \in Sessions :
        auth[s] = "root" /\ cmd[s] \in {"exited", "reaped"} ~> Over(s)

(* A command that is over ends its client's session, whoever asked.  The   *)
(* code does not keep this: see the runs.                                  *)
SessionEnds ==
    \A s \in Sessions : cmd[s] \in {"exited", "reaped"} ~> cl[s] = "done"

(* A Child that is gone leaves no client waiting: it is done, or has the   *)
(* terminal of a command that runs on, unless a process of another session *)
(* inherited the connection and has it still.                              *)
ChildGoneClientReleased ==
    \A s \in Sessions :
        sup[s] = "exited" ~>
            \/ cl[s] = "done"
            \/ cl[s] = "pty" /\ cmd[s] = "running"
            \/ \E t \in Sessions \ {s} : t \in ends[s] /\ Holding(t)
=============================================================================
