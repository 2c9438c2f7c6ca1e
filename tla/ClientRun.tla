----------------------------- MODULE ClientRun -----------------------------
(***************************************************************************)
(* permup: Client::run (permup/client.cpp) from its first connection to    *)
(* the end of the command, with the SessionManager and the RateLimiter     *)
(* that a Client owns.  permup makes a Client per process and one run of   *)
(* it (main.cpp); the class allows more, and remembers passwords and       *)
(* failures only between the runs of one process, so here a process may    *)
(* make RunsPerProcess of them.                                            *)
(*                                                                         *)
(* The daemon is what its handlers do to one connection: it answers what   *)
(* it can read, closes, or dies.  EventLoop and ExecSession have the rest. *)
(* A clock of seconds goes on between any two steps.                       *)
(***************************************************************************)
EXTENDS Protocol

CONSTANTS
    Caller,         \* username_
    Arguments,      \* what main makes of the command line
    Lines,          \* what the user may type at once: the words of a line, or
                    \* NoText for the end of the input
    Offers,         \* what getAllowedTargetUsers and getAllowedAuthUsers give
    SessionTime,    \* getSessionTime
    Processes, RunsPerProcess, MaxClock,    \* bounds
    None

Argument == [target : Texts, auth : Texts, command : Texts, listOnly : BOOLEAN]
Offer == [targets : Seq(Texts), auths : Seq(Texts)]
Session == [password : Texts, expiresAt : Nat]
Typed == [password : Texts, at : Nat]

ASSUME ClientRunAssumption ==
    /\ Caller \in Texts /\ Lines \subseteq Seq(Texts) \ {<<>>}
    /\ Arguments \subseteq Argument /\ Offers \subseteq Offer
    /\ {SessionTime, MaxClock, Processes, RunsPerProcess} \subseteq Nat
    /\ None \notin Offer \cup Session \cup Typed

VARIABLES
    pc,             \* where Client::run is; "main" outside of it, "none" without a process
    processes, runs,
    args,           \* the parameters of run
    fd,             \* socket_: "closed", "open", or "hungup" by the daemon
    sent, answer,   \* what has been written on the connection, either way
    allowed,        \* allowedTargetUsers_, allowedAuthUsers_
    password,
    typed,          \* the words that wait in std::cin
    sessions,       \* SessionManager::sessions_, for Caller
    attempts, blockedUntil,  \* RateLimiter::states_[username_]
    terminal,       \* "cooked" or "raw"
    clock,
    offered,        \* what the daemon answered to this run's list request
    received,       \* the execute request that the daemon read
    given,          \* when this process was given its password for each pair
    interrupted     \* a signal has ended a process while its terminal was raw

socketVars == <<fd, sent, answer, offered, received>>
ownVars == <<allowed, sessions, attempts, blockedUntil, given>>
inputVars == <<password, typed>>
userVars == <<terminal, interrupted, clock>>
countVars == <<processes, runs, args>>
vars == <<pc, inputVars, socketVars, ownVars, userVars, countVars>>

Members(users) == {users[k] : k \in 1..Len(users)}
Pairs == {<<a.target, a.auth>> : a \in Arguments}
Pair == <<args.target, args.auth>>
Nobody == [targets |-> <<>>, auths |-> <<>>]

Init ==
    /\ pc = "none" /\ processes = 0 /\ runs = 0 /\ args \in Arguments
    /\ fd = "closed" /\ sent = <<>> /\ answer = <<>> /\ offered = None /\ received = None
    /\ allowed = Nobody /\ password = NoText /\ typed = <<>>
    /\ sessions = [p \in Pairs |-> None]
    /\ attempts = 0 /\ blockedUntil = 0 /\ given = [p \in Pairs |-> None]
    /\ terminal = "cooked" /\ interrupted = FALSE /\ clock = 0
-----------------------------------------------------------------------------
(* main, and the way out of it: nothing of a Client outlives its process.  *)
Ended ==
    /\ pc' = "none" /\ fd' = "closed" /\ sent' = <<>> /\ answer' = <<>>
    /\ password' = NoText /\ typed' = <<>> /\ allowed' = Nobody
    /\ sessions' = [p \in Pairs |-> None]
    /\ attempts' = 0 /\ blockedUntil' = 0 /\ given' = [p \in Pairs |-> None]
    /\ offered' = None /\ received' = None
    /\ UNCHANGED countVars

Invoke ==
    /\ pc = "none" /\ processes < Processes
    /\ pc' = "main" /\ processes' = processes + 1 /\ runs' = 0
    /\ UNCHANGED <<args, inputVars, socketVars, ownVars, userVars>>

(* The first thing that run does, with -l or without, is to connect.  -l   *)
(* on a Client that is connected already is left out.                      *)
Run(a) ==
    /\ pc = "main" /\ runs < RunsPerProcess /\ (a.listOnly => fd = "closed")
    /\ pc' = "connect" /\ runs' = runs + 1 /\ args' = a
    /\ offered' = None /\ received' = None /\ password' = NoText
    /\ UNCHANGED <<processes, typed, fd, sent, answer, ownVars, userVars>>

Exit == pc = "main" /\ runs > 0 /\ Ended /\ UNCHANGED userVars

Return == pc' = "main" /\ UNCHANGED countVars
-----------------------------------------------------------------------------
(* connectToDaemon: a new socket, whatever the old one was. *)
ConnectAt(here, next) ==
    /\ pc = here
    /\ \/ pc' = next /\ fd' = "open" /\ UNCHANGED countVars
       \/ Return /\ fd' = "closed"
    /\ sent' = <<>> /\ answer' = <<>> /\ received' = None
    /\ UNCHANGED <<inputVars, offered, ownVars, userVars>>

Connect == ConnectAt("connect", "list")
Reconnect == ConnectAt("reconnect", "execute")

Write(here, next, request) ==
    /\ pc = here /\ fd = "open"
    /\ pc' = next /\ sent' = request
    /\ UNCHANGED <<inputVars, fd, answer, offered, received, ownVars, userVars, countVars>>

SendListRequest == Write("list", "awaitList", buildListUsersRequest)
SendExecuteRequest ==
    Write("execute", "awaitExecute",
          buildExecuteRequest(args.target, args.auth, args.command, password))

(* A daemon that is gone before the request is written: SIGPIPE.  A        *)
(* request of no bytes is not written.                                     *)
BrokenPipe ==
    /\ fd = "hungup"
    /\ \/ pc = "list"
       \/ pc = "execute" /\ Length[password] <= MaxPasswordLen
    /\ Ended /\ UNCHANGED userVars

NothingToWrite ==
    /\ fd = "hungup" /\ pc = "execute" /\ Length[password] > MaxPasswordLen
    /\ pc' = "awaitExecute"
    /\ UNCHANGED <<inputVars, socketVars, ownVars, userVars, countVars>>

Awaiting == pc \in {"awaitList", "awaitExecute"}

PollForever == FALSE /\ UNCHANGED vars \* mutant: poll without a timeout
(* poll returns 0 after five seconds. *)
PollTimeout ==
    /\ Awaiting /\ fd = "open" /\ answer = <<>>
    /\ Return
    /\ UNCHANGED <<inputVars, socketVars, ownVars, userVars>>

(* The header and the payload, or an early end of file. *)
Acceptable ==
    /\ HasHeader(answer) /\ HasPayload(answer)
    /\ Header(answer).magic = MAGIC
    /\ Header(answer).length > 0 /\ Header(answer).length <= MaxLength

Readable == answer # <<>> \/ fd = "hungup"
AnswerIs(type) == Acceptable /\ Header(answer).type = type

ReadListAnswer ==
    /\ pc = "awaitList" /\ Readable /\ AnswerIs(LIST_USERS_RESPONSE)
    /\ LET users == parseListUsersResponse(Payload(answer)) IN
        /\ allowed' = [targets |-> users.targets, auths |-> users.auths]
        /\ pc' = IF ~users.ok \/ args.listOnly THEN "main" ELSE "check"
    /\ UNCHANGED <<inputVars, socketVars, sessions, attempts, blockedUntil, given,
                   userVars, countVars>>

(* A header that is begun is read to its end, without a timeout. *)
BadAnswer ==
    /\ Awaiting /\ (HasHeader(answer) \/ fd = "hungup")
    /\ \/ pc = "awaitList" /\ ~AnswerIs(LIST_USERS_RESPONSE)
       \/ /\ pc = "awaitExecute"
          /\ ~AnswerIs(EXECUTE_RESPONSE) /\ ~AnswerIs(ERROR_RESPONSE)
    /\ Return /\ UNCHANGED <<inputVars, socketVars, ownVars, userVars>>
-----------------------------------------------------------------------------
(* checkPermissions, checkRateLimit and getPassword. *)

EitherAllowed == \* mutant: || for &&
    \/ Caller = "root"
    \/ args.target \in Members(allowed.targets) \cup {"root"}
    \/ args.auth \in Members(allowed.auths) \cup {"root"}

Admitted ==
    \/ Caller = "root"
    \/ /\ args.target \in Members(allowed.targets) \cup {"root"}
       /\ args.auth \in Members(allowed.auths) \cup {"root"}

CheckPermissions ==
    /\ pc = "check" /\ pc' = IF Admitted THEN "limit" ELSE "main"
    /\ UNCHANGED <<inputVars, socketVars, ownVars, userVars, countVars>>

(* cleanupExpired, and then the question. *)
CheckLimit ==
    /\ pc = "limit"
    /\ LET over == blockedUntil > 0 /\ clock >= blockedUntil IN
        /\ attempts' = IF over THEN 0 ELSE attempts
        /\ blockedUntil' = IF over THEN 0 ELSE blockedUntil
        /\ pc' = IF blockedUntil' > clock THEN "main" ELSE "password"
    /\ UNCHANGED <<inputVars, socketVars, allowed, sessions, given, userVars, countVars>>

ValidAtTheEnd(session) == session # None /\ clock <= session.expiresAt \* mutant: <= for <
Valid(session) == session # None /\ clock < session.expiresAt

MayRemember == args.auth # "root" /\ Valid(sessions[Pair])

HasSession ==
    /\ pc = "password" /\ pc' = IF MayRemember THEN "remembered" ELSE "prompt"
    /\ UNCHANGED <<inputVars, socketVars, ownVars, userVars, countVars>>

(* The session is looked up again, and may have expired since. *)
GetRemembered ==
    /\ pc = "remembered"
    /\ IF Valid(sessions[Pair]) /\ sessions[Pair].password # NoText
       THEN password' = sessions[Pair].password /\ pc' = "reconnect"
       ELSE pc' = "prompt" /\ UNCHANGED password
    /\ UNCHANGED <<typed, socketVars, ownVars, userVars, countVars>>

(* storeSession, before the password is seen by anybody, and with it       *)
(* cleanupExpiredSessions.                                                 *)
StoreSession(p) ==
    LET stored == [sessions EXCEPT ![Pair] = [password |-> p, expiresAt |-> clock + SessionTime]]
    IN  sessions' = [q \in Pairs |-> IF Valid(stored[q]) THEN stored[q] ELSE None]

(* std::cin >> password: a word of what is left of an earlier line, or     *)
(* else the first of a new one.  The end of the input stays.               *)
Prompt(line) ==
    LET words == IF typed = <<>> THEN line ELSE typed
        p == Head(words)
    IN  /\ pc = "prompt" /\ password' = p
        /\ typed' = IF p = NoText THEN words ELSE Tail(words)
        /\ pc' = IF p = NoText THEN "main" ELSE "reconnect"
        /\ IF args.auth # "root" /\ SessionTime > 0 THEN StoreSession(p) ELSE UNCHANGED sessions
        /\ given' = [given EXCEPT ![Pair] = [password |-> p, at |-> clock]]
        /\ UNCHANGED <<socketVars, allowed, attempts, blockedUntil, userVars, countVars>>
-----------------------------------------------------------------------------
(* executeCommand, after its request, and handlePty. *)

CountTwice == attempts' = attempts + 2 /\ UNCHANGED blockedUntil \* mutant: no return
recordFailedAttempt == attempts' = attempts + 1 /\ UNCHANGED blockedUntil
resetAttempts == attempts' = 0 /\ blockedUntil' = 0

ReadRefusal ==
    /\ pc = "awaitExecute" /\ Readable /\ AnswerIs(ERROR_RESPONSE)
    /\ recordFailedAttempt /\ Return
    /\ UNCHANGED <<inputVars, socketVars, allowed, sessions, given, userVars>>

ReadExecuteAnswer ==
    /\ pc = "awaitExecute" /\ Readable /\ AnswerIs(EXECUTE_RESPONSE)
    /\ resetAttempts /\ pc' = "receive"
    /\ UNCHANGED <<inputVars, socketVars, allowed, sessions, given, userVars, countVars>>

(* recvmsg: the terminal comes with a byte of its own, or nothing does. *)
ReceivePty ==
    /\ pc = "receive" /\ pc' = "relay" /\ terminal' = "raw"
    /\ UNCHANGED <<inputVars, socketVars, ownVars, interrupted, clock, countVars>>

NoPty ==
    /\ pc = "receive" /\ Return
    /\ UNCHANGED <<inputVars, socketVars, ownVars, userVars>>

LeaveRaw == \* mutant: no tcsetattr at the end
    /\ pc = "relay" /\ Return
    /\ UNCHANGED <<inputVars, socketVars, ownVars, userVars>>

(* End of file on standard input or the terminal, or select fails. *)
RelayEnds ==
    /\ pc = "relay" /\ Return
    /\ terminal' = "cooked"
    /\ UNCHANGED <<inputVars, socketVars, ownVars, interrupted, clock>>

(* SIGINT and SIGTERM: the default action, and exit(1) from handlePty on.  *)
Signal ==
    /\ pc # "none" /\ Ended
    /\ interrupted' = (interrupted \/ terminal = "raw")
    /\ UNCHANGED <<terminal, clock>>

(* The next process finds the terminal as its user has put it. *)
Reset ==
    /\ pc = "none" /\ terminal = "raw" /\ terminal' = "cooked"
    /\ interrupted' = FALSE
    /\ UNCHANGED <<pc, inputVars, socketVars, ownVars, clock, countVars>>

Tick ==
    /\ clock < MaxClock /\ clock' = clock + 1
    /\ UNCHANGED <<pc, inputVars, socketVars, ownVars, terminal, interrupted, countVars>>
-----------------------------------------------------------------------------
(* The daemon: processClientData and its handlers, on this connection. *)
Serving == fd = "open" /\ answer = <<>> /\ HasHeader(sent) /\ HasPayload(sent)
Asked(type) == Serving /\ Header(sent).type = type
KeepClient == UNCHANGED <<pc, inputVars, sent, ownVars, userVars, countVars>>

(* A handler writes its answer and closes. *)
AnswerList(offer) ==
    /\ Asked(LIST_USERS_REQUEST)
    /\ offered' = offer
    /\ answer' = buildListUsersResponse(offer.targets, offer.auths)
    /\ fd' = "hungup" /\ KeepClient /\ UNCHANGED received

AnswerExecute ==
    /\ Asked(EXECUTE_REQUEST) /\ ExecuteRequestFits(Payload(sent))
    /\ received' = ReadExecuteRequest(Payload(sent))
    /\ answer' \in {buildErrorResponse(5, "no permission"), buildExecuteResponse(1, 0)}
    /\ fd' = "hungup" /\ KeepClient /\ UNCHANGED offered

(* The Child that is forked may send the byte that goes with the terminal  *)
(* before its parent answers.                                              *)
PtyByte == <<[kind |-> "byte", size |-> 1, value |-> 0]>>

ChildFirst ==
    /\ Asked(EXECUTE_REQUEST) /\ ExecuteRequestFits(Payload(sent))
    /\ received' = ReadExecuteRequest(Payload(sent))
    /\ answer' = PtyByte /\ KeepClient /\ UNCHANGED <<fd, offered>>

AnswerSecond ==
    /\ fd = "open" /\ answer = PtyByte
    /\ answer' = PtyByte \o buildExecuteResponse(1, 0)
    /\ fd' = "hungup" /\ KeepClient /\ UNCHANGED <<offered, received>>

(* It closes without an answer, or dies, and its Child ends. *)
HangUp ==
    /\ fd = "open" /\ fd' = "hungup"
    /\ KeepClient /\ UNCHANGED <<answer, offered, received>>
-----------------------------------------------------------------------------
ClientStep ==
    \/ Connect \/ SendListRequest \/ BrokenPipe \/ NothingToWrite \/ PollTimeout
    \/ ReadListAnswer \/ BadAnswer \/ CheckPermissions \/ CheckLimit
    \/ HasSession \/ GetRemembered
    \/ Reconnect \/ SendExecuteRequest \/ ReadRefusal \/ ReadExecuteAnswer

DaemonStep ==
    \/ AnswerExecute \/ ChildFirst \/ AnswerSecond \/ HangUp
    \/ \E offer \in Offers : AnswerList(offer)

(* The Child, the command and its terminal. *)
TerminalStep == ReceivePty \/ NoPty \/ RelayEnds

UserStep ==
    \/ Invoke \/ Exit \/ Signal \/ Reset
    \/ \E a \in Arguments : Run(a)
    \/ \E line \in Lines : Prompt(line)

Next == ClientStep \/ DaemonStep \/ TerminalStep \/ UserStep \/ Tick

(* The client goes on, and its timer expires.  Nothing is asked of the     *)
(* daemon, of the Child or of the user.                                    *)
Spec == Init /\ [][Next]_vars /\ WF_vars(ClientStep)
-----------------------------------------------------------------------------
(* Properties. *)

Locations == {"none", "main", "connect", "list", "awaitList", "check", "limit", "password",
              "remembered", "prompt", "reconnect", "execute", "awaitExecute", "receive",
              "relay"}

TypeOK ==
    /\ pc \in Locations /\ processes \in 0..Processes /\ runs \in 0..RunsPerProcess
    /\ args \in Arguments /\ fd \in {"closed", "open", "hungup"}
    /\ password \in Texts /\ typed \in Seq(Texts) /\ attempts \in 0..runs /\ blockedUntil \in Nat
    /\ sessions \in [Pairs -> Session \cup {None}]
    /\ given \in [Pairs -> Typed \cup {None}]
    /\ terminal \in {"cooked", "raw"} /\ clock \in 0..MaxClock
    /\ interrupted \in BOOLEAN /\ offered \in Offers \cup {None}

Sending == {"reconnect", "execute", "awaitExecute", "receive", "relay"}

(* What the daemon reads from the request is what the user has asked for   *)
(* in this run, no field cut or mixed with another, and the password is    *)
(* the one that was read last for this pair of users: one word, of the     *)
(* line typed then or, if words of an earlier line waited, the next of     *)
(* those.                                                                  *)
RequestFaithful ==
    (received # None /\ pc \in {"awaitExecute", "receive", "relay"}) =>
        /\ received = [target |-> args.target, auth |-> args.auth,
                       command |-> args.command, password |-> password]
        /\ received.password = given[Pair].password /\ received.password # NoText

(* A request is made only by root, or for users whom the daemon offered in *)
(* this run, or for root, whom checkPermissions admits always.  That is    *)
(* less than README.md, 3.1, allows: -h root does not skip the check of    *)
(* the target.                                                             *)
AskedWithinOffer ==
    pc \in Sending => \/ Caller = "root"
                      \/ /\ args.target \in Members(offered.targets) \cup {"root"}
                         /\ args.auth \in Members(offered.auths) \cup {"root"}

(* A password that is used without asking was read for the same pair of    *)
(* users, in the same process, less than SessionTime ago, and not for      *)
(* root: however the clock goes on between the two looks at the session.   *)
RememberedInTime ==
    [][(pc = "remembered" /\ pc' = "reconnect") =>
        /\ args.auth # "root" /\ given[Pair] # None
        /\ password' = given[Pair].password /\ clock < given[Pair].at + SessionTime]_vars

(* The terminal is raw only while the command runs, or after a signal has  *)
(* ended the client then: its handler calls exit.                          *)
TerminalRestored == terminal = "raw" => pc = "relay" \/ interrupted

(* No run waits for the daemon for ever: it returns, or comes to ask the   *)
(* user, or to wait for the terminal, whatever the daemon does or does not *)
(* answer, and even when it has been asked nothing; except in the middle   *)
(* of a header, which the Child's byte has begun and neither the daemon's  *)
(* answer nor the end of the Child finishes.                               *)
WaitsForOthers == {"none", "main", "prompt", "receive", "relay"}
InHeader == pc = "awaitExecute" /\ fd = "open" /\ answer # <<>> /\ ~HasHeader(answer)
DaemonAwaitedBriefly == pc \notin WaitsForOthers ~> pc \in WaitsForOthers \/ InHeader
=============================================================================
