------------------------- MODULE ExecSession_proofs -------------------------
(* Proofs about ExecSession, for every set of sessions and every amount of *)
(* output.                                                                 *)
EXTENDS ExecSession, SequenceTheorems, TLAPS

USE ExecSessionAssumption DEF Set, Add, Del

(***************************************************************************)
(* Type correctness, by the kind of step.                                  *)
(***************************************************************************)
LEMMA TypeInit == Init => TypeOK
<1> SUFFICES ASSUME Init PROVE TypeOK
  OBVIOUS
<1>1. chld \in [Sessions -> BOOLEAN] /\ term \in [Sessions -> BOOLEAN]
  BY Zenon DEF Init
<1>2. sockfile \in BOOLEAN
  BY Zenon DEF Init
<1>3. QED
  BY <1>1, <1>2 DEF Init, TypeOK

LEMMA TypeClientEnds ==
  ASSUME TypeOK, NEW s \in Sessions, NEW how \in {"failed", "denied", "ended", "quit"},
         ClientEnds(s, how), UNCHANGED outVars
  PROVE  TypeOK'
  BY DEF ClientEnds, TypeOK, outVars, daemonVars

LEMMA TypeClient ==
  ASSUME TypeOK, NEW s \in Sessions, ClientStep(s) \/ Quit(s)
  PROVE  TypeOK'
<1>1. CASE Request(s)
  BY <1>1 DEF Request, TypeOK, outVars, daemonVars, ptyVars
<1>2. CASE CannotConnect(s) \/ PollTimeout(s) \/ ReadShifted(s) \/ ReadEof(s)
           \/ ShowEnd(s) \/ Quit(s)
  BY <1>2, TypeClientEnds
  DEF CannotConnect, PollTimeout, ReadShifted, ReadEof, ShowEnd, Quit
<1>3. CASE ReadResponse(s)
  <2>1. Tail(chan[s]) \in Seq({"resp", "err", "fd"})
    BY <1>3 DEF ReadResponse, TypeOK
  <2>2. CASE ClientEnds(s, "denied")
    BY <1>3, <2>2, TypeClientEnds DEF ReadResponse
  <2>3. CASE /\ Head(chan[s]) = "resp"
             /\ cl' = [cl EXCEPT ![s] = "fd"] /\ chan' = [chan EXCEPT ![s] = Tail(@)]
             /\ UNCHANGED <<auth, result, ends, daemonVars, sup, chld, cmd, term, ptyVars>>
    BY <1>3, <2>1, <2>3 DEF ReadResponse, TypeOK, outVars, daemonVars, ptyVars
  <2>4. CASE /\ Head(chan[s]) = "fd"
             /\ cl' = [cl EXCEPT ![s] = "shifted"] /\ chan' = [chan EXCEPT ![s] = Tail(@)]
             /\ master' = [master EXCEPT ![s] = @ \ {"msg"}]
             /\ UNCHANGED <<auth, result, ends, daemonVars, sup, chld, cmd, term, slave>>
    BY <1>3, <2>1, <2>4 DEF ReadResponse, TypeOK, outVars, daemonVars
  <2>5. QED
    BY <1>3, <2>2, <2>3, <2>4 DEF ReadResponse
<1>4. CASE ReceivePty(s)
  <2>1. Tail(chan[s]) \in Seq({"resp", "err", "fd"})
    BY <1>4 DEF ReceivePty, TypeOK
  <2>2. QED
    BY <1>4, <2>1 DEF ReceivePty, TypeOK, outVars, daemonVars
<1>5. CASE ShowOutput(s)
  <2>1. PICK n \in 1..Len(out[s]) :
          /\ shown' = [shown EXCEPT ![s] = @ \o SubSeq(out[s], 1, n)]
          /\ out' = [out EXCEPT ![s] = SubSeq(@, n + 1, Len(@))]
    BY <1>5 DEF ShowOutput
  <2>2. SubSeq(out[s], 1, n) \in Seq(Chunk) /\ SubSeq(out[s], n + 1, Len(out[s])) \in Seq(Chunk)
    BY DEF TypeOK
  <2>3. shown' \in [Sessions -> Seq(Chunk)] /\ out' \in [Sessions -> Seq(Chunk)]
    BY <2>1, <2>2 DEF TypeOK
  <2>4. QED
    BY <1>5, <2>3 DEF ShowOutput, TypeOK, clientVars, daemonVars, ptyVars
<1>6. QED
  BY <1>1, <1>2, <1>3, <1>4, <1>5 DEF ClientStep

LEMMA TypeDaemonWrites ==
  ASSUME TypeOK, NEW s \in Sessions, NEW a \in {"resp", "err", "fd"}, DaemonWrites(s, a)
  PROVE  /\ chan' \in [Sessions -> Seq({"resp", "err", "fd"})]
         /\ ends' \in [Sessions -> SUBSET (Sessions \cup {"queue", "daemon"})]
         /\ dm' \in Sessions \cup {"idle", "dead"}
<1>1. Append(chan[s], a) \in Seq({"resp", "err", "fd"})
  BY DEF TypeOK
<1>2. CASE /\ chan' = [chan EXCEPT ![s] = Append(@, a)]
           /\ ends' = [ends EXCEPT ![s] = @ \ {"daemon"}] /\ dm' = "idle"
  BY <1>1, <1>2 DEF TypeOK
<1>3. CASE /\ ends' = [ends EXCEPT ![s] = @ \ {"daemon"}] /\ dm' = "idle"
           /\ UNCHANGED chan
  BY <1>3 DEF TypeOK
<1>4. CASE /\ ends' = [t \in Sessions |-> ends[t] \ {"daemon"}]
           /\ dm' = "dead" /\ UNCHANGED chan
  BY <1>4 DEF TypeOK
<1>5. QED
  BY <1>2, <1>3, <1>4 DEF DaemonWrites

LEMMA TypeDaemon ==
  ASSUME TypeOK, NEW s \in Sessions, DaemonStep(s)
  PROVE  TypeOK'
<1>1. CASE Accept(s)
  BY <1>1 DEF Accept, TypeOK, clientVars, daemonVars, ptyVars, outVars
<1>7. CASE AcceptHungUp(s)
  BY <1>7 DEF AcceptHungUp, TypeOK, clientVars, daemonVars, ptyVars, outVars
<1>4. CASE ForkFails(s)
  BY <1>4 DEF ForkFails, TypeOK, clientVars, daemonVars, ptyVars, outVars
<1>5. CASE Fork(s)
  <2>1. ends' \in [Sessions -> SUBSET (Sessions \cup {"queue", "daemon"})]
    BY <1>5 DEF Fork, TypeOK
  <2>2. QED
    BY <1>5, <2>1 DEF Fork, TypeOK, clientVars, ptyVars, outVars
<1>2. CASE Deny(s)
  BY <1>2, TypeDaemonWrites DEF Deny, ErrorAnswer, TypeOK, clientVars, ptyVars, outVars
<1>3. CASE AnswerExecute(s)
  BY <1>3, TypeDaemonWrites DEF AnswerExecute, TypeOK, clientVars, ptyVars, outVars
<1>6. QED
  BY <1>1, <1>2, <1>3, <1>4, <1>5, <1>7 DEF DaemonStep

(* A step that ends the Child, whatever else it does to the signal pending *)
(* for the command and to the output.                                      *)
LEMMA TypeChildExits ==
  ASSUME TypeOK, NEW s \in Sessions, ChildExits(s),
         UNCHANGED <<auth, clientVars, chan, daemonVars, produced, shown>>,
         Kill(s) \/ term' = term,
         swallowed' \in [Sessions -> Seq(Chunk)], out' \in [Sessions -> Seq(Chunk)]
  PROVE  TypeOK'
<1>1. chld' \in [Sessions -> BOOLEAN]
  BY DEF ChildExits, TypeOK
<1>8. term' \in [Sessions -> BOOLEAN]
  <2>1. term \in [Sessions -> BOOLEAN]
    BY DEF TypeOK
  <2>2. \A f \in [Sessions -> BOOLEAN] : [f EXCEPT ![s] = TRUE] \in [Sessions -> BOOLEAN]
    OBVIOUS
  <2>3. CASE Kill(s)
    <3>1. term' = [term EXCEPT ![s] = TRUE] \/ term' = term
      BY <2>3 DEF Kill
    <3>2. QED
      BY <2>1, <2>2, <3>1
  <2>4. QED
    BY <2>1, <2>3
<1>2. master' \in [Sessions -> SUBSET {"sup", "client", "msg"}]
      /\ slave' \in [Sessions -> SUBSET {"sup", "cmd"}]
  BY DEF ChildExits, TypeOK
<1>3. ends' \in [Sessions -> SUBSET (Sessions \cup {"queue", "daemon"})]
  BY DEF ChildExits, TypeOK
<1>4. cmd' \in [Sessions -> {"none", "preexec", "running", "exited", "reaped"}]
  BY DEF ChildExits, TypeOK
<1>5. sup' \in [Sessions -> {"none", "setup", "fork", "check", "send", "select",
                             "reap", "exited"}]
  BY DEF ChildExits, TypeOK
<1>6. /\ auth' \in [Sessions -> Auths]
      /\ cl' \in [Sessions -> {"idle", "wait", "shifted", "fd", "pty", "done"}]
      /\ result' \in [Sessions -> {"none", "failed", "denied", "ended", "quit"}]
      /\ chan' \in [Sessions -> Seq({"resp", "err", "fd"})]
      /\ dm' \in Sessions \cup {"idle", "dead"} /\ sockfile' \in BOOLEAN
      /\ produced' \in [Sessions -> Seq(Chunk)] /\ shown' \in [Sessions -> Seq(Chunk)]
  BY DEF TypeOK, clientVars, daemonVars
<1>7. QED
  BY <1>1, <1>2, <1>3, <1>4, <1>5, <1>6, <1>8 DEF TypeOK

LEMMA TypeChild ==
  ASSUME TypeOK, NEW s \in Sessions, ChildStep(s)
  PROVE  TypeOK'
<1>1. CASE SetupPty(s)
  BY <1>1 DEF SetupPty, TypeOK, clientVars, daemonVars, outVars
<1>2. CASE SetupFails(s)
  BY <1>2, TypeChildExits DEF SetupFails, TypeOK, outVars
<1>3. CASE ForkCommand(s)
  BY <1>3 DEF ForkCommand, TypeOK, clientVars, daemonVars, outVars
<1>4. CASE CheckShellPatterns(s)
  <2>1. PICK n \in 1..Len(out[s]) :
          /\ swallowed' = [swallowed EXCEPT ![s] = SubSeq(out[s], 1, n)]
          /\ out' = [out EXCEPT ![s] = SubSeq(@, n + 1, Len(@))]
          /\ \/ /\ sup' = [sup EXCEPT ![s] = "send"]
                /\ UNCHANGED <<ends, cmd, chld, term, ptyVars>>
             \/ Kill(s) /\ ChildExits(s)
    BY <1>4 DEF CheckShellPatterns
  <2>2. SubSeq(out[s], 1, n) \in Seq(Chunk) /\ SubSeq(out[s], n + 1, Len(out[s])) \in Seq(Chunk)
    BY DEF TypeOK
  <2>3. /\ swallowed' \in [Sessions -> Seq(Chunk)] /\ out' \in [Sessions -> Seq(Chunk)]
        /\ UNCHANGED <<auth, clientVars, chan, daemonVars, produced, shown>>
    BY <1>4, <2>1, <2>2 DEF CheckShellPatterns, TypeOK
  <2>4. CASE /\ sup' = [sup EXCEPT ![s] = "send"]
             /\ UNCHANGED <<ends, cmd, chld, term, ptyVars>>
    BY <2>3, <2>4 DEF TypeOK, clientVars, daemonVars, ptyVars
  <2>5. CASE Kill(s) /\ ChildExits(s)
    BY <2>3, <2>5, TypeChildExits
  <2>6. QED
    BY <2>1, <2>4, <2>5
<1>5. CASE SendPtyToClient(s)
  <2>1. UNCHANGED <<auth, clientVars, daemonVars, outVars>>
    BY <1>5 DEF SendPtyToClient
  <2>2. CASE /\ chan' = [chan EXCEPT ![s] = Append(@, "fd")]
             /\ master' = [master EXCEPT ![s] = @ \cup {"msg"}]
             /\ sup' = [sup EXCEPT ![s] = "select"]
             /\ UNCHANGED <<ends, cmd, chld, term, slave>>
    <3>1. Append(chan[s], "fd") \in Seq({"resp", "err", "fd"})
      BY DEF TypeOK
    <3>2. QED
      BY <2>1, <2>2, <3>1 DEF TypeOK, clientVars, daemonVars, outVars
  <2>3. CASE Kill(s) /\ ChildExits(s) /\ UNCHANGED chan
    BY <2>1, <2>3, TypeChildExits DEF TypeOK, outVars
  <2>4. CASE ChildExits(s) /\ UNCHANGED <<chan, term>>
    BY <2>1, <2>4, TypeChildExits DEF TypeOK, outVars
  <2>5. QED
    BY <1>5, <2>2, <2>3, <2>4 DEF SendPtyToClient
<1>6. CASE SelectReadable(s)
  BY <1>6 DEF SelectReadable, TypeOK, clientVars, daemonVars, ptyVars, outVars
<1>7. CASE SelectTimeout(s)
  BY <1>7, TypeChildExits DEF SelectTimeout, TypeOK, outVars
<1>8. CASE SelectInterrupted(s) \/ WaitCommand(s)
  <2>1. ChildExits(s) /\ UNCHANGED <<auth, clientVars, chan, daemonVars, term, outVars>>
    BY <1>8 DEF SelectInterrupted, WaitCommand
  <2>2. QED
    BY <2>1, TypeChildExits DEF TypeOK, outVars
<1>9. CASE Sigchld(s)
  BY <1>9 DEF Sigchld, TypeOK, clientVars, daemonVars, ptyVars, outVars
<1>10. QED
  BY <1>1, <1>2, <1>3, <1>4, <1>5, <1>6, <1>7, <1>8, <1>9 DEF ChildStep

LEMMA TypeCommandEnds ==
  ASSUME TypeOK, NEW s \in Sessions, CommandEnds(s)
  PROVE  TypeOK'
<1>1. chld' \in [Sessions -> BOOLEAN] /\ term' \in [Sessions -> BOOLEAN]
  BY DEF CommandEnds, SupAlive, TypeOK
<1>2. QED
  BY <1>1 DEF CommandEnds, TypeOK, clientVars, daemonVars, outVars

LEMMA TypeCommand ==
  ASSUME TypeOK, NEW s \in Sessions, KernelStep(s) \/ CommandStep(s)
  PROVE  TypeOK'
<1>1. CASE Exec(s)
  BY <1>1 DEF Exec, TypeOK, clientVars, daemonVars, ptyVars, outVars
<1>2. CASE CommandExits(s) \/ Hangup(s) \/ Terminated(s)
  BY <1>2, TypeCommandEnds DEF CommandExits, Hangup, Terminated
<1>3. CASE StopInCopy(s)
  BY <1>3 DEF StopInCopy, TypeOK, clientVars, ptyVars, outVars
<1>4. ASSUME NEW kind \in Kinds, Write(s, kind)
      PROVE  TypeOK'
  <2> DEFINE chunk == [n |-> Len(produced[s]) + 1, kind |-> kind]
  <2>1. chunk \in Chunk
    BY DEF TypeOK, Chunk
  <2>2. Append(produced[s], chunk) \in Seq(Chunk) /\ Append(out[s], chunk) \in Seq(Chunk)
    BY <2>1 DEF TypeOK
  <2>3. /\ produced' = [produced EXCEPT ![s] = Append(@, chunk)]
        /\ out' = [out EXCEPT ![s] = Append(@, chunk)]
    BY <1>4 DEF Write
  <2> HIDE DEF chunk
  <2>4. produced' \in [Sessions -> Seq(Chunk)] /\ out' \in [Sessions -> Seq(Chunk)]
    BY <2>2, <2>3 DEF TypeOK
  <2>5. QED
    BY <1>4, <2>4 DEF Write, TypeOK, clientVars, daemonVars, ptyVars
<1>5. QED
  BY <1>1, <1>2, <1>3, <1>4 DEF KernelStep, CommandStep

LEMMA TypeStep == TypeOK /\ [Next]_vars => TypeOK'
<1> SUFFICES ASSUME TypeOK, [Next]_vars PROVE TypeOK'
  OBVIOUS
<1>1. CASE Next
  BY <1>1, TypeClient, TypeDaemon, TypeChild, TypeCommand DEF Next
<1>2. CASE UNCHANGED vars
  BY <1>2 DEF vars, TypeOK, clientVars, daemonVars, ptyVars, outVars
<1>3. QED
  BY <1>1, <1>2

(* Type correctness of a session's four processes and what is between      *)
(* them, for every number of sessions.                                     *)
THEOREM TypeCorrect == Spec => []TypeOK
  BY TypeInit, TypeStep, PTL DEF Spec
-----------------------------------------------------------------------------
(***************************************************************************)
(* The inductive invariant, by session.                                    *)
(***************************************************************************)

(* A request is served once: a connection that is queued, or accepted and  *)
(* not yet forked for, has no Child.                                       *)
ServedOnce(s) ==
    /\ cl[s] = "idle" => sup[s] = "none" /\ ends[s] = {}
    /\ "queue" \in ends[s] => sup[s] = "none"
    /\ "daemon" \in ends[s] => "queue" \notin ends[s]
    /\ "daemon" \in ends[s] /\ dm # s => sup[s] = "none"
    /\ dm = s => "daemon" \in ends[s]

InFlight(s) == \E k \in 1..Len(chan[s]) : chan[s][k] = "fd"

(* The terminal has left the Child, or did once. *)
PtyLeft(s) ==
    \/ cl[s] = "pty" \/ result[s] = "ended" \/ InFlight(s) \/ shown[s] # <<>>
    \/ master[s] \cap {"msg", "client"} # {}

NoPrompt(s) ==
    swallowed[s] # <<>> /\ ~ShowsPrompt(swallowed[s])

(* What each phase of the Child has and has not done. *)
Phases(s) ==
    /\ sup[s] \in {"none", "setup", "fork"} => cmd[s] = "none" /\ ~term[s] /\ ~chld[s]
    /\ sup[s] \in {"none", "setup", "fork", "check"} => swallowed[s] = <<>>
    /\ PtyLeft(s) => sup[s] \in {"select", "reap", "exited"}
    /\ auth[s] = "root" => sup[s] # "check" /\ swallowed[s] = <<>>
    /\ auth[s] # "root" /\ sup[s] \in {"send", "select", "reap"} => NoPrompt(s)
    /\ auth[s] # "root" /\ PtyLeft(s) => NoPrompt(s)

CommandState(s) ==
    /\ produced[s] # <<>> => cmd[s] \notin {"none", "preexec"}
    /\ auth[s] # "root" /\ cmd[s] = "preexec" => ~term[s]
    /\ cmd[s] \in {"preexec", "running"} => "cmd" \in slave[s]
    /\ result[s] = "ended" => out[s] = <<>> /\ cmd[s] \notin {"preexec", "running"}

InOrder(s) == produced[s] = swallowed[s] \o shown[s] \o out[s]

SessionInv(s) == ServedOnce(s) /\ Phases(s) /\ CommandState(s) /\ InOrder(s)
IInv == \A s \in Sessions : SessionInv(s)

(* A step of one session leaves the others as they are, but for the        *)
(* connections that end with the daemon or a Child.                        *)
Untouched(s) ==
    /\ auth'[s] = auth[s] /\ cl'[s] = cl[s] /\ result'[s] = result[s]
    /\ chan'[s] = chan[s] /\ sup'[s] = sup[s] /\ chld'[s] = chld[s]
    /\ cmd'[s] = cmd[s] /\ term'[s] = term[s] /\ master'[s] = master[s]
    /\ slave'[s] = slave[s] /\ produced'[s] = produced[s] /\ out'[s] = out[s]
    /\ swallowed'[s] = swallowed[s] /\ shown'[s] = shown[s]

EndsUntouched(s) ==
    /\ dm = s <=> dm' = s
    /\ ends[s] = {} => ends'[s] = {}
    /\ "queue" \in ends'[s] => "queue" \in ends[s]
    /\ "daemon" \in ends'[s] => "daemon" \in ends[s]
    /\ dm' = s /\ "daemon" \in ends[s] => "daemon" \in ends'[s]

LEMMA OtherSession ==
  ASSUME NEW s \in Sessions, SessionInv(s), Untouched(s), EndsUntouched(s)
  PROVE  SessionInv(s)'
<1>1. ServedOnce(s)'
  BY DEF SessionInv, ServedOnce, Untouched, EndsUntouched
<1>2. Phases(s)' /\ CommandState(s)' /\ InOrder(s)'
  BY DEF SessionInv, Phases, PtyLeft, InFlight, NoPrompt, CommandState, InOrder, Untouched
<1>3. QED
  BY <1>1, <1>2 DEF SessionInv

LEMMA InvInit == Init => IInv
<1> SUFFICES ASSUME Init, NEW s \in Sessions PROVE SessionInv(s)
  BY DEF IInv
<1>1. <<>> \o <<>> \o <<>> = <<>>
  OBVIOUS
<1>2. ~PtyLeft(s)
  BY DEF Init, PtyLeft, InFlight
<1>3. QED
  BY <1>1, <1>2
  DEF Init, SessionInv, ServedOnce, Phases, CommandState, InOrder

-----------------------------------------------------------------------------
(* Steps of the client. *)

LEMMA ClientEndsInv ==
  ASSUME TypeOK, NEW s \in Sessions, SessionInv(s), NEW how, ClientEnds(s, how), UNCHANGED outVars,
         how = "ended" => cl[s] = "pty" /\ out[s] = <<>> /\ slave[s] = {}
  PROVE  SessionInv(s)'
<1>1. ServedOnce(s)'
  BY DEF ClientEnds, TypeOK, SessionInv, ServedOnce, daemonVars
<1>2. ~InFlight(s)'
  BY DEF ClientEnds, TypeOK, InFlight
<1>3. PtyLeft(s)' => PtyLeft(s)
  BY <1>2 DEF ClientEnds, TypeOK, PtyLeft, outVars
<1>4. Phases(s)'
  BY <1>3 DEF ClientEnds, TypeOK, SessionInv, Phases, NoPrompt, outVars
<1>5. CommandState(s)' /\ InOrder(s)'
  BY DEF ClientEnds, TypeOK, SessionInv, CommandState, InOrder, outVars
<1>6. QED
  BY <1>1, <1>4, <1>5 DEF SessionInv

(* What is left of a socket's messages after the first. *)
LEMMA TailInFlight ==
  ASSUME TypeOK, NEW s \in Sessions, chan[s] # <<>>,
         chan' = [chan EXCEPT ![s] = Tail(@)], InFlight(s)'
  PROVE  InFlight(s)
<1>1. chan'[s] = Tail(chan[s]) /\ chan[s] \in Seq({"resp", "err", "fd"})
  BY DEF TypeOK
<1>2. PICK k \in 1..Len(Tail(chan[s])) : Tail(chan[s])[k] = "fd"
  BY <1>1 DEF InFlight
<1>3. k + 1 \in 1..Len(chan[s]) /\ chan[s][k + 1] = "fd"
  BY <1>1, <1>2
<1>4. QED
  BY <1>3 DEF InFlight

LEMMA HeadInFlight ==
  ASSUME TypeOK, NEW s \in Sessions, chan[s] # <<>>, Head(chan[s]) = "fd"
  PROVE  InFlight(s)
<1>1. chan[s] \in Seq({"resp", "err", "fd"}) /\ 1 \in 1..Len(chan[s])
  BY DEF TypeOK
<1>2. chan[s][1] = "fd"
  BY <1>1
<1>3. QED
  BY <1>1, <1>2 DEF InFlight

LEMMA ShowOutputInv ==
  ASSUME TypeOK, NEW s \in Sessions, SessionInv(s), ShowOutput(s)
  PROVE  SessionInv(s)'
<1>1. PICK n \in 1..Len(out[s]) :
        /\ shown' = [shown EXCEPT ![s] = @ \o SubSeq(out[s], 1, n)]
        /\ out' = [out EXCEPT ![s] = SubSeq(@, n + 1, Len(@))]
  BY DEF ShowOutput
<1>2. /\ cl[s] = "pty"
      /\ UNCHANGED <<auth, cl, result, chan, ends, dm, sockfile, sup, chld, cmd, term,
                     master, slave, produced, swallowed>>
  BY DEF ShowOutput, clientVars, daemonVars, ptyVars
<1>3. out[s] \in Seq(Chunk) /\ shown[s] \in Seq(Chunk) /\ swallowed[s] \in Seq(Chunk)
  BY DEF TypeOK
<1>4. /\ shown'[s] = shown[s] \o SubSeq(out[s], 1, n)
      /\ out'[s] = SubSeq(out[s], n + 1, Len(out[s]))
  BY <1>1 DEF TypeOK
<1>5. InOrder(s)' \* output that moves from out to shown keeps its place
  <2> DEFINE a == swallowed[s]
             b == shown[s]
             p == SubSeq(out[s], 1, n)
             q == SubSeq(out[s], n + 1, Len(out[s]))
             bp == b \o p
  <2>1. p \in Seq(Chunk) /\ q \in Seq(Chunk) /\ a \in Seq(Chunk) /\ b \in Seq(Chunk)
    BY <1>3
  <2>2. p \o q = out[s]
    BY <1>3, ConcatAdjacentSubSeq, SubSeqFull
  <2>3. shown'[s] = b \o p /\ out'[s] = q
    BY <1>4
  <2> HIDE DEF a, b, p, q
  <2>4. bp \in Seq(Chunk)
    BY <2>1
  <2>5. bp \o q = b \o (p \o q)
    BY <2>1, SMTT(30)
  <2> HIDE DEF bp
  <2>6. (a \o bp) \o q = a \o (bp \o q)
    BY <2>1, <2>4, SMTT(30)
  <2>7. a \o (b \o out[s]) = (a \o b) \o out[s]
    <3> DEFINE o == out[s]
    <3>1. o \in Seq(Chunk)
      BY <1>3
    <3> HIDE DEF o
    <3>2. a \o (b \o o) = (a \o b) \o o
      BY <2>1, <3>1, SMTT(30)
    <3>3. QED
      BY <3>2 DEF o
  <2>8. a \o bp \o q = a \o b \o out[s]
    BY <2>2, <2>5, <2>6, <2>7
  <2>9. QED
    BY <1>2, <2>3, <2>8 DEF SessionInv, InOrder, a, b, bp
<1>6. PtyLeft(s)
  BY <1>2 DEF PtyLeft
<1>7. ServedOnce(s)' /\ Phases(s)'
  BY <1>2, <1>6 DEF SessionInv, ServedOnce, Phases, NoPrompt
<1>8. out[s] # <<>>
  BY <1>1, <1>3
<1>9. CommandState(s)'
  BY <1>2, <1>8 DEF SessionInv, CommandState
<1>10. QED
  BY <1>5, <1>7, <1>9 DEF SessionInv

LEMMA ClientInv ==
  ASSUME TypeOK, NEW s \in Sessions, SessionInv(s), ClientStep(s) \/ Quit(s)
  PROVE  SessionInv(s)'
<1>1. CASE Request(s)
  <2>1. PtyLeft(s)' => PtyLeft(s)
    BY <1>1 DEF Request, PtyLeft, InFlight, TypeOK, ptyVars, outVars
  <2>2. Phases(s)' /\ CommandState(s)' /\ InOrder(s)'
    BY <1>1, <2>1 DEF Request, SessionInv, Phases, NoPrompt, CommandState, InOrder,
                      ptyVars, outVars
  <2>3. ServedOnce(s)'
    BY <1>1 DEF Request, SessionInv, ServedOnce, TypeOK, daemonVars
  <2>4. QED
    BY <2>2, <2>3 DEF SessionInv
<1>2. CASE CannotConnect(s) \/ PollTimeout(s) \/ ReadShifted(s) \/ ReadEof(s)
           \/ Quit(s)
  <2>1. PICK how \in {"failed", "quit"} : ClientEnds(s, how) /\ UNCHANGED outVars
    BY <1>2 DEF CannotConnect, PollTimeout, ReadShifted, ReadEof, Quit
  <2>2. QED
    BY <2>1, ClientEndsInv
<1>3. CASE ShowEnd(s)
  BY <1>3, ClientEndsInv DEF ShowEnd
<1>4. CASE ReadResponse(s)
  <2>1. CASE ClientEnds(s, "denied")
    BY <1>4, <2>1, ClientEndsInv DEF ReadResponse
  <2>2. CASE /\ cl' = [cl EXCEPT ![s] = "fd"] /\ chan' = [chan EXCEPT ![s] = Tail(@)]
             /\ UNCHANGED <<auth, result, ends, daemonVars, sup, chld, cmd, term, ptyVars>>
    <3>1. cl'[s] = "fd" /\ chan[s] # <<>> /\ UNCHANGED <<master, outVars>>
      BY <1>4, <2>2 DEF ReadResponse, TypeOK, ptyVars
    <3>2. PtyLeft(s)' => PtyLeft(s)
      BY <2>2, <3>1, TailInFlight DEF PtyLeft, outVars
    <3>3. QED
      BY <2>2, <3>1, <3>2
      DEF SessionInv, ServedOnce, Phases, NoPrompt, CommandState, InOrder,
          daemonVars, ptyVars, outVars
  <2>3. CASE /\ cl' = [cl EXCEPT ![s] = "shifted"] /\ chan' = [chan EXCEPT ![s] = Tail(@)]
             /\ master' = [master EXCEPT ![s] = @ \ {"msg"}]
             /\ UNCHANGED <<auth, result, ends, daemonVars, sup, chld, cmd, term, slave>>
    <3>1. /\ cl'[s] = "shifted" /\ chan[s] # <<>> /\ UNCHANGED outVars
          /\ master'[s] = master[s] \ {"msg"}
      BY <1>4, <2>3 DEF ReadResponse, TypeOK
    <3>2. PtyLeft(s)' => PtyLeft(s)
      BY <2>3, <3>1, TailInFlight DEF PtyLeft, outVars
    <3>3. QED
      BY <2>3, <3>1, <3>2
      DEF SessionInv, ServedOnce, Phases, NoPrompt, CommandState, InOrder,
          daemonVars, outVars
  <2>4. QED
    BY <1>4, <2>1, <2>2, <2>3 DEF ReadResponse
<1>5. CASE ReceivePty(s)
  <2>1. PtyLeft(s)
    BY <1>5, HeadInFlight DEF ReceivePty, PtyLeft
  <2>2. cl'[s] = "pty" /\ cl[s] = "fd"
    BY <1>5 DEF ReceivePty, TypeOK
  <2>3. UNCHANGED <<auth, result, ends, daemonVars, sup, chld, cmd, term, slave, outVars>>
    BY <1>5 DEF ReceivePty
  <2>4. ServedOnce(s)'
    BY <2>2, <2>3 DEF SessionInv, ServedOnce, daemonVars
  <2>5. Phases(s)'
    BY <2>1, <2>2, <2>3 DEF SessionInv, Phases, NoPrompt, daemonVars, outVars
  <2>6. CommandState(s)' /\ InOrder(s)'
    BY <2>2, <2>3 DEF SessionInv, CommandState, InOrder, daemonVars, outVars
  <2>7. QED
    BY <2>4, <2>5, <2>6 DEF SessionInv
<1>6. CASE ShowOutput(s)
  BY <1>6, ShowOutputInv
<1>7. QED
  BY <1>1, <1>2, <1>3, <1>4, <1>5, <1>6 DEF ClientStep
-----------------------------------------------------------------------------
(* Steps of the daemon, for the session they serve. *)

(* An answer on the socket is no terminal in flight. *)
LEMMA DaemonWritesInv ==
  ASSUME TypeOK, NEW s \in Sessions, SessionInv(s), NEW a \in {"resp", "err"},
         DaemonWrites(s, a), "daemon" \in ends[s],
         UNCHANGED <<auth, clientVars, sockfile, sup, chld, cmd, term, ptyVars, outVars>>
  PROVE  SessionInv(s)'
<1>1. chan'[s] = chan[s] \/ chan'[s] = Append(chan[s], a)
  BY DEF DaemonWrites, TypeOK
<1>2. InFlight(s)' => InFlight(s)
  <2>1. chan[s] \in Seq({"resp", "err", "fd"})
    BY DEF TypeOK
  <2>2. CASE chan'[s] = chan[s]
    BY <2>2 DEF InFlight
  <2>3. CASE chan'[s] = Append(chan[s], a)
    <3>1. \A k \in 1..Len(chan'[s]) : chan'[s][k] = "fd" => k \in 1..Len(chan[s])
                                                       /\ chan[s][k] = "fd"
      BY <2>1, <2>3
    <3>2. QED
      BY <3>1 DEF InFlight
  <2>4. QED
    BY <1>1, <2>2, <2>3
<1>3. PtyLeft(s)' => PtyLeft(s)
  BY <1>2 DEF PtyLeft, clientVars, ptyVars, outVars
<1>4. "daemon" \notin ends'[s] /\ "queue" \notin ends'[s] /\ dm' # s
  BY DEF DaemonWrites, TypeOK, SessionInv, ServedOnce
<1>5. ServedOnce(s)'
  BY <1>4 DEF SessionInv, ServedOnce, clientVars
<1>6. Phases(s)' /\ CommandState(s)' /\ InOrder(s)'
  BY <1>3 DEF SessionInv, Phases, NoPrompt, CommandState, InOrder,
              clientVars, ptyVars, outVars
<1>7. QED
  BY <1>5, <1>6 DEF SessionInv

LEMMA DaemonInv ==
  ASSUME TypeOK, NEW s \in Sessions, SessionInv(s), DaemonStep(s)
  PROVE  SessionInv(s)'
<1>1. CASE Accept(s)
  <2>1. /\ ends'[s] = {"daemon"} /\ "queue" \in ends[s]
        /\ UNCHANGED <<auth, cl, result, chan, dm, sup, chld, cmd, term, master, slave,
                       produced, out, swallowed, shown>>
    BY <1>1 DEF Accept, TypeOK, clientVars, daemonVars, ptyVars, outVars
  <2>2. QED
    BY <2>1 DEF SessionInv, ServedOnce, Phases, PtyLeft, InFlight, NoPrompt,
                CommandState, InOrder
<1>7. CASE AcceptHungUp(s)
  <2>1. /\ ends'[s] = {} /\ dm # s
        /\ UNCHANGED <<auth, cl, result, chan, dm, sup, chld, cmd, term, master, slave,
                       produced, out, swallowed, shown>>
    BY <1>7 DEF AcceptHungUp, TypeOK, clientVars, daemonVars, ptyVars, outVars
  <2>2. QED
    BY <2>1 DEF SessionInv, ServedOnce, Phases, PtyLeft, InFlight, NoPrompt,
                CommandState, InOrder
<1>2. CASE Deny(s)
  BY <1>2, DaemonWritesInv DEF Deny, Requested, ErrorAnswer
<1>3. CASE Fork(s)
  <2>1. /\ sup[s] = "none" /\ sup'[s] = "setup" /\ dm' = s
        /\ "daemon" \in ends[s] /\ ends'[s] = ends[s] \cup {s}
        /\ UNCHANGED <<auth, cl, result, chan, chld, cmd, term, master, slave,
                       produced, out, swallowed, shown>>
    BY <1>3 DEF Fork, Requested, TypeOK, SessionInv, ServedOnce,
                clientVars, ptyVars, outVars
  <2>2. ServedOnce(s)'
    BY <2>1 DEF SessionInv, ServedOnce
  <2>3. Phases(s)' /\ CommandState(s)' /\ InOrder(s)'
    BY <2>1 DEF SessionInv, Phases, PtyLeft, InFlight, NoPrompt, CommandState, InOrder
  <2>4. QED
    BY <2>2, <2>3 DEF SessionInv
<1>4. CASE ForkFails(s)
  <2>1. /\ ends'[s] = ends[s] \ {"daemon"} /\ dm # s
        /\ UNCHANGED <<auth, cl, result, chan, dm, sup, chld, cmd, term, master, slave,
                       produced, out, swallowed, shown>>
    BY <1>4 DEF ForkFails, Requested, TypeOK, clientVars, daemonVars, ptyVars, outVars
  <2>2. QED
    BY <2>1 DEF SessionInv, ServedOnce, Phases, PtyLeft, InFlight, NoPrompt,
                CommandState, InOrder
<1>5. CASE AnswerExecute(s)
  BY <1>5, DaemonWritesInv DEF AnswerExecute, SessionInv, ServedOnce
<1>6. QED
  BY <1>1, <1>2, <1>3, <1>4, <1>5, <1>7 DEF DaemonStep
-----------------------------------------------------------------------------
(* Steps of the Child. *)

(* The Child's end, with or without a signal for the command. *)
LEMMA ChildExitsInv ==
  ASSUME TypeOK, NEW s \in Sessions, SessionInv(s), ChildExits(s), SupAlive(s),
         UNCHANGED <<auth, clientVars, chan, daemonVars, produced, shown>>,
         term'[s] = term[s] \/ auth[s] = "root" \/ cmd[s] # "preexec",
         \/ UNCHANGED <<swallowed, out>>
         \/ auth[s] # "root" /\ ~PtyLeft(s) /\ InOrder(s)'
  PROVE  SessionInv(s)'
<1>1. /\ sup'[s] = "exited" /\ ends'[s] = ends[s]
      /\ master'[s] = master[s] \ {"sup"} /\ slave'[s] = slave[s] \ {"sup"}
      /\ cmd'[s] = IF cmd[s] = "exited" THEN "reaped" ELSE cmd[s]
      /\ UNCHANGED <<auth, cl, result, chan, dm, produced, shown>>
  BY DEF ChildExits, TypeOK, clientVars, daemonVars
<1>2. ServedOnce(s)'
  BY <1>1 DEF SessionInv, ServedOnce, SupAlive
<1>3. PtyLeft(s)' => PtyLeft(s)
  BY <1>1 DEF PtyLeft, InFlight
<1>4. CASE UNCHANGED <<swallowed, out>>
  BY <1>1, <1>2, <1>3, <1>4 DEF SessionInv, Phases, NoPrompt, CommandState, InOrder
<1>5. CASE auth[s] # "root" /\ ~PtyLeft(s) /\ InOrder(s)'
  <2>1. Phases(s)'
    BY <1>1, <1>3, <1>5 DEF Phases
  <2>2. CommandState(s)'
    BY <1>1, <1>5 DEF SessionInv, CommandState, PtyLeft
  <2>3. QED
    BY <1>2, <1>5, <2>1, <2>2 DEF SessionInv
<1>6. QED
  BY <1>4, <1>5

(* A command of which output was read has been running. *)
LEMMA OutputMeansStarted ==
  ASSUME TypeOK, NEW s \in Sessions, SessionInv(s),
         out[s] # <<>> \/ swallowed[s] # <<>>
  PROVE  cmd[s] # "preexec"
<1>1. produced[s] = swallowed[s] \o shown[s] \o out[s]
  BY DEF SessionInv, InOrder
<1>2. swallowed[s] \in Seq(Chunk) /\ shown[s] \in Seq(Chunk) /\ out[s] \in Seq(Chunk)
  BY DEF TypeOK
<1>3. Len(produced[s]) = Len(swallowed[s]) + Len(shown[s]) + Len(out[s])
  BY <1>1, <1>2
<1>4. Len(out[s]) > 0 \/ Len(swallowed[s]) > 0
  BY <1>2, EmptySeq
<1>5. produced[s] # <<>>
  <2>1. Len(swallowed[s]) \in Nat /\ Len(shown[s]) \in Nat /\ Len(out[s]) \in Nat
    BY <1>2
  <2>2. \A x, y, z \in Nat : x > 0 \/ z > 0 => x + y + z # 0
    OBVIOUS
  <2>3. Len(produced[s]) # 0
    BY <1>3, <1>4, <2>1, <2>2, Zenon
  <2>4. QED
    BY <2>3
<1>6. QED
  BY <1>5 DEF SessionInv, CommandState

LEMMA CheckInv ==
  ASSUME TypeOK, NEW s \in Sessions, SessionInv(s), CheckShellPatterns(s)
  PROVE  SessionInv(s)'
<1>1. PICK n \in 1..Len(out[s]) :
        /\ swallowed' = [swallowed EXCEPT ![s] = SubSeq(out[s], 1, n)]
        /\ out' = [out EXCEPT ![s] = SubSeq(@, n + 1, Len(@))]
        /\ \/ /\ ~ShowsPrompt(swallowed'[s])
              /\ sup' = [sup EXCEPT ![s] = "send"]
              /\ UNCHANGED <<ends, cmd, chld, term, ptyVars>>
           \/ /\ ShowsPrompt(swallowed'[s])
              /\ Kill(s) /\ ChildExits(s)
  BY DEF CheckShellPatterns
<1>2. /\ sup[s] = "check" /\ auth[s] # "root" /\ swallowed[s] = <<>> /\ ~PtyLeft(s)
      /\ shown[s] = <<>>
      /\ UNCHANGED <<auth, clientVars, chan, daemonVars, produced, shown>>
  BY DEF CheckShellPatterns, SessionInv, Phases, PtyLeft
<1>3. /\ swallowed'[s] = SubSeq(out[s], 1, n)
      /\ out'[s] = SubSeq(out[s], n + 1, Len(out[s]))
      /\ out[s] \in Seq(Chunk) /\ out[s] # <<>>
  BY <1>1 DEF TypeOK
<1>4. InOrder(s)'
  <2> DEFINE p == SubSeq(out[s], 1, n)
             q == SubSeq(out[s], n + 1, Len(out[s]))
  <2>1. p \o q = out[s]
    BY <1>3, ConcatAdjacentSubSeq, SubSeqFull
  <2>2. p \in Seq(Chunk)
    BY <1>3
  <2>3. produced[s] = out[s]
    BY <1>2, <1>3 DEF SessionInv, InOrder
  <2>4. swallowed'[s] = p /\ out'[s] = q /\ shown'[s] = <<>>
    BY <1>2, <1>3
  <2> HIDE DEF p, q
  <2>5. p \o <<>> \o q = p \o q
    BY <2>2
  <2>6. QED
    BY <1>2, <2>1, <2>3, <2>4, <2>5 DEF InOrder
<1>5. CASE /\ ~ShowsPrompt(swallowed'[s])
           /\ sup' = [sup EXCEPT ![s] = "send"]
           /\ UNCHANGED <<ends, cmd, chld, term, ptyVars>>
  <2>1. /\ sup'[s] = "send"
        /\ UNCHANGED <<auth, cl, result, chan, ends, dm, chld, cmd, term, master, slave,
                       produced, shown>>
    BY <1>2, <1>5 DEF TypeOK, clientVars, daemonVars, ptyVars
  <2>2. NoPrompt(s)'
    <3>1. Len(swallowed'[s]) = n
      BY <1>3
    <3>2. swallowed'[s] # <<>>
      BY <3>1
    <3>3. QED
      BY <1>5, <3>2 DEF NoPrompt
  <2>3. ~PtyLeft(s)'
    BY <1>2, <2>1 DEF PtyLeft, InFlight
  <2>4. ServedOnce(s)' /\ Phases(s)'
    BY <1>2, <2>1, <2>2, <2>3 DEF SessionInv, ServedOnce, Phases
  <2>5. CommandState(s)'
    BY <1>2, <2>1 DEF SessionInv, CommandState, PtyLeft
  <2>6. QED
    BY <1>4, <2>4, <2>5 DEF SessionInv
<1>6. CASE Kill(s) /\ ChildExits(s)
  BY <1>2, <1>3, <1>4, <1>6, ChildExitsInv, OutputMeansStarted DEF SupAlive
<1>7. QED
  BY <1>1, <1>5, <1>6

LEMMA ChildInv ==
  ASSUME TypeOK, NEW s \in Sessions, SessionInv(s), ChildStep(s)
  PROVE  SessionInv(s)'
<1>1. CASE SetupPty(s)
  <2>1. /\ sup[s] = "setup" /\ sup'[s] = "fork"
        /\ master'[s] = {"sup"} /\ slave'[s] = {"sup"}
        /\ UNCHANGED <<auth, cl, result, chan, ends, dm, chld, cmd, term, produced, out,
                       swallowed, shown>>
    BY <1>1 DEF SetupPty, TypeOK, clientVars, daemonVars, outVars
  <2>2. PtyLeft(s)' => PtyLeft(s)
    BY <2>1 DEF PtyLeft, InFlight
  <2>3. QED
    BY <2>1, <2>2 DEF SessionInv, ServedOnce, Phases, NoPrompt, CommandState, InOrder
<1>2. CASE SetupFails(s)
  <2>1. cmd[s] = "none" /\ UNCHANGED <<swallowed, out, produced, shown>>
    BY <1>2 DEF SetupFails, SessionInv, Phases, outVars
  <2>2. QED
    BY <1>2, <2>1, ChildExitsInv DEF SetupFails, SupAlive
<1>3. CASE ForkCommand(s)
  <2>1. /\ sup[s] = "fork" /\ sup'[s] \in {"send", "check"}
        /\ sup'[s] = "check" => auth[s] # "root"
        /\ sup'[s] = "send" => auth[s] = "root"
        /\ cmd'[s] = "preexec" /\ slave'[s] = slave[s] \cup {"cmd"}
        /\ UNCHANGED <<auth, cl, result, chan, ends, dm, chld, term, master, produced,
                       out, swallowed, shown>>
    BY <1>3 DEF ForkCommand, TypeOK, clientVars, daemonVars, outVars
  <2>2. ~PtyLeft(s) /\ ~PtyLeft(s)'
    BY <2>1 DEF SessionInv, Phases, PtyLeft, InFlight
  <2>3. result[s] # "ended" /\ cmd[s] = "none" /\ ~term[s]
    BY <2>1, <2>2 DEF SessionInv, Phases, PtyLeft
  <2>4. ServedOnce(s)' /\ Phases(s)' /\ InOrder(s)'
    BY <2>1, <2>2 DEF SessionInv, ServedOnce, Phases, InOrder
  <2>5. CommandState(s)'
    BY <2>1, <2>3 DEF SessionInv, CommandState
  <2>6. QED
    BY <2>4, <2>5 DEF SessionInv
<1>4. CASE CheckShellPatterns(s)
  BY <1>4, CheckInv
<1>5. CASE SendPtyToClient(s)
  <2>1. /\ sup[s] = "send"
        /\ UNCHANGED <<auth, clientVars, daemonVars, produced, shown, swallowed, out>>
    BY <1>5 DEF SendPtyToClient, outVars
  <2>2. CASE /\ chan' = [chan EXCEPT ![s] = Append(@, "fd")]
             /\ master' = [master EXCEPT ![s] = @ \cup {"msg"}]
             /\ sup' = [sup EXCEPT ![s] = "select"]
             /\ UNCHANGED <<ends, cmd, chld, term, slave>>
    <3>1. sup'[s] = "select" /\ UNCHANGED <<auth, cl, result, dm>>
      BY <2>1, <2>2 DEF TypeOK, clientVars, daemonVars
    <3>2. ServedOnce(s)' /\ CommandState(s)' /\ InOrder(s)'
      BY <2>1, <2>2, <3>1 DEF SessionInv, ServedOnce, CommandState, InOrder
    <3>3. Phases(s)'
      BY <2>1, <2>2, <3>1 DEF SessionInv, Phases, NoPrompt
    <3>4. QED
      BY <3>2, <3>3 DEF SessionInv
  <2>3. CASE Kill(s) /\ ChildExits(s) /\ UNCHANGED chan
    <3>1. auth[s] = "root" \/ cmd[s] # "preexec"
      BY <2>1, OutputMeansStarted DEF SessionInv, Phases, NoPrompt
    <3>2. QED
      BY <2>1, <2>3, <3>1, ChildExitsInv DEF SupAlive
  <2>4. CASE ChildExits(s) /\ UNCHANGED <<chan, term>>
    BY <2>1, <2>4, ChildExitsInv DEF SupAlive
  <2>5. QED
    BY <1>5, <2>2, <2>3, <2>4 DEF SendPtyToClient
<1>6. CASE SelectReadable(s)
  <2>1. /\ sup[s] = "select" /\ sup'[s] = "reap"
        /\ UNCHANGED <<auth, cl, result, chan, ends, dm, chld, cmd, term, master, slave,
                       produced, out, swallowed, shown>>
    BY <1>6 DEF SelectReadable, TypeOK, clientVars, daemonVars, ptyVars, outVars
  <2>2. PtyLeft(s)' <=> PtyLeft(s)
    BY <2>1 DEF PtyLeft, InFlight
  <2>3. QED
    BY <2>1, <2>2 DEF SessionInv, ServedOnce, Phases, NoPrompt, CommandState, InOrder
<1>7. CASE SelectTimeout(s)
  <2>1. sup[s] = "select"
    BY <1>7 DEF SelectTimeout
  <2>2. auth[s] = "root" \/ cmd[s] # "preexec"
    BY <2>1, OutputMeansStarted DEF SessionInv, Phases, NoPrompt
  <2>3. QED
    BY <1>7, <2>2, ChildExitsInv DEF SelectTimeout, SupAlive, outVars
<1>8. CASE SelectInterrupted(s)
  BY <1>8, ChildExitsInv DEF SelectInterrupted, SupAlive, outVars
<1>9. CASE WaitCommand(s)
  BY <1>9, ChildExitsInv DEF WaitCommand, SupAlive, outVars
<1>10. CASE Sigchld(s)
  <2>1. /\ chld[s] /\ ~chld'[s] /\ cmd'[s] = "reaped"
        /\ UNCHANGED <<auth, cl, result, chan, ends, dm, sup, term, master, slave,
                       produced, out, swallowed, shown>>
    BY <1>10 DEF Sigchld, TypeOK, clientVars, daemonVars, ptyVars, outVars
  <2>2. PtyLeft(s)' <=> PtyLeft(s)
    BY <2>1 DEF PtyLeft, InFlight
  <2>3. QED
    BY <2>1, <2>2 DEF SessionInv, ServedOnce, Phases, NoPrompt, CommandState, InOrder
<1>11. QED
  BY <1>1, <1>2, <1>3, <1>4, <1>5, <1>6, <1>7, <1>8, <1>9, <1>10 DEF ChildStep
-----------------------------------------------------------------------------
(* Steps of the command. *)

LEMMA CommandEndsInv ==
  ASSUME TypeOK, NEW s \in Sessions, SessionInv(s), CommandEnds(s),
         cmd[s] \in {"preexec", "running"}
  PROVE  SessionInv(s)'
<1>1. /\ cmd'[s] \in {"exited", "reaped"} /\ ~term'[s]
      /\ UNCHANGED <<auth, cl, result, chan, ends, dm, sup, master, produced, out,
                     swallowed, shown>>
  BY DEF CommandEnds, TypeOK, clientVars, daemonVars, outVars
<1>2. sup[s] \notin {"none", "setup", "fork"}
  BY DEF SessionInv, Phases
<1>3. PtyLeft(s)' <=> PtyLeft(s)
  BY <1>1 DEF PtyLeft, InFlight
<1>4. QED
  BY <1>1, <1>2, <1>3
  DEF SessionInv, ServedOnce, Phases, NoPrompt, CommandState, InOrder

LEMMA CommandInv ==
  ASSUME TypeOK, NEW s \in Sessions, SessionInv(s), KernelStep(s) \/ CommandStep(s)
  PROVE  SessionInv(s)'
<1>1. CASE Exec(s)
  <2>1. /\ cmd[s] = "preexec" /\ cmd'[s] = "running"
        /\ UNCHANGED <<auth, cl, result, chan, ends, dm, sup, chld, term, master, slave,
                       produced, out, swallowed, shown>>
    BY <1>1 DEF Exec, TypeOK, clientVars, daemonVars, ptyVars, outVars
  <2>2. PtyLeft(s)' <=> PtyLeft(s)
    BY <2>1 DEF PtyLeft, InFlight
  <2>3. QED
    BY <2>1, <2>2 DEF SessionInv, ServedOnce, Phases, NoPrompt, CommandState, InOrder
<1>2. CASE CommandExits(s) \/ Hangup(s) \/ Terminated(s)
  BY <1>2, CommandEndsInv DEF CommandExits, Hangup, Terminated
<1>3. CASE StopInCopy(s)
  <2>1. /\ ~term'[s]
        /\ UNCHANGED <<auth, cl, result, chan, ends, dm, sup, chld, cmd, master, slave,
                       produced, out, swallowed, shown>>
    BY <1>3 DEF StopInCopy, TypeOK, clientVars, ptyVars, outVars
  <2>2. PtyLeft(s)' <=> PtyLeft(s)
    BY <2>1 DEF PtyLeft, InFlight
  <2>3. QED
    BY <2>1, <2>2 DEF SessionInv, ServedOnce, Phases, NoPrompt, CommandState, InOrder
<1>4. ASSUME NEW kind \in Kinds, Write(s, kind)
      PROVE  SessionInv(s)'
  <2> DEFINE chunk == [n |-> Len(produced[s]) + 1, kind |-> kind]
  <2>1. /\ cmd[s] = "running"
        /\ produced'[s] = Append(produced[s], chunk) /\ out'[s] = Append(out[s], chunk)
        /\ UNCHANGED <<auth, cl, result, chan, ends, dm, sup, chld, cmd, term, master,
                       slave, swallowed, shown>>
    BY <1>4 DEF Write, TypeOK, clientVars, daemonVars, ptyVars
  <2>2. chunk \in Chunk
    BY DEF TypeOK, Chunk
  <2> HIDE DEF chunk
  <2>3. PtyLeft(s)' <=> PtyLeft(s)
    BY <2>1 DEF PtyLeft, InFlight
  <2>4. ServedOnce(s)' /\ Phases(s)' /\ CommandState(s)'
    BY <2>1, <2>3 DEF SessionInv, ServedOnce, Phases, NoPrompt, CommandState
  <2>5. InOrder(s)'
    <3> DEFINE a == swallowed[s] \o shown[s]
               o == out[s]
    <3>1. a \in Seq(Chunk) /\ o \in Seq(Chunk)
      BY DEF TypeOK
    <3>2. produced[s] = a \o o
      BY DEF SessionInv, InOrder
    <3> HIDE DEF a, o
    <3>3. Append(a \o o, chunk) = a \o Append(o, chunk)
      BY <2>2, <3>1
    <3>4. produced'[s] = a \o Append(o, chunk)
      BY <2>1, <3>2, <3>3
    <3>5. QED
      BY <2>1, <3>4 DEF InOrder, a, o
  <2>6. QED
    BY <2>4, <2>5 DEF SessionInv
<1>5. QED
  BY <1>1, <1>2, <1>3, <1>4 DEF KernelStep, CommandStep
-----------------------------------------------------------------------------
(* What a step of s leaves alone in another session t. *)

LEMMA ClientOthers ==
  ASSUME TypeOK, NEW s \in Sessions, NEW t \in Sessions, s # t, ClientStep(s) \/ Quit(s)
  PROVE  Untouched(t) /\ EndsUntouched(t)
<1>1. CASE Request(s)
  BY <1>1 DEF Request, TypeOK, Untouched, EndsUntouched, daemonVars, ptyVars, outVars
<1>2. ASSUME NEW how, ClientEnds(s, how), UNCHANGED outVars
      PROVE  Untouched(t) /\ EndsUntouched(t)
  BY <1>2 DEF ClientEnds, TypeOK, Untouched, EndsUntouched, daemonVars, outVars
<1>3. CASE CannotConnect(s) \/ PollTimeout(s) \/ ReadShifted(s) \/ ReadEof(s)
           \/ Quit(s) \/ ShowEnd(s)
  BY <1>2, <1>3 DEF CannotConnect, PollTimeout, ReadShifted, ReadEof, Quit, ShowEnd
<1>4. CASE ReadResponse(s)
  <2>1. CASE ClientEnds(s, "denied")
    BY <1>2, <1>4, <2>1 DEF ReadResponse
  <2>2. CASE /\ cl' = [cl EXCEPT ![s] = "fd"] /\ chan' = [chan EXCEPT ![s] = Tail(@)]
             /\ UNCHANGED <<auth, result, ends, daemonVars, sup, chld, cmd, term, ptyVars>>
    BY <1>4, <2>2
    DEF ReadResponse, TypeOK, Untouched, EndsUntouched, daemonVars, ptyVars, outVars
  <2>3. CASE /\ cl' = [cl EXCEPT ![s] = "shifted"] /\ chan' = [chan EXCEPT ![s] = Tail(@)]
             /\ master' = [master EXCEPT ![s] = @ \ {"msg"}]
             /\ UNCHANGED <<auth, result, ends, daemonVars, sup, chld, cmd, term, slave>>
    BY <1>4, <2>3
    DEF ReadResponse, TypeOK, Untouched, EndsUntouched, daemonVars, outVars
  <2>4. QED
    BY <1>4, <2>1, <2>2, <2>3 DEF ReadResponse
<1>5. CASE ReceivePty(s)
  BY <1>5 DEF ReceivePty, TypeOK, Untouched, EndsUntouched, daemonVars, outVars
<1>6. CASE ShowOutput(s)
  BY <1>6 DEF ShowOutput, TypeOK, Untouched, EndsUntouched, clientVars, daemonVars, ptyVars
<1>7. QED
  BY <1>1, <1>3, <1>4, <1>5, <1>6 DEF ClientStep

LEMMA DaemonOthers ==
  ASSUME TypeOK, NEW s \in Sessions, NEW t \in Sessions, s # t, SessionInv(s), DaemonStep(s)
  PROVE  Untouched(t) /\ EndsUntouched(t)
<1>1. CASE Accept(s)
  BY <1>1 DEF Accept, TypeOK, Untouched, EndsUntouched, clientVars, daemonVars, ptyVars, outVars
<1>8. CASE AcceptHungUp(s)
  BY <1>8 DEF AcceptHungUp, TypeOK, Untouched, EndsUntouched, clientVars, daemonVars, ptyVars,
              outVars
<1>2. CASE Fork(s)
  BY <1>2 DEF Fork, Requested, TypeOK, Untouched, EndsUntouched, clientVars, ptyVars, outVars
<1>3. CASE ForkFails(s)
  BY <1>3 DEF ForkFails, TypeOK, Untouched, EndsUntouched, clientVars, daemonVars, ptyVars, outVars
<1>4. ASSUME NEW answer, DaemonWrites(s, answer), dm = s \/ dm = "idle"
      PROVE  chan'[t] = chan[t] /\ EndsUntouched(t)
  <2>1. chan'[t] = chan[t]
    BY <1>4 DEF DaemonWrites, TypeOK
  <2>2. dm # t /\ dm' # t
    BY <1>4 DEF DaemonWrites
  <2>3. ends'[t] \in {ends[t], ends[t] \ {"daemon"}}
    BY <1>4 DEF DaemonWrites, TypeOK
  <2>4. QED
    BY <2>1, <2>2, <2>3 DEF EndsUntouched
<1>5. CASE Deny(s)
  BY <1>4, <1>5 DEF Deny, Requested, Untouched, clientVars, ptyVars, outVars
<1>6. CASE AnswerExecute(s)
  BY <1>4, <1>6 DEF AnswerExecute, Untouched, clientVars, ptyVars, outVars
<1>7. QED
  BY <1>1, <1>2, <1>3, <1>5, <1>6, <1>8 DEF DaemonStep

LEMMA ChildOthers ==
  ASSUME TypeOK, NEW s \in Sessions, NEW t \in Sessions, s # t, ChildStep(s)
  PROVE  Untouched(t) /\ EndsUntouched(t)
<1>1. ASSUME ChildExits(s), UNCHANGED <<auth, clientVars, chan, daemonVars>>,
             term'[t] = term[t], produced'[t] = produced[t], shown'[t] = shown[t],
             out'[t] = out[t], swallowed'[t] = swallowed[t]
      PROVE  Untouched(t) /\ EndsUntouched(t)
  BY <1>1 DEF ChildExits, TypeOK, Untouched, EndsUntouched, clientVars, daemonVars
<1>2. ASSUME Kill(s) PROVE term'[t] = term[t]
  BY <1>2 DEF Kill, TypeOK
<1>3. CASE SetupPty(s)
  BY <1>3 DEF SetupPty, TypeOK, Untouched, EndsUntouched, clientVars, daemonVars, outVars
<1>4. CASE SetupFails(s) \/ SelectInterrupted(s) \/ WaitCommand(s)
  BY <1>1, <1>4 DEF SetupFails, SelectInterrupted, WaitCommand, outVars
<1>5. CASE ForkCommand(s)
  BY <1>5 DEF ForkCommand, TypeOK, Untouched, EndsUntouched, clientVars, daemonVars, outVars
<1>6. CASE CheckShellPatterns(s)
  <2>1. /\ swallowed'[t] = swallowed[t] /\ out'[t] = out[t]
        /\ UNCHANGED <<auth, clientVars, chan, daemonVars, produced, shown>>
    BY <1>6 DEF CheckShellPatterns, TypeOK
  <2>2. \/ /\ sup' = [sup EXCEPT ![s] = "send"]
           /\ UNCHANGED <<ends, cmd, chld, term, ptyVars>>
        \/ Kill(s) /\ ChildExits(s)
    BY <1>6 DEF CheckShellPatterns
  <2>3. CASE /\ sup' = [sup EXCEPT ![s] = "send"]
             /\ UNCHANGED <<ends, cmd, chld, term, ptyVars>>
    BY <2>1, <2>3 DEF TypeOK, Untouched, EndsUntouched, clientVars, daemonVars, ptyVars
  <2>4. QED
    BY <1>1, <1>2, <2>1, <2>2, <2>3
<1>7. CASE SendPtyToClient(s)
  <2>1. UNCHANGED <<auth, clientVars, daemonVars, produced, shown, swallowed, out>>
    BY <1>7 DEF SendPtyToClient, outVars
  <2>2. CASE /\ chan' = [chan EXCEPT ![s] = Append(@, "fd")]
             /\ master' = [master EXCEPT ![s] = @ \cup {"msg"}]
             /\ sup' = [sup EXCEPT ![s] = "select"]
             /\ UNCHANGED <<ends, cmd, chld, term, slave>>
    BY <2>1, <2>2 DEF TypeOK, Untouched, EndsUntouched, clientVars, daemonVars
  <2>3. CASE Kill(s) /\ ChildExits(s) /\ UNCHANGED chan
    BY <1>1, <1>2, <2>1, <2>3
  <2>4. CASE ChildExits(s) /\ UNCHANGED <<chan, term>>
    BY <1>1, <2>1, <2>4
  <2>5. QED
    BY <1>7, <2>2, <2>3, <2>4 DEF SendPtyToClient
<1>8. CASE SelectReadable(s)
  BY <1>8 DEF SelectReadable, TypeOK, Untouched, EndsUntouched,
              clientVars, daemonVars, ptyVars, outVars
<1>9. CASE SelectTimeout(s)
  BY <1>1, <1>2, <1>9 DEF SelectTimeout, outVars
<1>10. CASE Sigchld(s)
  BY <1>10 DEF Sigchld, TypeOK, Untouched, EndsUntouched,
               clientVars, daemonVars, ptyVars, outVars
<1>11. QED
  BY <1>3, <1>4, <1>5, <1>6, <1>7, <1>8, <1>9, <1>10 DEF ChildStep

LEMMA CommandOthers ==
  ASSUME TypeOK, NEW s \in Sessions, NEW t \in Sessions, s # t,
         KernelStep(s) \/ CommandStep(s)
  PROVE  Untouched(t) /\ EndsUntouched(t)
<1>1. CASE Exec(s)
  BY <1>1 DEF Exec, TypeOK, Untouched, EndsUntouched, clientVars, daemonVars, ptyVars, outVars
<1>2. CASE CommandEnds(s)
  BY <1>2 DEF CommandEnds, TypeOK, Untouched, EndsUntouched, clientVars, daemonVars, outVars
<1>3. CASE StopInCopy(s)
  BY <1>3 DEF StopInCopy, TypeOK, Untouched, EndsUntouched, clientVars, ptyVars, outVars
<1>4. ASSUME NEW kind \in Kinds, Write(s, kind)
      PROVE  Untouched(t) /\ EndsUntouched(t)
  BY <1>4 DEF Write, TypeOK, Untouched, EndsUntouched, clientVars, daemonVars, ptyVars
<1>5. QED
  BY <1>1, <1>2, <1>3, <1>4
  DEF KernelStep, CommandStep, CommandExits, Hangup, Terminated
-----------------------------------------------------------------------------
LEMMA InvStep == TypeOK /\ IInv /\ [Next]_vars => IInv'
<1> SUFFICES ASSUME TypeOK, IInv, [Next]_vars, NEW t \in Sessions
             PROVE  SessionInv(t)'
  BY DEF IInv
<1>1. SessionInv(t)
  BY DEF IInv
<1>2. ASSUME NEW s \in Sessions,
             \/ ClientStep(s) \/ Quit(s) \/ DaemonStep(s)
             \/ ChildStep(s) \/ KernelStep(s) \/ CommandStep(s)
      PROVE  SessionInv(t)'
  <2>1. SessionInv(s)
    BY DEF IInv
  <2>2. CASE s = t
    BY <1>2, <2>1, <2>2, ClientInv, DaemonInv, ChildInv, CommandInv
  <2>3. CASE s # t
    <3>1. Untouched(t) /\ EndsUntouched(t)
      BY <1>2, <2>1, <2>3, ClientOthers, DaemonOthers, ChildOthers, CommandOthers
    <3>2. QED
      BY <1>1, <3>1, OtherSession
  <2>4. QED
    BY <2>2, <2>3
<1>3. CASE UNCHANGED vars
  <2>1. Untouched(t) /\ EndsUntouched(t)
    BY <1>3 DEF vars, Untouched, EndsUntouched, clientVars, daemonVars, ptyVars, outVars
  <2>2. QED
    BY <1>1, <2>1, OtherSession
<1>4. QED
  BY <1>2, <1>3 DEF Next

LEMMA InvAlways == Spec => [](TypeOK /\ IInv)
<1>1. Init => TypeOK /\ IInv
  BY TypeInit, InvInit
<1>2. (TypeOK /\ IInv) /\ [Next]_vars => (TypeOK /\ IInv)'
  BY TypeStep, InvStep
<1>3. QED
  BY <1>1, <1>2, PTL DEF Spec

(* Without -h root no terminal leaves the Child before the shell check has *)
(* seen output, and none whose output showed a prompt before its first NUL. *)
THEOREM ShellGateHolds == Spec => []ShellGate
<1>1. ASSUME IInv, NEW s \in Sessions, auth[s] # "root",
             master[s] \cap {"msg", "client"} # {}
      PROVE  swallowed[s] # <<>> /\ ~ShowsPrompt(swallowed[s])
  BY <1>1 DEF IInv, SessionInv, Phases, PtyLeft, NoPrompt
<1>3. IInv => ShellGate
  BY <1>1 DEF ShellGate, ShowsPrompt
<1>2. QED
  BY <1>3, InvAlways, PTL

(* The Child and the client read one terminal, and between them keep all   *)
(* of the command's output in its order.                                   *)
THEOREM OutputStaysInOrder == Spec => []OutputInOrder
<1>1. IInv => OutputInOrder
  BY DEF IInv, SessionInv, InOrder, OutputInOrder
<1>2. QED
  BY <1>1, InvAlways, PTL

(* With -h root a client that stays to the end has shown all the output.   *)
THEOREM RootSeesEverything == Spec => []RootOutputComplete
<1>1. ASSUME TypeOK, IInv, NEW s \in Sessions, auth[s] = "root", result[s] = "ended"
      PROVE  shown[s] = produced[s]
  <2> DEFINE p == produced[s]
             a == swallowed[s]
             b == shown[s]
             c == out[s]
  <2>1. p = a \o b \o c
    BY <1>1 DEF IInv, SessionInv, InOrder
  <2>2. a = <<>> /\ c = <<>>
    BY <1>1 DEF IInv, SessionInv, Phases, CommandState
  <2>3. b \in Seq(Chunk)
    BY <1>1 DEF TypeOK
  <2> HIDE DEF p, a, b, c
  <2>4. <<>> \o b = b /\ b \o <<>> = b
    BY <2>3
  <2>5. p = b
    BY <2>1, <2>2, <2>4
  <2>6. QED
    BY <2>5 DEF p, b
<1>2. TypeOK /\ IInv => RootOutputComplete
  BY <1>1 DEF RootOutputComplete
<1>3. QED
  BY <1>2, InvAlways, PTL

(* Without -h root the Child signals no process that still runs the        *)
(* daemon's handlers: no session of such a user removes the socket file.   *)
THEOREM KilledOnlyAfterExec == Spec => []KillAfterExec
<1>1. IInv => KillAfterExec
  BY DEF IInv, SessionInv, CommandState, KillAfterExec
<1>2. QED
  BY <1>1, InvAlways, PTL

(* SocketFileStays, where the code keeps it: as long as nobody asks for    *)
(* -h root, whatever the sessions do, a new client finds the daemon.       *)
NobodyIsRoot == \A s \in Sessions : auth[s] # "root"

THEOREM SocketFileStaysWithoutRoot == Spec => [](NobodyIsRoot => SocketFileStays)
<1> DEFINE Kept == NobodyIsRoot => sockfile
<1>1. Init => Kept
  BY DEF Init
<1>2. ASSUME IInv, Kept, Next PROVE Kept'
  <2>1. PICK s \in Sessions :
            ClientStep(s) \/ Quit(s) \/ DaemonStep(s) \/ ChildStep(s)
            \/ KernelStep(s) \/ CommandStep(s)
    BY <1>2 DEF Next
  <2>2. CASE StopInCopy(s)
    <3>1. auth[s] = "root"
      BY <1>2, <2>2 DEF IInv, SessionInv, CommandState, StopInCopy
    <3>2. auth' = auth
      BY <2>2 DEF StopInCopy
    <3>3. QED
      BY <3>1, <3>2 DEF NobodyIsRoot
  <2>3. CASE ~StopInCopy(s)
    <3>1. auth' = auth /\ sockfile' = sockfile
      <4>1. CASE ClientStep(s) \/ Quit(s)
        BY <4>1 DEF ClientStep, Quit, Request, CannotConnect, PollTimeout, ReadResponse,
            ReadShifted, ReceivePty, ReadEof, ShowOutput, ShowEnd, ClientEnds, daemonVars
      <4>2. CASE DaemonStep(s)
        BY <4>2 DEF DaemonStep, Accept, AcceptHungUp, Deny, Fork, ForkFails, AnswerExecute, daemonVars
      <4>3. CASE ChildStep(s)
        BY <4>3 DEF ChildStep, SetupPty, SetupFails, ForkCommand, CheckShellPatterns,
            SendPtyToClient, SelectReadable, SelectTimeout, SelectInterrupted, Sigchld,
            WaitCommand, daemonVars
      <4>4. CASE KernelStep(s) \/ CommandStep(s)
        BY <2>3, <4>4 DEF KernelStep, CommandStep, Exec, Hangup, Terminated, CommandExits,
            CommandEnds, Write, daemonVars
      <4>5. QED
        BY <2>1, <4>1, <4>2, <4>3, <4>4
    <3>2. QED
      BY <1>2, <3>1 DEF NobodyIsRoot
  <2>4. QED
    BY <2>2, <2>3
<1>3. ASSUME Kept, UNCHANGED vars PROVE Kept'
  BY <1>3 DEF vars, daemonVars, NobodyIsRoot
<1>4. Kept => (NobodyIsRoot => SocketFileStays)
  BY DEF SocketFileStays
<1> HIDE DEF Kept
<1>5. QED
  BY <1>1, <1>2, <1>3, <1>4, InvAlways, PTL DEF Spec
=============================================================================
