---------------------- MODULE ExecSessionRefines_proofs ----------------------
(***************************************************************************)
(* ExecSession implements TerminalSession, for every number of sessions    *)
(* and any output: the initial states are initial states, and each step of *)
(* a process is a step of its own session's TerminalSession, or changes    *)
(* nothing that its user sees, and changes nothing for any other user.     *)
(***************************************************************************)
EXTENDS ExecSession_proofs

USE ExecSessionAssumption DEF Set, Add, Del

AbsStep(s) == UNCHANGED User(s)!vars \/ User(s)!Next

LEMMA OthersStutter ==
  ASSUME NEW s \in Sessions, Untouched(s)
  PROVE  AbsStep(s)
<1>1. Job(s)' = Job(s) /\ Terminal(s)' = Terminal(s)
  BY DEF Untouched, Job, Terminal
<1>2. QED
  BY <1>1 DEF AbsStep, Untouched, User!vars, User!outVars

LEMMA AbsInit ==
  ASSUME Init, NEW s \in Sessions
  PROVE  User(s)!Init
  BY DEF Init, User!Init, Job, Terminal

(* What the sessions' invariant leaves out.  A session ends once; the      *)
(* terminal is with the client exactly when the client shows it, and on    *)
(* its way at most once; a command that the terminal or the check is about *)
(* was started; SIGCHLD is about a command that has exited; and a refused  *)
(* request never gets a Child.                                             *)
OneFd(s) ==
    \A j, k \in 1..Len(chan[s]) : chan[s][j] = "fd" /\ chan[s][k] = "fd" => j = k

Refused(s) == result[s] = "denied" \/ \E k \in 1..Len(chan[s]) : chan[s][k] = "err"

NeverServed(s) ==
    /\ sup[s] = "none" /\ auth[s] # "root" /\ dm # s
    /\ "queue" \notin ends[s] /\ "daemon" \notin ends[s]

Linked(s) ==
    /\ cl[s] = "done" <=> result[s] # "none"
    /\ cl[s] = "pty" <=> "client" \in master[s]
    /\ cl[s] = "idle" => chan[s] = <<>>
    /\ InFlight(s) => "msg" \in master[s]
    /\ OneFd(s)
    /\ sup[s] \in {"check", "send", "select", "reap"} \/ PtyLeft(s) => cmd[s] # "none"
    /\ chld[s] => cmd[s] = "exited"
    /\ Refused(s) => NeverServed(s)

LEMMA OthersLinked ==
  ASSUME NEW s \in Sessions, Linked(s), Untouched(s), EndsUntouched(s)
  PROVE  Linked(s)'
  BY DEF Linked, OneFd, Refused, NeverServed, InFlight, PtyLeft, Untouched, EndsUntouched

(* The answers on the socket, when one is taken off it or put on it. *)
LEMMA TailOfAnswers ==
  ASSUME TypeOK, NEW s \in Sessions, chan[s] # <<>>, OneFd(s),
         chan' = [chan EXCEPT ![s] = Tail(@)]
  PROVE  /\ OneFd(s)' /\ (InFlight(s)' => InFlight(s))
         /\ (\E k \in 1..Len(chan'[s]) : chan'[s][k] = "err")
                => \E k \in 1..Len(chan[s]) : chan[s][k] = "err"
         /\ Head(chan[s]) = "fd" => ~InFlight(s)'
<1> DEFINE c == chan[s]
           t == chan'[s]
<1>1. /\ c \in Seq({"resp", "err", "fd"}) /\ Len(c) \in Nat \ {0}
      /\ Len(t) = Len(c) - 1 /\ \A k \in 1..Len(t) : k + 1 \in 1..Len(c) /\ t[k] = c[k + 1]
      /\ 1 \in 1..Len(c) /\ Head(c) = c[1]
  <2>1. t = Tail(c) /\ c \in Seq({"resp", "err", "fd"}) /\ c # <<>>
    BY DEF TypeOK
  <2> HIDE DEF c, t
  <2>2. QED
    BY <2>1
<1>2. \A j, k \in 1..Len(c) : c[j] = "fd" /\ c[k] = "fd" => j = k
  BY DEF OneFd
<1> HIDE DEF c, t
<1>3. \A j, k \in 1..Len(t) : t[j] = "fd" /\ t[k] = "fd" => j = k
  BY <1>1, <1>2
<1>4. \A x : (\E k \in 1..Len(t) : t[k] = x) => \E k \in 1..Len(c) : c[k] = x
  BY <1>1
<1>5. c[1] = "fd" => ~\E k \in 1..Len(t) : t[k] = "fd"
  <2> SUFFICES ASSUME c[1] = "fd", NEW k \in 1..Len(t), t[k] = "fd" PROVE FALSE
    OBVIOUS
  <2>1. k + 1 \in 1..Len(c) /\ c[k + 1] = "fd" /\ k + 1 # 1
    BY <1>1
  <2>2. QED
    BY <1>1, <1>2, <2>1
<1>6. QED
  BY <1>1, <1>3, <1>4, <1>5 DEF c, t, OneFd, InFlight

LEMMA AppendToAnswers ==
  ASSUME TypeOK, NEW s \in Sessions, OneFd(s), NEW a \in {"resp", "err", "fd"},
         chan' = [chan EXCEPT ![s] = Append(@, a)], a = "fd" => ~InFlight(s)
  PROVE  /\ OneFd(s)' /\ (InFlight(s)' => InFlight(s) \/ a = "fd")
         /\ (\E k \in 1..Len(chan'[s]) : chan'[s][k] = "err")
                => a = "err" \/ \E k \in 1..Len(chan[s]) : chan[s][k] = "err"
<1> DEFINE c == chan[s]
           t == chan'[s]
<1>1. /\ c \in Seq({"resp", "err", "fd"}) /\ Len(c) \in Nat /\ Len(t) = Len(c) + 1
      /\ \A k \in 1..Len(t) : (k \in 1..Len(c) /\ t[k] = c[k]) \/ (k = Len(c) + 1 /\ t[k] = a)
  <2>1. t = Append(c, a) /\ c \in Seq({"resp", "err", "fd"})
    BY DEF TypeOK
  <2> HIDE DEF c, t
  <2>2. QED
    BY <2>1
<1>2. /\ \A j, k \in 1..Len(c) : c[j] = "fd" /\ c[k] = "fd" => j = k
      /\ a = "fd" => ~\E k \in 1..Len(c) : c[k] = "fd"
  BY DEF OneFd, InFlight
<1> HIDE DEF c, t
<1>3. \A j, k \in 1..Len(t) : t[j] = "fd" /\ t[k] = "fd" => j = k
  BY <1>1, <1>2
<1>4. \A x : (\E k \in 1..Len(t) : t[k] = x) => x = a \/ \E k \in 1..Len(c) : c[k] = x
  BY <1>1
<1>5. QED
  BY <1>3, <1>4 DEF c, t, OneFd, InFlight

LEMMA LinkedInit ==
  ASSUME Init, NEW s \in Sessions
  PROVE  Linked(s)
<1>1. chan[s] = <<>> /\ cl[s] = "idle" /\ result[s] = "none" /\ master[s] = {} /\ ~chld[s]
      /\ sup[s] = "none" /\ shown[s] = <<>>
  BY DEF Init
<1>2. ~InFlight(s) /\ OneFd(s) /\ ~Refused(s)
  BY <1>1 DEF InFlight, OneFd, Refused
<1>3. QED
  BY <1>1, <1>2 DEF Linked, PtyLeft
-----------------------------------------------------------------------------
(* Steps that the user does not see, and the end of a client. *)

LEMMA Unseen ==
  ASSUME NEW s \in Sessions, auth'[s] = auth[s], result'[s] = result[s],
         Job(s)' = Job(s), Terminal(s)' = Terminal(s), UNCHANGED outVars
  PROVE  AbsStep(s)
  BY DEF AbsStep, User!vars, User!outVars, outVars

LEMMA ClientEndsStep ==
  ASSUME TypeOK, NEW s \in Sessions, SessionInv(s), Linked(s), cl[s] # "done",
         NEW how \in {"failed", "quit", "denied", "ended"},
         ClientEnds(s, how), UNCHANGED outVars,
         how = "denied" => Refused(s),
         how = "ended" => cl[s] = "pty" /\ out[s] = <<>> /\ slave[s] = {}
  PROVE  Linked(s)' /\ AbsStep(s)
<1>1. /\ cl'[s] = "done" /\ result'[s] = how /\ chan'[s] = <<>>
      /\ master'[s] = master[s] \ {"client", "msg"}
      /\ auth' = auth /\ ends' = ends /\ dm' = dm /\ sup' = sup /\ chld' = chld
      /\ cmd' = cmd /\ produced' = produced /\ out' = out /\ swallowed' = swallowed
      /\ shown' = shown /\ result[s] = "none"
  <2>1. result[s] = "none"
    BY DEF Linked
  <2>2. /\ cl'[s] = "done" /\ result'[s] = how /\ chan'[s] = <<>>
        /\ master'[s] = master[s] \ {"client", "msg"}
    BY DEF ClientEnds, TypeOK
  <2>3. QED
    BY <2>1, <2>2 DEF ClientEnds, daemonVars, outVars
<1>2. ~InFlight(s)' /\ OneFd(s)' /\ (Refused(s)' => how = "denied")
  BY <1>1 DEF InFlight, OneFd, Refused
<1>3. how = "ended" => PtyLeft(s)
  BY DEF PtyLeft
<1>4. PtyLeft(s)' => PtyLeft(s)
  BY <1>1, <1>2, <1>3 DEF PtyLeft
<1>5. Linked(s)'
  BY <1>1, <1>2, <1>4 DEF Linked, NeverServed
<1>6. Terminal(s)' = IF Terminal(s) = "kept" THEN "kept" ELSE "gone"
  <2>1. "client" \in master[s] \/ "msg" \in master[s] => sup[s] \in {"select", "reap", "exited"}
    BY DEF SessionInv, Phases, PtyLeft
  <2>2. QED
    BY <1>1, <2>1 DEF Terminal
<1>7. Job(s)' = Job(s)
  BY <1>1 DEF Job
<1>8. CASE how \in {"failed", "quit"}
  <2>1. User(s)!Leave
    BY <1>1, <1>6, <1>7, <1>8 DEF User!Leave, User!outVars
  <2>2. QED
    BY <1>5, <2>1 DEF AbsStep, User!Next
<1>9. CASE how = "denied"
  <2>1. sup[s] = "none" /\ auth[s] # "root" /\ cmd[s] = "none"
    BY <1>9 DEF Linked, NeverServed, SessionInv, Phases
  <2>2. Terminal(s) = "kept" /\ Terminal(s)' = "kept"
    BY <1>6, <2>1 DEF Terminal, SessionInv, Phases, PtyLeft
  <2>3. User(s)!Deny
    BY <1>1, <1>7, <1>9, <2>1, <2>2 DEF User!Deny, User!outVars, Job
  <2>4. QED
    BY <1>5, <2>3 DEF AbsStep, User!Next
<1>10. CASE how = "ended"
  <2>1. cmd[s] \notin {"none", "preexec", "running"}
    BY <1>3, <1>10 DEF Linked, SessionInv, CommandState
  <2>2. Terminal(s) = "held" /\ Terminal(s)' = "gone"
    BY <1>6, <1>10 DEF Terminal, Linked
  <2>3. Job(s) = "over"
    BY <2>1 DEF Job
  <2>4. User(s)!End
    BY <1>1, <1>7, <1>10, <2>2, <2>3 DEF User!End, User!outVars
  <2>5. QED
    BY <1>5, <2>4 DEF AbsStep, User!Next
<1>11. QED
  BY <1>8, <1>9, <1>10
-----------------------------------------------------------------------------
LEMMA ClientAbs ==
  ASSUME TypeOK, NEW s \in Sessions, SessionInv(s), Linked(s), ClientStep(s) \/ Quit(s)
  PROVE  Linked(s)' /\ AbsStep(s)
<1>1. CASE Request(s)
  <2>1. /\ cl[s] = "idle" /\ cl'[s] = "wait" /\ auth' = auth /\ result' = result
        /\ chan' = chan /\ dm' = dm /\ sup' = sup /\ chld' = chld /\ cmd' = cmd
        /\ master' = master /\ UNCHANGED outVars
    BY <1>1 DEF Request, TypeOK, daemonVars, ptyVars
  <2>2. Job(s)' = Job(s) /\ Terminal(s)' = Terminal(s)
    BY <2>1 DEF Job, Terminal
  <2>3. chan[s] = <<>> /\ result[s] = "none"
    BY <2>1 DEF Linked
  <2>4. ~Refused(s)' /\ ~InFlight(s)' /\ OneFd(s)'
    BY <2>1, <2>3 DEF Refused, InFlight, OneFd
  <2>5. PtyLeft(s)' => PtyLeft(s)
    BY <2>1, <2>4 DEF PtyLeft, outVars
  <2>6. Linked(s)'
    BY <2>1, <2>4, <2>5 DEF Linked
  <2>7. QED
    BY <2>1, <2>2, <2>6, Unseen
<1>2. CASE CannotConnect(s) \/ PollTimeout(s) \/ ReadShifted(s) \/ ReadEof(s) \/ Quit(s)
  <2>1. PICK how \in {"failed", "quit"} : ClientEnds(s, how) /\ UNCHANGED outVars
    BY <1>2 DEF CannotConnect, PollTimeout, ReadShifted, ReadEof, Quit
  <2>2. cl[s] # "done"
    BY <1>2 DEF CannotConnect, PollTimeout, ReadShifted, ReadEof, Quit
  <2>3. QED
    BY <2>1, <2>2, ClientEndsStep
<1>3. CASE ShowEnd(s)
  <2>1. /\ ClientEnds(s, "ended") /\ UNCHANGED outVars
        /\ cl[s] = "pty" /\ out[s] = <<>> /\ slave[s] = {}
    BY <1>3 DEF ShowEnd
  <2>2. QED
    BY <2>1, ClientEndsStep
<1>4. CASE ReadResponse(s)
  <2>1. cl[s] = "wait" /\ chan[s] # <<>> /\ UNCHANGED outVars
    BY <1>4 DEF ReadResponse
  <2>2. CASE Head(chan[s]) = "err" /\ ClientEnds(s, "denied")
    <3>1. 1 \in 1..Len(chan[s]) /\ chan[s][1] = "err"
      BY <2>1, <2>2 DEF TypeOK
    <3>2. Refused(s)
      BY <3>1 DEF Refused
    <3>3. QED
      BY <2>1, <2>2, <3>2, ClientEndsStep
  <2>3. CASE /\ cl' = [cl EXCEPT ![s] = "fd"] /\ chan' = [chan EXCEPT ![s] = Tail(@)]
             /\ UNCHANGED <<auth, result, ends, daemonVars, sup, chld, cmd, term, ptyVars>>
    <3>1. /\ cl'[s] = "fd" /\ auth' = auth /\ result' = result /\ ends' = ends /\ dm' = dm
          /\ sup' = sup /\ chld' = chld /\ cmd' = cmd /\ master' = master
      BY <2>3 DEF TypeOK, daemonVars, ptyVars
    <3>2. OneFd(s)' /\ (InFlight(s)' => InFlight(s)) /\ (Refused(s)' => Refused(s))
      BY <2>1, <2>3, <3>1, TailOfAnswers DEF Linked, Refused
    <3>3. PtyLeft(s)' => PtyLeft(s)
      BY <2>1, <3>1, <3>2 DEF PtyLeft, outVars
    <3>4. Linked(s)'
      BY <2>1, <3>1, <3>2, <3>3 DEF Linked, NeverServed
    <3>5. Job(s)' = Job(s) /\ Terminal(s)' = Terminal(s)
      BY <3>1 DEF Job, Terminal
    <3>6. QED
      BY <2>1, <3>1, <3>4, <3>5, Unseen
  <2>4. CASE /\ Head(chan[s]) = "fd"
             /\ cl' = [cl EXCEPT ![s] = "shifted"] /\ chan' = [chan EXCEPT ![s] = Tail(@)]
             /\ master' = [master EXCEPT ![s] = @ \ {"msg"}]
             /\ UNCHANGED <<auth, result, ends, daemonVars, sup, chld, cmd, term, slave>>
    <3>1. /\ cl'[s] = "shifted" /\ master'[s] = master[s] \ {"msg"}
      BY <2>4 DEF TypeOK
    <3>2. /\ auth' = auth /\ result' = result /\ ends' = ends /\ dm' = dm
          /\ sup' = sup /\ chld' = chld /\ cmd' = cmd
      BY <2>4 DEF daemonVars
    <3>3. OneFd(s)' /\ ~InFlight(s)' /\ (Refused(s)' => Refused(s))
      BY <2>1, <2>4, <3>2, TailOfAnswers DEF Linked, Refused
    <3>4. PtyLeft(s)' => PtyLeft(s)
      BY <2>1, <3>1, <3>2, <3>3 DEF PtyLeft, outVars
    <3>5. Linked(s)'
      BY <2>1, <3>1, <3>2, <3>3, <3>4 DEF Linked, NeverServed
    <3>6. InFlight(s)
      BY <2>1, <2>4, HeadInFlight
    <3>7. "msg" \in master[s] /\ "client" \notin master[s]
      BY <2>1, <3>6 DEF Linked
    <3>8. sup[s] \in {"select", "reap", "exited"}
      BY <3>6 DEF SessionInv, Phases, PtyLeft
    <3>9. Terminal(s) = "sent" /\ Terminal(s)' = "gone" /\ Job(s)' = Job(s)
      BY <3>1, <3>2, <3>7, <3>8 DEF Terminal, Job
    <3>10. User(s)!Lose
      BY <2>1, <3>2, <3>9 DEF User!Lose, User!outVars, outVars
    <3>11. QED
      BY <3>5, <3>10 DEF AbsStep, User!Next
  <2>5. QED
    BY <1>4, <2>2, <2>3, <2>4 DEF ReadResponse
<1>5. CASE ReceivePty(s)
  <2>1. /\ cl[s] = "fd" /\ cl'[s] = "pty" /\ chan[s] # <<>> /\ Head(chan[s]) = "fd"
        /\ chan' = [chan EXCEPT ![s] = Tail(@)]
        /\ master'[s] = (master[s] \ {"msg"}) \cup {"client"}
    BY <1>5 DEF ReceivePty, TypeOK
  <2>2. /\ auth' = auth /\ result' = result /\ ends' = ends /\ dm' = dm
        /\ sup' = sup /\ chld' = chld /\ cmd' = cmd /\ UNCHANGED outVars
    BY <1>5 DEF ReceivePty, daemonVars
  <2>3. OneFd(s)' /\ ~InFlight(s)' /\ (Refused(s)' => Refused(s))
    BY <2>1, <2>2, TailOfAnswers DEF Linked, Refused
  <2>4. InFlight(s) /\ PtyLeft(s)
    BY <2>1, HeadInFlight DEF PtyLeft
  <2>5. Linked(s)'
    BY <2>1, <2>2, <2>3, <2>4 DEF Linked, NeverServed
  <2>6. "msg" \in master[s] /\ "client" \notin master[s]
    BY <2>1, <2>4 DEF Linked
  <2>7. Terminal(s) = "sent" /\ Terminal(s)' = "held" /\ Job(s)' = Job(s)
    BY <2>1, <2>2, <2>6 DEF Terminal, Job
  <2>8. User(s)!Attach
    BY <2>2, <2>7 DEF User!Attach, User!outVars, outVars
  <2>9. QED
    BY <2>5, <2>8 DEF AbsStep, User!Next
<1>6. CASE ShowOutput(s)
  <2>1. PICK n \in 1..Len(out[s]) :
            /\ shown' = [shown EXCEPT ![s] = @ \o SubSeq(out[s], 1, n)]
            /\ out' = [out EXCEPT ![s] = SubSeq(@, n + 1, Len(@))]
    BY <1>6 DEF ShowOutput
  <2>2. /\ shown'[s] = shown[s] \o SubSeq(out[s], 1, n)
        /\ out'[s] = SubSeq(out[s], n + 1, Len(out[s]))
    BY <2>1 DEF TypeOK
  <2>3. /\ cl[s] = "pty" /\ cl' = cl /\ auth' = auth /\ result' = result /\ chan' = chan
        /\ ends' = ends /\ dm' = dm /\ sup' = sup /\ chld' = chld /\ cmd' = cmd
        /\ master' = master /\ produced' = produced /\ swallowed' = swallowed
    BY <1>6 DEF ShowOutput, clientVars, daemonVars, ptyVars
  <2>4. PtyLeft(s)
    BY <2>3 DEF PtyLeft
  <2>5. Linked(s)'
    BY <2>3, <2>4 DEF Linked, InFlight, OneFd, Refused, NeverServed
  <2>6. Terminal(s) = "held" /\ Terminal(s)' = "held" /\ Job(s)' = Job(s)
    BY <2>3 DEF Terminal, Job, Linked
  <2>7. User(s)!Show
    BY <2>2, <2>3, <2>6 DEF User!Show, User!Taken, User!Left
  <2>8. QED
    BY <2>5, <2>7 DEF AbsStep, User!Next
<1>7. QED
  BY <1>1, <1>2, <1>3, <1>4, <1>5, <1>6 DEF ClientStep
-----------------------------------------------------------------------------
LEMMA DaemonWritesLinked ==
  ASSUME TypeOK, NEW s \in Sessions, SessionInv(s), Linked(s), NEW a \in {"resp", "err"},
         DaemonWrites(s, a), "daemon" \in ends[s],
         a = "err" => sup[s] = "none" /\ auth[s] # "root",
         UNCHANGED <<auth, clientVars, sockfile, sup, chld, cmd, term, ptyVars, outVars>>
  PROVE  Linked(s)' /\ AbsStep(s)
<1>1. /\ auth' = auth /\ cl' = cl /\ result' = result /\ sup' = sup /\ chld' = chld
      /\ cmd' = cmd /\ master' = master /\ UNCHANGED outVars
  BY DEF clientVars, ptyVars
<1>2. Job(s)' = Job(s) /\ Terminal(s)' = Terminal(s)
  BY <1>1 DEF Job, Terminal
<1>3. AbsStep(s)
  BY <1>1, <1>2, Unseen
<1>4. "queue" \notin ends[s] /\ cl[s] # "idle" /\ ~Refused(s)
  BY DEF SessionInv, ServedOnce, Linked, NeverServed
<1>5. "queue" \notin ends'[s] /\ "daemon" \notin ends'[s] /\ dm' # s
  <2>1. dm' \in {"idle", "dead"} /\ s \notin {"idle", "dead"}
    BY DEF DaemonWrites
  <2>2. ends'[s] = ends[s] \ {"daemon"}
    BY DEF DaemonWrites, TypeOK
  <2>3. QED
    BY <1>4, <2>1, <2>2
<1>6. \/ chan' = [chan EXCEPT ![s] = Append(@, a)]
      \/ chan' = chan
  BY DEF DaemonWrites
<1>7. /\ OneFd(s)' /\ (InFlight(s)' => InFlight(s)) /\ (Refused(s)' => Refused(s) \/ a = "err")
  <2>1. CASE chan' = [chan EXCEPT ![s] = Append(@, a)]
    BY <1>1, <2>1, AppendToAnswers DEF Linked, Refused
  <2>2. CASE chan' = chan
    BY <1>1, <2>2 DEF Linked, OneFd, InFlight, Refused
  <2>3. QED
    BY <1>6, <2>1, <2>2
<1>8. PtyLeft(s)' => PtyLeft(s)
  BY <1>1, <1>7 DEF PtyLeft, outVars
<1>9. Linked(s)'
  BY <1>1, <1>4, <1>5, <1>7, <1>8 DEF Linked, NeverServed
<1>10. QED
  BY <1>3, <1>9

LEMMA DaemonAbs ==
  ASSUME TypeOK, NEW s \in Sessions, SessionInv(s), Linked(s), DaemonStep(s)
  PROVE  Linked(s)' /\ AbsStep(s)
<1>1. CASE Accept(s) \/ AcceptHungUp(s) \/ ForkFails(s)
  <2>1. /\ auth' = auth /\ cl' = cl /\ result' = result /\ chan' = chan /\ dm' = dm
        /\ sup' = sup /\ chld' = chld /\ cmd' = cmd /\ master' = master /\ UNCHANGED outVars
    BY <1>1 DEF Accept, AcceptHungUp, ForkFails, clientVars, daemonVars, ptyVars
  <2>2. "queue" \in ends[s] \/ "daemon" \in ends[s]
    BY <1>1 DEF Accept, AcceptHungUp, ForkFails, Requested
  <2>3. ~Refused(s) /\ ~Refused(s)'
    BY <2>1, <2>2 DEF Linked, NeverServed, Refused
  <2>4. Linked(s)'
    BY <2>1, <2>3 DEF Linked, InFlight, OneFd, PtyLeft, outVars
  <2>5. Job(s)' = Job(s) /\ Terminal(s)' = Terminal(s)
    BY <2>1 DEF Job, Terminal
  <2>6. QED
    BY <2>1, <2>4, <2>5, Unseen
<1>2. CASE Deny(s)
  <2>1. "daemon" \in ends[s] /\ dm = "idle" /\ auth[s] # "root" /\ dm # s
    BY <1>2 DEF Deny, Requested
  <2>2. sup[s] = "none"
    BY <2>1 DEF SessionInv, ServedOnce
  <2>3. DaemonWrites(s, "err")
    BY <1>2 DEF Deny, ErrorAnswer
  <2>4. QED
    BY <1>2, <2>1, <2>2, <2>3, DaemonWritesLinked DEF Deny
<1>3. CASE Fork(s)
  <2>1. /\ auth' = auth /\ cl' = cl /\ result' = result /\ chan' = chan
        /\ sup[s] = "none" /\ sup'[s] = "setup" /\ chld' = chld /\ cmd' = cmd
        /\ master' = master /\ UNCHANGED outVars /\ "daemon" \in ends[s]
    <3>1. dm = "idle" /\ dm # s /\ "daemon" \in ends[s]
      BY <1>3 DEF Fork, Requested
    <3>2. sup[s] = "none"
      BY <3>1 DEF SessionInv, ServedOnce
    <3>3. QED
      BY <1>3, <3>1, <3>2 DEF Fork, TypeOK, clientVars, ptyVars
  <2>2. ~Refused(s) /\ ~Refused(s)'
    BY <2>1 DEF Linked, NeverServed, Refused
  <2>3. PtyLeft(s)' => PtyLeft(s)
    BY <2>1 DEF PtyLeft, InFlight, outVars
  <2>4. Linked(s)'
    BY <2>1, <2>2, <2>3 DEF Linked, InFlight, OneFd
  <2>5. Job(s)' = Job(s) /\ Terminal(s)' = Terminal(s)
    BY <2>1 DEF Job, Terminal
  <2>6. QED
    BY <2>1, <2>4, <2>5, Unseen
<1>4. CASE AnswerExecute(s)
  <2>1. "daemon" \in ends[s] /\ DaemonWrites(s, "resp")
    BY <1>4 DEF AnswerExecute, SessionInv, ServedOnce
  <2>2. QED
    BY <1>4, <2>1, DaemonWritesLinked DEF AnswerExecute
<1>5. QED
  BY <1>1, <1>2, <1>3, <1>4 DEF DaemonStep
-----------------------------------------------------------------------------
(* Steps of the Child.  When it exits, a terminal that it kept is lost, and *)
(* nothing else of what the user sees changes.                             *)
LEMMA ChildExitsAbs ==
  ASSUME TypeOK, NEW s \in Sessions, SessionInv(s), Linked(s), ChildExits(s),
         SupAlive(s), UNCHANGED <<auth, clientVars, chan, daemonVars>>
  PROVE  /\ UNCHANGED outVars => Linked(s)' /\ AbsStep(s)
         /\ PtyLeft(s) \/ UNCHANGED shown => Linked(s)'
         /\ Job(s)' = Job(s)
         /\ Terminal(s)' = IF Terminal(s) = "kept" THEN "gone" ELSE Terminal(s)
<1>1. /\ auth' = auth /\ cl' = cl /\ result' = result /\ chan' = chan /\ dm' = dm
      /\ sup[s] # "none" /\ sup'[s] = "exited" /\ master'[s] = master[s] \ {"sup"}
      /\ chld'[s] = FALSE
      /\ cmd'[s] = (IF cmd[s] = "exited" THEN "reaped" ELSE cmd[s])
  BY DEF ChildExits, TypeOK, SupAlive, clientVars, daemonVars
<1>2. Job(s)' = Job(s)
  BY <1>1 DEF Job
<1>3. Terminal(s)' = IF Terminal(s) = "kept" THEN "gone" ELSE Terminal(s)
  BY <1>1 DEF Terminal
<1>4. ~Refused(s) /\ ~Refused(s)'
  BY <1>1 DEF Linked, NeverServed, Refused
<1>5. ASSUME PtyLeft(s) \/ shown' = shown PROVE Linked(s)'
  <2>1. PtyLeft(s)' => PtyLeft(s)
    BY <1>1, <1>5 DEF PtyLeft, InFlight
  <2>2. QED
    BY <1>1, <1>4, <2>1 DEF Linked, InFlight, OneFd
<1>6. ASSUME UNCHANGED outVars PROVE Linked(s)' /\ AbsStep(s)
  <2>1. Linked(s)'
    BY <1>5, <1>6 DEF outVars
  <2>2. CASE Terminal(s) = "kept"
    <3>1. User(s)!Lose
      BY <1>1, <1>2, <1>3, <1>6, <2>2 DEF User!Lose, User!outVars, outVars
    <3>2. QED
      BY <2>1, <3>1 DEF AbsStep, User!Next
  <2>3. CASE Terminal(s) # "kept"
    BY <1>1, <1>2, <1>3, <1>6, <2>1, <2>3, Unseen
  <2>4. QED
    BY <2>2, <2>3
<1>7. QED
  BY <1>2, <1>3, <1>5, <1>6

LEMMA CheckAbs ==
  ASSUME TypeOK, NEW s \in Sessions, SessionInv(s), Linked(s), CheckShellPatterns(s)
  PROVE  Linked(s)' /\ AbsStep(s)
<1>1. /\ sup[s] = "check" /\ auth' = auth /\ cl' = cl /\ result' = result /\ chan' = chan
      /\ dm' = dm /\ produced' = produced /\ shown' = shown
  BY DEF CheckShellPatterns, clientVars, daemonVars
<1>2. auth[s] # "root" /\ swallowed[s] = <<>> /\ ~PtyLeft(s) /\ cmd[s] # "none"
  BY <1>1 DEF SessionInv, Phases, Linked
<1>3. Terminal(s) = "kept"
  BY <1>1, <1>2 DEF Terminal, PtyLeft
<1>4. PICK n \in 1..Len(out[s]) :
        /\ swallowed' = [swallowed EXCEPT ![s] = SubSeq(out[s], 1, n)]
        /\ out' = [out EXCEPT ![s] = SubSeq(@, n + 1, Len(@))]
        /\ \/ /\ ~ShowsPrompt(swallowed'[s])
              /\ sup' = [sup EXCEPT ![s] = "send"]
              /\ UNCHANGED <<ends, cmd, chld, term, ptyVars>>
           \/ /\ ShowsPrompt(swallowed'[s])
              /\ Kill(s) /\ ChildExits(s)
  BY DEF CheckShellPatterns
<1>5. /\ swallowed'[s] = SubSeq(out[s], 1, n)
      /\ out'[s] = SubSeq(out[s], n + 1, Len(out[s]))
  BY <1>4 DEF TypeOK
<1>6. Linked(s)' /\ Job(s)' = Job(s)
      /\ Terminal(s)' = IF ShowsPrompt(swallowed'[s]) THEN "gone" ELSE "kept"
  <2>1. CASE /\ ~ShowsPrompt(swallowed'[s]) /\ sup' = [sup EXCEPT ![s] = "send"]
             /\ UNCHANGED <<ends, cmd, chld, term, ptyVars>>
    <3>1. sup'[s] = "send" /\ cmd' = cmd /\ chld' = chld /\ master' = master
      BY <2>1 DEF TypeOK, ptyVars
    <3>2. ~Refused(s)' /\ ~PtyLeft(s)'
      BY <1>1, <1>2, <3>1 DEF Linked, NeverServed, Refused, PtyLeft, InFlight
    <3>3. Linked(s)'
      BY <1>1, <1>2, <3>1, <3>2 DEF Linked, InFlight, OneFd
    <3>4. QED
      BY <1>1, <1>2, <1>3, <2>1, <3>1, <3>3 DEF Job, Terminal
  <2>2. CASE ShowsPrompt(swallowed'[s]) /\ Kill(s) /\ ChildExits(s)
    <3>1. SupAlive(s) /\ UNCHANGED <<auth, clientVars, chan, daemonVars>>
      BY <1>1 DEF SupAlive, CheckShellPatterns
    <3>2. QED
      BY <1>1, <1>3, <2>2, <3>1, ChildExitsAbs
  <2>3. QED
    BY <1>4, <2>1, <2>2
<1>7. User(s)!Prompt(swallowed'[s]) = ShowsPrompt(swallowed'[s])
  BY DEF User!Prompt, ShowsPrompt
<1>8. User(s)!Check
  BY <1>1, <1>2, <1>3, <1>5, <1>6, <1>7 DEF User!Check, User!Taken, User!Left
<1>9. QED
  BY <1>6, <1>8 DEF AbsStep, User!Next

LEMMA SendAbs ==
  ASSUME TypeOK, NEW s \in Sessions, SessionInv(s), Linked(s), SendPtyToClient(s)
  PROVE  Linked(s)' /\ AbsStep(s)
<1>1. /\ sup[s] = "send" /\ auth' = auth /\ cl' = cl /\ result' = result /\ dm' = dm
      /\ UNCHANGED outVars
  BY DEF SendPtyToClient, clientVars, daemonVars
<1>2. ~PtyLeft(s) /\ cmd[s] # "none"
  BY <1>1 DEF SessionInv, Phases, Linked
<1>3. CASE /\ cl[s] # "done"
           /\ chan' = [chan EXCEPT ![s] = Append(@, "fd")]
           /\ master' = [master EXCEPT ![s] = @ \cup {"msg"}]
           /\ sup' = [sup EXCEPT ![s] = "select"]
           /\ UNCHANGED <<ends, cmd, chld, term, slave>>
  <2>1. /\ master'[s] = master[s] \cup {"msg"} /\ sup'[s] = "select" /\ cmd' = cmd
        /\ chld' = chld /\ result[s] = "none"
    BY <1>3 DEF TypeOK, Linked
  <2>2. "client" \notin master[s] /\ "msg" \notin master[s] /\ ~InFlight(s)
    BY <1>2 DEF PtyLeft
  <2>3. ~Refused(s) /\ cl[s] # "idle"
    BY <1>1 DEF Linked, NeverServed, SessionInv, ServedOnce
  <2>4. OneFd(s)' /\ ~Refused(s)'
    BY <1>1, <1>3, <2>2, <2>3, AppendToAnswers DEF Linked, Refused
  <2>5. Linked(s)'
    BY <1>1, <1>2, <1>3, <2>1, <2>3, <2>4 DEF Linked
  <2>6. Terminal(s) = "kept" /\ Terminal(s)' = "sent" /\ Job(s)' = Job(s) /\ Job(s) # "none"
    BY <1>1, <1>2, <2>1, <2>2 DEF Terminal, Job
  <2>7. auth[s] # "root" => swallowed[s] # <<>> /\ ~User(s)!Prompt(swallowed[s])
    BY <1>1 DEF SessionInv, Phases, NoPrompt, ShowsPrompt, User!Prompt
  <2>8. User(s)!Pass
    BY <1>1, <2>1, <2>6, <2>7 DEF User!Pass, User!outVars, outVars
  <2>9. QED
    BY <2>5, <2>8 DEF AbsStep, User!Next
<1>4. CASE ChildExits(s) /\ UNCHANGED chan
  <2>1. SupAlive(s) /\ UNCHANGED <<auth, clientVars, chan, daemonVars>>
    BY <1>1, <1>4 DEF SupAlive, SendPtyToClient
  <2>2. QED
    BY <1>1, <1>4, <2>1, ChildExitsAbs
<1>5. QED
  BY <1>3, <1>4 DEF SendPtyToClient

LEMMA ChildAbs ==
  ASSUME TypeOK, NEW s \in Sessions, SessionInv(s), Linked(s), ChildStep(s)
  PROVE  Linked(s)' /\ AbsStep(s)
<1>1. CASE SetupPty(s)
  <2>1. /\ auth' = auth /\ cl' = cl /\ result' = result /\ chan' = chan /\ dm' = dm
        /\ sup[s] = "setup" /\ sup'[s] = "fork" /\ chld' = chld /\ cmd' = cmd
        /\ master'[s] = {"sup"} /\ UNCHANGED outVars
    BY <1>1 DEF SetupPty, TypeOK, clientVars, daemonVars
  <2>2. ~PtyLeft(s) /\ ~Refused(s) /\ ~Refused(s)'
    BY <2>1 DEF SessionInv, Phases, Linked, NeverServed, Refused
  <2>3. "client" \notin master[s] /\ "msg" \notin master[s] /\ ~InFlight(s) /\ cl[s] # "pty"
    BY <2>2 DEF PtyLeft
  <2>4. ~PtyLeft(s)' /\ ~InFlight(s)'
    BY <2>1, <2>2, <2>3 DEF PtyLeft, InFlight, outVars
  <2>5. Linked(s)'
    BY <2>1, <2>2, <2>3, <2>4 DEF Linked, OneFd
  <2>6. Terminal(s)' = Terminal(s) /\ Job(s)' = Job(s)
    BY <2>1, <2>3 DEF Terminal, Job
  <2>7. QED
    BY <2>1, <2>5, <2>6, Unseen
<1>2. CASE SetupFails(s) \/ SelectInterrupted(s) \/ WaitCommand(s) \/ SelectTimeout(s)
  <2>1. /\ ChildExits(s) /\ SupAlive(s) /\ UNCHANGED <<auth, clientVars, chan, daemonVars>>
        /\ UNCHANGED outVars
    BY <1>2 DEF SetupFails, SelectInterrupted, WaitCommand, SelectTimeout, SupAlive
  <2>2. QED
    BY <2>1, ChildExitsAbs
<1>3. CASE ForkCommand(s)
  <2>1. /\ auth' = auth /\ cl' = cl /\ result' = result /\ chan' = chan /\ dm' = dm
        /\ sup[s] = "fork" /\ sup'[s] \in {"send", "check"} /\ chld' = chld
        /\ cmd'[s] = "preexec" /\ master' = master /\ UNCHANGED outVars
    BY <1>3 DEF ForkCommand, TypeOK, clientVars, daemonVars
  <2>2. ~PtyLeft(s) /\ ~Refused(s) /\ ~Refused(s)' /\ cmd[s] = "none" /\ ~chld[s]
    BY <2>1 DEF SessionInv, Phases, Linked, NeverServed, Refused
  <2>3. Linked(s)'
    BY <2>1, <2>2 DEF Linked, OneFd, InFlight
  <2>4. Terminal(s) = "kept" /\ Terminal(s)' = "kept"
    BY <2>1, <2>2 DEF Terminal, PtyLeft
  <2>5. Job(s) = "none" /\ Job(s)' = "live" /\ result[s] # "denied"
    BY <2>1, <2>2 DEF Job, Refused
  <2>6. User(s)!StartJob
    BY <2>1, <2>4, <2>5 DEF User!StartJob, User!outVars, outVars
  <2>7. QED
    BY <2>3, <2>6 DEF AbsStep, User!Next
<1>4. CASE CheckShellPatterns(s)
  BY <1>4, CheckAbs
<1>5. CASE SendPtyToClient(s)
  BY <1>5, SendAbs
<1>6. CASE SelectReadable(s)
  <2>1. /\ auth' = auth /\ cl' = cl /\ result' = result /\ chan' = chan /\ dm' = dm
        /\ sup[s] = "select" /\ sup'[s] = "reap" /\ chld' = chld /\ cmd' = cmd
        /\ master' = master /\ UNCHANGED outVars
    BY <1>6 DEF SelectReadable, TypeOK, clientVars, daemonVars, ptyVars
  <2>2. ~Refused(s) /\ ~Refused(s)' /\ cmd[s] # "none"
    BY <2>1 DEF Linked, NeverServed, Refused
  <2>3. Linked(s)'
    BY <2>1, <2>2 DEF Linked, OneFd, InFlight
  <2>4. Terminal(s)' = Terminal(s) /\ Job(s)' = Job(s)
    BY <2>1 DEF Terminal, Job
  <2>5. QED
    BY <2>1, <2>3, <2>4, Unseen
<1>7. CASE Sigchld(s)
  <2>1. /\ auth' = auth /\ cl' = cl /\ result' = result /\ chan' = chan /\ dm' = dm
        /\ sup' = sup /\ sup[s] # "none" /\ chld[s] /\ chld'[s] = FALSE
        /\ cmd'[s] = "reaped" /\ master' = master /\ UNCHANGED outVars
    BY <1>7 DEF Sigchld, SupAlive, TypeOK, clientVars, daemonVars, ptyVars
  <2>2. ~Refused(s) /\ ~Refused(s)' /\ cmd[s] = "exited"
    BY <2>1 DEF Linked, NeverServed, Refused
  <2>3. Linked(s)'
    BY <2>1, <2>2 DEF Linked, OneFd, InFlight
  <2>4. Terminal(s)' = Terminal(s) /\ Job(s)' = Job(s)
    BY <2>1, <2>2 DEF Terminal, Job
  <2>5. QED
    BY <2>1, <2>3, <2>4, Unseen
<1>8. QED
  BY <1>1, <1>2, <1>3, <1>4, <1>5, <1>6, <1>7 DEF ChildStep
-----------------------------------------------------------------------------
LEMMA CommandAbs ==
  ASSUME TypeOK, NEW s \in Sessions, SessionInv(s), Linked(s),
         KernelStep(s) \/ CommandStep(s)
  PROVE  Linked(s)' /\ AbsStep(s)
<1>1. CASE Exec(s) \/ StopInCopy(s)
  <2>1. /\ auth' = auth /\ cl' = cl /\ result' = result /\ chan' = chan /\ dm' = dm
        /\ ends' = ends /\ sup' = sup /\ chld' = chld
        /\ cmd[s] = "preexec" /\ cmd'[s] \in {"preexec", "running"}
        /\ master' = master /\ UNCHANGED outVars
    BY <1>1 DEF Exec, StopInCopy, TypeOK, clientVars, daemonVars, ptyVars
  <2>2. Linked(s)'
    BY <2>1 DEF Linked, OneFd, InFlight, Refused, NeverServed
  <2>3. Terminal(s)' = Terminal(s) /\ Job(s)' = Job(s)
    BY <2>1 DEF Terminal, Job
  <2>4. QED
    BY <2>1, <2>2, <2>3, Unseen
<1>2. CASE CommandEnds(s) /\ cmd[s] \in {"preexec", "running"}
  <2>1. /\ auth' = auth /\ cl' = cl /\ result' = result /\ chan' = chan /\ dm' = dm
        /\ ends' = ends /\ sup' = sup /\ chld'[s] = SupAlive(s)
        /\ cmd'[s] = (IF SupAlive(s) THEN "exited" ELSE "reaped")
        /\ master' = master /\ UNCHANGED outVars
    BY <1>2 DEF CommandEnds, TypeOK, clientVars, daemonVars
  <2>2. Linked(s)'
    BY <1>2, <2>1 DEF Linked, OneFd, InFlight, Refused, NeverServed
  <2>3. Terminal(s)' = Terminal(s) /\ Job(s) = "live" /\ Job(s)' = "over"
    BY <1>2, <2>1 DEF Terminal, Job
  <2>4. User(s)!JobEnds
    BY <2>1, <2>3 DEF User!JobEnds, User!outVars, outVars
  <2>5. QED
    BY <2>2, <2>4 DEF AbsStep, User!Next
<1>3. ASSUME NEW kind \in Kinds, Write(s, kind) PROVE Linked(s)' /\ AbsStep(s)
  <2>1. /\ auth' = auth /\ cl' = cl /\ result' = result /\ chan' = chan /\ dm' = dm
        /\ ends' = ends /\ sup' = sup /\ chld' = chld /\ cmd' = cmd /\ cmd[s] = "running"
        /\ master' = master /\ swallowed' = swallowed /\ shown' = shown
    BY <1>3 DEF Write, clientVars, daemonVars, ptyVars
  <2>2. Linked(s)'
    BY <2>1 DEF Linked, OneFd, InFlight, Refused, NeverServed, PtyLeft
  <2>3. Terminal(s)' = Terminal(s) /\ Job(s) = "live" /\ Job(s)' = "live"
    BY <2>1 DEF Terminal, Job
  <2>4. LET chunk == [n |-> Len(produced[s]) + 1, kind |-> kind]
        IN  produced'[s] = Append(produced[s], chunk) /\ out'[s] = Append(out[s], chunk)
    BY <1>3 DEF Write, TypeOK
  <2>5. User(s)!Write
    BY <2>1, <2>3, <2>4 DEF User!Write, Kinds
  <2>6. QED
    BY <2>2, <2>5 DEF AbsStep, User!Next
<1>4. QED
  BY <1>1, <1>2, <1>3
  DEF KernelStep, CommandStep, CommandExits, Hangup, Terminated
-----------------------------------------------------------------------------
AllLinked == \A s \in Sessions : Linked(s)

LEMMA RefinesStep ==
  ASSUME TypeOK, IInv, AllLinked, [Next]_vars
  PROVE  AllLinked' /\ \A s \in Sessions : AbsStep(s)
<1> SUFFICES ASSUME NEW t \in Sessions PROVE Linked(t)' /\ AbsStep(t)
  BY DEF AllLinked
<1>1. SessionInv(t) /\ Linked(t)
  BY DEF IInv, AllLinked
<1>2. ASSUME NEW s \in Sessions,
             \/ ClientStep(s) \/ Quit(s) \/ DaemonStep(s)
             \/ ChildStep(s) \/ KernelStep(s) \/ CommandStep(s)
      PROVE  Linked(t)' /\ AbsStep(t)
  <2>1. SessionInv(s) /\ Linked(s)
    BY DEF IInv, AllLinked
  <2>2. CASE s = t
    BY <1>2, <2>1, <2>2, ClientAbs, DaemonAbs, ChildAbs, CommandAbs
  <2>3. CASE s # t
    <3>1. Untouched(t) /\ EndsUntouched(t)
      BY <1>2, <2>1, <2>3, ClientOthers, DaemonOthers, ChildOthers, CommandOthers
    <3>2. QED
      BY <1>1, <3>1, OthersLinked, OthersStutter
  <2>4. QED
    BY <2>2, <2>3
<1>3. CASE UNCHANGED vars
  <2>1. Untouched(t) /\ EndsUntouched(t)
    BY <1>3 DEF vars, Untouched, EndsUntouched, clientVars, daemonVars, ptyVars, outVars
  <2>2. QED
    BY <1>1, <2>1, OthersLinked, OthersStutter
<1>4. QED
  BY <1>2, <1>3 DEF Next

(* ImplementsTerminalSession: the four processes of a session, whatever    *)
(* their order and their signals, and whatever the other sessions do, are  *)
(* what TerminalSession promises its user.                                 *)
THEOREM SessionsAreTerminalSessions == Spec => ImplementsTerminalSession
<1>1. Init => AllLinked /\ \A s \in Sessions : User(s)!Init
  BY LinkedInit, AbsInit DEF AllLinked
<1>2. (TypeOK /\ IInv) /\ AllLinked /\ [Next]_vars => AllLinked'
  BY RefinesStep
<1>3. (TypeOK /\ IInv) /\ AllLinked /\ [Next]_vars
        => [\A s \in Sessions : UNCHANGED User(s)!vars \/ User(s)!Next]_vars
  BY RefinesStep DEF AbsStep
<1>4. QED
  BY <1>1, <1>2, <1>3, InvAlways, PTL DEF Spec, ImplementsTerminalSession
=============================================================================
