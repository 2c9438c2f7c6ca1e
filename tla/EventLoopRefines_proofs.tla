---------------------- MODULE EventLoopRefines_proofs -----------------------
(***************************************************************************)
(* EventLoop implements ReplyService, for every number of connections and  *)
(* descriptors and any scripts: the initial states are initial states, and *)
(* each step of the loop, of a signal or of a client is a step of          *)
(* ReplyService or changes nothing that a client sees.                     *)
(***************************************************************************)
EXTENDS EventLoop_proofs

(* Where the daemon has a connection, and whether it is between the fork   *)
(* for it and the answer.                                                  *)
Held(c)      == c \in ToSet(backlog) \/ \E f \in FDs : table[f] = c
Answering(c) == pc = "forked" /\ Caller = c

Listens == Alive /\ sockfile

AbsStep == UNCHANGED Service!vars \/ Service!Next

LEMMA StatusIs ==
  ASSUME NEW c \in Conns
  PROVE  /\ cli[c] = "none" => Status(c) = "none"
         /\ cli[c] # "none" /\ Answering(c) => Status(c) = "started"
         /\ cli[c] # "none" /\ ~Answering(c) /\ Held(c) => Status(c) = "waiting"
         /\ cli[c] # "none" /\ ~Answering(c) /\ ~Held(c) => Status(c) = "over"
BY DEF Status, Held, Answering

LEMMA StatusWillBe ==
  ASSUME NEW c \in Conns
  PROVE  /\ cli'[c] = "none" => Status(c)' = "none"
         /\ cli'[c] # "none" /\ Answering(c)' => Status(c)' = "started"
         /\ cli'[c] # "none" /\ ~Answering(c)' /\ Held(c)' => Status(c)' = "waiting"
         /\ cli'[c] # "none" /\ ~Answering(c)' /\ ~Held(c)' => Status(c)' = "over"
BY DEF Status, Held, Answering

(* The steps that show nothing. *)
LEMMA Stutters ==
  ASSUME UNCHANGED <<script, sent, cli, replies>>, Listens' = Listens,
         \A c \in Conns : (Held(c)' <=> Held(c)) /\ (Answering(c)' <=> Answering(c)),
         \A c \in Conns : Job(c)' = Job(c)
  PROVE  UNCHANGED Service!vars
<1>1. \A c \in Conns : Status(c)' = Status(c)
  BY StatusIs, StatusWillBe
<1>2. [c \in Conns |-> Status(c)]' = [c \in Conns |-> Status(c)]
  BY <1>1
<1>3. [c \in Conns |-> Job(c)]' = [c \in Conns |-> Job(c)]
  OBVIOUS
<1>4. QED
  BY <1>2, <1>3 DEF Service!vars, Listens

LEMMA SameHolding ==
  ASSUME UNCHANGED <<table, backlog>>
  PROVE  \A c \in Conns : Held(c)' <=> Held(c)
BY DEF Held

LEMMA SameAnswering ==
  ASSUME \/ pc # "forked" /\ pc' # "forked"
         \/ UNCHANGED <<pc, fds, idx, table>>
  PROVE  \A c \in Conns : Answering(c)' <=> Answering(c)
BY DEF Answering, Caller, Entry

LEMMA SameJobs ==
  ASSUME UNCHANGED kid
  PROVE  \A c \in Conns : Job(c)' = Job(c)
BY DEF Job

LEMMA SameListens ==
  ASSUME UNCHANGED sockfile, Alive' <=> Alive
  PROVE  Listens' = Listens
BY DEF Listens

(***************************************************************************)
(* What the refinement rests on.  A daemon that is gone has no connection, *)
(* and a connection that waits to be served has no Child yet.              *)
(***************************************************************************)

NoneHeld  == ~Alive => \A c \in Conns : ~Held(c)
Childless == \A c \in Conns : Status(c) \in {"none", "waiting"} => Job(c) = "none"

Refining ==
  /\ Typed /\ Forked /\ Places /\ Streams /\ HangupMeansGone
  /\ NoneHeld /\ Childless

LEMMA Kinded ==
  ASSUME Typed
  PROVE  /\ \A c \in Conns : Job(c) \in {"none", "running", "gone"}
         /\ \A c \in Conns : Job(c) = "none" <=> kid[c] = "none"
         /\ \A c \in Conns : Job(c) = "running" <=> kid[c] \in {"running", "orphan"}
BY DEF Typed, TypeOK, Job

LEMMA AnsweringHeld ==
  ASSUME Typed, Places, NEW c \in Conns
  PROVE  /\ Answering(c) => Held(c)
         /\ Held(c) => cli[c] # "none"
<1>1. Answering(c) => Held(c)
  BY TypeRest DEF Answering, Held, Caller
<1>2. Held(c) => cli[c] # "none"
  BY Assumed DEF Held, Places, ToSet
<1>3. QED
  BY <1>1, <1>2

(* Nothing is left of what the daemon held when it dies, or of the queue   *)
(* when it stops listening.                                                *)
LEMMA Shuts ==
  ASSUME Typed, Places, UNCHANGED <<script, sent, cli, replies>>, ~Listens',
         \A c \in Conns : Held(c)' => Held(c),
         \A c \in Conns : Held(c)' => (Answering(c)' <=> Answering(c)),
         \A c \in Conns : Answering(c)' => Held(c)',
         \A c \in Conns : Job(c)' = Job(c)
  PROVE  Service!Shut
<1>1. ASSUME NEW c \in Conns, Status(c)' # Status(c)
      PROVE  Status(c) \in {"waiting", "started"} /\ Status(c)' = "over"
  BY <1>1, AnsweringHeld, StatusIs, StatusWillBe
<1>2. \A c \in Conns : [d \in Conns |-> Status(d)]'[c] # [d \in Conns |-> Status(d)][c]
                         => /\ [d \in Conns |-> Status(d)][c] \in {"waiting", "started"}
                            /\ [d \in Conns |-> Status(d)]'[c] = "over"
  BY <1>1
<1>3. [c \in Conns |-> Job(c)]' = [c \in Conns |-> Job(c)]
  OBVIOUS
<1>4. (Alive /\ sockfile)' = FALSE
  BY DEF Listens
<1>5. DOMAIN [d \in Conns |-> Status(d)]' = Conns
  OBVIOUS
<1>6. QED
  BY <1>2, <1>3, <1>4, <1>5 DEF Service!Shut, Service!Pending

LEMMA DieEmpties ==
  ASSUME NEW how, Die(how)
  PROVE  \A c \in Conns : ~Held(c)'
<1>1. table' = [f \in FDs |-> Free] /\ backlog' = <<>>
  BY DEF Die, AbandonQueue
<1>2. QED
  BY <1>1, Assumed DEF Held, ToSet

LEMMA DieShuts ==
  ASSUME Typed, Places, NEW how \in {"exited", "killed"}, Die(how)
  PROVE  Service!Shut
<1>1. UNCHANGED <<script, sent, cli, replies>>
  BY DEF Die, clientVars
<1>2. ~Listens' /\ \A c \in Conns : ~Answering(c)'
  BY DEF Die, Goto, Listens, Alive, Answering
<1>4. \A c \in Conns : ~Held(c)'
  BY DieEmpties
<1>5. \A c \in Conns : Job(c)' = Job(c)
  <2>1. TAKE c \in Conns
  <2>2. kid'[c] = CASE kid[c] = "running" -> "orphan"
                    [] kid[c] = "zombie"  -> "reaped"
                    [] OTHER -> kid[c]
    BY DEF Die, Inherit
  <2>3. kid[c] \in KidStates
    BY DEF Typed, TypeOK, KidStates
  <2>4. QED
    BY <2>2, <2>3 DEF Job, KidStates
<1>6. QED
  BY <1>1, <1>2, <1>4, <1>5, Shuts

LEMMA StopShuts ==
  ASSUME Typed, Places, Stop, UNCHANGED <<script, sent, cli, replies>>
  PROVE  Service!Shut
<1>1. UNCHANGED <<pc, fds, idx, table, kid>> /\ backlog' = <<>> /\ sockfile' = FALSE
  BY DEF Stop, AbandonQueue, RemoveSocketFile, loopVars, memVars
<1>2. ~Listens'
  BY <1>1 DEF Listens
<1>3. \A c \in Conns : Held(c)' => Held(c)
  BY <1>1 DEF Held, ToSet
<1>4. \A c \in Conns : Answering(c)' <=> Answering(c)
  BY <1>1, SameAnswering
<1>5. \A c \in Conns : Answering(c)' => Held(c)'
  BY <1>1, TypeRest DEF Answering, Held, Caller, Entry
<1>6. \A c \in Conns : Job(c)' = Job(c)
  BY <1>1, SameJobs
<1>7. QED
  BY <1>2, <1>3, <1>4, <1>5, <1>6, Shuts

(***************************************************************************)
(* A connection is let go of.                                              *)
(***************************************************************************)

(* It is then over, and nothing changes for another. *)
LEMMA LettingGo ==
  ASSUME Typed, Places, NEW f \in FDs, table[f] # Free,
         table' = [table EXCEPT ![f] = Free], UNCHANGED <<backlog, cli>>,
         pc' # "forked", pc = "forked" => Caller = table[f]
  PROVE  [c \in Conns |-> Status(c)]' =
            [[c \in Conns |-> Status(c)] EXCEPT ![table[f]] = "over"]
<1>1. table \in [FDs -> Conns \cup {Free}] /\ table[f] \in Conns /\ Free \notin Conns
  BY Assumed DEF Typed, TypeOK
<1>b. backlog \in Seq(Conns)
  BY DEF Typed, TypeOK
<1>2. ASSUME NEW c \in Conns, c = table[f] PROVE ~Held(c)'
  <2>1. \A g \in FDs : table'[g] # c
    BY <1>1, <1>2 DEF Places
  <2>2. \A i \in 1..Len(backlog) : backlog[i] # c
    BY <1>1, <1>2 DEF Places
  <2>3. c \notin ToSet(backlog)
    BY <1>b, <2>2 DEF ToSet
  <2>4. QED
    BY <2>1, <2>3 DEF Held
<1>3. ASSUME NEW c \in Conns, c # table[f] PROVE Held(c)' <=> Held(c)
  BY <1>1, <1>3 DEF Held
<1>4. \A c \in Conns : ~Answering(c)' /\ (c # table[f] => ~Answering(c))
  BY DEF Answering
<1>5. cli[table[f]] # "none"
  BY <1>1 DEF Places
<1>6. \A c \in Conns : Status(c)' = IF c = table[f] THEN "over" ELSE Status(c)
  <2>1. TAKE c \in Conns
  <2>2. CASE c = table[f]
    BY <2>2, <1>2, <1>4, <1>5, StatusWillBe
  <2>3. CASE c # table[f]
    BY <2>3, <1>3, <1>4, StatusIs, StatusWillBe
  <2>4. QED
    BY <2>2, <2>3
<1>7. QED
  BY <1>1, <1>6

(* The scan drops an entry whose client has left, or that is stale. *)
LEMMA ScanDrops ==
  ASSUME Refining, ScanHup \/ ScanReadFails
  PROVE  AbsStep
<1> DEFINE f == Entry.fd
           c == table[f]
<1>1. /\ f \in FDs /\ pc = "scan" /\ pc' = "scan" /\ idx \in 1..Len(fds)
      /\ table' = [table EXCEPT ![f] = Free]
      /\ UNCHANGED <<backlog, kid, sockfile, script, sent, cli, replies>>
  BY ScanningEntry
  DEF Refining, Typed, ScanHup, ScanReadFails, DropEntry, Closed, clientVars, flagVars
<1>2. Listens' = Listens /\ \A d \in Conns : Job(d)' = Job(d)
  BY <1>1, SameJobs, SameListens DEF Alive
<1>3. CASE c = Free
  <2>1. table' = table
    BY <1>1, <1>3 DEF Refining, Typed, TypeOK
  <2>2. QED
    BY <1>1, <1>2, <2>1, SameHolding, SameAnswering, Stutters DEF AbsStep
<1>4. CASE c # Free
  <2>1. c \in Conns /\ cli[c] = "closed"
    <3>1. c \in Conns
      BY <1>1, <1>4 DEF Refining, Typed, TypeOK
    <3>2. CASE ScanHup
      <4>1. fds[idx].re = "hup" /\ f = fds[idx].fd
        BY <3>2 DEF ScanHup, Scanning, Entry
      <4>2. idx >= idx
        BY <1>1
      <4>3. table[f] = Free \/ table[f] \in Departed
        BY <1>1, <4>1, <4>2 DEF Refining, HangupMeansGone
      <4>4. QED
        BY <1>4, <4>3 DEF Departed
    <3>3. CASE ScanReadFails
      BY <1>4, <3>1, <3>3 DEF ScanReadFails, ReadFails
    <3>4. QED
      BY <3>1, <3>2, <3>3
  <2>2. [d \in Conns |-> Status(d)]' = [[d \in Conns |-> Status(d)] EXCEPT ![c] = "over"]
    BY <1>1, <1>4, LettingGo DEF Refining
  <2>3. Status(c) = "waiting"
    BY <1>1, <2>1, StatusIs DEF Held, Answering
  <2>4. [d \in Conns |-> Job(d)]' = [d \in Conns |-> Job(d)]
    BY <1>2
  <2>5. Service!Drop(c)
    BY <1>1, <1>2, <2>1, <2>2, <2>3, <2>4 DEF Service!Drop, Service!Over, Listens
  <2>6. QED
    BY <2>1, <2>5 DEF AbsStep, Service!Next
<1>5. QED
  BY <1>3, <1>4

(* The request in the buffer is what its client asked for first. *)
LEMMA AskedRead ==
  ASSUME Typed, Streams, pc \in {"process", "forked"}, NEW kind, Requested(kind)
  PROVE  Service!AskedFor(Caller, kind)
<1> DEFINE f == Entry.fd
           c == Caller
           e == MessageEnd(Buffer)
<1>1. /\ f \in FDs /\ c \in Conns /\ table[f] = c /\ c # Free /\ buf[f] = Buffer
      /\ Buffer \in Seq(Segments) /\ inq[c] \in Seq(Segments) /\ sent[c] \in Nat
  BY TypeRest, Assumed DEF Typed, TypeOK, Segments, Caller, Buffer
<1>2. InOrder(Buffer, inq[c], sent[c], script[c])
  BY <1>1 DEF Streams, Fresh
<1>3. /\ e \in 1..Len(Buffer) /\ Buffer[e].last /\ Buffer[e].kind = kind
      /\ \A j \in 1..(e - 1) : ~Buffer[j].last
  BY <1>1, EndOfMessage DEF Requested
<1>4. Len(Buffer) \in Nat /\ Len(inq[c]) \in Nat
  BY <1>1
<1> HIDE DEF c, e
<1>5. e \in 1..sent[c] /\ \A j \in 1..(e - 1) : j \in 1..Len(Buffer)
  BY <1>1, <1>2, <1>3, <1>4 DEF InOrder
<1>6. \A k \in 1..Len(Buffer) : script[c][k].last = Buffer[k].last
                                /\ script[c][k].kind = Buffer[k].kind
  BY <1>2 DEF InOrder, Same
<1>7. Service!Asked(c, e) /\ script[c][e].kind = kind
  BY <1>3, <1>5, <1>6 DEF Service!Asked
<1>8. QED
  BY <1>5, <1>7 DEF Service!AskedFor, c

(* A handler closes the descriptor it served. *)
LEMMA Closing ==
  ASSUME Refining, pc \in {"process", "forked"}, NEW left, CloseWith(left)
  PROVE  /\ [c \in Conns |-> Status(c)]' =
              [[c \in Conns |-> Status(c)] EXCEPT ![Caller] = "over"]
         /\ [c \in Conns |-> Job(c)]' = [c \in Conns |-> Job(c)]
         /\ (Alive /\ sockfile)' = (Alive /\ sockfile)
         /\ UNCHANGED <<script, sent, cli>>
         /\ pc = "process" => Status(Caller) = "waiting"
         /\ pc = "forked" => Status(Caller) = "started"
         /\ Caller \in Conns
<1>1. /\ Entry.fd \in FDs /\ table[Entry.fd] = Caller /\ Caller \in Conns
      /\ Caller # Free
  BY TypeRest, Assumed DEF Refining, Caller
<1>2. /\ table' = [table EXCEPT ![Entry.fd] = Free] /\ pc' = "scan"
      /\ UNCHANGED <<backlog, kid, sockfile, script, sent, cli>>
  BY DEF CloseWith, Closed, Goto, clientVars, flagVars
<1>3. [c \in Conns |-> Status(c)]' =
        [[c \in Conns |-> Status(c)] EXCEPT ![Caller] = "over"]
  BY <1>1, <1>2, LettingGo DEF Refining
<1>4. [c \in Conns |-> Job(c)]' = [c \in Conns |-> Job(c)]
  BY <1>2, SameJobs
<1>5. (Alive /\ sockfile)' = (Alive /\ sockfile)
  BY <1>2 DEF Alive
<1>6. cli[Caller] # "none"
  BY <1>1 DEF Refining, Places
<1>7. pc = "process" => Status(Caller) = "waiting"
  BY <1>1, <1>6, StatusIs DEF Held, Answering
<1>8. pc = "forked" => Status(Caller) = "started"
  BY <1>1, <1>6, StatusIs DEF Answering
<1>9. QED
  BY <1>1, <1>2, <1>3, <1>4, <1>5, <1>7, <1>8

(* No answer has been given to the caller, and the first is the only one. *)
LEMMA FirstAnswer ==
  ASSUME Refining, pc \in {"process", "forked"}, NEW answer \in Kinds
  PROVE  replies[Caller] = <<>> /\ Append(replies[Caller], answer) = <<answer>>
<1>1. /\ Entry.fd \in FDs /\ table[Entry.fd] = Caller /\ Caller # Free
  BY TypeRest, Assumed DEF Refining, Caller
<1>2. replies[Caller] = <<>>
  BY <1>1 DEF Refining, Streams, Fresh
<1>3. QED
  BY <1>2

LEMMA CloseDrops ==
  ASSUME Refining, pc = "process", MessageEnd(Buffer) # 0, NEW left, CloseWith(left),
         UNCHANGED replies
  PROVE  AbsStep
<1>1. Service!AskedFor(Caller, Buffer[MessageEnd(Buffer)].kind)
  BY AskedRead DEF Refining, Requested
<1>2. \E k \in 1..sent[Caller] : Service!Asked(Caller, k)
  BY <1>1 DEF Service!AskedFor
<1>3. Service!Drop(Caller)
  BY <1>2, Closing DEF Service!Drop, Service!Over
<1>4. QED
  BY <1>3, Closing DEF AbsStep, Service!Next

LEMMA CloseReplies ==
  ASSUME Refining, pc = "process", NEW kind \in {"list", "denied"}, Requested(kind),
         NEW left, CloseWith(left), cli[Caller] # "closed",
         replies' = [replies EXCEPT ![Caller] = Append(@, kind)]
  PROVE  AbsStep
<1>1. Service!AskedFor(Caller, kind)
  BY AskedRead DEF Refining
<1>2. replies[Caller] = <<>> /\ replies' = [replies EXCEPT ![Caller] = <<kind>>]
  BY FirstAnswer DEF Kinds
<1>3. Service!Answer(Caller, kind)
  BY <1>2 DEF Service!Answer
<1>4. Service!Reply(Caller)
  BY <1>1, <1>3, Closing DEF Service!Reply, Service!Over
<1>5. QED
  BY <1>4, Closing DEF AbsStep, Service!Next

LEMMA CloseAnswers ==
  ASSUME Refining, pc = "forked", NEW left, CloseWith(left),
         \/ cli[Caller] = "closed" /\ UNCHANGED replies
         \/ /\ cli[Caller] # "closed"
            /\ replies' = [replies EXCEPT ![Caller] = Append(@, "exec")]
  PROVE  AbsStep
<1>1. replies[Caller] = <<>> /\ Append(replies[Caller], "exec") = <<"exec">>
  BY FirstAnswer DEF Kinds
<1>2. Service!Answer(Caller, "exec") \/ (cli[Caller] = "closed" /\ UNCHANGED replies)
  BY <1>1 DEF Service!Answer
<1>3. Service!AnswerStarted(Caller)
  BY <1>2, Closing DEF Service!AnswerStarted, Service!Over
<1>4. QED
  BY <1>3, Closing DEF AbsStep, Service!Next

LEMMA WriteAbs ==
  ASSUME Refining, NEW answer \in {"list", "denied", "exec"}, Requested(answer),
         pc = IF answer = "exec" THEN "forked" ELSE "process",
         WriteAndClose(Caller, answer)
  PROVE  AbsStep
<1>1. CASE Die("killed")
  BY <1>1, DieShuts DEF Refining, AbsStep, Service!Next
<1>2. CASE HandlerCloses /\ UNCHANGED replies /\ cli[Caller] = "closed"
  <2>1. CASE answer = "exec"
    BY <1>2, <2>1, CloseAnswers DEF HandlerCloses
  <2>2. CASE answer # "exec"
    BY <1>2, <2>2, CloseDrops DEF HandlerCloses, Requested
  <2>3. QED
    BY <2>1, <2>2
<1>3. CASE /\ HandlerCloses /\ cli[Caller] # "closed"
           /\ replies' = [replies EXCEPT ![Caller] = Append(@, answer)]
  <2>1. CASE answer = "exec"
    BY <1>3, <2>1, CloseAnswers DEF HandlerCloses
  <2>2. CASE answer # "exec"
    BY <1>3, <2>2, CloseReplies DEF HandlerCloses
  <2>3. QED
    BY <2>1, <2>2
<1>4. QED
  BY <1>1, <1>2, <1>3 DEF WriteAndClose

LEMMA ForkAbs ==
  ASSUME Refining, ForkChild
  PROVE  AbsStep
<1>1. /\ pc = "process" /\ pc' = "forked" /\ Requested("exec")
      /\ kid' = [kid EXCEPT ![Caller] = "running"]
      /\ UNCHANGED <<fds, idx, table, backlog, sockfile, script, sent, cli, replies>>
  BY DEF ForkChild, Goto, loopVars, memVars, flagVars, clientVars
<1>2. /\ Caller \in Conns /\ Caller' = Caller /\ Held(Caller)
  BY <1>1, TypeRest DEF Refining, Caller, Entry, Held
<1>3. cli[Caller] # "none"
  BY <1>2, AnsweringHeld DEF Refining
<1>4. Status(Caller) = "waiting"
  BY <1>1, <1>2, <1>3, StatusIs DEF Answering
<1>5. Job(Caller) = "none"
  BY <1>2, <1>4 DEF Refining, Childless
<1>6. Service!AskedFor(Caller, "exec")
  BY <1>1, AskedRead DEF Refining
<1>7. \A c \in Conns : Answering(c)' <=> c = Caller
  BY <1>1, <1>2 DEF Answering
<1>8. \A c \in Conns : ~Answering(c) /\ (Held(c)' <=> Held(c))
  BY <1>1 DEF Answering, Held
<1>9. \A c \in Conns : Status(c)' = IF c = Caller THEN "started" ELSE Status(c)
  BY <1>1, <1>2, <1>3, <1>7, <1>8, StatusIs, StatusWillBe
<1>10. [c \in Conns |-> Status(c)]' =
        [[c \in Conns |-> Status(c)] EXCEPT ![Caller] = "started"]
  BY <1>2, <1>9
<1>11. \A c \in Conns : Job(c)' = IF c = Caller THEN "running" ELSE Job(c)
  BY <1>1, <1>2 DEF Job, Refining, Typed, TypeOK
<1>12. [c \in Conns |-> Job(c)]' = [[c \in Conns |-> Job(c)] EXCEPT ![Caller] = "running"]
  BY <1>2, <1>11
<1>13. (Alive /\ sockfile)' = (Alive /\ sockfile)
  BY <1>1 DEF Alive
<1>14. Service!StartJob(Caller)
  BY <1>1, <1>2, <1>4, <1>5, <1>6, <1>10, <1>12, <1>13 DEF Service!StartJob
<1>15. QED
  BY <1>2, <1>14 DEF AbsStep, Service!Next

(***************************************************************************)
(* Each kind of step.                                                      *)
(***************************************************************************)

LEMMA StartAbs ==
  ASSUME Refining, Start
  PROVE  AbsStep
<1>1. /\ ~Alive /\ pc' = "bound" /\ sockfile' = TRUE
      /\ UNCHANGED <<table, backlog, kid, script, sent, cli, replies>>
  BY DEF Start, Goto, memVars, clientVars
<1>2. \A c \in Conns : ~Held(c) /\ ~Answering(c) /\ ~Held(c)' /\ ~Answering(c)'
  BY <1>1 DEF Refining, NoneHeld, Held, Answering, Alive
<1>3. \A c \in Conns : Status(c)' = Status(c) /\ Status(c) \notin {"waiting", "started"}
  BY <1>1, <1>2, StatusIs, StatusWillBe
<1>4. [c \in Conns |-> Status(c)]' = [c \in Conns |-> Status(c)]
  BY <1>3
<1>5. [c \in Conns |-> Job(c)]' = [c \in Conns |-> Job(c)]
  BY <1>1, SameJobs
<1>6. ~(Alive /\ sockfile) /\ (Alive /\ sockfile)' = TRUE
  BY <1>1 DEF Alive
<1>7. Service!Listen
  BY <1>1, <1>3, <1>4, <1>5, <1>6 DEF Service!Listen, Service!Pending
<1>8. QED
  BY <1>7 DEF AbsStep, Service!Next

LEMMA StartFailsAbs ==
  ASSUME Refining, StartFails
  PROVE  AbsStep
<1>1. /\ ~Alive /\ pc' = "exited"
      /\ UNCHANGED <<table, backlog, kid, script, sent, cli, replies>>
  BY DEF StartFails, Goto, memVars, clientVars
<1>2. Listens = FALSE /\ Listens' = FALSE /\ pc # "forked" /\ pc' # "forked"
  BY <1>1 DEF Listens, Alive
<1>3. QED
  BY <1>1, <1>2, SameHolding, SameAnswering, SameJobs, Stutters DEF AbsStep

(* Steps that leave the connections where they are. *)
LEMMA QuietAbs ==
  ASSUME UNCHANGED <<script, sent, cli, replies, table, backlog, kid, sockfile>>,
         pc # "forked" /\ pc' # "forked", Alive' <=> Alive
  PROVE  AbsStep
BY SameHolding, SameAnswering, SameJobs, SameListens, Stutters DEF AbsStep

(* From the queue to a descriptor: the connection still waits. *)
LEMMA AcceptAbs ==
  ASSUME Refining, Accept
  PROVE  AbsStep
<1>1. /\ pc = "accept" /\ pc' = "scan"
      /\ UNCHANGED <<script, sent, cli, replies, kid, sockfile>>
  BY DEF Accept, Goto, flagVars, clientVars
<1>2. Alive' <=> Alive
  BY <1>1 DEF Alive
<1>3. CASE UNCHANGED <<table, backlog>>
  BY <1>1, <1>2, <1>3, QuietAbs
<1>4. ASSUME NEW f \in FDs, LowestFree(f), table' = [table EXCEPT ![f] = Head(backlog)],
             backlog' = Tail(backlog), backlog # <<>>
      PROVE  AbsStep
  <2>1. /\ table \in [FDs -> Conns \cup {Free}] /\ backlog \in Seq(Conns)
        /\ Free \notin Conns /\ table[f] = Free
    BY <1>4, Assumed DEF Refining, Typed, TypeOK, LowestFree, FreeFDs
  <2>2. /\ Head(backlog) = backlog[1] /\ Len(backlog) >= 1 /\ Len(backlog) \in Nat
        /\ Len(Tail(backlog)) = Len(backlog) - 1
        /\ \A i \in 1..(Len(backlog) - 1) : Tail(backlog)[i] = backlog[i + 1]
    BY <1>4, <2>1
  <2>3. ASSUME NEW c \in Conns
        PROVE  c \in ToSet(backlog) <=> c = backlog[1] \/ c \in ToSet(Tail(backlog))
    <3>1. c \in ToSet(backlog) <=> \E i \in 1..Len(backlog) : backlog[i] = c
      BY <2>1 DEF ToSet
    <3>2. c \in ToSet(Tail(backlog))
            <=> \E i \in 1..(Len(backlog) - 1) : Tail(backlog)[i] = c
      <4>1. DOMAIN Tail(backlog) = 1..(Len(backlog) - 1)
        BY <1>4, <2>1
      <4>2. QED
        BY <4>1 DEF ToSet
    <3>3. ASSUME NEW i \in 1..Len(backlog), i # 1
          PROVE  i - 1 \in 1..(Len(backlog) - 1) /\ (i - 1) + 1 = i
      BY <3>3, <2>2
    <3>4. \A i \in 1..(Len(backlog) - 1) : i + 1 \in 1..Len(backlog)
      BY <2>2
    <3>5. 1 \in 1..Len(backlog)
      BY <2>2
    <3>6. QED
      BY <2>2, <3>1, <3>2, <3>3, <3>4, <3>5
  <2>4. ASSUME NEW c \in Conns
        PROVE  (\E g \in FDs : table'[g] = c)
                 <=> c = backlog[1] \/ \E g \in FDs : table[g] = c
    BY <1>4, <2>1, <2>2
  <2>5. \A c \in Conns : Held(c)' <=> Held(c)
    BY <1>4, <2>3, <2>4 DEF Held
  <2>6. QED
    BY <1>1, <1>2, <2>5, SameAnswering, SameJobs, SameListens, Stutters DEF AbsStep
<1>5. QED
  BY <1>3, <1>4 DEF Accept

LEMMA LoopAbs ==
  ASSUME Refining, Startup \/ Poll
  PROVE  AbsStep
<1>1. CASE Startup
  BY <1>1, QuietAbs
  DEF Startup, InstallHandlers, SetGlobal, SetRunning, Goto, Alive, memVars, flagVars,
      clientVars
<1>2. CASE LoopTop \/ PollEntry \/ PollReturn
  BY <1>2, QuietAbs
  DEF LoopTop, PollEntry, PollReturn, Goto, Alive, memVars, flagVars, clientVars
<1>3. CASE LoopExit
  BY <1>3, DieShuts DEF LoopExit, Refining, AbsStep, Service!Next
<1>4. QED
  BY <1>1, <1>2, <1>3, AcceptAbs DEF Poll

LEMMA ScanAbs ==
  ASSUME Refining, Scan
  PROVE  AbsStep
<1>1. CASE ScanDone \/ ScanSkip \/ ScanRead
  BY <1>1, QuietAbs
  DEF ScanDone, ScanSkip, ScanRead, Scanning, Goto, Alive, memVars, flagVars, clientVars
<1>2. QED
  BY <1>1, ScanDrops DEF Scan

LEMMA ServeAbs ==
  ASSUME Refining, Serve
  PROVE  AbsStep
<1>1. CASE NeedMore
  BY <1>1, QuietAbs DEF NeedMore, Goto, Alive, memVars, flagVars, clientVars
<1>2. CASE HandleListUsers
  BY <1>2, WriteAbs DEF HandleListUsers
<1>3. CASE HandleDenied
  BY <1>3, WriteAbs DEF HandleDenied
<1>4. CASE HandleVoid \/ ForkFails
  BY <1>4, CloseDrops DEF HandleVoid, ForkFails, Requested, HandlerCloses
<1>5. CASE AnswerExecute
  BY <1>5, WriteAbs DEF AnswerExecute, Refining, Forked
<1>6. QED
  BY <1>1, <1>2, <1>3, <1>4, <1>5, ForkAbs DEF Serve

LEMMA SignalAbs ==
  ASSUME Refining, Sigterm \/ Sigchld
  PROVE  AbsStep
<1>1. CASE Sigterm /\ pc = "bound" /\ Die("killed")
  BY <1>1, DieShuts DEF Refining, AbsStep, Service!Next
<1>2. CASE Sigterm /\ Stop
  <2>1. UNCHANGED <<script, sent, cli, replies>>
    BY <1>2 DEF Stop, clientVars
  <2>2. QED
    BY <1>2, <2>1, StopShuts DEF Refining, AbsStep, Service!Next
<1>3. ASSUME UNCHANGED <<pc, idx, fds, script, sent, cli, replies, table, backlog>>,
             UNCHANGED sockfile,
             \A c \in Conns : Job(c)' = Job(c)
      PROVE  AbsStep
  BY <1>3, SameHolding, SameAnswering, SameListens, Stutters DEF AbsStep, Alive
<1>4. CASE Sigterm /\ UNCHANGED <<pc, loopVars, memVars, flagVars, chld, starts,
                         clientVars, inq, replies, kid, held, listeners, backlog>>
  BY <1>3, <1>4, SameJobs DEF loopVars, memVars, flagVars, clientVars
<1>5. CASE Sigchld
  <2>1. UNCHANGED <<pc, idx, fds, script, sent, cli, replies, table, backlog, sockfile>>
    BY <1>5 DEF Sigchld, loopVars, memVars, flagVars, clientVars
  <2>2. ASSUME NEW c \in Conns PROVE Job(c)' = Job(c)
    <3>1. kid'[c] = kid[c] \/ (kid[c] = "zombie" /\ kid'[c] = "reaped")
      BY <1>5 DEF Sigchld, ReapChildren
    <3>2. QED
      BY <3>1 DEF Job
  <2>3. QED
    BY <1>3, <2>1, <2>2
<1>6. QED
  BY <1>1, <1>2, <1>4, <1>5 DEF Sigterm

LEMMA KidExitsAbs ==
  ASSUME Refining, NEW c \in Conns, KidExits(c)
  PROVE  AbsStep
<1>1. /\ UNCHANGED <<pc, idx, fds, script, sent, cli, replies, table, backlog, sockfile>>
      /\ kid[c] \in {"running", "orphan"}
      /\ kid' = [kid EXCEPT ![c] = IF @ = "running" THEN "zombie" ELSE "reaped"]
  BY DEF KidExits, loopVars, memVars, flagVars, clientVars
<1>2. \A d \in Conns : Status(d)' = Status(d)
  BY <1>1, SameHolding, SameAnswering, StatusIs, StatusWillBe
<1>3. Job(c) = "running" /\ \A d \in Conns : Job(d)' = IF d = c THEN "gone" ELSE Job(d)
  BY <1>1 DEF Job, Refining, Typed, TypeOK
<1>4. [d \in Conns |-> Status(d)]' = [d \in Conns |-> Status(d)]
  BY <1>2
<1>5. [d \in Conns |-> Job(d)]' = [[d \in Conns |-> Job(d)] EXCEPT ![c] = "gone"]
  BY <1>3
<1>6. (Alive /\ sockfile)' = (Alive /\ sockfile)
  BY <1>1 DEF Alive
<1>7. Service!JobEnds(c)
  BY <1>1, <1>3, <1>4, <1>5, <1>6 DEF Service!JobEnds
<1>8. QED
  BY <1>7 DEF AbsStep, Service!Next

LEMMA ConnectAbs ==
  ASSUME Refining, NEW c \in Conns, Connect(c)
  PROVE  AbsStep
<1>1. /\ UNCHANGED <<pc, idx, fds, script, sent, replies, table, kid, sockfile>>
      /\ cli[c] = "none" /\ sockfile /\ cli' = [cli EXCEPT ![c] = "open"]
      /\ \/ Alive /\ backlog' = Append(backlog, c)
         \/ ~Alive /\ backlog' = backlog
  BY DEF Connect, loopVars, memVars, flagVars
<1>t. backlog \in Seq(Conns) /\ cli \in [Conns -> {"none", "open", "closed"}]
  BY DEF Refining, Typed, TypeOK
<1>2. \A d \in Conns : d \in ToSet(Append(backlog, c)) <=> d = c \/ d \in ToSet(backlog)
  <2>1. /\ DOMAIN Append(backlog, c) = 1..(Len(backlog) + 1) /\ Len(backlog) \in Nat
        /\ Append(backlog, c)[Len(backlog) + 1] = c
        /\ \A i \in 1..Len(backlog) : Append(backlog, c)[i] = backlog[i]
        /\ DOMAIN backlog = 1..Len(backlog)
    BY <1>t
  <2>2. \A i \in 1..(Len(backlog) + 1) : i \in 1..Len(backlog) \/ i = Len(backlog) + 1
    BY <2>1
  <2>3. 1..Len(backlog) \subseteq 1..(Len(backlog) + 1)
        /\ Len(backlog) + 1 \in 1..(Len(backlog) + 1)
    BY <2>1
  <2>4. QED
    BY <2>1, <2>2, <2>3 DEF ToSet
<1>3. /\ Alive => \A d \in Conns : Held(d)' <=> d = c \/ Held(d)
      /\ ~Alive => \A d \in Conns : ~Held(d) /\ ~Held(d)'
  <2>1. CASE Alive
    BY <1>1, <1>2, <2>1 DEF Held
  <2>2. CASE ~Alive
    BY <1>1, <2>2 DEF Held, Refining, NoneHeld
  <2>3. QED
    BY <2>1, <2>2
<1>4. \A d \in Conns : Answering(d)' <=> Answering(d)
  BY <1>1, SameAnswering
<1>5. ~Answering(c)
  BY <1>1, AnsweringHeld DEF Refining
<1>6. \A d \in Conns : d # c => cli'[d] = cli[d]
  BY <1>1, <1>t
<1> DEFINE new == IF Alive /\ sockfile THEN "waiting" ELSE "over"
<1>7. \A d \in Conns : Status(d)' = IF d = c THEN new ELSE Status(d)
  <2>1. cli'[c] = "open"
    BY <1>1, <1>t
  <2>2. CASE Alive
    BY <1>1, <2>1, <2>2, <1>3, <1>4, <1>5, <1>6, StatusIs, StatusWillBe
  <2>3. CASE ~Alive
    BY <1>1, <2>1, <2>3, <1>3, <1>4, <1>5, <1>6, StatusIs, StatusWillBe
  <2>4. QED
    BY <2>2, <2>3
<1>8. [d \in Conns |-> Status(d)]' = [[d \in Conns |-> Status(d)] EXCEPT ![c] = new]
  BY <1>7
<1>9. [d \in Conns |-> Job(d)]' = [d \in Conns |-> Job(d)]
  BY <1>1, SameJobs
<1>10. (Alive /\ sockfile)' = (Alive /\ sockfile)
  BY <1>1 DEF Alive
<1>11. Service!Connect(c)
  BY <1>1, <1>8, <1>9, <1>10 DEF Service!Connect
<1>12. QED
  BY <1>11 DEF AbsStep, Service!Next

LEMMA ClientAbs ==
  ASSUME Refining, NEW c \in Conns, Send(c) \/ Leave(c)
  PROVE  AbsStep
<1>1. /\ UNCHANGED <<pc, idx, fds, script, replies, table, kid, sockfile, backlog>>
      /\ cli[c] = "open"
      /\ \/ cli' = [cli EXCEPT ![c] = "closed"] /\ sent' = sent
         \/ /\ cli' = cli /\ sent[c] < Len(script[c])
            /\ sent' = [sent EXCEPT ![c] = @ + 1]
  BY DEF Send, Leave, loopVars, memVars, flagVars
<1>2. \A d \in Conns : cli'[d] = "none" <=> cli[d] = "none"
  BY <1>1 DEF Refining, Typed, TypeOK
<1>3. \A d \in Conns : Status(d)' = Status(d)
  BY <1>1, <1>2, SameHolding, SameAnswering, StatusIs, StatusWillBe
<1>4. [d \in Conns |-> Status(d)]' = [d \in Conns |-> Status(d)]
  BY <1>3
<1>5. [d \in Conns |-> Job(d)]' = [d \in Conns |-> Job(d)]
  BY <1>1, SameJobs
<1>6. (Alive /\ sockfile)' = (Alive /\ sockfile)
  BY <1>1 DEF Alive
<1>7. Service!Send(c) \/ Service!Leave(c)
  BY <1>1, <1>4, <1>5, <1>6 DEF Service!Send, Service!Leave
<1>8. QED
  BY <1>7 DEF AbsStep, Service!Next

LEMMA StepAbs ==
  ASSUME Refining, [Next]_vars
  PROVE  AbsStep
<1>1. CASE UNCHANGED vars
  <2>1. /\ UNCHANGED <<pc, idx, fds, script, sent, cli, replies, table, backlog>>
        /\ UNCHANGED <<kid, sockfile>>
    BY <1>1 DEF vars, loopVars, memVars, flagVars, clientVars
  <2>2. QED
    BY <2>1, SameHolding, SameAnswering, SameJobs, SameListens, Stutters DEF AbsStep, Alive
<1>2. QED
  BY <1>1, StartAbs, StartFailsAbs, LoopAbs, ScanAbs, ServeAbs, SignalAbs, KidExitsAbs, ConnectAbs,
     ClientAbs DEF Next, Daemon

(***************************************************************************)
(* What the refinement rests on is kept.                                   *)
(***************************************************************************)

LEMMA NoneHeldNext ==
  ASSUME Typed, NoneHeld, [Next]_vars
  PROVE  NoneHeld'
<1> SUFFICES ASSUME ~Alive' PROVE \A c \in Conns : ~Held(c)'
  BY DEF NoneHeld
<1>1. ASSUME UNCHANGED <<pc, table, backlog>> PROVE \A c \in Conns : ~Held(c)'
  BY <1>1, SameHolding DEF NoneHeld, Alive
<1>2. ASSUME NEW how, Die(how) PROVE \A c \in Conns : ~Held(c)'
  BY <1>2, DieEmpties
<1>3. CASE Start \/ Startup
  BY <1>3 DEF Start, Startup, InstallHandlers, SetGlobal, SetRunning, Goto, Alive
<1>f. CASE StartFails
  BY <1>f, SameHolding DEF StartFails, NoneHeld, memVars
<1>4. CASE Poll
  BY <1>4, <1>2 DEF Poll, LoopTop, LoopExit, PollEntry, PollReturn, Accept, Goto, Alive
<1>5. CASE Scan
  BY <1>5 DEF Scan, ScanDone, ScanSkip, ScanHup, ScanReadFails, ScanRead, DropEntry,
              Scanning, Goto, Alive
<1>6. CASE Serve
  BY <1>6, <1>2
  DEF Serve, NeedMore, HandleListUsers, HandleDenied, HandleVoid, ForkChild, ForkFails,
      AnswerExecute, WriteAndClose, HandlerCloses, CloseWith, Goto, Alive
<1>7. CASE Sigterm \/ Sigchld
  BY <1>7, <1>1, <1>2 DEF Sigterm, Sigchld, Stop, Alive, memVars
<1>8. CASE \E c \in Conns : KidExits(c) \/ Connect(c) \/ Send(c) \/ Leave(c)
  BY <1>8, <1>1 DEF KidExits, Connect, Send, Leave, Alive, memVars
<1>9. CASE UNCHANGED vars
  BY <1>9, <1>1 DEF vars, memVars
<1>10. QED
  BY <1>3, <1>f, <1>4, <1>5, <1>6, <1>7, <1>8, <1>9 DEF Next, Daemon

(* A step of ReplyService starts a command only for a connection that is   *)
(* then no longer waiting.                                                 *)
LEMMA ChildlessNext ==
  ASSUME Childless, AbsStep
  PROVE  Childless'
<1> DEFINE st == [c \in Conns |-> Status(c)]
           jb == [c \in Conns |-> Job(c)]
           Without(s, j) == \A c \in Conns : s[c] \in {"none", "waiting"} => j[c] = "none"
<1>1. Without(st, jb)
  BY DEF Childless
<1>2. Childless' <=> Without(st', jb')
  BY DEF Childless
<1>3. CASE UNCHANGED Service!vars
  BY <1>1, <1>2, <1>3 DEF Service!vars
<1>4. CASE Service!Next
  <2>1. CASE Service!Listen
    BY <1>1, <1>2, <2>1 DEF Service!Listen
  <2>2. CASE Service!Shut
    BY <1>1, <1>2, <2>2 DEF Service!Shut
  <2>3. ASSUME NEW c \in Conns, Service!Connect(c) PROVE Childless'
    BY <1>1, <1>2, <2>3, StatusIs DEF Service!Connect
  <2>4. ASSUME NEW c \in Conns, Service!Send(c) \/ Service!Leave(c) PROVE Childless'
    BY <1>1, <1>2, <2>4 DEF Service!Send, Service!Leave
  <2>5. ASSUME NEW c \in Conns,
               Service!Reply(c) \/ Service!AnswerStarted(c) \/ Service!Drop(c)
        PROVE  Childless'
    BY <1>1, <1>2, <2>5
    DEF Service!Reply, Service!AnswerStarted, Service!Drop, Service!Over
  <2>6. ASSUME NEW c \in Conns, Service!StartJob(c) PROVE Childless'
    BY <1>1, <1>2, <2>6 DEF Service!StartJob
  <2>7. ASSUME NEW c \in Conns, Service!JobEnds(c) PROVE Childless'
    BY <1>1, <1>2, <2>7 DEF Service!JobEnds
  <2>8. QED
    BY <1>4, <2>1, <2>2, <2>3, <2>4, <2>5, <2>6, <2>7 DEF Service!Next
<1>5. QED
  BY <1>3, <1>4 DEF AbsStep

LEMMA RefiningInit ==
  ASSUME Init
  PROVE  Refining
<1>1. Typed
  BY TypeInit
<1>2. Forked /\ HangupMeansGone
  BY DEF Init, Forked, HangupMeansGone
<1>3. Places /\ Streams
  BY StartsEmpty
<1>4. NoneHeld
  BY Assumed DEF Init, NoneHeld, Held, ToSet
<1>5. Childless
  BY DEF Init, Childless, Job
<1>6. QED
  BY <1>1, <1>2, <1>3, <1>4, <1>5 DEF Refining

LEMMA AbsInit ==
  ASSUME Init
  PROVE  Service!Init
<1>1. \A c \in Conns : Status(c) = "none" /\ Job(c) = "none"
  BY DEF Init, Status, Job
<1>2. ~(Alive /\ sockfile)
  BY DEF Init
<1>3. QED
  BY <1>1, <1>2 DEF Init, Service!Init

LEMMA RefiningNext ==
  ASSUME Refining, [Next]_vars
  PROVE  Refining'
<1>1. Typed'
  BY TypeNext DEF Refining
<1>2. Forked' /\ HangupMeansGone'
  BY ForkedNext, HangupNext DEF Refining
<1>3. Places' /\ Streams'
  BY PlacesNext, StreamsNext DEF Refining
<1>4. NoneHeld'
  BY NoneHeldNext DEF Refining
<1>5. Childless'
  BY StepAbs, ChildlessNext DEF Refining
<1>6. QED
  BY <1>1, <1>2, <1>3, <1>4, <1>5 DEF Refining

(* ImplementsReplyService: reused descriptor numbers, stale entries, split *)
(* and pipelined requests, signals and deaths never show as a second       *)
(* answer, a wrong answer, a second command, or a connection given up for  *)
(* no reason.                                                              *)
THEOREM LoopIsReplyService == Spec => ImplementsReplyService
<1>1. Init => Refining /\ Service!Init
  BY RefiningInit, AbsInit
<1>2. Refining /\ [Next]_vars => Refining'
  BY RefiningNext
<1>3. Refining /\ [Next]_vars => [Service!Next]_(Service!vars)
  BY StepAbs DEF AbsStep
<1>4. QED
  BY <1>1, <1>2, <1>3, PTL DEF Spec, ImplementsReplyService, Service!Spec
=============================================================================
