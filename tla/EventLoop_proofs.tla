-------------------------- MODULE EventLoop_proofs --------------------------
(***************************************************************************)
(* Proofs about EventLoop, for every number of connections, descriptors,   *)
(* scripts, starts and stops.                                              *)
(*                                                                         *)
(* Type correctness comes with one fact about the program counter: while a *)
(* request is served, the loop index names an entry whose descriptor is    *)
(* open.  Every safety property is then shown from what each step does to  *)
(* the vector of entries, the descriptor table and the buffers.            *)
(***************************************************************************)
EXTENDS EventLoop, SequenceTheorems, WellFoundedInduction, TLAPS

Reports  == {"none", "nval", "hup", "in"}
Entries  == [fd : FDs, re : Reports]
Segments == UNION {Segment(c) : c \in Conns}
KidStates == {"none", "running", "zombie", "orphan", "reaped"}

LEMMA Assumed ==
  /\ FDs \subseteq Nat /\ Free \notin Conns
  /\ \A s \in Scripts : s \in Seq([kind : Kinds, last : BOOLEAN])
  BY EventLoopAssumption

(* What erase leaves of a vector. *)
LEMMA Removed ==
  ASSUME NEW S, NEW v \in Seq(S), NEW k \in 1..Len(v)
  PROVE  /\ RemoveAt(v, k) \in Seq(S)
         /\ Len(RemoveAt(v, k)) = Len(v) - 1
         /\ \A j \in 1..(k - 1) : RemoveAt(v, k)[j] = v[j]
         /\ \A j \in k..(Len(v) - 1) : RemoveAt(v, k)[j] = v[j + 1]
<1> DEFINE l == SubSeq(v, 1, k - 1)
           r == SubSeq(v, k + 1, Len(v))
<1>1. l \in Seq(S) /\ Len(l) = k - 1 /\ \A j \in 1..(k - 1) : l[j] = v[j]
  OBVIOUS
<1>2. r \in Seq(S) /\ Len(r) = Len(v) - k /\ \A j \in 1..(Len(v) - k) : r[j] = v[j + k]
  OBVIOUS
<1>3. RemoveAt(v, k) = l \o r
  BY DEF RemoveAt
<1> HIDE DEF l, r
<1>4. /\ l \o r \in Seq(S) /\ Len(l \o r) = Len(l) + Len(r)
      /\ \A j \in 1..(Len(l) + Len(r)) :
            (l \o r)[j] = IF j <= Len(l) THEN l[j] ELSE r[j - Len(l)]
  <2>1. l \in Seq(S) /\ r \in Seq(S)
    BY <1>1, <1>2
  <2>2. QED
    BY <2>1
<1>k. Len(v) \in Nat /\ k \in Nat /\ k >= 1 /\ k <= Len(v)
  OBVIOUS
<1>5. \A j \in k..(Len(v) - 1) : (l \o r)[j] = v[j + 1]
  BY <1>1, <1>2, <1>4, <1>k
<1>6. \A j \in 1..(k - 1) : (l \o r)[j] = v[j]
  BY <1>1, <1>2, <1>4, <1>k
<1>7. Len(l \o r) = Len(v) - 1
  BY <1>1, <1>2, <1>4, <1>k
<1> QED
  BY <1>3, <1>4, <1>5, <1>6, <1>7

(* A bounded set of positions that is not empty has a least element. *)
LEMMA Least ==
  ASSUME NEW T, T \subseteq Nat, T # {}
  PROVE  \E x \in T : \A y \in T : x <= y
<1> DEFINE R == {ss \in Nat \X Nat : ss[1] < ss[2]}
<1>0. IsWellFoundedOn(R, Nat)
  BY NatLessThanWellFounded, Zenon DEF OpToRel
<1>r. \A x, y \in Nat : x < y => <<x, y>> \in R
  OBVIOUS
<1> HIDE DEF R
<1>1. PICK x \in T : \A y \in T : ~(<<y, x>> \in R)
  BY <1>0, WFMin
<1>2. ASSUME NEW y \in T PROVE x <= y
  <2>1. ~(y < x)
    BY <1>1, <1>r
  <2>2. QED
    BY <2>1
<1>3. QED
  BY <1>2

(* Where a message ends: at its last segment, after segments that are not  *)
(* the last.                                                               *)
LEMMA EndOfMessage ==
  ASSUME NEW S, NEW b \in Seq(S)
  PROVE  /\ MessageEnd(b) \in 0..Len(b)
         /\ (\E k \in 1..Len(b) : b[k].last) => MessageEnd(b) # 0
         /\ MessageEnd(b) # 0 =>
              /\ b[MessageEnd(b)].last
              /\ \A j \in 1..(MessageEnd(b) - 1) : ~b[j].last
<1> DEFINE T == {k \in 1..Len(b) : b[k].last}
<1>1. CASE T = {}
  BY <1>1 DEF MessageEnd
<1>2. CASE T # {}
  <2> HIDE DEF T
  <2>0. T \subseteq Nat
    BY DEF T
  <2>1. PICK k \in T : \A y \in T : k <= y
    BY <1>2, <2>0, Least
  <2>2. k \in 1..Len(b) /\ b[k].last /\ \A j \in 1..(k - 1) : ~b[j].last
    BY <2>1 DEF T
  <2>3. MessageEnd(b) = CHOOSE i \in 1..Len(b) :
                            b[i].last /\ \A j \in 1..(i - 1) : ~b[j].last
    BY <2>2 DEF MessageEnd
  <2>4. /\ MessageEnd(b) \in 1..Len(b) /\ b[MessageEnd(b)].last
        /\ \A j \in 1..(MessageEnd(b) - 1) : ~b[j].last
    BY <2>2, <2>3, Zenon
  <2>5. QED
    BY <2>4
<1>3. QED
  BY <1>1, <1>2

(***************************************************************************)
(* Type correctness, by the kind of step.                                  *)
(***************************************************************************)

(* While a request is served, the index names an entry that is open. *)
Serving ==
  pc \in {"process", "forked"} => idx \in 1..Len(fds) /\ table[fds[idx].fd] # Free

Typed == TypeOK /\ Serving

LEMMA TypeLoop ==
  ASSUME TypeOK
  PROVE  /\ fds \in Seq(Entries) /\ Len(fds) \in Nat
         /\ idx \in Nat /\ idx >= 1
         /\ table \in [FDs -> Conns \cup {Free}]
BY DEF TypeOK, Entries, Reports

LEMMA TypeEntry ==
  ASSUME TypeOK, NEW k \in 1..Len(fds)
  PROVE  fds[k] \in Entries /\ fds[k].fd \in FDs
<1>1. fds[k] \in Entries
  BY TypeLoop
<1>2. QED
  BY <1>1 DEF Entries

LEMMA Reported ==
  ASSUME NEW e \in Entries, NEW re \in Reports
  PROVE  [e EXCEPT !.re = re] \in Entries
<1>1. PICK f \in FDs, r \in Reports : e = [fd |-> f, re |-> r]
  BY DEF Entries
<1>2. [[fd |-> f, re |-> r] EXCEPT !.re = re] = [fd |-> f, re |-> re]
  OBVIOUS
<1>3. QED
  BY <1>1, <1>2 DEF Entries

LEMMA TypeInit == Init => Typed
<1> SUFFICES ASSUME Init PROVE Typed
  OBVIOUS
<1>1. acc \in BOOLEAN /\ running \in BOOLEAN /\ global \in BOOLEAN
      /\ sockfile \in BOOLEAN /\ chld \in BOOLEAN
  BY Zenon DEF Init
<1>2. QED
  BY <1>1 DEF Init, Typed, TypeOK, Serving, Labels

LEMMA TypeAbandon ==
  ASSUME TypeOK, AbandonQueue
  PROVE  /\ backlog' \in Seq(Conns) /\ held' \in [Conns -> SUBSET Conns]
         /\ listeners' = listeners
<1>1. ToSet(backlog) \subseteq Conns
  BY DEF ToSet, TypeOK
<1>2. QED
  BY <1>1 DEF AbandonQueue, TypeOK

LEMMA TypeDie ==
  ASSUME TypeOK, NEW how \in {"exited", "killed"}, Die(how),
         UNCHANGED sockfile, stops' \in Nat
  PROVE  Typed'
<1>1. /\ backlog' \in Seq(Conns) /\ held' \in [Conns -> SUBSET Conns]
      /\ listeners' = listeners
  BY TypeAbandon DEF Die
<1>2. kid' \in [Conns -> KidStates]
  BY DEF Die, Inherit, TypeOK, KidStates
<1>3. /\ acc' \in BOOLEAN /\ running' \in BOOLEAN /\ global' \in BOOLEAN
      /\ chld' \in BOOLEAN
  BY Zenon DEF Die
<1>4. table' \in [FDs -> Conns \cup {Free}] /\ buf' \in [FDs -> Seq(Segments)]
      /\ fds' \in Seq(Entries) /\ idx' \in Nat \ {0}
  BY DEF Die
<1>5. pc' \in {"exited", "killed"}
  BY DEF Die, Goto
<1>6. UNCHANGED <<starts, script, sent, cli, inq, replies, sockfile>>
  BY DEF Die, clientVars
<1>7. TypeOK'
  BY <1>1, <1>2, <1>3, <1>4, <1>5, <1>6
  DEF TypeOK, Entries, Reports, Segments, KidStates, Labels
<1>8. QED
  BY <1>5, <1>7 DEF Typed, Serving

LEMMA TypeStartup ==
  ASSUME TypeOK, Start \/ StartFails \/ Startup
  PROVE  Typed'
<1>1. CASE Start \/ StartFails
  <2>1. pc' \in {"bound", "exited"} /\ starts' \in Nat
    BY <1>1 DEF Start, StartFails, Goto, TypeOK
  <2>2. UNCHANGED <<fds, idx, acc, table, buf, running, global, chld, stops, script,
                    sent, cli, inq, replies, kid, held, backlog>>
    BY <1>1 DEF Start, StartFails, loopVars, memVars, clientVars
  <2>3. sockfile' \in BOOLEAN /\ listeners' \subseteq Conns
    BY <1>1, Zenon DEF Start, StartFails
  <2>4. QED
    BY <2>1, <2>2, <2>3 DEF Typed, Serving, TypeOK, Labels
<1>2. CASE InstallHandlers
  BY <1>2 DEF InstallHandlers, Goto, Typed, Serving, TypeOK, Labels, loopVars, memVars,
              flagVars, countVars, clientVars
<1>3. CASE SetGlobal
  BY <1>3 DEF SetGlobal, Goto, Typed, Serving, TypeOK, Labels, loopVars, memVars,
              countVars, clientVars
<1>4. CASE SetRunning
  BY <1>4 DEF SetRunning, Goto, Typed, Serving, TypeOK, Labels, loopVars, memVars,
              countVars, clientVars
<1>5. QED
  BY <1>1, <1>2, <1>3, <1>4 DEF Startup

LEMMA TypeBuffer ==
  ASSUME TypeOK, NEW f \in FDs, NEW b \in Seq(Segments)
  PROVE  /\ [buf EXCEPT ![f] = b] \in [FDs -> Seq(Segments)]
         /\ buf[f] \in Seq(Segments)
BY DEF TypeOK, Segments

LEMMA TypeRevents ==
  ASSUME TypeOK, NEW f \in FDs
  PROVE  Revents(f) \in Reports
  BY DEF TypeOK, Revents, Reports

LEMMA TypePoll ==
  ASSUME TypeOK, Poll
  PROVE  Typed'
<1>1. CASE LoopTop
  <2>1. acc' \in BOOLEAN
    BY <1>1, Zenon DEF LoopTop
  <2>2. pc' = "poll" /\ idx' \in Nat \ {0}
    BY <1>1 DEF LoopTop, Goto
  <2>3. UNCHANGED <<fds, table, buf, running, global, sockfile, chld, starts, stops,
                    script, sent, cli, inq, replies, kid, held, listeners, backlog>>
    BY <1>1 DEF LoopTop, memVars, flagVars, countVars, clientVars
  <2>4. QED
    BY <2>1, <2>2, <2>3 DEF Typed, Serving, TypeOK, Labels
<1>2. CASE LoopExit
  BY <1>2, TypeDie DEF LoopExit, TypeOK
<1>3. CASE PollEntry
  <2>1. idx \in 1..Len(fds) /\ fds \in Seq(Entries) /\ fds[idx].fd \in FDs
    BY <1>3, TypeLoop, TypeEntry DEF PollEntry
  <2>2. [fds[idx] EXCEPT !.re = Revents(fds[idx].fd)] \in Entries
    BY <2>1, TypeRevents, TypeEntry, Reported
  <2>3. fds' = [fds EXCEPT ![idx] = [fds[idx] EXCEPT !.re = Revents(fds[idx].fd)]]
    BY <1>3 DEF PollEntry
  <2>4. fds' \in Seq(Entries)
    BY <2>1, <2>2, <2>3, ExceptSeq
  <2>5. pc' = "poll" /\ idx' \in Nat \ {0}
    BY <1>3 DEF PollEntry, TypeOK
  <2>6. UNCHANGED <<acc, memVars, flagVars, chld, countVars, clientVars, inq,
                    replies, kid, held, listeners, backlog>>
    BY <1>3 DEF PollEntry
  <2>7. QED
    BY <2>4, <2>5, <2>6
    DEF Typed, Serving, TypeOK, Labels, Entries, Reports, memVars, flagVars,
        countVars, clientVars
<1>4. CASE PollReturn
  BY <1>4 DEF PollReturn, Goto, Typed, Serving, TypeOK, Labels, loopVars, memVars,
              flagVars, countVars, clientVars
<1>5. CASE Accept
  <2>1. pc' = "scan" /\ idx' = 1
    BY <1>5 DEF Accept, Goto
  <2>2. UNCHANGED <<acc, running, global, sockfile, chld, starts, stops, script, sent,
                    cli, inq, replies, kid, held, listeners>>
    BY <1>5 DEF Accept, flagVars, countVars, clientVars
  <2>3. /\ table' \in [FDs -> Conns \cup {Free}] /\ fds' \in Seq(Entries)
        /\ buf' \in [FDs -> Seq(Segments)] /\ backlog' \in Seq(Conns)
    <3>1. CASE UNCHANGED <<table, fds, buf, backlog>>
      BY <3>1 DEF TypeOK, Entries, Reports, Segments
    <3>2. ASSUME NEW f \in FDs, backlog # <<>>,
                 table' = [table EXCEPT ![f] = Head(backlog)],
                 fds' = Append(fds, NewEntry(f)), buf' = BufferReset(buf, f),
                 backlog' = Tail(backlog)
          PROVE  <2>3!:
      <4>1. Head(backlog) \in Conns /\ Tail(backlog) \in Seq(Conns)
        BY <3>2 DEF TypeOK
      <4>2. NewEntry(f) \in Entries
        BY DEF NewEntry, Entries, Reports
      <4>3. Append(fds, NewEntry(f)) \in Seq(Entries)
        BY <4>2 DEF TypeOK, Entries, Reports
      <4>4. BufferReset(buf, f) \in [FDs -> Seq(Segments)]
        BY TypeBuffer, EmptySeq DEF BufferReset
      <4>5. [table EXCEPT ![f] = Head(backlog)] \in [FDs -> Conns \cup {Free}]
        BY <4>1 DEF TypeOK
      <4>6. QED
        BY <3>2, <4>1, <4>3, <4>4, <4>5
    <3>3. QED
      BY <1>5, <3>1, <3>2 DEF Accept
  <2>4. pc' \in Labels /\ idx' \in Nat \ {0} /\ pc' = "scan"
    BY <2>1 DEF Labels
  <2>5. QED
    BY <2>2, <2>3, <2>4 DEF Typed, Serving, TypeOK, Entries, Reports, Segments
<1>6. QED
  BY <1>1, <1>2, <1>3, <1>4, <1>5 DEF Poll

(* What the two ways to let go of a descriptor leave. *)
LEMMA TypeDrop ==
  ASSUME TypeOK, idx \in 1..Len(fds), pc = "scan", DropEntry
  PROVE  Typed'
<1>1. fds \in Seq(Entries) /\ fds[idx].fd \in FDs
  BY TypeLoop, TypeEntry
<1>2. fds' \in Seq(Entries)
  BY <1>1, Removed DEF DropEntry, Erase
<1>3. table' \in [FDs -> Conns \cup {Free}]
  BY <1>1 DEF DropEntry, Closed, TypeOK, Entry
<1>4. buf' \in [FDs -> Seq(Segments)]
  BY <1>1, TypeBuffer, EmptySeq DEF DropEntry, Entry
<1>5. UNCHANGED <<pc, idx, acc, running, global, sockfile, chld, starts, stops, script,
                  sent, cli, inq, replies, kid, held, listeners, backlog>>
  BY DEF DropEntry, flagVars, countVars, clientVars
<1>6. QED
  BY <1>2, <1>3, <1>4, <1>5
  DEF Typed, Serving, TypeOK, Labels, Entries, Reports, Segments

LEMMA TypeClose ==
  ASSUME TypeOK, idx \in 1..Len(fds), NEW left \in Seq(Segments), CloseWith(left),
         replies' \in [Conns -> Seq(Kinds)]
  PROVE  Typed'
<1>1. fds \in Seq(Entries) /\ fds[idx].fd \in FDs
  BY TypeLoop, TypeEntry
<1>2. table' \in [FDs -> Conns \cup {Free}]
  BY <1>1 DEF CloseWith, Closed, TypeOK, Entry
<1>3. buf' \in [FDs -> Seq(Segments)]
  BY <1>1, TypeBuffer DEF CloseWith, Entry
<1>4. pc' = "scan" /\ idx' \in Nat \ {0}
  BY DEF CloseWith, Goto, TypeOK
<1>5. UNCHANGED <<fds, acc, running, global, sockfile, chld, starts, stops, script,
                  sent, cli, inq, kid, held, listeners, backlog>>
  BY DEF CloseWith, flagVars, countVars, clientVars
<1>6. QED
  BY <1>2, <1>3, <1>4, <1>5
  DEF Typed, Serving, TypeOK, Labels, Entries, Reports, Segments

LEMMA ScanningEntry ==
  ASSUME TypeOK, NEW re, Scanning(re)
  PROVE  pc = "scan" /\ idx \in 1..Len(fds) /\ Entry.fd \in FDs
BY TypeLoop, TypeEntry DEF Scanning, Entry

LEMMA TypeScan ==
  ASSUME TypeOK, Scan
  PROVE  Typed'
<1>1. CASE ScanDone
  BY <1>1 DEF ScanDone, Goto, Typed, Serving, TypeOK, Labels, loopVars, memVars,
              flagVars, countVars, clientVars
<1>2. CASE ScanSkip
  <2>1. pc' = "scan" /\ idx' \in Nat \ {0}
    BY <1>2, TypeLoop DEF ScanSkip, Scanning
  <2>2. UNCHANGED <<fds, acc, table, buf, running, global, sockfile, chld, starts, stops,
                    script, sent, cli, inq, replies, kid, held, listeners, backlog>>
    BY <1>2 DEF ScanSkip, memVars, flagVars, countVars, clientVars
  <2>3. QED
    BY <2>1, <2>2 DEF Typed, Serving, TypeOK, Labels
<1>3. CASE ScanHup
  BY <1>3, ScanningEntry, TypeDrop DEF ScanHup
<1>4. CASE ScanReadFails
  BY <1>4, ScanningEntry, TypeDrop DEF ScanReadFails
<1>5. CASE ScanRead
  <2> DEFINE f == Entry.fd
             c == table[f]
  <2>1. idx \in 1..Len(fds) /\ f \in FDs /\ c \in Conns /\ inq[c] \in Seq(Segments)
    BY <1>5, ScanningEntry DEF ScanRead, TypeOK, Segments
  <2>2. PICK n \in 1..Len(inq[c]) :
          /\ buf' = [buf EXCEPT ![f] = buf[f] \o SubSeq(inq[c], 1, n)]
          /\ inq' = [inq EXCEPT ![c] = SubSeq(inq[c], n + 1, Len(inq[c]))]
    BY <1>5 DEF ScanRead
  <2>3. SubSeq(inq[c], 1, n) \in Seq(Segments)
    BY <2>1, <2>2
  <2>4. SubSeq(inq[c], n + 1, Len(inq[c])) \in Seq(Segments)
    BY <2>1, <2>2
  <2>5. buf[f] \o SubSeq(inq[c], 1, n) \in Seq(Segments)
    BY <2>1, <2>3, TypeBuffer
  <2>6. buf' \in [FDs -> Seq(Segments)]
    BY <2>1, <2>2, <2>5, TypeBuffer
  <2>7. inq \in [Conns -> Seq(Segments)]
    BY DEF TypeOK, Segments
  <2>8. inq' \in [Conns -> Seq(Segments)]
    BY <2>2, <2>4, <2>7
  <2>9. pc' = "process" /\ c # Free
    BY <1>5 DEF ScanRead, Goto
  <2>10. UNCHANGED <<fds, idx, acc, table, running, global, sockfile, chld, starts,
                     stops, script, sent, cli, replies, kid, held, listeners, backlog>>
    BY <1>5 DEF ScanRead, loopVars, flagVars, countVars, clientVars
  <2>11. Serving'
    BY <2>1, <2>9, <2>10 DEF Serving, Entry
  <2>12. TypeOK'
    BY <2>6, <2>8, <2>9, <2>10 DEF TypeOK, Labels, Segments
  <2>13. QED
    BY <2>11, <2>12 DEF Typed
<1>6. QED
  BY <1>1, <1>2, <1>3, <1>4, <1>5 DEF Scan

(* What is left of a buffer once the first message is taken off it. *)
LEMMA TypeRest ==
  ASSUME Typed, pc \in {"process", "forked"}
  PROVE  /\ Caller \in Conns /\ Entry.fd \in FDs
         /\ Buffer \in Seq(Segments) /\ Rest \in Seq(Segments)
<1>1. Entry.fd \in FDs
  BY TypeEntry DEF Typed, Serving, Entry
<1>2. Caller \in Conns
  BY <1>1 DEF Typed, Serving, TypeOK, Entry, Caller
<1>3. Buffer \in Seq(Segments)
  BY <1>1, TypeBuffer DEF Typed, Buffer, TypeOK, Segments
<1>4. MessageEnd(Buffer) \in Nat
  BY <1>3, EndOfMessage
<1>5. Rest \in Seq(Segments)
  BY <1>3, <1>4 DEF Rest
<1>6. QED
  BY <1>1, <1>2, <1>3, <1>5

LEMMA TypeWrite ==
  ASSUME Typed, pc \in {"process", "forked"}, NEW answer \in Kinds,
         WriteAndClose(Caller, answer)
  PROVE  Typed'
<1>1. TypeOK /\ idx \in 1..Len(fds)
  BY DEF Typed, Serving
<1>2. CASE Die("killed") /\ UNCHANGED <<sockfile, stops>>
  BY <1>1, <1>2, TypeDie DEF TypeOK
<1>3. CASE HandlerCloses /\ UNCHANGED replies
  BY <1>1, <1>3, TypeRest, TypeClose DEF TypeOK, HandlerCloses
<1>4. CASE HandlerCloses /\ replies' = [replies EXCEPT ![Caller] = Append(@, answer)]
  <2>1. replies' \in [Conns -> Seq(Kinds)]
    BY <1>1, <1>4, TypeRest DEF TypeOK
  <2>2. QED
    BY <1>1, <1>4, <2>1, TypeRest, TypeClose DEF HandlerCloses
<1>5. QED
  BY <1>2, <1>3, <1>4 DEF WriteAndClose

LEMMA TypeServe ==
  ASSUME Typed, Serve
  PROVE  Typed'
<1>1. TypeOK
  BY DEF Typed
<1>2. CASE NeedMore
  <2>1. pc' = "scan" /\ idx' \in Nat \ {0}
    BY <1>1, <1>2, TypeLoop DEF NeedMore, Goto
  <2>2. UNCHANGED <<fds, acc, table, buf, running, global, sockfile, chld, starts, stops,
                    script, sent, cli, inq, replies, kid, held, listeners, backlog>>
    BY <1>2 DEF NeedMore, memVars, flagVars, countVars, clientVars
  <2>3. QED
    BY <1>1, <2>1, <2>2 DEF Typed, Serving, TypeOK, Labels
<1>3. CASE HandleListUsers
  BY <1>3, TypeWrite DEF HandleListUsers, Kinds
<1>4. CASE HandleDenied
  BY <1>4, TypeWrite DEF HandleDenied, Kinds
<1>5. CASE HandleVoid
  BY <1>1, <1>5, TypeRest, TypeClose DEF HandleVoid, Typed, Serving, TypeOK
<1>6. CASE ForkFails
  BY <1>1, <1>6, TypeRest, TypeClose DEF ForkFails, HandlerCloses, Typed, Serving, TypeOK
<1>7. CASE AnswerExecute
  BY <1>7, TypeWrite DEF AnswerExecute, Kinds
<1>8. CASE ForkChild
  <2>1. Caller \in Conns /\ {table[f] : f \in FDs} \ {Free} \subseteq Conns
    BY <1>1, <1>8, TypeRest DEF ForkChild, TypeOK
  <2>2. kid' \in [Conns -> KidStates]
    BY <1>1, <1>8, <2>1 DEF ForkChild, TypeOK, KidStates
  <2>3. held' \in [Conns -> SUBSET Conns] /\ listeners' \subseteq Conns
    BY <1>1, <1>8, <2>1 DEF ForkChild, TypeOK
  <2>4. pc' = "forked" /\ pc = "process"
    BY <1>8 DEF ForkChild, Goto
  <2>5. UNCHANGED <<fds, idx, acc, table, buf, running, global, sockfile, chld, starts,
                    stops, script, sent, cli, inq, replies, backlog>>
    BY <1>8 DEF ForkChild, loopVars, memVars, flagVars, countVars, clientVars
  <2>6. Serving'
    BY <2>4, <2>5 DEF Typed, Serving
  <2>7. TypeOK'
    BY <1>1, <2>2, <2>3, <2>4, <2>5 DEF TypeOK, Labels, KidStates
  <2>8. QED
    BY <2>6, <2>7 DEF Typed
<1>9. QED
  BY <1>2, <1>3, <1>4, <1>5, <1>6, <1>7, <1>8 DEF Serve

LEMMA TypeSignals ==
  ASSUME Typed, Sigterm \/ Sigchld
  PROVE  Typed'
<1>1. TypeOK
  BY DEF Typed
<1>2. CASE Sigchld
  <2>1. chld' \in BOOLEAN
    BY <1>2, Zenon DEF Sigchld
  <2>2. kid' \in [Conns -> KidStates]
    BY <1>1, <1>2 DEF Sigchld, ReapChildren, TypeOK, KidStates
  <2>3. QED
    BY <1>1, <1>2, <2>1, <2>2
    DEF Sigchld, Typed, Serving, TypeOK, KidStates, loopVars, memVars, flagVars,
        countVars, clientVars
<1>3. CASE Sigterm
  <2>1. stops' \in Nat
    BY <1>1, <1>3 DEF Sigterm, TypeOK
  <2>2. CASE Die("killed") /\ UNCHANGED sockfile
    BY <1>1, <2>1, <2>2, TypeDie
  <2>3. CASE Stop
    <3>1. /\ backlog' \in Seq(Conns) /\ held' \in [Conns -> SUBSET Conns]
          /\ listeners' = listeners
      BY <1>1, <2>3, TypeAbandon DEF Stop
    <3>2. running' \in BOOLEAN /\ sockfile' \in BOOLEAN /\ global' \in BOOLEAN
      BY <2>3, Zenon DEF Stop, RemoveSocketFile
    <3>3. UNCHANGED <<pc, fds, idx, acc, table, buf, chld, starts, script, sent, cli,
                      inq, replies, kid>>
      BY <2>3 DEF Stop, loopVars, memVars, clientVars
    <3>4. QED
      BY <1>1, <2>1, <3>1, <3>2, <3>3 DEF Typed, Serving, TypeOK
  <2>4. CASE UNCHANGED <<pc, loopVars, memVars, flagVars, chld, starts, clientVars, inq,
                         replies, kid, held, listeners, backlog>>
    BY <1>1, <2>1, <2>4 DEF Typed, Serving, TypeOK, loopVars, memVars, flagVars,
                            clientVars
  <2>5. QED
    BY <1>3, <2>2, <2>3, <2>4 DEF Sigterm
<1>4. QED
  BY <1>2, <1>3

LEMMA TypeOthers ==
  ASSUME Typed, NEW c \in Conns, KidExits(c) \/ Connect(c) \/ Send(c) \/ Leave(c)
  PROVE  Typed'
<1>1. TypeOK
  BY DEF Typed
<1>2. CASE KidExits(c)
  <2>1. chld' \in BOOLEAN
    BY <1>2, Zenon DEF KidExits
  <2>2. kid' \in [Conns -> KidStates] /\ held' \in [Conns -> SUBSET Conns]
    BY <1>1, <1>2 DEF KidExits, TypeOK, KidStates
  <2>3. QED
    BY <1>1, <1>2, <2>1, <2>2
    DEF KidExits, Typed, Serving, TypeOK, KidStates, loopVars, memVars, flagVars,
        countVars, clientVars
<1>3. CASE Connect(c)
  <2>1. /\ backlog' \in Seq(Conns) /\ cli' \in [Conns -> {"none", "open", "closed"}]
        /\ held' \in [Conns -> SUBSET Conns]
    <3>1. cli' \in [Conns -> {"none", "open", "closed"}]
      BY <1>1, <1>3 DEF Connect, TypeOK
    <3>2. CASE backlog' = Append(backlog, c) /\ UNCHANGED held
      BY <1>1, <3>1, <3>2 DEF TypeOK
    <3>3. CASE /\ UNCHANGED backlog
               /\ held' = [d \in Conns |-> IF d \in listeners THEN held[d] \cup {c}
                                                            ELSE held[d]]
      <4>1. held' \in [Conns -> SUBSET Conns]
        BY <1>1, <3>3 DEF TypeOK
      <4>2. QED
        BY <1>1, <3>1, <3>3, <4>1 DEF TypeOK
    <3>4. QED
      BY <1>3, <3>2, <3>3 DEF Connect
  <2>2. UNCHANGED <<pc, idx, fds, acc, table, buf, running, global, sockfile, chld,
                    starts, stops, script, sent, inq, replies, kid, listeners>>
    BY <1>3 DEF Connect, loopVars, memVars, flagVars, countVars
  <2>3. QED
    BY <1>1, <2>1, <2>2 DEF Typed, Serving, TypeOK
<1>4. CASE Send(c)
  <2> DEFINE seg == script[c][sent[c] + 1]
             new == [conn |-> c, kind |-> seg.kind, last |-> seg.last]
  <2>1. script[c] \in Seq([kind : Kinds, last : BOOLEAN])
    BY <1>1, Assumed DEF TypeOK
  <2>2. sent[c] \in Nat /\ sent[c] < Len(script[c])
    BY <1>1, <1>4 DEF Send, TypeOK
  <2>3. seg \in [kind : Kinds, last : BOOLEAN]
    <3> DEFINE R == [kind : Kinds, last : BOOLEAN]
    <3>1. script[c] \in Seq(R) /\ sent[c] + 1 \in 1..Len(script[c])
      BY <2>1, <2>2
    <3> HIDE DEF R
    <3>2. seg \in R
      BY <3>1
    <3>3. QED
      BY <3>2 DEF R
  <2> HIDE DEF seg
  <2>4. new \in Segment(c)
    BY <2>3 DEF Segment
  <2>5. new \in Segments
    BY <2>4 DEF Segments
  <2> HIDE DEF new
  <2>6. inq \in [Conns -> Seq(Segments)]
    BY <1>1 DEF TypeOK, Segments
  <2>7. Append(inq[c], new) \in Seq(Segments)
    BY <2>5, <2>6
  <2>8. inq' = [inq EXCEPT ![c] = Append(inq[c], new)]
    BY <1>4 DEF Send, seg, new
  <2>9. inq' \in [Conns -> Seq(Segments)]
    BY <2>6, <2>7, <2>8
  <2>10. sent' \in [Conns -> Nat]
    BY <1>1, <1>4 DEF Send, TypeOK
  <2>11. UNCHANGED <<pc, fds, idx, acc, table, buf, running, global, sockfile, chld,
                     starts, stops, script, cli, replies, kid, held, listeners, backlog>>
    BY <1>4 DEF Send, loopVars, memVars, flagVars, countVars
  <2>12. QED
    BY <1>1, <2>9, <2>10, <2>11 DEF Typed, Serving, TypeOK, Segments
<1>5. CASE Leave(c)
  BY <1>1, <1>5
  DEF Leave, Typed, Serving, TypeOK, loopVars, memVars, flagVars, countVars
<1>6. QED
  BY <1>2, <1>3, <1>4, <1>5

LEMMA TypeNext == Typed /\ [Next]_vars => Typed'
<1> SUFFICES ASSUME Typed, [Next]_vars PROVE Typed'
  OBVIOUS
<1>1. TypeOK
  BY DEF Typed
<1>2. CASE Start \/ StartFails \/ Daemon
  BY <1>1, <1>2, TypeStartup, TypePoll, TypeScan, TypeServe DEF Daemon
<1>3. CASE Sigterm \/ Sigchld
  BY <1>3, TypeSignals
<1>4. CASE \E c \in Conns : KidExits(c) \/ Connect(c) \/ Send(c) \/ Leave(c)
  BY <1>4, TypeOthers
<1>5. CASE UNCHANGED vars
  BY <1>5 DEF Typed, Serving, TypeOK, vars, loopVars, memVars, flagVars, countVars,
              clientVars
<1>6. QED
  BY <1>2, <1>3, <1>4, <1>5 DEF Next

(* Every variable keeps its type, and while a request is served the index  *)
(* names an entry that is open, for any number of clients and descriptors. *)
THEOREM TypeCorrect == Spec => []TypeOK
<1>1. Spec => []Typed
  BY TypeInit, TypeNext, PTL DEF Spec
<1>2. Typed => TypeOK
  BY DEF Typed
<1> QED
  BY <1>1, <1>2, PTL

LEMMA AlwaysTyped == Spec => []Typed
BY TypeInit, TypeNext, PTL DEF Spec

-----------------------------------------------------------------------------
(***************************************************************************)
(* What a step does to the vector, the table and the buffers.              *)
(***************************************************************************)

Quiet == UNCHANGED <<fds, table, buf>>

Gone ==
  /\ table' = [f \in FDs |-> Free] /\ fds' = <<>>
  /\ pc' \in {"exited", "killed"}

(* accept4 gave a descriptor to the connection at the head of the queue. *)
Admits(f) ==
  /\ f \in FDs /\ table[f] = Free /\ backlog # <<>>
  /\ table' = [table EXCEPT ![f] = Head(backlog)]
  /\ fds' = Append(fds, NewEntry(f))
  /\ buf' = BufferReset(buf, f)

Drops == (ScanHup \/ ScanReadFails) /\ UNCHANGED <<cli, inq>>

(* A handler closed the descriptor of the request it served. *)
Closes ==
  /\ pc \in {"process", "forked"} /\ UNCHANGED <<cli, inq>>
  /\ pc = "process" => MessageEnd(Buffer) # 0
  /\ \E left : CloseWith(left)

LEMMA Footprint ==
  ASSUME Typed, [Next]_vars
  PROVE  \/ Quiet \/ Gone \/ PollEntry \/ ScanRead \/ Drops \/ Closes
         \/ Accept /\ \E f \in FDs : Admits(f)
<1> DEFINE Goal == \/ Quiet \/ Gone \/ PollEntry \/ ScanRead \/ Drops \/ Closes
                   \/ Accept /\ \E f \in FDs : Admits(f)
<1>d. ASSUME NEW how \in {"exited", "killed"}, Die(how) PROVE Gone
  BY <1>d DEF Die, Goto, Gone
<1>1. CASE Start \/ StartFails \/ Startup
  BY <1>1 DEF Start, StartFails, Startup, InstallHandlers, SetGlobal, SetRunning, Quiet, loopVars,
              memVars
<1>2. CASE Poll
  <2>1. CASE LoopTop \/ PollReturn
    BY <2>1 DEF LoopTop, PollReturn, Quiet, loopVars, memVars
  <2>2. CASE LoopExit
    BY <2>2, <1>d DEF LoopExit
  <2>3. CASE Accept
    <3>1. CASE UNCHANGED <<table, fds, buf, backlog>>
      BY <3>1 DEF Quiet
    <3>2. CASE \E f \in FDs : Admits(f)
      BY <2>3, <3>2
    <3>3. QED
      BY <2>3, <3>1, <3>2 DEF Accept, Admits, LowestFree, FreeFDs
  <2>4. QED
    BY <1>2, <2>1, <2>2, <2>3 DEF Poll
<1>3. CASE Scan
  <2>1. CASE ScanDone \/ ScanSkip
    BY <2>1 DEF ScanDone, ScanSkip, Quiet, loopVars, memVars
  <2>2. CASE ScanHup \/ ScanReadFails
    BY <2>2 DEF ScanHup, ScanReadFails, DropEntry, clientVars, Drops
  <2>3. QED
    BY <1>3, <2>1, <2>2 DEF Scan
<1>4. CASE Serve
  <2>c. ASSUME pc \in {"process", "forked"}, pc = "process" => MessageEnd(Buffer) # 0,
               NEW left, CloseWith(left)
        PROVE  Closes
    BY <2>c DEF Closes, CloseWith, clientVars
  <2>w. ASSUME pc \in {"process", "forked"}, pc = "process" => MessageEnd(Buffer) # 0,
               NEW answer \in Kinds, WriteAndClose(Caller, answer)
        PROVE  Gone \/ Closes
    BY <2>w, <2>c, <1>d DEF WriteAndClose, HandlerCloses
  <2> HIDE DEF Goal
  <2>k. {"list", "denied", "exec"} \subseteq Kinds
    BY DEF Kinds
  <2>1. CASE NeedMore
    BY <2>1 DEF NeedMore, Quiet, memVars, Goal
  <2>2. CASE HandleListUsers
    BY <2>2, <2>w, <2>k DEF HandleListUsers, Requested, Goal
  <2>3. CASE HandleDenied
    BY <2>3, <2>w, <2>k DEF HandleDenied, Requested, Goal
  <2>4. CASE HandleVoid
    BY <2>4, <2>c DEF HandleVoid, Requested, Goal
  <2>5. CASE ForkChild
    BY <2>5 DEF ForkChild, Quiet, loopVars, memVars, Goal
  <2>6. CASE ForkFails
    BY <2>6, <2>c DEF ForkFails, Requested, HandlerCloses, Goal
  <2>7. CASE AnswerExecute
    BY <2>7, <2>w, <2>k DEF AnswerExecute, Goal
  <2>8. QED
    BY <1>4, <2>1, <2>2, <2>3, <2>4, <2>5, <2>6, <2>7 DEF Serve, Goal
<1>5. CASE Sigterm \/ Sigchld
  <2>1. CASE Sigchld
    BY <2>1 DEF Sigchld, Quiet, loopVars, memVars
  <2>2. CASE Sigterm
    BY <2>2, <1>d DEF Sigterm, Stop, Quiet, loopVars, memVars
  <2>3. QED
    BY <1>5, <2>1, <2>2
<1>6. CASE \E c \in Conns : KidExits(c) \/ Connect(c) \/ Send(c) \/ Leave(c)
  BY <1>6 DEF KidExits, Connect, Send, Leave, Quiet, loopVars, memVars
<1>7. CASE UNCHANGED vars
  BY <1>7 DEF vars, Quiet, loopVars, memVars
<1>8. QED
  BY <1>1, <1>2, <1>3, <1>4, <1>5, <1>6, <1>7 DEF Next, Daemon

(***************************************************************************)
(* The bytes in a buffer are those of the connection it belongs to.        *)
(***************************************************************************)

(* What waits on a connection was sent on it. *)
Tagged == \A c \in Conns : \A k \in 1..Len(inq[c]) : inq[c][k].conn = c

LEMMA TaggedNext ==
  ASSUME Typed, Tagged, [Next]_vars
  PROVE  Tagged'
<1>t. inq \in [Conns -> Seq(Segments)]
  BY DEF Typed, TypeOK, Segments
<1>1. CASE UNCHANGED inq
  BY <1>1 DEF Tagged
<1>2. CASE ScanRead
  <2> DEFINE c == table[Entry.fd]
  <2>1. c \in Conns
    BY <1>2, ScanningEntry, TypeLoop DEF ScanRead, Typed
  <2>2. PICK n \in 1..Len(inq[c]) :
          inq' = [inq EXCEPT ![c] = SubSeq(inq[c], n + 1, Len(inq[c]))]
    BY <1>2 DEF ScanRead
  <2> HIDE DEF c
  <2>3. \A k \in 1..Len(SubSeq(inq[c], n + 1, Len(inq[c]))) :
          SubSeq(inq[c], n + 1, Len(inq[c]))[k].conn = c
    BY <1>t, <2>1, <2>2 DEF Tagged
  <2>4. QED
    BY <1>t, <2>1, <2>2, <2>3 DEF Tagged
<1>3. CASE \E c \in Conns : Send(c)
  <2>1. PICK c \in Conns : Send(c)
    BY <1>3
  <2>2. PICK new : new.conn = c /\ inq' = [inq EXCEPT ![c] = Append(inq[c], new)]
    BY <2>1 DEF Send
  <2>3. \A k \in 1..Len(Append(inq[c], new)) : Append(inq[c], new)[k].conn = c
    BY <1>t, <2>2 DEF Tagged
  <2>4. QED
    BY <1>t, <2>2, <2>3 DEF Tagged
<1>4. QED
  <2>1. CASE Start \/ StartFails \/ Startup \/ Poll
    BY <1>1, <2>1 DEF Start, StartFails, Startup, InstallHandlers, SetGlobal, SetRunning, Poll,
                      LoopTop, LoopExit, Die, PollEntry, PollReturn, Accept
  <2>2. CASE Scan
    BY <1>1, <1>2, <2>2 DEF Scan, ScanDone, ScanSkip, ScanHup, ScanReadFails, DropEntry
  <2>3. CASE Serve
    BY <1>1, <2>3 DEF Serve, NeedMore, HandleListUsers, HandleDenied, HandleVoid,
                      ForkChild, ForkFails, AnswerExecute, WriteAndClose, HandlerCloses,
                      CloseWith, Die
  <2>4. CASE Sigterm \/ Sigchld
    BY <1>1, <2>4 DEF Sigterm, Sigchld, Die, Stop
  <2>5. CASE \E c \in Conns : KidExits(c) \/ Connect(c) \/ Send(c) \/ Leave(c)
    BY <1>1, <1>3, <2>5 DEF KidExits, Connect, Leave
  <2>6. CASE UNCHANGED vars
    BY <1>1, <2>6 DEF vars
  <2>7. QED
    BY <2>1, <2>2, <2>3, <2>4, <2>5, <2>6 DEF Next, Daemon

LEMMA OwnershipNext ==
  ASSUME Typed, Tagged, BufferOwnership, [Next]_vars
  PROVE  BufferOwnership'
<1>t. /\ table \in [FDs -> Conns \cup {Free}] /\ buf \in [FDs -> Seq(Segments)]
      /\ inq \in [Conns -> Seq(Segments)]
  BY DEF Typed, TypeOK, Segments
<1>1. CASE Quiet
  BY <1>1 DEF Quiet, BufferOwnership
<1>2. CASE Gone
  BY <1>2 DEF Gone, BufferOwnership
<1>3. CASE PollEntry
  BY <1>3 DEF PollEntry, memVars, BufferOwnership
<1>4. CASE ScanRead
  <2> DEFINE f == Entry.fd
             c == table[f]
  <2>1. f \in FDs /\ c \in Conns
    BY <1>4, ScanningEntry, TypeLoop DEF ScanRead, Typed
  <2>2. PICK n \in 1..Len(inq[c]) :
          buf' = [buf EXCEPT ![f] = buf[f] \o SubSeq(inq[c], 1, n)]
    BY <1>4 DEF ScanRead
  <2>3. table' = table /\ table[f] = c
    BY <1>4 DEF ScanRead
  <2> HIDE DEF f, c
  <2> DEFINE new == SubSeq(inq[c], 1, n)
  <2>4. new \in Seq(Segments) /\ \A k \in 1..Len(new) : new[k].conn = c
    BY <1>t, <2>1, <2>2 DEF Tagged
  <2>5. buf[f] \in Seq(Segments) /\ \A k \in 1..Len(buf[f]) : buf[f][k].conn = c
    BY <1>t, <2>1, <2>3, Assumed DEF BufferOwnership
  <2> HIDE DEF new
  <2>6. \A k \in 1..Len(buf[f] \o new) : (buf[f] \o new)[k].conn = c
    BY <2>4, <2>5
  <2>7. QED
    BY <1>t, <2>1, <2>2, <2>3, <2>6 DEF BufferOwnership, new
<1>5. CASE Drops
  <2>1. /\ Entry.fd \in FDs /\ table' = [table EXCEPT ![Entry.fd] = Free]
        /\ buf' = [buf EXCEPT ![Entry.fd] = <<>>]
    BY <1>5, ScanningEntry DEF Drops, ScanHup, ScanReadFails, DropEntry, Closed, Typed
  <2>2. QED
    BY <1>t, <2>1 DEF BufferOwnership
<1>6. CASE Closes
  <2>1. PICK left : CloseWith(left)
    BY <1>6 DEF Closes
  <2>2. /\ Entry.fd \in FDs /\ table' = [table EXCEPT ![Entry.fd] = Free]
        /\ buf' = [buf EXCEPT ![Entry.fd] = left]
    BY <1>6, <2>1, TypeRest DEF CloseWith, Closed, Closes
  <2>3. QED
    BY <1>t, <2>2 DEF BufferOwnership
<1>7. ASSUME NEW f \in FDs, Admits(f) PROVE BufferOwnership'
  BY <1>t, <1>7 DEF Admits, BufferReset, BufferOwnership
<1>8. QED
  BY <1>1, <1>2, <1>3, <1>4, <1>5, <1>6, <1>7, Footprint

(* No client's bytes are taken for a request of another, though numbers    *)
(* are reused and entries of closed descriptors are still walked.          *)
THEOREM BuffersAreOwned == Spec => []BufferOwnership
<1>1. Init => Tagged /\ BufferOwnership
  BY DEF Init, Tagged, BufferOwnership
<1>2. Typed /\ Tagged /\ BufferOwnership /\ [Next]_vars => Tagged' /\ BufferOwnership'
  BY TaggedNext, OwnershipNext
<1> QED
  BY <1>1, <1>2, AlwaysTyped, PTL DEF Spec

(***************************************************************************)
(* Every open descriptor is polled.                                        *)
(***************************************************************************)

LEMMA MonitoredNext ==
  ASSUME Typed, Monitored, [Next]_vars
  PROVE  Monitored'
<1>t. TypeOK /\ table \in [FDs -> Conns \cup {Free}] /\ fds \in Seq(Entries)
  BY TypeLoop DEF Typed
<1>0. ASSUME table' = table, fds' = fds PROVE Monitored'
  BY <1>0 DEF Monitored
<1>1. CASE Quiet
  BY <1>0, <1>1 DEF Quiet
<1>2. CASE Gone
  BY <1>2 DEF Gone, Monitored
<1>3. CASE PollEntry
  <2>1. /\ idx \in 1..Len(fds) /\ table' = table
        /\ fds' = [fds EXCEPT ![idx] = [fds[idx] EXCEPT !.re = Revents(fds[idx].fd)]]
    BY <1>3, <1>t, TypeLoop DEF PollEntry, memVars
  <2>2. [fds[idx] EXCEPT !.re = Revents(fds[idx].fd)].fd = fds[idx].fd
    BY <2>1, <1>t, TypeEntry DEF Entries
  <2>3. Len(fds') = Len(fds) /\ \A k \in 1..Len(fds) : fds'[k].fd = fds[k].fd
    BY <2>1, <2>2, <1>t
  <2>4. QED
    BY <2>1, <2>3 DEF Monitored
<1>4. CASE ScanRead
  BY <1>0, <1>4 DEF ScanRead, loopVars
<1>5. CASE Drops
  <2>1. /\ Entry.fd \in FDs /\ table' = [table EXCEPT ![Entry.fd] = Free]
        /\ fds' = RemoveAt(fds, idx) /\ idx \in 1..Len(fds)
    BY <1>5, ScanningEntry, <1>t
    DEF Drops, ScanHup, ScanReadFails, DropEntry, Closed, Erase
  <2>2. ASSUME NEW f \in FDs, table'[f] # Free
        PROVE  \E k \in 1..Len(fds') : fds'[k].fd = f
    <3>1. table[f] # Free /\ f # Entry.fd
      BY <1>t, <2>1, <2>2
    <3>2. PICK k \in 1..Len(fds) : fds[k].fd = f
      BY <3>1 DEF Monitored
    <3>3. k # idx
      BY <3>1, <3>2 DEF Entry
    <3>4. /\ Len(fds') = Len(fds) - 1
          /\ \A j \in 1..(idx - 1) : fds'[j] = fds[j]
          /\ \A j \in idx..(Len(fds) - 1) : fds'[j] = fds[j + 1]
      BY <1>t, <2>1, Removed
    <3>i. idx \in Nat /\ Len(fds) \in Nat /\ k \in Nat
      BY <2>1, <3>2, <1>t
    <3>5. CASE k < idx
      <4>1. k \in 1..(idx - 1) /\ k \in 1..(Len(fds) - 1)
        BY <3>2, <3>5, <3>i, <2>1
      <4>2. fds'[k] = fds[k]
        BY <4>1, <3>4
      <4>3. k \in 1..Len(fds')
        BY <4>1, <3>4
      <4>4. QED
        BY <3>2, <4>2, <4>3
    <3>6. CASE k > idx
      <4>1. k - 1 \in idx..(Len(fds) - 1)
        BY <3>2, <3>6, <3>i, <2>1
      <4>2. fds'[k - 1] = fds[k]
        BY <4>1, <3>4, <3>2, <1>t
      <4>3. k - 1 \in 1..Len(fds')
        BY <4>1, <3>4, <2>1, <1>t
      <4>4. QED
        BY <3>2, <4>2, <4>3
    <3>7. QED
      BY <3>2, <3>3, <3>5, <3>6, <2>1, <1>t
  <2>3. QED
    BY <2>2 DEF Monitored
<1>6. CASE Closes
  <2>1. /\ Entry.fd \in FDs /\ table' = [table EXCEPT ![Entry.fd] = Free]
        /\ fds' = fds
    BY <1>6, TypeRest DEF Closes, CloseWith, Closed
  <2>2. QED
    BY <1>t, <2>1 DEF Monitored
<1>7. ASSUME NEW f \in FDs, Admits(f) PROVE Monitored'
  <2>1. fds' = Append(fds, NewEntry(f)) /\ table' = [table EXCEPT ![f] = Head(backlog)]
    BY <1>7 DEF Admits
  <2>2. NewEntry(f).fd = f
    BY DEF NewEntry
  <2>3. Len(fds') = Len(fds) + 1 /\ fds'[Len(fds) + 1] = NewEntry(f)
        /\ \A k \in 1..Len(fds) : fds'[k] = fds[k]
    BY <1>t, <2>1
  <2>4. ASSUME NEW g \in FDs, table'[g] # Free
        PROVE  \E k \in 1..Len(fds') : fds'[k].fd = g
    <3>1. CASE g = f
      BY <3>1, <2>2, <2>3, <1>t
    <3>2. CASE g # f
      BY <3>2, <2>1, <2>3, <2>4, <1>t DEF Monitored
    <3>3. QED
      BY <3>1, <3>2
  <2>5. QED
    BY <2>4 DEF Monitored
<1>8. QED
  BY <1>1, <1>2, <1>3, <1>4, <1>5, <1>6, <1>7, Footprint

(* Every open client descriptor has an entry that poll looks at. *)
THEOREM EveryClientMonitored == Spec => []Monitored
<1>1. Init => Monitored
  BY DEF Init, Monitored
<1>2. Typed /\ Monitored /\ [Next]_vars => Monitored'
  BY MonitoredNext
<1> QED
  BY <1>1, <1>2, AlwaysTyped, PTL DEF Spec

(***************************************************************************)
(* An answer to an execute request follows the fork it reports.            *)
(***************************************************************************)

(* Between the fork and the answer. *)
Forked == pc = "forked" => Requested("exec") /\ kid[Caller] # "none"

LEMMA KidsNext ==
  ASSUME Typed, [Next]_vars, NEW c \in Conns, kid[c] # "none"
  PROVE  kid'[c] # "none"
<1>d. ASSUME NEW how, Die(how) PROVE kid'[c] # "none"
  BY <1>d DEF Die, Inherit
<1>1. CASE kid' = kid
  BY <1>1
<1>2. CASE Start \/ StartFails \/ Startup \/ Poll
  BY <1>1, <1>2, <1>d
  DEF Start, StartFails, Startup, InstallHandlers, SetGlobal, SetRunning, Poll, LoopTop, LoopExit,
      PollEntry, PollReturn, Accept
<1>3. CASE Scan
  BY <1>1, <1>3 DEF Scan, ScanDone, ScanSkip, ScanHup, ScanReadFails, ScanRead, DropEntry
<1>4. CASE Serve
  <2>1. CASE ForkChild
    BY <2>1 DEF ForkChild, Typed, TypeOK
  <2>2. CASE ~ForkChild
    BY <1>1, <1>4, <2>2, <1>d
    DEF Serve, NeedMore, HandleListUsers, HandleDenied, HandleVoid, ForkFails,
        AnswerExecute, WriteAndClose, HandlerCloses, CloseWith
  <2>3. QED
    BY <2>1, <2>2
<1>5. CASE Sigterm \/ Sigchld
  BY <1>1, <1>5, <1>d DEF Sigterm, Sigchld, Stop, ReapChildren
<1>6. CASE \E d \in Conns : KidExits(d) \/ Connect(d) \/ Send(d) \/ Leave(d)
  BY <1>1, <1>6 DEF KidExits, Connect, Send, Leave, Typed, TypeOK
<1>7. CASE UNCHANGED vars
  BY <1>1, <1>7 DEF vars
<1>8. QED
  BY <1>2, <1>3, <1>4, <1>5, <1>6, <1>7 DEF Next, Daemon

(* Only the fork leads there, and only signals and clients come between. *)
LEMMA ForkedStep ==
  ASSUME Typed, [Next]_vars, pc' = "forked"
  PROVE  \/ ForkChild
         \/ pc = "forked" /\ UNCHANGED <<fds, idx, table, buf>>
<1>d. ASSUME NEW how \in {"exited", "killed"}, Die(how) PROVE FALSE
  BY <1>d DEF Die, Goto
<1>1. CASE Start \/ StartFails \/ Startup
  BY <1>1 DEF Start, StartFails, Startup, InstallHandlers, SetGlobal, SetRunning, Goto
<1>2. CASE Poll
  BY <1>2, <1>d DEF Poll, LoopTop, LoopExit, PollEntry, PollReturn, Accept, Goto
<1>3. CASE Scan
  BY <1>3 DEF Scan, ScanDone, ScanSkip, ScanHup, ScanReadFails, ScanRead, Scanning,
              DropEntry, Goto
<1>4. CASE Serve
  BY <1>4, <1>d DEF Serve, NeedMore, HandleListUsers, HandleDenied, HandleVoid,
                    ForkFails, AnswerExecute, WriteAndClose, HandlerCloses, CloseWith,
                    Goto
<1>5. CASE Sigterm \/ Sigchld
  BY <1>5, <1>d DEF Sigterm, Sigchld, Stop, loopVars, memVars
<1>6. CASE \E c \in Conns : KidExits(c) \/ Connect(c) \/ Send(c) \/ Leave(c)
  BY <1>6 DEF KidExits, Connect, Send, Leave, loopVars, memVars
<1>7. CASE UNCHANGED vars
  BY <1>7 DEF vars, loopVars, memVars
<1>8. QED
  BY <1>1, <1>2, <1>3, <1>4, <1>5, <1>6, <1>7 DEF Next, Daemon

LEMMA ForkedNext ==
  ASSUME Typed, Forked, [Next]_vars
  PROVE  Forked'
<1> SUFFICES ASSUME pc' = "forked" PROVE Requested("exec")' /\ kid'[Caller'] # "none"
  BY DEF Forked
<1>1. CASE ForkChild
  <2>1. Caller \in Conns
    BY <1>1, TypeRest DEF ForkChild
  <2>2. UNCHANGED <<fds, idx, table, buf>>
    BY <1>1 DEF ForkChild, loopVars, memVars
  <2>3. Caller' = Caller /\ Buffer' = Buffer
    BY <2>2 DEF Caller, Buffer, Entry
  <2>4. kid'[Caller] = "running"
    BY <1>1, <2>1 DEF ForkChild, Typed, TypeOK
  <2>5. QED
    BY <1>1, <2>3, <2>4 DEF ForkChild, Requested
<1>2. CASE pc = "forked" /\ UNCHANGED <<fds, idx, table, buf>>
  <2>1. Caller' = Caller /\ Buffer' = Buffer /\ Caller \in Conns
    BY <1>2, TypeRest DEF Caller, Buffer, Entry
  <2>2. Requested("exec") /\ kid[Caller] # "none"
    BY <1>2 DEF Forked
  <2>3. kid'[Caller] # "none"
    BY <2>1, <2>2, KidsNext
  <2>4. QED
    BY <2>1, <2>2, <2>3 DEF Requested
<1>3. QED
  BY <1>1, <1>2, ForkedStep

LEMMA ForkedAlways == Spec => []Forked
<1>1. Init => Forked
  BY DEF Init, Forked
<1>2. Typed /\ Forked /\ [Next]_vars => Forked'
  BY ForkedNext
<1> QED
  BY <1>1, <1>2, AlwaysTyped, PTL DEF Spec

(* What a step adds to the answers. *)
LEMMA RepliesStep ==
  ASSUME Typed, [Next]_vars
  PROVE  \/ UNCHANGED replies
         \/ \E answer \in Kinds :
              /\ answer = "exec" => pc = "forked"
              /\ pc \in {"process", "forked"}
              /\ replies' = [replies EXCEPT ![Caller] = Append(@, answer)]
<1>d. ASSUME NEW how, Die(how) PROVE UNCHANGED replies
  BY <1>d DEF Die
<1>1. CASE Start \/ StartFails \/ Startup \/ Poll
  BY <1>1, <1>d
  DEF Start, StartFails, Startup, InstallHandlers, SetGlobal, SetRunning, Poll, LoopTop, LoopExit,
      PollEntry, PollReturn, Accept
<1>2. CASE Scan
  BY <1>2 DEF Scan, ScanDone, ScanSkip, ScanHup, ScanReadFails, ScanRead, DropEntry
<1>3. CASE Serve
  <2>w. ASSUME NEW answer \in Kinds, WriteAndClose(Caller, answer)
        PROVE  \/ UNCHANGED replies
               \/ replies' = [replies EXCEPT ![Caller] = Append(@, answer)]
    BY <2>w, <1>d DEF WriteAndClose
  <2>k. {"list", "denied", "exec"} \subseteq Kinds
    BY DEF Kinds
  <2>1. CASE HandleListUsers
    BY <2>1, <2>w, <2>k DEF HandleListUsers
  <2>2. CASE HandleDenied
    BY <2>2, <2>w, <2>k DEF HandleDenied
  <2>3. CASE AnswerExecute
    BY <2>3, <2>w, <2>k DEF AnswerExecute
  <2>4. CASE NeedMore \/ HandleVoid \/ ForkChild \/ ForkFails
    BY <2>4 DEF NeedMore, HandleVoid, ForkChild, ForkFails
  <2>5. QED
    BY <1>3, <2>1, <2>2, <2>3, <2>4 DEF Serve
<1>4. CASE Sigterm \/ Sigchld
  BY <1>4, <1>d DEF Sigterm, Sigchld, Stop
<1>5. CASE \E c \in Conns : KidExits(c) \/ Connect(c) \/ Send(c) \/ Leave(c)
  BY <1>5 DEF KidExits, Connect, Send, Leave
<1>6. CASE UNCHANGED vars
  BY <1>6 DEF vars
<1>7. QED
  BY <1>1, <1>2, <1>3, <1>4, <1>5, <1>6 DEF Next, Daemon

LEMMA AnswersNext ==
  ASSUME Typed, Forked, AnswerMeansForked, [Next]_vars
  PROVE  AnswerMeansForked'
<1>1. ASSUME NEW c \in Conns, "exec" \in ToSet(replies[c]) PROVE kid'[c] # "none"
  BY <1>1, KidsNext DEF AnswerMeansForked
<1>2. CASE UNCHANGED replies
  BY <1>1, <1>2 DEF AnswerMeansForked
<1>3. ASSUME NEW answer \in Kinds, answer = "exec" => pc = "forked",
             pc \in {"process", "forked"},
             replies' = [replies EXCEPT ![Caller] = Append(@, answer)]
      PROVE  AnswerMeansForked'
  <2>1. Caller \in Conns /\ replies \in [Conns -> Seq(Kinds)]
    BY <1>3, TypeRest DEF Typed, TypeOK
  <2>2. ToSet(Append(replies[Caller], answer)) \subseteq ToSet(replies[Caller]) \cup {answer}
    BY <2>1 DEF ToSet
  <2>3. ASSUME answer = "exec" PROVE kid'[Caller] # "none"
    BY <1>3, <2>1, <2>3, KidsNext DEF Forked
  <2>4. ASSUME NEW c \in Conns, "exec" \in ToSet(replies'[c]) PROVE kid'[c] # "none"
    <3>1. CASE c # Caller
      BY <1>1, <1>3, <2>1, <2>4, <3>1
    <3>2. CASE c = Caller
      BY <1>1, <1>3, <2>1, <2>2, <2>3, <2>4, <3>2
    <3>3. QED
      BY <3>1, <3>2
  <2>5. QED
    BY <2>4 DEF AnswerMeansForked
<1>4. QED
  BY <1>2, <1>3, RepliesStep

(* No client is told that its command runs unless a Child was forked. *)
THEOREM AnswersFollowForks == Spec => []AnswerMeansForked
<1>1. Init => AnswerMeansForked
  BY DEF Init, AnswerMeansForked, ToSet
<1>2. Typed /\ Forked /\ AnswerMeansForked /\ [Next]_vars => AnswerMeansForked'
  BY AnswersNext
<1> QED
  BY <1>1, <1>2, AlwaysTyped, ForkedAlways, PTL DEF Spec

(***************************************************************************)
(* No connection is dropped afresh.                                        *)
(***************************************************************************)

(* The connections whose client has left. *)
Departed == {c \in Conns : cli[c] = "closed"}

(* What a reported hangup means.  While poll walks, and until accept has   *)
(* run, the client of the entry is gone.  Later the number may have been   *)
(* closed and not reused, for only the accept of a pass takes a number.    *)
HangupMeansGone ==
  \A k \in 1..Len(fds) : fds[k].re = "hup" =>
    /\ (pc = "poll" /\ k < idx) \/ pc = "accept" => table[fds[k].fd] \in Departed
    /\ pc \in {"scan", "process", "forked"} /\ k >= idx =>
         table[fds[k].fd] = Free \/ table[fds[k].fd] \in Departed

(* The steps that leave the vector and the table alone. *)
LEMMA QuietStep ==
  ASSUME Typed, [Next]_vars, UNCHANGED <<fds, table>>
  PROVE  \/ pc' = pc /\ idx' = idx
         \/ pc' \in {"bound", "handlers", "global", "top", "down", "exited", "killed"}
         \/ pc = "top" /\ pc' = "poll" /\ idx' = 1
         \/ pc = "poll" /\ idx > Len(fds) /\ pc' = "accept"
         \/ PollEntry
         \/ pc = "accept" /\ pc' = "scan" /\ idx' = 1
         \/ pc \in {"scan", "process", "forked"} /\ pc' = "scan" /\ idx' >= idx
         \/ pc \in {"scan", "process"} /\ pc' \in {"process", "forked"} /\ idx' = idx
<1>t. TypeOK /\ idx \in Nat /\ idx + 1 >= idx
  BY TypeLoop DEF Typed
<1>d. ASSUME NEW how \in {"exited", "killed"}, Die(how) PROVE pc' \in {"exited", "killed"}
  BY <1>d DEF Die, Goto
<1>1. CASE Start \/ StartFails \/ Startup
  BY <1>1 DEF Start, StartFails, Startup, InstallHandlers, SetGlobal, SetRunning, Goto
<1>2. CASE Poll
  BY <1>2, <1>d DEF Poll, LoopTop, LoopExit, PollReturn, Accept, Goto, loopVars
<1>3. CASE Scan
  BY <1>3, <1>t DEF Scan, ScanDone, ScanSkip, ScanHup, ScanReadFails, ScanRead, Scanning,
                    DropEntry, Goto, loopVars
<1>4. CASE Serve
  <2>c. ASSUME pc \in {"process", "forked"}, NEW left, CloseWith(left)
        PROVE  pc' = "scan" /\ idx' >= idx
    BY <2>c, <1>t DEF CloseWith, Goto
  <2>w. ASSUME pc \in {"process", "forked"}, NEW answer \in Kinds,
               WriteAndClose(Caller, answer)
        PROVE  pc' \in {"exited", "killed"} \/ (pc' = "scan" /\ idx' >= idx)
    BY <2>w, <2>c, <1>d DEF WriteAndClose, HandlerCloses
  <2>k. {"list", "denied", "exec"} \subseteq Kinds
    BY DEF Kinds
  <2>1. CASE NeedMore \/ ForkChild
    BY <2>1, <1>t DEF NeedMore, ForkChild, Goto, loopVars
  <2>2. CASE HandleListUsers
    BY <2>2, <2>w, <2>k DEF HandleListUsers
  <2>3. CASE HandleDenied
    BY <2>3, <2>w, <2>k DEF HandleDenied
  <2>4. CASE HandleVoid \/ ForkFails
    BY <2>4, <2>c DEF HandleVoid, ForkFails, HandlerCloses
  <2>5. CASE AnswerExecute
    BY <2>5, <2>w, <2>k DEF AnswerExecute
  <2>6. QED
    BY <1>4, <2>1, <2>2, <2>3, <2>4, <2>5 DEF Serve
<1>5. CASE Sigterm \/ Sigchld
  BY <1>5, <1>d DEF Sigterm, Sigchld, Stop, loopVars
<1>6. CASE \E c \in Conns : KidExits(c) \/ Connect(c) \/ Send(c) \/ Leave(c)
  BY <1>6 DEF KidExits, Connect, Send, Leave, loopVars
<1>7. CASE UNCHANGED vars
  BY <1>7 DEF vars, loopVars
<1>8. QED
  BY <1>1, <1>2, <1>3, <1>4, <1>5, <1>6, <1>7 DEF Next, Daemon

(* A client that has left stays away. *)
LEMMA LeftForGood ==
  ASSUME Typed, [Next]_vars, NEW c \in Conns, cli[c] = "closed"
  PROVE  cli'[c] = "closed"
<1>1. CASE UNCHANGED cli
  BY <1>1
<1>2. CASE \E d \in Conns : Connect(d) \/ Leave(d)
  BY <1>2 DEF Connect, Leave, Typed, TypeOK
<1>3. CASE Start \/ StartFails \/ Startup \/ Poll
  BY <1>1, <1>3 DEF Start, StartFails, Startup, InstallHandlers, SetGlobal, SetRunning, Poll,
                    LoopTop, LoopExit, Die, PollEntry, PollReturn, Accept, clientVars
<1>4. CASE Scan
  BY <1>1, <1>4 DEF Scan, ScanDone, ScanSkip, ScanHup, ScanReadFails, ScanRead,
                    DropEntry, clientVars
<1>5. CASE Serve
  BY <1>1, <1>5 DEF Serve, NeedMore, HandleListUsers, HandleDenied, HandleVoid,
                    ForkChild, ForkFails, AnswerExecute, WriteAndClose, HandlerCloses,
                    CloseWith, Die, clientVars
<1>6. CASE Sigterm \/ Sigchld
  BY <1>1, <1>6 DEF Sigterm, Sigchld, Die, Stop, clientVars
<1>7. CASE \E d \in Conns : KidExits(d) \/ Send(d)
  BY <1>1, <1>7 DEF KidExits, Send, clientVars
<1>8. CASE UNCHANGED vars
  BY <1>1, <1>8 DEF vars, clientVars
<1>9. QED
  BY <1>2, <1>3, <1>4, <1>5, <1>6, <1>7, <1>8 DEF Next, Daemon

LEMMA HangupNext ==
  ASSUME Typed, HangupMeansGone, [Next]_vars
  PROVE  HangupMeansGone'
<1>t. /\ TypeOK /\ table \in [FDs -> Conns \cup {Free}] /\ fds \in Seq(Entries)
      /\ idx \in Nat /\ idx >= 1 /\ Free \notin Conns
      /\ \A k \in 1..Len(fds) : fds[k].fd \in FDs
  BY TypeLoop, TypeEntry, Assumed DEF Typed
<1>c. Departed \subseteq Departed'
  BY LeftForGood DEF Departed
<1>1. CASE PollEntry
  <2>1. /\ idx \in 1..Len(fds) /\ table' = table /\ pc = "poll" /\ pc' = "poll"
        /\ idx' = idx + 1
        /\ fds' = [fds EXCEPT ![idx] = [fds[idx] EXCEPT !.re = Revents(fds[idx].fd)]]
    BY <1>1, <1>t DEF PollEntry, memVars
  <2>2. [fds[idx] EXCEPT !.re = Revents(fds[idx].fd)] =
          [fd |-> fds[idx].fd, re |-> Revents(fds[idx].fd)]
    <3>1. fds[idx] \in Entries
      BY <2>1, <1>t, TypeEntry
    <3>2. PICK f \in FDs, r \in Reports : fds[idx] = [fd |-> f, re |-> r]
      BY <3>1 DEF Entries
    <3> DEFINE new == Revents(fds[idx].fd)
    <3> HIDE DEF new
    <3>3. [fds[idx] EXCEPT !.re = new] = [fd |-> f, re |-> new] /\ fds[idx].fd = f
      BY <3>2
    <3>4. QED
      BY <3>3 DEF new
  <2>3. /\ Len(fds') = Len(fds)
        /\ fds'[idx].fd = fds[idx].fd /\ fds'[idx].re = Revents(fds[idx].fd)
        /\ \A k \in 1..Len(fds) : k # idx => fds'[k] = fds[k]
    BY <2>1, <2>2, <1>t
  <2>4. Revents(fds[idx].fd) = "hup" => table[fds[idx].fd] \in Departed
    BY <1>t, <2>1 DEF Revents, Departed, TypeOK
  <2>5. ASSUME NEW k \in 1..Len(fds'), fds'[k].re = "hup", k < idx'
        PROVE  table'[fds'[k].fd] \in Departed'
    <3>1. CASE k = idx
      BY <3>1, <2>1, <2>3, <2>4, <2>5, <1>c, <1>t
    <3>2. CASE k # idx
      <4>1. k < idx /\ k \in 1..Len(fds) /\ fds'[k] = fds[k]
        BY <3>2, <2>1, <2>3, <2>5, <1>t
      <4>2. table[fds[k].fd] \in Departed /\ fds[k].fd \in FDs
        BY <4>1, <2>1, <2>5, <1>t DEF HangupMeansGone
      <4>3. QED
        BY <4>1, <4>2, <2>1, <1>c, <1>t
    <3>3. QED
      BY <3>1, <3>2
  <2>6. QED
    BY <2>1, <2>5 DEF HangupMeansGone
<1>2. CASE UNCHANGED <<fds, table>> /\ ~PollEntry
  <2>1. ASSUME NEW k \in 1..Len(fds')
        PROVE  /\ k \in 1..Len(fds) /\ fds'[k] = fds[k] /\ k <= Len(fds)
               /\ table[fds[k].fd] \in Departed => table'[fds'[k].fd] \in Departed'
               /\ table[fds[k].fd] = Free => table'[fds'[k].fd] = Free
    BY <1>2, <1>t, <1>c, <2>1
  <2>2. CASE pc' = pc /\ idx' = idx
    BY <2>1, <2>2 DEF HangupMeansGone
  <2>3. CASE pc' \in {"bound", "handlers", "global", "top", "down", "exited", "killed"}
    BY <2>3 DEF HangupMeansGone
  <2>4. CASE pc' = "poll" /\ idx' = 1
    <3>1. \A k \in 1..Len(fds') : ~(k < idx')
      BY <2>4
    <3>2. QED
      BY <2>4, <3>1 DEF HangupMeansGone
  <2>5. CASE pc = "poll" /\ idx > Len(fds) /\ pc' = "accept"
    <3>1. \A k \in 1..Len(fds') : k < idx
      BY <2>1, <2>5, <1>t
    <3>2. QED
      BY <2>1, <2>5, <3>1 DEF HangupMeansGone
  <2>6. CASE pc = "accept" /\ pc' = "scan"
    BY <2>1, <2>6 DEF HangupMeansGone
  <2>7. CASE pc \in {"scan", "process", "forked"} /\ pc' = "scan" /\ idx' >= idx
    <3>0. idx' \in Nat
      BY TypeNext, TypeLoop DEF Typed, TypeOK
    <3>1. \A k \in 1..Len(fds') : k >= idx' => k >= idx
      BY <2>7, <1>t, <3>0
    <3>2. QED
      BY <2>1, <2>7, <3>1 DEF HangupMeansGone
  <2>8. CASE pc \in {"scan", "process"} /\ pc' \in {"process", "forked"} /\ idx' = idx
    BY <2>1, <2>8 DEF HangupMeansGone
  <2>9. QED
    BY <1>2, <2>2, <2>3, <2>4, <2>5, <2>6, <2>7, <2>8, QuietStep
<1>3. CASE Gone
  BY <1>3 DEF Gone, HangupMeansGone
<1>4. CASE Drops
  <2>1. /\ Entry.fd \in FDs /\ table' = [table EXCEPT ![Entry.fd] = Free]
        /\ fds' = RemoveAt(fds, idx) /\ idx \in 1..Len(fds)
        /\ pc = "scan" /\ pc' = "scan" /\ idx' = idx
    BY <1>4, ScanningEntry, <1>t
    DEF Drops, ScanHup, ScanReadFails, DropEntry, Closed, Erase
  <2>2. /\ Len(fds') = Len(fds) - 1
        /\ \A j \in idx..(Len(fds) - 1) : fds'[j] = fds[j + 1]
    BY <1>t, <2>1, Removed
  <2>3. ASSUME NEW k \in 1..Len(fds'), fds'[k].re = "hup", k >= idx
        PROVE  table'[fds'[k].fd] = Free \/ table'[fds'[k].fd] \in Departed'
    <3>1. fds'[k] = fds[k + 1] /\ k + 1 \in 1..Len(fds) /\ k + 1 >= idx
      BY <2>1, <2>2, <2>3, <1>t
    <3>2. table[fds[k + 1].fd] = Free \/ table[fds[k + 1].fd] \in Departed
      BY <3>1, <2>1, <2>3 DEF HangupMeansGone
    <3>3. fds[k + 1].fd \in FDs
      BY <3>1, <1>t
    <3>4. QED
      BY <3>1, <3>2, <3>3, <2>1, <1>c, <1>t
  <2>4. QED
    BY <2>1, <2>3 DEF HangupMeansGone
<1>5. CASE Closes
  <2>1. /\ Entry.fd \in FDs /\ table' = [table EXCEPT ![Entry.fd] = Free]
        /\ fds' = fds /\ pc \in {"process", "forked"} /\ pc' = "scan" /\ idx' = idx + 1
    BY <1>5, TypeRest DEF Closes, CloseWith, Closed, Goto
  <2>2. ASSUME NEW k \in 1..Len(fds), fds[k].re = "hup", k >= idx + 1
        PROVE  table'[fds[k].fd] = Free \/ table'[fds[k].fd] \in Departed'
    <3>1. table[fds[k].fd] = Free \/ table[fds[k].fd] \in Departed
      BY <2>1, <2>2, <1>t DEF HangupMeansGone
    <3>2. fds[k].fd \in FDs
      BY <1>t
    <3>3. QED
      BY <3>1, <3>2, <2>1, <1>c, <1>t
  <2>3. QED
    BY <2>1, <2>2 DEF HangupMeansGone
<1>6. ASSUME Accept, NEW f \in FDs, Admits(f) PROVE HangupMeansGone'
  <2>1. /\ fds' = Append(fds, NewEntry(f)) /\ table' = [table EXCEPT ![f] = Head(backlog)]
        /\ table[f] = Free /\ pc = "accept" /\ pc' = "scan"
    BY <1>6 DEF Admits, Accept, Goto
  <2>2. NewEntry(f).re = "none"
    BY DEF NewEntry
  <2>3. Len(fds') = Len(fds) + 1 /\ fds'[Len(fds) + 1] = NewEntry(f)
        /\ \A k \in 1..Len(fds) : fds'[k] = fds[k]
    BY <1>t, <2>1
  <2>4. ASSUME NEW k \in 1..Len(fds'), fds'[k].re = "hup"
        PROVE  table'[fds'[k].fd] \in Departed'
    <3>1. k \in 1..Len(fds) /\ fds'[k] = fds[k]
      BY <2>2, <2>3, <2>4, <1>t
    <3>2. table[fds[k].fd] \in Departed /\ fds[k].fd \in FDs
      BY <3>1, <2>1, <2>4, <1>t DEF HangupMeansGone
    <3>3. fds[k].fd # f
      BY <3>2, <2>1, <1>t DEF Departed
    <3>4. QED
      BY <3>1, <3>2, <3>3, <2>1, <1>c, <1>t
  <2>5. QED
    BY <2>1, <2>4 DEF HangupMeansGone
<1>7. QED
  <2>1. CASE Quiet
    BY <2>1, <1>1, <1>2 DEF Quiet
  <2>2. CASE ScanRead
    BY <2>2, <1>2 DEF ScanRead, Scanning, PollEntry, loopVars
  <2>3. QED
    BY <2>1, <2>2, <1>1, <1>3, <1>4, <1>5, <1>6, Footprint

DropsForCause ==
  \A f \in FDs : table[f] # Free /\ table'[f] # table[f] =>
    \/ cli[table[f]] = "closed"
    \/ MessageEnd(buf[f]) # 0
    \/ ~Alive'

LEMMA DropNext ==
  ASSUME Typed, Forked, HangupMeansGone, [Next]_vars
  PROVE  DropsForCause
<1>t. /\ TypeOK /\ table \in [FDs -> Conns \cup {Free}] /\ fds \in Seq(Entries)
      /\ idx \in Nat
  BY TypeLoop DEF Typed
<1>0. CASE table' = table
  BY <1>0 DEF DropsForCause
<1>1. CASE Gone
  BY <1>1 DEF Gone, DropsForCause, Alive
<1>2. CASE Drops
  <2>1. table' = [table EXCEPT ![Entry.fd] = Free]
    BY <1>2 DEF Drops, ScanHup, ScanReadFails, DropEntry, Closed
  <2>2. table[Entry.fd] # Free => cli[table[Entry.fd]] = "closed"
    <3>1. CASE ScanHup
      <4>1. /\ idx \in 1..Len(fds) /\ fds[idx].re = "hup" /\ pc = "scan"
        BY <3>1, <1>t, ScanningEntry DEF ScanHup, Scanning, Entry
      <4>2. QED
        BY <4>1, <1>t DEF HangupMeansGone, Departed, Entry
    <3>2. CASE ScanReadFails
      BY <3>2 DEF ScanReadFails, ReadFails
    <3>3. QED
      BY <1>2, <3>1, <3>2 DEF Drops
  <2>3. QED
    BY <2>1, <2>2, <1>t DEF DropsForCause
<1>3. CASE Closes
  <2>1. table' = [table EXCEPT ![Entry.fd] = Free]
    BY <1>3 DEF Closes, CloseWith, Closed
  <2>2. MessageEnd(buf[Entry.fd]) # 0
    BY <1>3 DEF Closes, Buffer, Forked, Requested
  <2>3. QED
    BY <2>1, <2>2, <1>t DEF DropsForCause
<1>4. ASSUME NEW f \in FDs, Admits(f) PROVE DropsForCause
  BY <1>4, <1>t DEF Admits, DropsForCause
<1>5. QED
  <2>1. CASE Quiet \/ PollEntry \/ ScanRead
    BY <2>1, <1>0 DEF Quiet, PollEntry, ScanRead, memVars
  <2>2. QED
    BY <2>1, <1>1, <1>2, <1>3, <1>4, Footprint

(* While the daemon lives, it lets go of a connection only when the client *)
(* has left or its request is complete.                                    *)
THEOREM NothingDroppedAfresh == Spec => NoFreshDrop
<1>1. Init => HangupMeansGone
  BY DEF Init, HangupMeansGone
<1>2. Typed /\ HangupMeansGone /\ [Next]_vars => HangupMeansGone'
  BY HangupNext
<1>3. Spec => []HangupMeansGone
  BY <1>1, <1>2, AlwaysTyped, PTL DEF Spec
<1>4. Typed /\ Forked /\ HangupMeansGone /\ [Next]_vars => [DropsForCause]_vars
  BY DropNext
<1>5. Spec => [][DropsForCause]_vars
  BY <1>3, <1>4, AlwaysTyped, ForkedAlways, PTL DEF Spec
<1> QED
  BY <1>5, PTL DEF DropsForCause, NoFreshDrop

-----------------------------------------------------------------------------
(***************************************************************************)
(* The socket file.                                                        *)
(***************************************************************************)

(* stop() clears running_ and removes the file together. *)
Listening == InLoop /\ ~running => ~sockfile

LEMMA SocketNext ==
  ASSUME Typed, Listening, SocketFileGone, [Next]_vars
  PROVE  Listening' /\ SocketFileGone'
<1>d. ASSUME Die("killed") PROVE Listening' /\ SocketFileGone'
  BY <1>d DEF Die, Goto, Listening, SocketFileGone, InLoop
<1>i. ASSUME UNCHANGED <<running, sockfile>>, InLoop, InLoop'
      PROVE  Listening' /\ SocketFileGone'
  BY <1>i DEF Listening, SocketFileGone, Alive, InLoop
<1>1. CASE Start \/ StartFails \/ Startup
  BY <1>1 DEF Start, StartFails, Startup, InstallHandlers, SetGlobal, SetRunning, Goto, Listening,
              SocketFileGone, Alive, InLoop
<1>2. CASE LoopExit
  BY <1>2 DEF LoopExit, Die, Goto, Listening, SocketFileGone, Alive, InLoop
<1>3. CASE Poll /\ ~LoopExit
  BY <1>3, <1>i DEF Poll, LoopTop, PollEntry, PollReturn, Accept, Goto, InLoop, flagVars
<1>4. CASE Scan
  BY <1>4, <1>i DEF Scan, ScanDone, ScanSkip, ScanHup, ScanReadFails, ScanRead, Scanning,
                    DropEntry, Goto, InLoop, flagVars
<1>5. CASE Serve
  BY <1>5, <1>i, <1>d
  DEF Serve, NeedMore, HandleListUsers, HandleDenied, HandleVoid, ForkChild, ForkFails,
      AnswerExecute, WriteAndClose, HandlerCloses, CloseWith, Goto, InLoop, flagVars
<1>6. CASE Sigterm
  <2>1. CASE Stop
    <3>1. sockfile' = FALSE
      BY <2>1 DEF Stop, RemoveSocketFile
    <3>2. QED
      BY <3>1 DEF Listening, SocketFileGone
  <2>2. CASE UNCHANGED <<pc, flagVars>>
    BY <2>2 DEF flagVars, Listening, SocketFileGone, Alive, InLoop
  <2>3. QED
    BY <1>6, <1>d, <2>1, <2>2 DEF Sigterm
<1>7. CASE \/ Sigchld \/ UNCHANGED vars
           \/ \E c \in Conns : KidExits(c) \/ Connect(c) \/ Send(c) \/ Leave(c)
  <2>1. UNCHANGED <<pc, flagVars>>
    BY <1>7 DEF Sigchld, vars, KidExits, Connect, Send, Leave
  <2>2. QED
    BY <2>1 DEF flagVars, Listening, SocketFileGone, Alive, InLoop
<1>8. QED
  BY <1>1, <1>2, <1>3, <1>4, <1>5, <1>6, <1>7 DEF Next, Daemon

(* A daemon that exits by itself takes its socket file with it. *)
THEOREM ExitRemovesSocket == Spec => []SocketFileGone
<1>1. Init => Listening /\ SocketFileGone
  BY DEF Init, Listening, SocketFileGone
<1>2. Typed /\ Listening /\ SocketFileGone /\ [Next]_vars => Listening' /\ SocketFileGone'
  BY SocketNext
<1> QED
  BY <1>1, <1>2, AlwaysTyped, PTL DEF Spec

-----------------------------------------------------------------------------
(***************************************************************************)
(* A connection carries one request.  Two facts make it so: a connection   *)
(* is in one place only, the queue or one descriptor, and what a           *)
(* descriptor's buffer and the socket hold is, in order, what its client   *)
(* sent.  A first request is therefore the first of the script, and once   *)
(* it is answered the connection is nowhere.                               *)
(***************************************************************************)

(* Where a connection can be. *)
Places ==
  /\ \A i, j \in 1..Len(backlog) : backlog[i] = backlog[j] => i = j
  /\ \A i \in 1..Len(backlog) : cli[backlog[i]] # "none"
  /\ \A i \in 1..Len(backlog) : \A f \in FDs : table[f] # backlog[i]
  /\ \A f \in FDs : table[f] # Free => cli[table[f]] # "none"
  /\ \A f, g \in FDs : table[f] # Free /\ table[f] = table[g] => f = g

Same(seg, req) == seg.kind = req.kind /\ seg.last = req.last

(* got, and then queue, are the first n of the script s. *)
InOrder(got, queue, n, s) ==
  /\ Len(got) + Len(queue) = n
  /\ \A k \in 1..Len(got) : Same(got[k], s[k])
  /\ \A k \in 1..Len(queue) : Same(queue[k], s[Len(got) + k])

(* Nothing but got was read from c, and c has no answer. *)
Fresh(c, got) == InOrder(got, inq[c], sent[c], script[c]) /\ replies[c] = <<>>

Streams ==
  /\ \A c \in Conns : sent[c] <= Len(script[c])
  /\ \A c \in Conns : cli[c] = "none" => Fresh(c, <<>>)
  /\ \A i \in 1..Len(backlog) : Fresh(backlog[i], <<>>)
  /\ \A f \in FDs : table[f] # Free => Fresh(table[f], buf[f])

(* The kinds of steps, for these two. *)
Idle ==
  /\ UNCHANGED <<table, buf, inq, sent, replies, backlog>>
  /\ UNCHANGED cli \/ \E c \in Conns : Leave(c)

Takes(f) ==
  Admits(f) /\ backlog' = Tail(backlog) /\ UNCHANGED <<inq, sent, replies, cli>>

Emptied ==
  /\ backlog' = <<>> /\ UNCHANGED <<inq, sent, replies, cli>>
  /\ table' = [f \in FDs |-> Free] \/ UNCHANGED <<table, buf>>

LetsGo(f) ==
  /\ table' = [table EXCEPT ![f] = Free]
  /\ \E b : buf' = [buf EXCEPT ![f] = b]
  /\ \/ UNCHANGED replies
     \/ \E answer \in Kinds :
          /\ table[f] # Free /\ MessageEnd(buf[f]) # 0
          /\ answer = buf[f][MessageEnd(buf[f])].kind
          /\ replies' = [replies EXCEPT ![table[f]] = Append(@, answer)]
  /\ UNCHANGED <<inq, sent, cli, backlog>>

LEMMA ScriptKept ==
  ASSUME [Next]_vars
  PROVE  script' = script
BY DEF Next, vars, Start, StartFails, Daemon, Startup, InstallHandlers, SetGlobal, SetRunning, Poll,
       LoopTop, LoopExit, Die, PollEntry, PollReturn, Accept, Scan, ScanDone, ScanSkip,
       ScanHup, ScanReadFails, ScanRead, DropEntry, Serve, NeedMore, HandleListUsers,
       HandleDenied, HandleVoid, ForkChild, ForkFails, AnswerExecute, WriteAndClose,
       HandlerCloses, CloseWith, Sigterm, Sigchld, Stop, KidExits, Connect, Send, Leave,
       clientVars

LEMMA StreamStep ==
  ASSUME Typed, Forked, [Next]_vars
  PROVE  \/ Idle \/ Emptied \/ ScanRead
         \/ \E c \in Conns : Connect(c) \/ Send(c)
         \/ \E f \in FDs : Takes(f) \/ LetsGo(f)
<1> DEFINE Goal == \/ Idle \/ Emptied \/ ScanRead
                   \/ \E c \in Conns : Connect(c) \/ Send(c)
                   \/ \E f \in FDs : Takes(f) \/ LetsGo(f)
<1>d. ASSUME NEW how, Die(how) PROVE Emptied
  BY <1>d DEF Die, AbandonQueue, Emptied, clientVars
<1>1. CASE Start \/ StartFails \/ Startup
  BY <1>1 DEF Start, StartFails, Startup, InstallHandlers, SetGlobal, SetRunning, Idle, memVars,
              clientVars
<1>2. CASE Poll
  <2>1. CASE LoopTop \/ PollEntry \/ PollReturn
    BY <2>1 DEF LoopTop, PollEntry, PollReturn, Idle, memVars, clientVars
  <2>2. CASE LoopExit
    BY <2>2, <1>d DEF LoopExit
  <2>3. CASE Accept
    <3>1. UNCHANGED <<inq, sent, replies, cli>>
      BY <2>3 DEF Accept, clientVars
    <3>2. CASE UNCHANGED <<table, fds, buf, backlog>>
      BY <3>1, <3>2 DEF Idle
    <3>3. CASE \E f \in FDs : Takes(f)
      BY <3>3
    <3>4. QED
      BY <2>3, <3>1, <3>2, <3>3 DEF Accept, Takes, Admits, LowestFree, FreeFDs
  <2>4. QED
    BY <1>2, <2>1, <2>2, <2>3 DEF Poll
<1>3. CASE Scan
  <2>1. CASE ScanDone \/ ScanSkip
    BY <2>1 DEF ScanDone, ScanSkip, Idle, memVars, clientVars
  <2>2. CASE ScanHup \/ ScanReadFails
    <3>1. Entry.fd \in FDs
      BY <2>2, ScanningEntry DEF ScanHup, ScanReadFails, Typed
    <3>2. LetsGo(Entry.fd)
      BY <2>2 DEF ScanHup, ScanReadFails, DropEntry, Closed, LetsGo, clientVars
    <3>3. QED
      BY <3>1, <3>2
  <2>3. QED
    BY <1>3, <2>1, <2>2 DEF Scan
<1>4. CASE Serve
  <2> HIDE DEF Goal
  <2>f. ASSUME pc \in {"process", "forked"}
        PROVE  Entry.fd \in FDs /\ table[Entry.fd] # Free
    BY <2>f, TypeRest DEF Typed, Serving, Entry
  <2>c. ASSUME pc \in {"process", "forked"}, NEW left, CloseWith(left),
               UNCHANGED replies
        PROVE  Goal
    <3>1. LetsGo(Entry.fd)
      BY <2>c DEF CloseWith, Closed, LetsGo, clientVars
    <3>2. QED
      BY <2>f, <2>c, <3>1 DEF Goal
  <2>w. ASSUME pc \in {"process", "forked"}, NEW answer \in Kinds, Requested(answer),
               WriteAndClose(Caller, answer)
        PROVE  Goal
    <3>1. CASE \E how : Die(how)
      BY <3>1, <1>d DEF Goal
    <3>2. CASE HandlerCloses /\ UNCHANGED replies
      BY <3>2, <2>c, <2>w DEF HandlerCloses
    <3>3. CASE HandlerCloses /\ replies' = [replies EXCEPT ![Caller] = Append(@, answer)]
      <4>1. MessageEnd(buf[Entry.fd]) # 0
            /\ answer = buf[Entry.fd][MessageEnd(buf[Entry.fd])].kind
        BY <2>w DEF Requested, Buffer
      <4>2. LetsGo(Entry.fd)
        BY <3>3, <4>1, <2>f, <2>w
        DEF HandlerCloses, CloseWith, Closed, LetsGo, clientVars, Caller
      <4>3. QED
        BY <2>f, <2>w, <4>2 DEF Goal
    <3>4. QED
      BY <2>w, <3>1, <3>2, <3>3 DEF WriteAndClose
  <2>k. {"list", "denied", "exec"} \subseteq Kinds
    BY DEF Kinds
  <2>1. CASE NeedMore \/ ForkChild
    BY <2>1 DEF NeedMore, ForkChild, Idle, memVars, clientVars, Goal
  <2>2. CASE HandleListUsers
    BY <2>2, <2>w, <2>k DEF HandleListUsers, Goal
  <2>3. CASE HandleDenied
    BY <2>3, <2>w, <2>k DEF HandleDenied, Goal
  <2>4. CASE HandleVoid \/ ForkFails
    BY <2>4, <2>c DEF HandleVoid, ForkFails, HandlerCloses, Goal
  <2>5. CASE AnswerExecute
    BY <2>5, <2>w, <2>k DEF AnswerExecute, Forked, Goal
  <2>6. QED
    BY <1>4, <2>1, <2>2, <2>3, <2>4, <2>5 DEF Serve, Goal
<1>5. CASE Sigchld
  BY <1>5 DEF Sigchld, Idle, memVars, clientVars
<1>6. CASE Sigterm
  <2>1. CASE Stop
    BY <2>1 DEF Stop, AbandonQueue, Emptied, memVars, clientVars
  <2>2. CASE UNCHANGED <<memVars, clientVars, inq, replies, backlog>>
    BY <2>2 DEF Idle, memVars, clientVars
  <2>3. QED
    BY <1>6, <1>d, <2>1, <2>2 DEF Sigterm
<1>7. CASE \E c \in Conns : KidExits(c) \/ Connect(c) \/ Send(c) \/ Leave(c)
  BY <1>7 DEF KidExits, Leave, Idle, memVars, clientVars
<1>8. CASE UNCHANGED vars
  BY <1>8 DEF vars, Idle, memVars, clientVars
<1>9. QED
  BY <1>1, <1>2, <1>3, <1>4, <1>5, <1>6, <1>7, <1>8 DEF Next, Daemon

(* A step of a client changes only whether it is open or closed. *)
LEMMA LeaveCli ==
  ASSUME Typed, Idle
  PROVE  \A c \in Conns : cli[c] = "none" <=> cli'[c] = "none"
BY DEF Idle, Leave, Typed, TypeOK

LEMMA PlacesNext ==
  ASSUME Typed, Forked, Places, [Next]_vars
  PROVE  Places'
<1>t. /\ table \in [FDs -> Conns \cup {Free}] /\ backlog \in Seq(Conns)
      /\ Free \notin Conns /\ cli \in [Conns -> {"none", "open", "closed"}]
  BY Assumed DEF Typed, TypeOK
<1>1. CASE Idle
  <2>1. UNCHANGED <<table, backlog>>
    BY <1>1 DEF Idle
  <2>2. \A c \in Conns : cli[c] # "none" => cli'[c] # "none"
    BY <1>1, LeaveCli
  <2>3. QED
    BY <2>1, <2>2, <1>t DEF Places
<1>2. CASE Emptied
  BY <1>2, <1>t DEF Emptied, Places
<1>3. CASE ScanRead
  BY <1>3 DEF ScanRead, clientVars, Places
<1>4. ASSUME NEW c \in Conns, Connect(c), backlog' = Append(backlog, c) PROVE Places'
  <2>1. /\ backlog' = Append(backlog, c) /\ table' = table /\ cli[c] = "none"
        /\ cli' = [cli EXCEPT ![c] = "open"]
    BY <1>4 DEF Connect, memVars
  <2>2. /\ Len(backlog') = Len(backlog) + 1 /\ backlog'[Len(backlog) + 1] = c
        /\ \A i \in 1..Len(backlog) : backlog'[i] = backlog[i] /\ backlog[i] # c
    BY <2>1, <1>t DEF Places
  <2>3. \A d \in Conns : cli[d] # "none" => cli'[d] # "none"
    BY <2>1, <1>t
  <2>4. \A f \in FDs : table[f] # c
    BY <2>1, <1>t DEF Places
  <2>5. \A i \in 1..Len(backlog') :
          i = Len(backlog) + 1 \/ i \in 1..Len(backlog)
    BY <2>2, <1>t
  <2>6. \A i, j \in 1..Len(backlog') : backlog'[i] = backlog'[j] => i = j
    BY <2>2, <2>5 DEF Places
  <2>7. \A i \in 1..Len(backlog') : cli'[backlog'[i]] # "none"
    BY <2>1, <2>2, <2>3, <2>5, <1>t DEF Places
  <2>8. \A i \in 1..Len(backlog') : \A f \in FDs : table'[f] # backlog'[i]
    BY <2>1, <2>2, <2>4, <2>5 DEF Places
  <2>9. \A f \in FDs : table'[f] # Free => cli'[table'[f]] # "none"
    BY <2>1, <2>3, <1>t DEF Places
  <2>10. QED
    BY <2>1, <2>6, <2>7, <2>8, <2>9 DEF Places
<1>h. ASSUME NEW c \in Conns, Connect(c), UNCHANGED backlog PROVE Places'
  <2>1. /\ table' = table /\ UNCHANGED backlog
        /\ cli[c] = "none" /\ cli' = [cli EXCEPT ![c] = "open"]
    BY <1>h DEF Connect, memVars
  <2>2. \A d \in Conns : cli[d] # "none" => cli'[d] # "none"
    BY <2>1, <1>t
  <2>3. QED
    BY <2>1, <2>2, <1>t DEF Places
<1>c. ASSUME NEW c \in Conns, Connect(c) PROVE Places'
  BY <1>4, <1>h, <1>c DEF Connect
<1>5. ASSUME NEW c \in Conns, Send(c) PROVE Places'
  BY <1>5 DEF Send, memVars, Places
<1>6. ASSUME NEW f \in FDs, Takes(f) PROVE Places'
  <2>1. /\ table' = [table EXCEPT ![f] = backlog[1]] /\ table[f] = Free
        /\ backlog' = Tail(backlog) /\ backlog # <<>> /\ cli' = cli
    BY <1>6 DEF Takes, Admits
  <2>2. /\ Len(backlog) >= 1 /\ Len(backlog') = Len(backlog) - 1 /\ backlog[1] \in Conns
        /\ \A i \in 1..Len(backlog') : backlog'[i] = backlog[i + 1]
                                       /\ i + 1 \in 1..Len(backlog)
    BY <2>1, <1>t
  <2>3. \A i \in 1..Len(backlog') : backlog'[i] # backlog[1]
    <3>1. TAKE i \in 1..Len(backlog')
    <3>2. /\ backlog'[i] = backlog[i + 1] /\ i + 1 \in 1..Len(backlog)
          /\ 1 \in 1..Len(backlog) /\ i + 1 # 1
      BY <2>2, <1>t
    <3>3. QED
      BY <3>2 DEF Places
  <2>4. \A g \in FDs : table'[g] = IF g = f THEN backlog[1] ELSE table[g]
    BY <2>1, <1>t
  <2>5. \A g \in FDs : table[g] # backlog[1]
    BY <2>2, <1>t DEF Places
  <2>6. \A i, j \in 1..Len(backlog') : backlog'[i] = backlog'[j] => i = j
    BY <2>2, <1>t DEF Places
  <2>7. \A i \in 1..Len(backlog') : cli'[backlog'[i]] # "none"
    BY <2>1, <2>2 DEF Places
  <2>8. \A i \in 1..Len(backlog') : \A g \in FDs : table'[g] # backlog'[i]
    BY <2>2, <2>3, <2>4 DEF Places
  <2>9. \A g \in FDs : table'[g] # Free => cli'[table'[g]] # "none"
    BY <2>1, <2>2, <2>4, <1>t DEF Places
  <2>10. \A g, h \in FDs : table'[g] # Free /\ table'[g] = table'[h] => g = h
    BY <2>4, <2>5 DEF Places
  <2>11. QED
    BY <2>6, <2>7, <2>8, <2>9, <2>10 DEF Places
<1>7. ASSUME NEW f \in FDs, LetsGo(f) PROVE Places'
  <2>1. table' = [table EXCEPT ![f] = Free] /\ backlog' = backlog /\ cli' = cli
    BY <1>7 DEF LetsGo
  <2>2. \A g \in FDs : table'[g] = Free \/ table'[g] = table[g]
    BY <2>1, <1>t
  <2>3. QED
    BY <2>1, <2>2, <1>t DEF Places
<1>8. QED
  BY <1>1, <1>2, <1>3, <1>c, <1>5, <1>6, <1>7, StreamStep

(* A read moves segments from the socket to the end of the buffer. *)
LEMMA Moved ==
  ASSUME NEW S, NEW got \in Seq(S), NEW queue \in Seq(S), NEW n \in 1..Len(queue),
         NEW m, NEW s, InOrder(got, queue, m, s)
  PROVE  InOrder(got \o SubSeq(queue, 1, n), SubSeq(queue, n + 1, Len(queue)), m, s)
<1> DEFINE l == SubSeq(queue, 1, n)
           r == SubSeq(queue, n + 1, Len(queue))
           all == got \o l
<1>1. l \in Seq(S) /\ Len(l) = n /\ \A k \in 1..n : l[k] = queue[k]
  OBVIOUS
<1>2. Len(r) = Len(queue) - n /\ \A k \in 1..(Len(queue) - n) : r[k] = queue[n + k]
  OBVIOUS
<1> HIDE DEF l, r
<1>3. Len(all) = Len(got) + n /\ Len(got) \in Nat /\ n \in Nat /\ Len(queue) \in Nat
  BY <1>1
<1>4. \A k \in 1..Len(got) : all[k] = got[k]
  BY <1>1
<1>5. \A k \in 1..n : all[Len(got) + k] = l[k]
  BY <1>1
<1> HIDE DEF all
<1>6. \A k \in 1..(Len(got) + n) : Same(all[k], s[k])
  <2>1. TAKE k \in 1..(Len(got) + n)
  <2>2. CASE k <= Len(got)
    BY <2>2, <1>3, <1>4 DEF InOrder
  <2>3. CASE k > Len(got)
    <3>1. PICK j \in 1..n : k = Len(got) + j
      <4>1. k - Len(got) \in 1..n /\ k = Len(got) + (k - Len(got))
        BY <2>1, <2>3, <1>3
      <4>2. QED
        BY <4>1
    <3>2. all[k] = queue[j] /\ j \in 1..Len(queue)
      BY <3>1, <1>1, <1>3, <1>5
    <3>3. QED
      BY <3>1, <3>2 DEF InOrder
  <2>4. QED
    BY <2>2, <2>3, <1>3
<1>7. \A k \in 1..Len(r) : Same(r[k], s[Len(all) + k])
  <2>1. TAKE k \in 1..Len(r)
  <2>2. n + k \in 1..Len(queue) /\ Len(all) + k = Len(got) + (n + k) /\ r[k] = queue[n + k]
    BY <1>2, <1>3
  <2>3. QED
    BY <2>2 DEF InOrder
<1>8. Len(all) + Len(r) = m
  BY <1>2, <1>3 DEF InOrder
<1>9. InOrder(all, r, m, s)
  BY <1>3, <1>6, <1>7, <1>8 DEF InOrder
<1> QED
  BY <1>9 DEF all, l, r

(* What a client sends goes to the end of the socket. *)
LEMMA Sent ==
  ASSUME NEW S, NEW got \in Seq(S), NEW queue \in Seq(S), NEW m \in Nat, NEW s, NEW new,
         InOrder(got, queue, m, s), Same(new, s[m + 1])
  PROVE  InOrder(got, Append(queue, new), m + 1, s)
<1> DEFINE q == Append(queue, new)
<1>1. /\ Len(q) = Len(queue) + 1 /\ q[Len(queue) + 1] = new
      /\ \A k \in 1..Len(queue) : q[k] = queue[k]
      /\ Len(got) \in Nat /\ Len(queue) \in Nat
  OBVIOUS
<1> HIDE DEF q
<1>2. Len(got) + (Len(queue) + 1) = m + 1
  BY <1>1 DEF InOrder
<1>3. ASSUME NEW k \in 1..Len(q) PROVE Same(q[k], s[Len(got) + k])
  <2>1. CASE k = Len(queue) + 1
    BY <2>1, <1>1, <1>2
  <2>2. CASE k # Len(queue) + 1
    BY <2>2, <1>1 DEF InOrder
  <2>3. QED
    BY <2>1, <2>2
<1>4. InOrder(got, q, m + 1, s)
  BY <1>1, <1>2, <1>3 DEF InOrder
<1> QED
  BY <1>4 DEF q

LEMMA StreamsNext ==
  ASSUME Typed, Forked, Places, Streams, [Next]_vars
  PROVE  Streams'
<1>t. /\ table \in [FDs -> Conns \cup {Free}] /\ backlog \in Seq(Conns)
      /\ Free \notin Conns /\ cli \in [Conns -> {"none", "open", "closed"}]
      /\ buf \in [FDs -> Seq(Segments)] /\ inq \in [Conns -> Seq(Segments)]
      /\ sent \in [Conns -> Nat] /\ replies \in [Conns -> Seq(Kinds)]
  BY Assumed DEF Typed, TypeOK, Segments
<1>s. script' = script
  BY ScriptKept
<1>1. CASE Idle
  <2>1. UNCHANGED <<table, buf, inq, sent, replies, backlog>>
    BY <1>1 DEF Idle
  <2>2. \A c \in Conns : cli'[c] = "none" => cli[c] = "none"
    BY <1>1, LeaveCli
  <2>3. QED
    BY <2>1, <2>2, <1>s DEF Streams, Fresh
<1>2. CASE Emptied
  BY <1>2, <1>s, <1>t DEF Emptied, Streams, Fresh
<1>3. CASE ScanRead
  <2> DEFINE f == Entry.fd
             c == table[f]
  <2>1. f \in FDs /\ c \in Conns
    BY <1>3, <1>t, ScanningEntry DEF ScanRead, Typed
  <2>2. PICK n \in 1..Len(inq[c]) :
          /\ buf' = [buf EXCEPT ![f] = buf[f] \o SubSeq(inq[c], 1, n)]
          /\ inq' = [inq EXCEPT ![c] = SubSeq(inq[c], n + 1, Len(inq[c]))]
    BY <1>3 DEF ScanRead
  <2>3. UNCHANGED <<table, sent, replies, cli, backlog>> /\ table[f] = c
    BY <1>3 DEF ScanRead, clientVars
  <2> HIDE DEF f, c
  <2>4. Fresh(c, buf[f])
    BY <2>1, <2>3, <1>t DEF Streams
  <2>5. InOrder(buf'[f], inq'[c], sent'[c], script'[c]) /\ replies'[c] = <<>>
    <3>1. InOrder(buf[f] \o SubSeq(inq[c], 1, n), SubSeq(inq[c], n + 1, Len(inq[c])),
                  sent[c], script[c])
      BY <2>1, <2>2, <2>4, <1>t, Moved DEF Fresh
    <3>2. QED
      BY <3>1, <2>1, <2>2, <2>3, <2>4, <1>s, <1>t DEF Fresh
  <2>6. \A d \in Conns : d # c => inq'[d] = inq[d]
    BY <2>2, <1>t
  <2>7. \A i \in 1..Len(backlog) : backlog[i] # c /\ backlog[i] \in Conns
    <3>1. \A i \in 1..Len(backlog) : backlog[i] # c
      BY <2>1, <2>3 DEF Places
    <3>2. backlog \in Seq(Conns)
      BY <1>t
    <3>3. \A i \in 1..Len(backlog) : backlog[i] \in Conns
      BY <3>2
    <3>4. QED
      BY <3>1, <3>3
  <2>8. cli[c] # "none" /\ \A g \in FDs : g # f => table[g] # c /\ buf'[g] = buf[g]
    BY <2>1, <2>2, <2>3, <1>t DEF Places
  <2>9. \A g \in FDs : table[g] # Free =>
          /\ InOrder(buf'[g], inq'[table[g]], sent'[table[g]], script'[table[g]])
          /\ replies'[table[g]] = <<>>
    <3>1. TAKE g \in FDs
    <3>2. HAVE table[g] # Free
    <3>3. CASE g = f
      BY <3>3, <2>3, <2>5
    <3>4. CASE g # f
      <4>1. table[g] \in Conns /\ table[g] # c /\ Fresh(table[g], buf[g]) /\ buf'[g] = buf[g]
        BY <3>2, <3>4, <2>8, <1>t DEF Streams
      <4>2. QED
        BY <4>1, <2>3, <2>6, <1>s DEF Fresh
    <3>5. QED
      BY <3>3, <3>4
  <2>10. \A i \in 1..Len(backlog) :
           /\ InOrder(<<>>, inq'[backlog[i]], sent'[backlog[i]], script'[backlog[i]])
           /\ replies'[backlog[i]] = <<>>
    BY <2>3, <2>6, <2>7, <1>s DEF Streams, Fresh
  <2>11. \A d \in Conns : cli'[d] = "none" =>
           InOrder(<<>>, inq'[d], sent'[d], script'[d]) /\ replies'[d] = <<>>
    BY <2>3, <2>6, <2>8, <1>s DEF Streams, Fresh
  <2>12. QED
    BY <2>3, <2>9, <2>10, <2>11, <1>s DEF Streams, Fresh
<1>4. ASSUME NEW c \in Conns, Connect(c), backlog' = Append(backlog, c) PROVE Streams'
  <2>1. /\ UNCHANGED <<table, buf, inq, sent, replies>> /\ backlog' = Append(backlog, c)
        /\ cli[c] = "none" /\ cli' = [cli EXCEPT ![c] = "open"]
    BY <1>4 DEF Connect, memVars
  <2>2. \A d \in Conns : cli'[d] = "none" => cli[d] = "none"
    BY <2>1, <1>t
  <2>3. \A i \in 1..Len(backlog') :
          backlog'[i] = c \/ (i \in 1..Len(backlog) /\ backlog'[i] = backlog[i])
    <3>1. /\ Len(backlog') = Len(backlog) + 1 /\ backlog'[Len(backlog) + 1] = c
          /\ \A i \in 1..Len(backlog) : backlog'[i] = backlog[i]
      BY <2>1, <1>t
    <3>2. Len(backlog) \in Nat
      BY <1>t
    <3>3. QED
      BY <3>1, <3>2
  <2>4. QED
    BY <2>1, <2>2, <2>3, <1>s DEF Streams, Fresh
<1>h. ASSUME NEW c \in Conns, Connect(c), UNCHANGED backlog PROVE Streams'
  <2>1. /\ UNCHANGED <<table, buf, inq, sent, replies>> /\ UNCHANGED backlog
        /\ cli[c] = "none" /\ cli' = [cli EXCEPT ![c] = "open"]
    BY <1>h DEF Connect, memVars
  <2>2. \A d \in Conns : cli[d] # "none" => cli'[d] # "none"
    BY <2>1, <1>t
  <2>3. QED
    BY <2>1, <2>2, <1>t, <1>s DEF Streams, Fresh
<1>c. ASSUME NEW c \in Conns, Connect(c) PROVE Streams'
  BY <1>4, <1>h, <1>c DEF Connect
<1>5. ASSUME NEW c \in Conns, Send(c) PROVE Streams'
  <2> DEFINE seg == script[c][sent[c] + 1]
             new == [conn |-> c, kind |-> seg.kind, last |-> seg.last]
  <2>1. inq' = [inq EXCEPT ![c] = Append(inq[c], new)] /\ Same(new, script[c][sent[c] + 1])
    BY <1>5 DEF Send, Same
  <2> HIDE DEF new
  <2>2. /\ UNCHANGED <<table, buf, replies, cli, backlog>>
        /\ sent' = [sent EXCEPT ![c] = sent[c] + 1] /\ cli[c] = "open"
        /\ sent[c] < Len(script[c])
    BY <1>5 DEF Send, memVars
  <2>3. ASSUME NEW got \in Seq(Segments), Fresh(c, got)
        PROVE  InOrder(got, inq'[c], sent'[c], script[c]) /\ replies[c] = <<>>
    BY <2>1, <2>2, <2>3, <1>t, Sent DEF Fresh
  <2>4. \A d \in Conns : d # c => inq'[d] = inq[d] /\ sent'[d] = sent[d]
    BY <2>1, <2>2, <1>t
  <2>5. script[c] \in Seq([kind : Kinds, last : BOOLEAN])
    BY Assumed DEF Typed, TypeOK
  <2>6. \A d \in Conns : sent'[d] <= Len(script'[d])
    <3>1. sent'[c] <= Len(script[c])
      BY <2>2, <2>5, <1>t
    <3>2. QED
      BY <3>1, <2>4, <1>s DEF Streams
  <2>7. \A d \in Conns : cli'[d] = "none" => d # c
    BY <2>2
  <2>8. \A i \in 1..Len(backlog) :
          /\ backlog[i] \in Conns
          /\ InOrder(<<>>, inq'[backlog[i]], sent'[backlog[i]], script[backlog[i]])
          /\ replies[backlog[i]] = <<>>
    <3>1. TAKE i \in 1..Len(backlog)
    <3>2. backlog[i] \in Conns /\ Fresh(backlog[i], <<>>)
      BY <1>t DEF Streams
    <3>3. CASE backlog[i] = c
      BY <3>2, <3>3, <2>3, EmptySeq
    <3>4. CASE backlog[i] # c
      BY <3>2, <3>4, <2>4 DEF Fresh
    <3>5. QED
      BY <3>2, <3>3, <3>4
  <2>9. \A f \in FDs : table[f] # Free =>
          /\ InOrder(buf[f], inq'[table[f]], sent'[table[f]], script[table[f]])
          /\ replies[table[f]] = <<>>
    <3>1. TAKE f \in FDs
    <3>2. HAVE table[f] # Free
    <3>3. table[f] \in Conns /\ Fresh(table[f], buf[f]) /\ buf[f] \in Seq(Segments)
      BY <3>2, <1>t DEF Streams
    <3>4. CASE table[f] = c
      BY <3>3, <3>4, <2>3
    <3>5. CASE table[f] # c
      BY <3>3, <3>5, <2>4 DEF Fresh
    <3>6. QED
      BY <3>4, <3>5
  <2>10. QED
    BY <2>2, <2>4, <2>6, <2>7, <2>8, <2>9, <1>s DEF Streams, Fresh
<1>6. ASSUME NEW f \in FDs, Takes(f) PROVE Streams'
  <2>1. /\ table' = [table EXCEPT ![f] = backlog[1]] /\ buf' = [buf EXCEPT ![f] = <<>>]
        /\ backlog' = Tail(backlog) /\ backlog # <<>>
        /\ UNCHANGED <<inq, sent, replies, cli>>
    BY <1>6 DEF Takes, Admits, BufferReset
  <2>2. /\ 1 \in 1..Len(backlog)
        /\ \A i \in 1..Len(backlog') : backlog'[i] = backlog[i + 1]
                                       /\ i + 1 \in 1..Len(backlog)
    BY <2>1, <1>t
  <2>3. \A c \in Conns : \A got : Fresh(c, got) =>
          InOrder(got, inq'[c], sent'[c], script'[c]) /\ replies'[c] = <<>>
    BY <2>1, <1>s DEF Fresh
  <2>4. table'[f] = backlog[1] /\ buf'[f] = <<>> /\ backlog[1] \in Conns
        /\ Fresh(backlog[1], <<>>)
    BY <2>1, <2>2, <1>t DEF Streams
  <2>5. \A g \in FDs : g # f => table'[g] = table[g] /\ buf'[g] = buf[g]
    BY <2>1, <1>t
  <2>6. \A i \in 1..Len(backlog') : backlog'[i] \in Conns /\ Fresh(backlog'[i], <<>>)
    <3>1. TAKE i \in 1..Len(backlog')
    <3>2. backlog'[i] = backlog[i + 1] /\ i + 1 \in 1..Len(backlog)
      BY <2>2
    <3>3. backlog[i + 1] \in Conns /\ Fresh(backlog[i + 1], <<>>)
      BY <3>2, <1>t DEF Streams
    <3>4. QED
      BY <3>2, <3>3
  <2>7. \A g \in FDs : table'[g] # Free => table'[g] \in Conns /\ Fresh(table'[g], buf'[g])
    <3>1. TAKE g \in FDs
    <3>2. HAVE table'[g] # Free
    <3>3. CASE g = f
      BY <3>3, <2>4
    <3>4. CASE g # f
      <4>1. table[g] \in Conns /\ Fresh(table[g], buf[g])
        BY <3>2, <3>4, <2>5, <1>t DEF Streams
      <4>2. QED
        BY <3>4, <4>1, <2>5
    <3>5. QED
      BY <3>3, <3>4
  <2>8. QED
    BY <2>1, <2>3, <2>6, <2>7, <1>s DEF Streams, Fresh
<1>7. ASSUME NEW f \in FDs, LetsGo(f) PROVE Streams'
  <2>1. PICK b : buf' = [buf EXCEPT ![f] = b]
    BY <1>7 DEF LetsGo
  <2>2. table' = [table EXCEPT ![f] = Free] /\ UNCHANGED <<inq, sent, cli, backlog>>
    BY <1>7 DEF LetsGo
  <2>3. \A c \in Conns : c # table[f] => replies'[c] = replies[c]
    BY <1>7, <1>t DEF LetsGo
  <2>4. table[f] # Free => table[f] \in Conns /\ cli[table[f]] # "none"
    BY <1>t DEF Places
  <2>5. \A i \in 1..Len(backlog) : backlog[i] \in Conns /\ backlog[i] # table[f]
    BY <1>t DEF Places
  <2>6. \A g \in FDs : table'[g] # Free =>
          /\ g # f /\ table'[g] = table[g] /\ buf'[g] = buf[g]
          /\ table[g] \in Conns /\ table[g] # table[f]
    BY <2>1, <2>2, <1>t DEF Places
  <2>7. \A c \in Conns : cli[c] = "none" => c # table[f]
    BY <2>4, <1>t
  <2>8. QED
    BY <2>2, <2>3, <2>5, <2>6, <2>7, <1>s DEF Streams, Fresh
<1>8. QED
  BY <1>1, <1>2, <1>3, <1>c, <1>5, <1>6, <1>7, StreamStep

(* The first message of a buffer is the first of the script. *)
LEMMA FirstOfScript ==
  ASSUME NEW S, NEW T, NEW got \in Seq(S), NEW queue \in Seq(S), NEW n \in Nat,
         NEW s \in Seq(T), n <= Len(s), InOrder(got, queue, n, s), MessageEnd(got) # 0
  PROVE  s[MessageEnd(s)].kind = got[MessageEnd(got)].kind
<1> DEFINE e == MessageEnd(got)
           m == MessageEnd(s)
<1>1. /\ e \in 1..Len(got) /\ got[e].last /\ \A j \in 1..(e - 1) : ~got[j].last
      /\ Len(got) \in Nat /\ Len(queue) \in Nat
  BY EndOfMessage
<1>2. Len(got) <= Len(s)
  BY <1>1 DEF InOrder
<1> HIDE DEF e
<1>3. \A k \in 1..Len(got) : s[k].last = got[k].last /\ s[k].kind = got[k].kind
  BY DEF InOrder, Same
<1>4. e \in 1..Len(s) /\ s[e].last
  BY <1>1, <1>2, <1>3
<1>5. m \in 1..Len(s) /\ s[m].last /\ \A j \in 1..(m - 1) : ~s[j].last
  <2>1. m # 0
    BY <1>4, EndOfMessage
  <2>2. QED
    BY <2>1, EndOfMessage
<1> HIDE DEF m
<1>6. ~(m < e)
  <2>1. SUFFICES ASSUME m < e PROVE FALSE
    OBVIOUS
  <2>2. m \in 1..(e - 1) /\ m \in 1..Len(got)
    BY <2>1, <1>1, <1>5
  <2>3. QED
    BY <2>2, <1>1, <1>3, <1>5
<1>7. ~(e < m)
  <2>1. SUFFICES ASSUME e < m PROVE FALSE
    OBVIOUS
  <2>2. e \in 1..(m - 1)
    BY <2>1, <1>1, <1>5
  <2>3. QED
    BY <2>2, <1>4, <1>5
<1>8. m = e
  BY <1>1, <1>5, <1>6, <1>7
<1> QED
  BY <1>1, <1>3, <1>8 DEF e, m

(* The request in the buffer of an open descriptor is its client's first. *)
LEMMA FirstRequestRead ==
  ASSUME Typed, Streams, NEW f \in FDs, table[f] # Free, MessageEnd(buf[f]) # 0
  PROVE  FirstRequest(table[f]) = buf[f][MessageEnd(buf[f])].kind
<1> DEFINE c == table[f]
<1>1. /\ c \in Conns /\ buf[f] \in Seq(Segments) /\ inq[c] \in Seq(Segments)
      /\ sent[c] \in Nat /\ script[c] \in Seq([kind : Kinds, last : BOOLEAN])
  BY Assumed DEF Typed, TypeOK, Segments
<1>2. InOrder(buf[f], inq[c], sent[c], script[c]) /\ sent[c] <= Len(script[c])
  BY <1>1 DEF Streams, Fresh
<1> HIDE DEF c
<1>3. script[c][MessageEnd(script[c])].kind = buf[f][MessageEnd(buf[f])].kind
  BY <1>1, <1>2, FirstOfScript
<1> QED
  BY <1>3 DEF FirstRequest, c

LEMMA KidStep ==
  ASSUME Typed, [Next]_vars, NEW c \in Conns, kid'[c] # "none", kid[c] = "none"
  PROVE  ForkChild /\ c = Caller
<1>d. ASSUME NEW how, Die(how) PROVE FALSE
  BY <1>d DEF Die, Inherit
<1>0. kid' # kid
  OBVIOUS
<1>1. CASE Start \/ StartFails \/ Startup \/ Poll
  BY <1>0, <1>1, <1>d
  DEF Start, StartFails, Startup, InstallHandlers, SetGlobal, SetRunning, Poll, LoopTop, LoopExit,
      PollEntry, PollReturn, Accept
<1>2. CASE Scan
  BY <1>0, <1>2 DEF Scan, ScanDone, ScanSkip, ScanHup, ScanReadFails, ScanRead, DropEntry
<1>3. CASE Serve
  <2>1. CASE ForkChild
    BY <2>1 DEF ForkChild, Typed, TypeOK
  <2>2. CASE ~ForkChild
    BY <1>0, <1>3, <2>2, <1>d
    DEF Serve, NeedMore, HandleListUsers, HandleDenied, HandleVoid, ForkFails,
        AnswerExecute, WriteAndClose, HandlerCloses, CloseWith
  <2>3. QED
    BY <2>1, <2>2
<1>4. CASE Sigterm \/ Sigchld
  BY <1>0, <1>4, <1>d DEF Sigterm, Sigchld, Stop, ReapChildren
<1>5. CASE \E d \in Conns : KidExits(d) \/ Connect(d) \/ Send(d) \/ Leave(d)
  BY <1>0, <1>5 DEF KidExits, Connect, Send, Leave, Typed, TypeOK
<1>6. CASE UNCHANGED vars
  BY <1>0, <1>6 DEF vars
<1>7. QED
  BY <1>1, <1>2, <1>3, <1>4, <1>5, <1>6 DEF Next, Daemon

LEMMA OneRequestNext ==
  ASSUME Typed, Forked, Streams, OneRequestServed, [Next]_vars
  PROVE  OneRequestServed'
<1>t. table \in [FDs -> Conns \cup {Free}] /\ replies \in [Conns -> Seq(Kinds)]
  BY DEF Typed, TypeOK
<1>s. script' = script
  BY ScriptKept
<1>1. ASSUME NEW c \in Conns, kid'[c] # "none" PROVE FirstRequest(c) = "exec"
  <2>1. CASE kid[c] # "none"
    BY <2>1 DEF OneRequestServed
  <2>2. CASE kid[c] = "none"
    <3>1. ForkChild /\ c = Caller
      BY <1>1, <2>2, KidStep
    <3>2. Entry.fd \in FDs /\ table[Entry.fd] # Free /\ MessageEnd(buf[Entry.fd]) # 0
          /\ buf[Entry.fd][MessageEnd(buf[Entry.fd])].kind = "exec"
      BY <3>1, TypeRest DEF ForkChild, Requested, Buffer, Typed, Serving, Entry
    <3>3. QED
      BY <3>1, <3>2, FirstRequestRead DEF Caller
  <2>3. QED
    BY <2>1, <2>2
<1>2. ASSUME NEW c \in Conns
      PROVE  Len(replies'[c]) <= 1 /\ (replies'[c] # <<>> => replies'[c][1] = FirstRequest(c))
  <2>1. CASE replies'[c] = replies[c]
    BY <2>1 DEF OneRequestServed
  <2>2. ASSUME NEW f \in FDs, LetsGo(f), replies'[c] # replies[c]
        PROVE  replies'[c] = <<FirstRequest(c)>>
    <3>1. PICK answer \in Kinds :
            /\ table[f] # Free /\ MessageEnd(buf[f]) # 0
            /\ answer = buf[f][MessageEnd(buf[f])].kind
            /\ replies' = [replies EXCEPT ![table[f]] = Append(replies[table[f]], answer)]
      BY <2>2 DEF LetsGo
    <3>2. c = table[f] /\ replies[c] = <<>>
      BY <2>2, <3>1, <1>t DEF Streams, Fresh
    <3>3. answer = FirstRequest(c)
      BY <3>1, <3>2, FirstRequestRead
    <3>4. replies'[c] = Append(<<>>, answer)
      BY <3>1, <3>2, <1>t
    <3>5. QED
      BY <3>3, <3>4
  <2>3. CASE UNCHANGED replies \/ \E f \in FDs : LetsGo(f)
    <3>1. CASE replies'[c] = <<FirstRequest(c)>>
      <4>1. Len(<<FirstRequest(c)>>) = 1 /\ <<FirstRequest(c)>>[1] = FirstRequest(c)
        OBVIOUS
      <4>2. QED
        BY <3>1, <4>1
    <3>2. QED
      BY <2>1, <2>2, <2>3, <3>1
  <2>4. QED
    BY <2>3, StreamStep DEF Idle, Emptied, ScanRead, Connect, Send, Takes
<1>3. \A c \in Conns : FirstRequest(c)' = FirstRequest(c)
  BY <1>s DEF FirstRequest
<1>4. QED
  BY <1>1, <1>2, <1>3 DEF OneRequestServed

LEMMA StartsEmpty ==
  ASSUME Init
  PROVE  Places /\ Streams
<1>1. \A c \in Conns : script[c] \in Seq([kind : Kinds, last : BOOLEAN])
  BY Assumed DEF Init
<1>2. \A c \in Conns : sent[c] = 0 /\ sent[c] <= Len(script[c])
  BY <1>1 DEF Init
<1>3. Places
  BY DEF Init, Places
<1>4. Streams
  BY <1>2 DEF Init, Streams, Fresh, InOrder
<1>5. QED
  BY <1>3, <1>4

(* A connection gets at most one answer, to the first request its client   *)
(* sent, and a Child only if that was an execute request.                  *)
THEOREM OneRequestEach == Spec => []OneRequestServed
<1>1. Init => Places /\ Streams /\ OneRequestServed
  <2>1. Init => OneRequestServed
    BY DEF Init, OneRequestServed
  <2>2. QED
    BY <2>1, StartsEmpty
<1>2. Typed /\ Forked /\ Places /\ [Next]_vars => Places'
  BY PlacesNext
<1>3. Typed /\ Forked /\ Places /\ Streams /\ [Next]_vars => Streams'
  BY StreamsNext
<1>4. Typed /\ Forked /\ Streams /\ OneRequestServed /\ [Next]_vars => OneRequestServed'
  BY OneRequestNext
<1> QED
  BY <1>1, <1>2, <1>3, <1>4, AlwaysTyped, ForkedAlways, PTL DEF Spec

-----------------------------------------------------------------------------
(***************************************************************************)
(* Why a read can block.  What poll saw stays in the socket until the loop *)
(* reads it, and only the entry of its descriptor does: while the vector   *)
(* is walked, an entry ahead with an event has something to read, unless   *)
(* an entry behind has its number.                                         *)
(***************************************************************************)

Readable(j) ==
  fds[j].re = "in" => table[fds[j].fd] # Free /\ inq[table[fds[j].fd]] # <<>>

(* The first i entries were walked. *)
Drained(i) ==
  \A j \in (i + 1)..Len(fds) :
      fds[j].re = "in" /\ table[fds[j].fd] # Free /\ inq[table[fds[j].fd]] = <<>>
          => \E k \in 1..i : fds[k].fd = fds[j].fd

ReadsAhead ==
  /\ pc = "poll" => \A j \in 1..Len(fds) : j < idx => Readable(j)
  /\ pc = "accept" => \A j \in 1..Len(fds) : Readable(j)
  /\ pc = "scan" => Drained(idx - 1)
  /\ pc \in {"process", "forked"} => Drained(idx)

LEMMA WalkTypes ==
  ASSUME Typed
  PROVE  /\ TypeOK /\ fds \in Seq(Entries) /\ Len(fds) \in Nat
         /\ table \in [FDs -> Conns \cup {Free}]
         /\ idx \in Nat \ {0} /\ idx - 1 \in Nat
         /\ \A j \in 1..Len(fds) : fds[j] \in Entries /\ fds[j].fd \in FDs
<1>1. TypeOK
  BY DEF Typed
<1>2. fds \in Seq(Entries) /\ Len(fds) \in Nat /\ table \in [FDs -> Conns \cup {Free}]
  BY <1>1, TypeLoop
<1>3. idx \in Nat \ {0} /\ idx - 1 \in Nat
  BY <1>1 DEF TypeOK
<1>4. QED
  BY <1>1, <1>2, <1>3, TypeEntry

LEMMA AheadKept ==
  ASSUME ReadsAhead, UNCHANGED <<pc, idx, fds, table>>,
         \A c \in Conns : inq'[c] = <<>> => inq[c] = <<>>, Typed
  PROVE  ReadsAhead'
<1>1. /\ fds \in Seq(Entries) /\ table \in [FDs -> Conns \cup {Free}]
  BY WalkTypes
<1>2. \A j \in 1..Len(fds) : fds[j].fd \in FDs
  BY WalkTypes
<1>3. \A j \in 1..Len(fds) : table[fds[j].fd] # Free => table[fds[j].fd] \in Conns
  BY <1>1, <1>2
<1>4. \A j \in 1..Len(fds) : Readable(j) => Readable(j)'
  BY <1>3 DEF Readable
<1>5. ASSUME NEW i \in Nat, Drained(i)
      PROVE  \A j \in (i + 1)..Len(fds) :
                fds[j].re = "in" /\ table[fds[j].fd] # Free /\ inq'[table[fds[j].fd]] = <<>>
                    => \E k \in 1..i : fds[k].fd = fds[j].fd
  <2>1. \A j \in (i + 1)..Len(fds) : j \in 1..Len(fds)
    BY <1>1
  <2>2. QED
    BY <1>3, <1>5, <2>1 DEF Drained
<1>6. idx \in Nat /\ idx - 1 \in Nat
  BY DEF Typed, TypeOK
<1>7. pc = "scan" => Drained(idx - 1)'
  BY <1>5, <1>6 DEF ReadsAhead, Drained
<1>8. pc \in {"process", "forked"} => Drained(idx)'
  BY <1>5, <1>6 DEF ReadsAhead, Drained
<1>9. QED
  BY <1>4, <1>7, <1>8 DEF ReadsAhead

(* The entry that was walked may be passed. *)
LEMMA DrainedMore ==
  ASSUME NEW i \in Nat, Drained(i), fds \in Seq(Entries)
  PROVE  Drained(i + 1)
<1>1. \A j \in (i + 1 + 1)..Len(fds) : j \in (i + 1)..Len(fds)
  OBVIOUS
<1>2. \A k \in 1..i : k \in 1..(i + 1)
  OBVIOUS
<1>3. QED
  BY <1>1, <1>2 DEF Drained

(* A descriptor that is closed has nothing to wait for. *)
LEMMA DrainedClosed ==
  ASSUME NEW i \in Nat, Drained(i), Typed, NEW f \in FDs, UNCHANGED <<fds, inq>>,
         table' = [table EXCEPT ![f] = Free], idx' = i + 1
  PROVE  Drained(idx - 1)'
<1>1. /\ fds \in Seq(Entries) /\ table \in [FDs -> Conns \cup {Free}]
  BY WalkTypes
<1>2. \A j \in (i + 1)..Len(fds) : fds[j].fd \in FDs
  <2>1. \A j \in (i + 1)..Len(fds) : j \in 1..Len(fds)
    BY <1>1
  <2>2. QED
    BY <2>1, WalkTypes
<1>3. \A j \in (i + 1)..Len(fds) :
        table'[fds[j].fd] # Free => table'[fds[j].fd] = table[fds[j].fd]
  BY <1>1, <1>2
<1>4. (idx - 1)' = i
  OBVIOUS
<1>5. QED
  BY <1>3, <1>4 DEF Drained

LEMMA AheadPoll ==
  ASSUME Typed, ReadsAhead, Poll
  PROVE  ReadsAhead'
<1>t. /\ fds \in Seq(Entries) /\ table \in [FDs -> Conns \cup {Free}] /\ idx \in Nat \ {0}
      /\ Len(fds) \in Nat
  BY WalkTypes
<1>e. \A j \in 1..Len(fds) : fds[j] \in Entries /\ fds[j].fd \in FDs
  BY WalkTypes
<1>o. TypeOK
  BY WalkTypes
<1>1. CASE LoopTop
  BY <1>1 DEF LoopTop, Goto, ReadsAhead
<1>2. CASE LoopExit
  BY <1>2 DEF LoopExit, Die, Goto, ReadsAhead
<1>3. CASE PollEntry
  <2>1. /\ pc = "poll" /\ pc' = "poll" /\ idx \in 1..Len(fds) /\ idx' = idx + 1
        /\ table' = table /\ inq' = inq
        /\ fds' = [fds EXCEPT ![idx] = [fds[idx] EXCEPT !.re = Revents(fds[idx].fd)]]
    BY <1>3, <1>t DEF PollEntry, memVars
  <2>2. fds'[idx].fd = fds[idx].fd /\ fds'[idx].re = Revents(fds[idx].fd)
    BY <1>e, <1>t, <2>1 DEF Entries
  <2>3. Len(fds') = Len(fds) /\ \A j \in 1..Len(fds) : j # idx => fds'[j] = fds[j]
    BY <1>t, <2>1
  <2>4. ASSUME NEW j \in 1..Len(fds), j = idx, fds'[j].re = "in"
        PROVE  table'[fds'[j].fd] # Free /\ inq'[table'[fds'[j].fd]] # <<>>
    BY <2>1, <2>2, <2>4 DEF Revents
  <2>5. ASSUME NEW j \in 1..Len(fds), j < idx, fds'[j].re = "in"
        PROVE  table'[fds'[j].fd] # Free /\ inq'[table'[fds'[j].fd]] # <<>>
    <3>1. fds'[j] = fds[j] /\ Readable(j)
      BY <2>1, <2>3, <2>5, <1>t DEF ReadsAhead
    <3>2. QED
      BY <2>1, <2>5, <3>1 DEF Readable
  <2>6. \A j \in 1..Len(fds') : j < idx' => j \in 1..Len(fds) /\ (j < idx \/ j = idx)
    BY <1>t, <2>1, <2>3
  <2>7. QED
    BY <2>1, <2>4, <2>5, <2>6 DEF ReadsAhead, Readable
<1>4. CASE PollReturn
  <2>1. /\ pc = "poll" /\ pc' \in {"accept", "top"} /\ idx > Len(fds)
        /\ UNCHANGED <<fds, table, inq>>
    BY <1>4 DEF PollReturn, Goto, loopVars, memVars
  <2>2. \A j \in 1..Len(fds) : Readable(j)
    BY <1>t, <2>1 DEF ReadsAhead
  <2>3. QED
    BY <2>1, <2>2 DEF ReadsAhead, Readable
<1>5. CASE Accept
  <2>1. /\ pc = "accept" /\ pc' = "scan" /\ idx' = 1 /\ inq' = inq
    BY <1>5 DEF Accept, Goto
  <2>2. \A j \in 1..Len(fds) : Readable(j)
    BY <2>1 DEF ReadsAhead
  <2>3. CASE UNCHANGED <<fds, table>>
    BY <2>1, <2>2, <2>3 DEF ReadsAhead, Readable, Drained
  <2>4. ASSUME NEW f \in FDs, Admits(f) PROVE ReadsAhead'
    <3>1. /\ table[f] = Free /\ table' = [table EXCEPT ![f] = Head(backlog)]
          /\ fds' = Append(fds, NewEntry(f)) /\ NewEntry(f).re = "none"
      BY <2>4 DEF Admits, NewEntry
    <3>2. /\ Len(fds') = Len(fds) + 1 /\ fds'[Len(fds) + 1] = NewEntry(f)
          /\ \A j \in 1..Len(fds) : fds'[j] = fds[j]
      BY <1>t, <3>1
    <3>3. ASSUME NEW j \in 1..Len(fds'), fds'[j].re = "in", inq'[table'[fds'[j].fd]] = <<>>
          PROVE  FALSE
      <4>1. j \in 1..Len(fds) /\ fds'[j] = fds[j]
        BY <1>t, <3>1, <3>2, <3>3
      <4>2. table[fds[j].fd] # Free /\ inq[table[fds[j].fd]] # <<>>
        BY <2>2, <3>3, <4>1 DEF Readable
      <4>3. table'[fds[j].fd] = table[fds[j].fd]
        BY <1>e, <1>t, <3>1, <4>1, <4>2
      <4>4. QED
        BY <2>1, <3>3, <4>1, <4>2, <4>3
    <3>4. (idx - 1)' = 0
      BY <2>1
    <3>5. Drained(idx - 1)'
      BY <3>3, <3>4 DEF Drained
    <3>6. QED
      BY <2>1, <3>5 DEF ReadsAhead
  <2>5. QED
    BY <1>5, <2>3, <2>4 DEF Accept, Admits, LowestFree, FreeFDs
<1>6. QED
  BY <1>1, <1>2, <1>3, <1>4, <1>5 DEF Poll

LEMMA AheadScan ==
  ASSUME Typed, Places, ReadsAhead, Scan
  PROVE  ReadsAhead'
<1>t. /\ fds \in Seq(Entries) /\ table \in [FDs -> Conns \cup {Free}] /\ idx \in Nat \ {0}
      /\ Len(fds) \in Nat /\ idx - 1 \in Nat
  BY WalkTypes
<1>e. \A j \in 1..Len(fds) : fds[j] \in Entries /\ fds[j].fd \in FDs
  BY WalkTypes
<1>o. TypeOK
  BY WalkTypes
<1>s. pc = "scan" /\ Drained(idx - 1)
  BY DEF Scan, ScanDone, ScanSkip, ScanHup, ScanReadFails, ScanRead, Scanning, ReadsAhead
<1>1. CASE ScanDone
  BY <1>1 DEF ScanDone, Goto, ReadsAhead
<1>2. CASE ScanSkip
  <2>1. pc' = "scan" /\ idx' = idx + 1 /\ UNCHANGED <<fds, table, inq>>
    BY <1>2, <1>s DEF ScanSkip, memVars
  <2>2. Drained(idx - 1 + 1)
    BY <1>s, <1>t, DrainedMore
  <2>3. idx - 1 + 1 = idx /\ (idx - 1)' = idx
    BY <1>t, <2>1
  <2>4. Drained(idx - 1)'
    BY <2>1, <2>2, <2>3 DEF Drained
  <2>5. QED
    BY <2>1, <2>4 DEF ReadsAhead
<1>3. CASE ScanHup \/ ScanReadFails
  <2>1. /\ idx \in 1..Len(fds) /\ pc' = pc /\ idx' = idx /\ inq' = inq
        /\ fds' = RemoveAt(fds, idx)
        /\ Entry.fd \in FDs /\ table' = [table EXCEPT ![Entry.fd] = Free]
    <3>1. idx \in 1..Len(fds) /\ Entry.fd \in FDs
      BY <1>3, <1>o, ScanningEntry DEF ScanHup, ScanReadFails
    <3>2. QED
      BY <1>3, <3>1 DEF ScanHup, ScanReadFails, DropEntry, Closed, Erase
  <2>2. /\ Len(fds') = Len(fds) - 1
        /\ \A j \in 1..(idx - 1) : fds'[j] = fds[j]
        /\ \A j \in idx..(Len(fds) - 1) : fds'[j] = fds[j + 1]
    BY <1>t, <2>1, Removed
  <2>3. ASSUME NEW j \in idx..Len(fds'), fds'[j].re = "in", table'[fds'[j].fd] # Free,
               inq'[table'[fds'[j].fd]] = <<>>
        PROVE  \E k \in 1..(idx - 1) : fds'[k].fd = fds'[j].fd
    <3>1. /\ j + 1 \in 1..Len(fds) /\ j + 1 \in (idx - 1 + 1)..Len(fds)
          /\ fds'[j] = fds[j + 1]
      BY <1>t, <2>1, <2>2
    <3>2. table'[fds[j + 1].fd] = table[fds[j + 1].fd]
      BY <1>e, <1>t, <2>1, <2>3, <3>1
    <3>3. PICK k \in 1..(idx - 1) : fds[k].fd = fds[j + 1].fd
      BY <1>s, <2>1, <2>3, <3>1, <3>2 DEF Drained
    <3>4. QED
      BY <2>2, <3>1, <3>3
  <2>4. (idx - 1)' = idx - 1 /\ idx - 1 + 1 = idx
    BY <1>t, <2>1
  <2>5. Drained(idx - 1)'
    BY <2>3, <2>4 DEF Drained
  <2>6. QED
    BY <1>s, <2>1, <2>5 DEF ReadsAhead
<1>4. CASE ScanRead
  <2> DEFINE c == table[Entry.fd]
  <2>1. /\ idx \in 1..Len(fds) /\ Entry.fd \in FDs /\ c # Free /\ pc' = "process"
        /\ idx' = idx /\ fds' = fds /\ table' = table
        /\ \E q : inq' = [inq EXCEPT ![c] = q]
    <3>1. idx \in 1..Len(fds) /\ Entry.fd \in FDs
      BY <1>4, <1>o, ScanningEntry DEF ScanRead
    <3>2. \E n \in 1..Len(inq[c]) :
              inq' = [inq EXCEPT ![c] = SubSeq(inq[c], n + 1, Len(inq[c]))]
      BY <1>4 DEF ScanRead
    <3>3. QED
      BY <1>4, <3>1, <3>2 DEF ScanRead, Goto, loopVars
  <2>2. \A d \in Conns : d # c => inq'[d] = inq[d]
    BY <2>1 DEF Typed, TypeOK
  <2>3. ASSUME NEW j \in (idx + 1)..Len(fds), fds[j].re = "in", table[fds[j].fd] # Free,
               inq'[table[fds[j].fd]] = <<>>, fds[j].fd # Entry.fd
        PROVE  \E k \in 1..idx : fds[k].fd = fds[j].fd
    <3>1. /\ j \in 1..Len(fds) /\ j \in (idx - 1 + 1)..Len(fds)
          /\ \A k \in 1..(idx - 1) : k \in 1..idx
      BY <1>t
    <3>2. fds[j].fd \in FDs /\ table[fds[j].fd] \in Conns
      BY <1>e, <1>t, <2>3, <3>1
    <3>3. table[fds[j].fd] # c
      BY <2>1, <2>3, <3>2 DEF Places
    <3>4. inq[table[fds[j].fd]] = <<>>
      BY <2>2, <2>3, <3>2, <3>3
    <3>5. QED
      BY <1>s, <2>3, <3>1, <3>4 DEF Drained
  <2>4. idx \in 1..idx /\ fds[idx].fd = Entry.fd
    BY <2>1 DEF Entry
  <2>5. \A j \in (idx + 1)..Len(fds) :
            fds[j].re = "in" /\ table[fds[j].fd] # Free /\ inq'[table[fds[j].fd]] = <<>>
                => \E k \in 1..idx : fds[k].fd = fds[j].fd
    BY <2>3, <2>4
  <2> HIDE DEF c
  <2>6. Drained(idx)'
    BY <2>1, <2>5 DEF Drained
  <2>7. QED
    BY <2>1, <2>6 DEF ReadsAhead
<1>5. QED
  BY <1>1, <1>2, <1>3, <1>4 DEF Scan

LEMMA AheadClose ==
  ASSUME Typed, ReadsAhead, NEW left, CloseWith(left), pc \in {"process", "forked"}
  PROVE  ReadsAhead'
<1>1. /\ Entry.fd \in FDs /\ table' = [table EXCEPT ![Entry.fd] = Free]
      /\ pc' = "scan" /\ idx' = idx + 1 /\ UNCHANGED <<fds, inq>>
  BY TypeRest DEF CloseWith, Closed, Goto, clientVars
<1>2. Drained(idx) /\ idx \in Nat
  BY DEF ReadsAhead, Typed, TypeOK
<1>3. Drained(idx - 1)'
  BY <1>1, <1>2, DrainedClosed
<1>4. QED
  BY <1>1, <1>3 DEF ReadsAhead

LEMMA AheadServe ==
  ASSUME Typed, ReadsAhead, Serve
  PROVE  ReadsAhead'
<1>d. ASSUME NEW how \in {"exited", "killed"}, Die(how) PROVE ReadsAhead'
  BY <1>d DEF Die, Goto, ReadsAhead
<1>w. ASSUME NEW answer \in Kinds, WriteAndClose(Caller, answer),
             pc \in {"process", "forked"}
      PROVE  ReadsAhead'
  BY <1>w, <1>d, AheadClose DEF WriteAndClose, HandlerCloses
<1>k. {"list", "denied", "exec"} \subseteq Kinds
  BY DEF Kinds
<1>i. idx \in Nat /\ idx + 1 - 1 = idx
  BY DEF Typed, TypeOK
<1>1. CASE NeedMore
  <2>1. /\ pc = "process" /\ pc' = "scan" /\ (idx - 1)' = idx
        /\ UNCHANGED <<fds, table, inq>>
    BY <1>1, <1>i DEF NeedMore, Goto, memVars
  <2>2. Drained(idx)
    BY <2>1 DEF ReadsAhead
  <2>3. Drained(idx - 1)'
    BY <2>1, <2>2 DEF Drained
  <2>4. QED
    BY <2>1, <2>3 DEF ReadsAhead
<1>2. CASE HandleListUsers \/ HandleDenied
  BY <1>2, <1>w, <1>k DEF HandleListUsers, HandleDenied
<1>3. CASE HandleVoid
  BY <1>3, AheadClose DEF HandleVoid
<1>4. CASE ForkFails
  BY <1>4, AheadClose DEF ForkFails, HandlerCloses
<1>5. CASE ForkChild
  <2>1. /\ pc = "process" /\ pc' = "forked" /\ idx' = idx /\ UNCHANGED <<fds, table, inq>>
    BY <1>5 DEF ForkChild, Goto, memVars, loopVars
  <2>2. Drained(idx)
    BY <2>1 DEF ReadsAhead
  <2>3. QED
    BY <2>1, <2>2 DEF ReadsAhead, Drained
<1>6. CASE AnswerExecute
  BY <1>6, <1>w, <1>k DEF AnswerExecute
<1>7. QED
  BY <1>1, <1>2, <1>3, <1>4, <1>5, <1>6 DEF Serve

LEMMA AheadNext ==
  ASSUME Typed, Places, ReadsAhead, [Next]_vars
  PROVE  ReadsAhead'
<1>1. CASE Start \/ StartFails \/ Startup
  BY <1>1 DEF Start, StartFails, Startup, InstallHandlers, SetGlobal, SetRunning, Goto, ReadsAhead
<1>2. CASE Poll \/ Scan \/ Serve
  BY <1>2, AheadPoll, AheadScan, AheadServe
<1>3. CASE Sigterm
  <2>1. CASE Die("killed")
    BY <2>1 DEF Die, Goto, ReadsAhead
  <2>2. CASE UNCHANGED <<pc, idx, fds, table, inq>>
    BY <2>2, AheadKept
  <2>3. QED
    BY <1>3, <2>1, <2>2 DEF Sigterm, Stop, loopVars, memVars
<1>4. CASE Sigchld \/ UNCHANGED vars
  BY <1>4, AheadKept DEF Sigchld, vars, loopVars, memVars
<1>5. ASSUME NEW c \in Conns, KidExits(c) \/ Connect(c) \/ Leave(c) PROVE ReadsAhead'
  BY <1>5, AheadKept DEF KidExits, Connect, Leave, loopVars, memVars
<1>6. ASSUME NEW c \in Conns, Send(c) PROVE ReadsAhead'
  <2>1. /\ UNCHANGED <<pc, idx, fds, table>>
        /\ \E seg : inq' = [inq EXCEPT ![c] = Append(inq[c], seg)]
    BY <1>6 DEF Send, loopVars, memVars
  <2>2. inq \in [Conns -> Seq(Segments)]
    BY DEF Typed, TypeOK, Segments
  <2>3. \A d \in Conns : inq'[d] = <<>> => inq[d] = <<>>
    BY <2>1, <2>2
  <2>4. QED
    BY <2>1, <2>3, AheadKept
<1>7. QED
  BY <1>1, <1>2, <1>3, <1>4, <1>5, <1>6 DEF Next, Daemon

LEMMA AlwaysPlaced == Spec => []Places
<1>1. Init => Places
  BY StartsEmpty
<1>2. Typed /\ Forked /\ Places /\ [Next]_vars => Places'
  BY PlacesNext
<1> QED
  BY <1>1, <1>2, AlwaysTyped, ForkedAlways, PTL DEF Spec

(* BlockedByDuplicate: the daemon waits for one client only in a read for  *)
(* a number that an entry before it names, too; with one entry for each    *)
(* open descriptor it would never.                                         *)
THEOREM BlocksOnlyOnDuplicates == Spec => []BlockedByDuplicate
<1>1. Init => ReadsAhead
  BY DEF Init, ReadsAhead
<1>2. Typed /\ Places /\ ReadsAhead /\ [Next]_vars => ReadsAhead'
  BY AheadNext
<1>3. Typed /\ ReadsAhead => BlockedByDuplicate
  <2> SUFFICES ASSUME Typed, ReadsAhead, Blocked
               PROVE  \E k \in 1..(idx - 1) : fds[k].fd = Entry.fd
    BY DEF BlockedByDuplicate
  <2>1. idx \in (idx - 1 + 1)..Len(fds) /\ pc = "scan"
    BY TypeLoop DEF Blocked, Scanning, Typed, TypeOK
  <2>2. QED
    BY <2>1 DEF ReadsAhead, Drained, Blocked, Scanning, Entry
<1> QED
  BY <1>1, <1>2, <1>3, AlwaysTyped, AlwaysPlaced, PTL DEF Spec
=============================================================================
