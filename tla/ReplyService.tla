---------------------------- MODULE ReplyService ----------------------------
(***************************************************************************)
(* What permupd promises its clients, without poll entries, descriptors    *)
(* and buffers: a connection carries one request, is answered at most      *)
(* once, with the answer to what it asked first, and a command is started  *)
(* for it at most once, before the answer that says so.  EventLoop         *)
(* implements this.                                                        *)
(***************************************************************************)
EXTENDS Naturals, Sequences

CONSTANTS
    Conns,      \* the connections
    Scripts     \* what a client may send: sequences of segments

VARIABLES
    script, sent, cli,  \* the clients, as in EventLoop
    replies,    \* the answers each client was given
    status,     \* "none", "waiting" to be served, "started" (a command was,
                \* and nobody has said so yet), "over"
    job,        \* the command started for it: "none", "running", "gone"
    listening   \* whoever connects will be looked after

vars == <<script, sent, cli, replies, status, job, listening>>

Init ==
    /\ script \in [Conns -> Scripts] /\ sent = [c \in Conns |-> 0]
    /\ cli = [c \in Conns |-> "none"] /\ replies = [c \in Conns |-> <<>>]
    /\ status = [c \in Conns |-> "none"] /\ job = [c \in Conns |-> "none"]
    /\ listening = FALSE

Pending(c) == status[c] \in {"waiting", "started"}

(* Segment k of c's script ends its first request, and has been sent. *)
Asked(c, k) ==
    /\ k \in 1..sent[c]
    /\ script[c][k].last /\ \A j \in 1..(k - 1) : ~script[c][j].last

AskedFor(c, kind) == \E k \in 1..sent[c] : Asked(c, k) /\ script[c][k].kind = kind
-----------------------------------------------------------------------------
(* A service that starts finds nothing of the one before it pending. *)
Listen ==
    /\ ~listening /\ \A c \in Conns : ~Pending(c)
    /\ listening' = TRUE
    /\ UNCHANGED <<script, sent, cli, replies, status, job>>

(* The service stops, at once or first for new clients only, or dies: what *)
(* is pending may be lost, and no answer is given.                         *)
Shut ==
    /\ listening' = FALSE
    /\ \A c \in Conns : status'[c] # status[c] => Pending(c) /\ status'[c] = "over"
    /\ DOMAIN status' = Conns
    /\ UNCHANGED <<script, sent, cli, replies, job>>

(* A connection can be made while nobody listens (a service that died has  *)
(* left commands that keep its door open): nothing is ever done with it.   *)
Connect(c) ==
    /\ cli[c] = "none"
    /\ cli' = [cli EXCEPT ![c] = "open"]
    /\ status' = [status EXCEPT ![c] = IF listening THEN "waiting" ELSE "over"]
    /\ UNCHANGED <<script, sent, replies, job, listening>>

Send(c) ==
    /\ cli[c] = "open" /\ sent[c] < Len(script[c])
    /\ sent' = [sent EXCEPT ![c] = @ + 1]
    /\ UNCHANGED <<script, cli, replies, status, job, listening>>

Leave(c) ==
    /\ cli[c] = "open"
    /\ cli' = [cli EXCEPT ![c] = "closed"]
    /\ UNCHANGED <<script, sent, replies, status, job, listening>>

Over(c) == status' = [status EXCEPT ![c] = "over"]

Answer(c, kind) ==
    /\ cli[c] # "closed" /\ replies[c] = <<>>
    /\ replies' = [replies EXCEPT ![c] = <<kind>>]

(* A list of accounts, or a refusal. *)
Reply(c) ==
    /\ status[c] = "waiting" /\ Over(c)
    /\ \E kind \in {"list", "denied"} : AskedFor(c, kind) /\ Answer(c, kind)
    /\ UNCHANGED <<script, sent, cli, job, listening>>

StartJob(c) ==
    /\ status[c] = "waiting" /\ AskedFor(c, "exec") /\ job[c] = "none"
    /\ job' = [job EXCEPT ![c] = "running"]
    /\ status' = [status EXCEPT ![c] = "started"]
    /\ UNCHANGED <<script, sent, cli, replies, listening>>

(* The answer to an execute request, unless its client has left. *)
AnswerStarted(c) ==
    /\ status[c] = "started" /\ Over(c)
    /\ Answer(c, "exec") \/ (cli[c] = "closed" /\ UNCHANGED replies)
    /\ UNCHANGED <<script, sent, cli, job, listening>>

(* A connection is given up without an answer only when its client has     *)
(* left, or has asked: its request was malformed, or could not be served.  *)
Drop(c) ==
    /\ status[c] = "waiting" /\ Over(c)
    /\ cli[c] = "closed" \/ \E k \in 1..sent[c] : Asked(c, k)
    /\ UNCHANGED <<script, sent, cli, replies, job, listening>>

JobEnds(c) ==
    /\ job[c] = "running" /\ job' = [job EXCEPT ![c] = "gone"]
    /\ UNCHANGED <<script, sent, cli, replies, status, listening>>

Next ==
    \/ Listen \/ Shut
    \/ \E c \in Conns :
        \/ Connect(c) \/ Send(c) \/ Leave(c)
        \/ Reply(c) \/ StartJob(c) \/ AnswerStarted(c) \/ Drop(c) \/ JobEnds(c)

Spec == Init /\ [][Next]_vars
=============================================================================
