-------------------------- MODULE TerminalSession --------------------------
(***************************************************************************)
(* What an execute request is for the user who makes it, without           *)
(* processes, sockets and signals: a command, a terminal that is handed    *)
(* over at most once, and only past the check for a prompt, and output of  *)
(* which each piece goes to the check or to the user, in order.            *)
(* ExecSession implements this for each session.                           *)
(***************************************************************************)
EXTENDS Naturals, Sequences

CONSTANT Auths      \* the -h users to consider, of {"root", "user"}

VARIABLES
    auth,       \* the -h user
    job,        \* the command: "none", "live", "over"
    terminal,   \* where it is: "kept" by the service, "sent", "held" by the
                \* user, or "gone"
    produced,   \* all the command has written,
    out,        \* the part nobody has read,
    swallowed,  \* the part the check has read,
    shown,      \* and the part the user has seen
    result      \* how the session ended for the user

outVars == <<produced, out, swallowed, shown>>
vars == <<auth, job, terminal, outVars, result>>

Init ==
    /\ auth \in Auths /\ job = "none" /\ terminal = "kept"
    /\ produced = <<>> /\ out = <<>> /\ swallowed = <<>> /\ shown = <<>>
    /\ result = "none"

(* A prompt that the check can see: it looks no further than a NUL. *)
Prompt(chunks) ==
    \E k \in 1..Len(chunks) :
        /\ chunks[k].kind = "prompt"
        /\ \A j \in 1..(k - 1) : chunks[j].kind # "nul"

Taken(n) == SubSeq(out, 1, n)
Left(n)  == SubSeq(out, n + 1, Len(out))
-----------------------------------------------------------------------------
(* A session that was refused never runs a command. *)
Deny ==
    /\ result = "none" /\ auth # "root" /\ job = "none"
    /\ result' = "denied"
    /\ UNCHANGED <<auth, job, terminal, outVars>>

(* Nothing else ties a command to its user: it starts for one who has left. *)
StartJob ==
    /\ job = "none" /\ result # "denied" /\ terminal = "kept"
    /\ job' = "live"
    /\ UNCHANGED <<auth, terminal, outVars, result>>

Write ==
    /\ job = "live"
    /\ \E kind \in {"text", "nul", "prompt"} :
        LET chunk == [n |-> Len(produced) + 1, kind |-> kind] IN
            produced' = Append(produced, chunk) /\ out' = Append(out, chunk)
    /\ UNCHANGED <<auth, job, terminal, swallowed, shown, result>>

JobEnds ==
    /\ job = "live" /\ job' = "over"
    /\ UNCHANGED <<auth, terminal, outVars, result>>

(* The check reads once, before the terminal is handed over; what shows a  *)
(* prompt ends it.                                                         *)
Check ==
    /\ auth # "root" /\ terminal = "kept" /\ swallowed = <<>>
    /\ \E n \in 1..Len(out) : swallowed' = Taken(n) /\ out' = Left(n)
    /\ terminal' = IF Prompt(swallowed') THEN "gone" ELSE terminal
    /\ UNCHANGED <<auth, job, produced, shown, result>>

Pass ==
    /\ terminal = "kept" /\ result = "none" /\ job # "none"
    /\ auth # "root" => swallowed # <<>> /\ ~Prompt(swallowed)
    /\ terminal' = "sent"
    /\ UNCHANGED <<auth, job, outVars, result>>

Attach ==
    /\ terminal = "sent" /\ terminal' = "held"
    /\ UNCHANGED <<auth, job, outVars, result>>

(* The service gives up, or the terminal is lost on its way. *)
Lose ==
    /\ terminal \in {"kept", "sent"} /\ terminal' = "gone"
    /\ UNCHANGED <<auth, job, outVars, result>>

Show ==
    /\ terminal = "held"
    /\ \E n \in 1..Len(out) : shown' = shown \o Taken(n) /\ out' = Left(n)
    /\ UNCHANGED <<auth, job, terminal, produced, swallowed, result>>

(* A session ends of itself when the command is over and nothing is unread. *)
End ==
    /\ terminal = "held" /\ result = "none" /\ job = "over" /\ out = <<>>
    /\ result' = "ended" /\ terminal' = "gone"
    /\ UNCHANGED <<auth, job, outVars>>

(* The user leaves, or is told of a failure, and what was sent is lost. *)
Leave ==
    /\ result = "none" /\ result' \in {"failed", "quit"}
    /\ terminal' = IF terminal = "kept" THEN "kept" ELSE "gone"
    /\ UNCHANGED <<auth, job, outVars>>

Next ==
    \/ Deny \/ StartJob \/ Write \/ JobEnds \/ Check
    \/ Pass \/ Attach \/ Lose \/ Show \/ End \/ Leave

Spec == Init /\ [][Next]_vars
=============================================================================
