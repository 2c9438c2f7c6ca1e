--------------------------- MODULE MCExecSession ---------------------------
(* Instances of ExecSession for TLC. *)
EXTENDS ExecSession, TLC

SessionSymmetry == Permutations(Sessions)

(* Bound: the chunks that all commands write together. *)
MaxTotal == 2

(* Nobody looks at what a -h root session writes, and a NUL makes a        *)
(* difference only to what follows it.                                     *)
KindsOf(s) ==
    CASE auth[s] = "root" -> {"text"}
      [] MaxOut = 1 -> Kinds \ {"nul"}
      [] OTHER -> Kinds

FewChunks ==
    FoldFunction(LAMBDA chunks, n : Len(chunks) + n, 0, produced) <= MaxTotal
BoundedNext ==
    \E s \in Sessions :
        \/ ClientStep(s) \/ Quit(s) \/ DaemonStep(s) \/ ChildStep(s)
        \/ KernelStep(s) \/ CommandExits(s)
        \/ \E k \in KindsOf(s) : Write(s, k) /\ FewChunks'
BoundedSpec == Init /\ [][BoundedNext]_vars

(* One session with -h root beside others without. *)
RootSession == CHOOSE s \in Sessions : TRUE
MixedInit ==
    Init /\ \A s \in Sessions : (auth[s] = "root") <=> (s = RootSession)
MixedSpec == MixedInit /\ [][BoundedNext]_vars /\ Fairness

(* The steps of sessions that their users leave, rather than wait: no      *)
(* timer of client or Child expires.                                       *)
LeavingNext ==
    \E s \in Sessions :
        \/ Request(s) \/ Quit(s) \/ DaemonStep(s) \/ KernelStep(s)
        \/ SetupPty(s) \/ ForkCommand(s) \/ SendPtyToClient(s)
LeavingSpec == Init /\ [][LeavingNext]_vars
=============================================================================
