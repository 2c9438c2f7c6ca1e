---------------------------- MODULE MCEventLoop ----------------------------
(* Instances of EventLoop for TLC: descriptor numbers and client scripts. *)
EXTENDS EventLoop, TLC

Part(k)  == [kind |-> k, last |-> FALSE]
Whole(k) == [kind |-> k, last |-> TRUE]

TwoFDs == {4, 5}
OneFD  == {4}

(* Requests of every kind, pipelined ones among them. *)
EveryKind == {<<Whole("exec")>>, <<Whole("denied")>>, <<Whole("void")>>,
              <<Part("list"), Whole("list"), Whole("exec")>>}

(* A refusal is a request that is closed like a void one, with an answer. *)
WithoutRefusals == EveryKind \ {<<Whole("denied")>>}

(* A client that stops in the middle of its request, and one that does not. *)
Unfinished == {<<Part("list")>>, <<Whole("list")>>}

(* One client stops in the middle, the others do not. *)
OneStopsSpec ==
    DaemonSpec /\ Cardinality({c \in Conns : script[c] = <<Part("list")>>}) = 1

ConnSymmetry == Permutations(Conns)
=============================================================================
