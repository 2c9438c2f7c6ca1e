---------------------------- MODULE CommandMatch ----------------------------
(***************************************************************************)
(* normalizeCommand and isCommandMatch (common/utils.cpp): how a command   *)
(* is compared with a pattern of permup.cfg or permdown.cfg.  A command is *)
(* the sequence of words that split makes of it, a word a sequence of      *)
(* character codes, because what is done to flags is done to characters,   *)
(* and because the words are put together again before they are compared.  *)
(***************************************************************************)
EXTENDS Integers, Sequences, FiniteSets, SequencesExt

CONSTANTS
    Commands, Patterns,     \* sets of commands
    Canonical,              \* realpath: from the words that name a file to
                            \* its real name, which may have blanks in it
    NoCommand

Space == 32
Blank == {9, 10, 13, Space} \* for trim
Char == Nat
Word == Seq(Char) \ {<<>>}

ASSUME CommandAssumption ==
    /\ Commands \subseteq Seq(Word) /\ Patterns \subseteq Seq(Word)
    /\ \A w \in DOMAIN Canonical : Canonical[w] \in Word

VARIABLE asked              \* the command of a request that is decided

CommandInit == asked = NoCommand
Ask == asked' \in Commands
CommandSpec == CommandInit /\ [][Ask]_asked

Dash == 45

(* operator< on strings. *)
Less(v, w) ==
    \/ Len(v) < Len(w) /\ \A k \in 1..Len(v) : v[k] = w[k]
    \/ \E k \in 1..Len(v) : /\ k <= Len(w) /\ v[k] < w[k]
                            /\ \A j \in 1..(k - 1) : v[j] = w[j]

canonicalizePath(word) == IF word \in DOMAIN Canonical THEN Canonical[word] ELSE word

(* "-rf" is taken apart; "-", "-r" and "--force" are kept. *)
Pieces(word) ==
    CASE word[1] = Dash /\ Len(word) > 2 /\ word[2] # Dash ->
            [k \in 1..(Len(word) - 1) |-> <<Dash, word[k + 1]>>]
      [] word[1] = Dash /\ ~(Len(word) > 2 /\ word[2] # Dash) -> <<word>>
      [] OTHER -> <<canonicalizePath(word)>>

(* The flags of a command, by their word and their place in it.            *)
Pushed(command) == UNION {{k} \X DOMAIN Pieces(command[k]) : k \in 2..Len(command)}
Piece(command, at) == Pieces(command[at[1]])[at[2]]
Before(at, by) == at[1] < by[1] \/ (at[1] = by[1] /\ at[2] <= by[2])

InOrder(command, at, by) ==
    \/ Less(Piece(command, at), Piece(command, by))
    \/ Piece(command, at) = Piece(command, by) /\ Before(at, by)

(* std::sort: a flag comes after those that are in order before it.        *)
Place(command, by) == Cardinality({at \in Pushed(command) : InOrder(command, at, by)})
Flags(command) ==
    [n \in 1..Cardinality(Pushed(command)) |->
        Piece(command, CHOOSE by \in Pushed(command) : Place(command, by) = n)]

trim(text) ==
    LET kept == {k \in 1..Len(text) : text[k] \notin Blank} IN
    IF kept = {} THEN <<>> ELSE SubSeq(text, Min(kept), Max(kept))

Spaced(word) == <<Space>> \o word

NotSorted(command) == \* mutant: no std::sort
    IF command = <<>> THEN <<>>
    ELSE LET flags == FlattenSeq([k \in 1..(Len(command) - 1) |-> Pieces(command[k + 1])])
         IN  trim(command[1] \o FlattenSeq([n \in DOMAIN flags |-> Spaced(flags[n])]))

(* One text again: the program, and each flag behind a space. *)
normalizeCommand(command) ==
    IF command = <<>> THEN <<>>
    ELSE LET flags == Flags(command) IN
         trim(command[1] \o FlattenSeq([n \in DOMAIN flags |-> Spaced(flags[n])]))

(* " pattern " is found in " command ".  That equal texts match is the case *)
(* k = 0, apart for the proofs.                                            *)
Padded(text) == Spaced(text) \o <<Space>>
isSubstringMatch(command, pattern) ==
    \/ command = pattern
    \/ \E k \in 0..(Len(command) - Len(pattern)) :
            SubSeq(Padded(command), k + 1, k + Len(pattern) + 2) = Padded(pattern)

isCommandMatch(command, pattern) ==
    isSubstringMatch(normalizeCommand(command), normalizeCommand(pattern))
-----------------------------------------------------------------------------
(* Other ways to write a command: two words after the program swapped, a   *)
(* group of flags turned around, or taken apart.                           *)
Swapped(c) ==
    {[c EXCEPT ![i] = c[j], ![j] = c[i]] : i, j \in 2..Len(c)}

FlagGroups(c) ==
    {k \in 2..Len(c) : /\ c[k][1] = Dash /\ Len(c[k]) > 2
                       /\ \A j \in 2..Len(c[k]) : c[k][j] # Dash}

TurnedAround(c) == {[c EXCEPT ![k] = <<Dash>> \o Reverse(Tail(c[k]))] : k \in FlagGroups(c)}

TakenApart(c) ==
    {SubSeq(c, 1, k - 1) \o <<SubSeq(c[k], 1, 2), <<Dash>> \o SubSeq(c[k], 3, Len(c[k]))>>
        \o SubSeq(c, k + 1, Len(c)) : k \in FlagGroups(c)}

(* README.md, 4.1: rm -rf, rm -fr and rm -r -f are the same, as a command  *)
(* and as a pattern.                                                       *)
SpellingIrrelevant ==
    asked # NoCommand =>
        \A d \in Swapped(asked) \cup TurnedAround(asked) \cup TakenApart(asked), p \in Patterns :
            /\ isCommandMatch(asked, p) <=> isCommandMatch(d, p)
            /\ isCommandMatch(p, asked) <=> isCommandMatch(p, d)
=============================================================================
