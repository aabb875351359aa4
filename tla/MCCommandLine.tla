--------------------------- MODULE MCCommandLine -----------------------------
(* Small instances of CommandLine for TLC.                                  *)
EXTENDS CommandLine

CONSTANT MaxLen

Letter == "a"
OneLetter == {Letter}

(* Two jobs, one name the beginning of the other.                           *)
TwoNames == {<<Letter>>, <<Letter, Letter>>}

Strings(n) == UNION {[1..k -> {Letter, Space}] : k \in 1..n}

LeadingBlanks(s) == Min(Starts(s)) - 1

(* Lines with a word; blanks before the first one only as many as leave     *)
(* room in the buffer behind the line.                                      *)
WordLines ==
    {s \in Strings(MaxLen) : Letter \in Range(s) /\ LeadingBlanks(s) + Len(s) < StrLen}

(* With a carriage return at the end, short ones also without, and the      *)
(* carriage return alone.                                                   *)
TerminalLines ==
    {Append(s, CR) : s \in WordLines} \cup {s \in WordLines : Len(s) <= 4} \cup {<<CR>>}

(* Two words that fit, and one that is one character too long.              *)
ApiStrings == {<<Letter, Space, Letter>>, [i \in 1..ArgsLen |-> Letter]}

=============================================================================
