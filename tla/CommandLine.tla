----------------------------- MODULE CommandLine -----------------------------
(***************************************************************************)
(* From a line typed to the words a job reads: how cli_server splits a     *)
(* line into a command and its arguments, how arguments get into the args  *)
(* field of a job, and jes_job_arg_next, which gives them out word by word *)
(* and cuts the field in place (strtok, of the C library).                 *)
(*                                                                         *)
(* Buffers are sequences of their whole length; positions start at 1.  A   *)
(* job is known by its name, a sequence of characters.                     *)
(*                                                                         *)
(* The application is one that keeps to what the static variables of the   *)
(* tokenizer can serve: one job at a time reads its arguments, and reads   *)
(* them to the end; and nobody launches a job that still runs.             *)
(***************************************************************************)
EXTENDS Naturals, Sequences, SequencesExt

CONSTANTS
    Letters,        \* the characters words are made of
    Jobs,           \* names of the registered jobs
    StrLen,         \* __MAX_JOB_STR_LEN_BYTE
    ArgsLen,        \* __MAX_JOB_ARGS_LEN_BYTE
    Lines,          \* what the terminal may type
    ArgStrings,     \* strings given to the API as arguments
    NULL            \* a pointer

Space == " "
CR == "CR"
NUL == "NUL"

ASSUME CommandLineAssumption ==
    /\ {StrLen, ArgsLen} \subseteq Nat \ {0}
    /\ Letters \cap {Space, CR, NUL} = {}
    /\ Jobs \subseteq Seq(Letters) \ {<<>>}
    /\ ArgStrings \subseteq Seq(Letters \cup {Space})
    /\ NULL \notin Seq(Letters \cup {Space}) \cup [job : Jobs, index : Nat]

VARIABLES
    raw,            \* raw_str of cli_server
    args,           \* args[j]
    at,             \* at[j]: "idle", or what the function of j has done
    input,          \* the static variable input of jes_job_arg_next
    saved,          \* the place strtok goes on from, or NULL
    named,          \* history: the job the last line named, or NULL
    launched,       \* history: the job it launched, or NULL
    got,            \* history: got[j]: words j has read in this run
    given           \* history: given[j]: the string j should find in its args

serverVars == <<raw, named, launched>>
tokenVars == <<input, saved>>
vars == <<serverVars, args, at, tokenVars, got, given>>

-----------------------------------------------------------------------------
(* Strings in buffers.                                                     *)

Zeros(n) == [i \in 1..n |-> NUL]

(* The buffer after the string s and its NUL have been copied to it.       *)
Over(buf, s) == s \o <<NUL>> \o SubSeq(buf, Len(s) + 2, Len(buf))

(* strncpy fills up with NUL.                                              *)
Filled(s) == Over(Zeros(ArgsLen), s)

SkipBlanks(buf, from) == Min({i \in DOMAIN buf : i >= from /\ buf[i] # Space})
WordEnd(buf, from) == Min({i \in DOMAIN buf : i >= from /\ buf[i] \in {Space, NUL}})
End(buf, from) == Min({i \in DOMAIN buf : i >= from /\ buf[i] = NUL})

StringAt(buf, from) == SubSeq(buf, from, End(buf, from) - 1)

(* The words of a string, by where they start, and where they stop.        *)
Starts(s) == {i \in DOMAIN s : s[i] # Space /\ (i > 1 => s[i - 1] = Space)}
Stop(s, i) == Min({k \in i..(Len(s) + 1) : k \notin DOMAIN s \/ s[k] = Space})
WordAt(s, i) == SubSeq(s, i, Stop(s, i) - 1)

(* ws are the words of s, all of them and in their order.                  *)
AreWordsOf(ws, s) ==
    \E where \in [DOMAIN ws -> Starts(s)] :
        /\ Range(where) = Starts(s)
        /\ \A k, m \in DOMAIN ws : k < m => where[k] < where[m]
        /\ \A k \in DOMAIN ws : ws[k] = WordAt(s, where[k])

(* What a line says: its first word, and from the second to the last word  *)
(* what a job has room for.                                                *)
FirstWord(s) == WordAt(s, Min(Starts(s)))
Later(s) == Starts(s) \ {Min(Starts(s))}
Text(s) == IF Later(s) = {} THEN <<>>
           ELSE SubSeq(s, Min(Later(s)), Max({i \in DOMAIN s : s[i] # Space}))
FirstChars(s) == SubSeq(s, 1, Min({Len(s), ArgsLen - 1}))

(* What strtok leaves of a string when it has read it.                     *)
Kept(s) == IF Starts(s) = {} THEN s ELSE SubSeq(s, 1, Stop(s, Min(Starts(s))) - 1)

(* What was typed, without the carriage return that ends it.               *)
Typed(l) == IF Last(l) = CR THEN Front(l) ELSE l

(* A line has a word, or is the carriage return alone; and there are no    *)
(* more blanks before the first word than there is room behind the line    *)
(* (__cli_cmd_arg_split looks that far).                                   *)
ASSUME LinesAssumption ==
    \A l \in Lines \ {<<CR>>} :
        /\ l \in Seq(Letters \cup {Space, CR}) \ {<<>>}
        /\ Typed(l) \in Seq(Letters \cup {Space})
        /\ Starts(Typed(l)) # {}
        /\ Min(Starts(Typed(l))) + Len(Typed(l)) <= StrLen

-----------------------------------------------------------------------------
Init ==
    /\ raw = Zeros(StrLen)
    /\ named = NULL
    /\ launched = NULL
    /\ args = [j \in Jobs |-> Zeros(ArgsLen)]
    /\ at = [j \in Jobs |-> "idle"]
    /\ input = NULL
    /\ saved = NULL
    /\ got = [j \in Jobs |-> <<>>]
    /\ given = [j \in Jobs |-> <<>>]

-----------------------------------------------------------------------------
(* cli_server.                                                             *)

Saying == [l \in Lines \ {<<CR>>} |->
              [name |-> FirstWord(Typed(l)), args |-> FirstChars(Text(Typed(l)))]]
Names(l, j) == Saying[l].name = j

(* __cli_sanitize_input: blanks and carriage returns up to last become     *)
(* NUL, those at the front are skipped.                                    *)
Stripped(buf, last) ==
    LET back == Max({i \in 1..last : buf[i] \notin {Space, CR}})
    IN  SubSeq(buf, 1, back) \o Zeros(last - back) \o SubSeq(buf, last + 1, Len(buf))
NotSkipped(buf) == 1
Clean(buf) == SkipBlanks(buf, 1)

(* The blanks among the n characters from the command on, which are more   *)
(* than the line has left if blanks were skipped.                          *)
BlanksAfter(buf, cmd, n) == {i \in cmd..(cmd + n - 1) : buf[i] = Space}

(* __cli_cmd_arg_split: the first blank ends the command, what follows the *)
(* blanks are the arguments, and without a blank there are none.           *)
Split(buf, cmd, n) ==
    LET blanks == BlanksAfter(buf, cmd, n)
        text == Stripped(buf, cmd + n - 1)
    IN  [name |-> SubSeq(buf, cmd, Min(blanks \cup {End(buf, cmd)}) - 1),
         args |-> IF blanks = {} THEN NULL ELSE StringAt(text, SkipBlanks(text, Min(blanks)))]

(* snprintf and its size.                                                  *)
NotCut(text) == text
Cut(text) == SubSeq(text, 1, Min({Len(text), ArgsLen - 1}))

(* A line too long for raw_str is thrown away (CliSession has what follows *)
(* from it).  An empty one is answered with the header and stays in        *)
(* raw_str.                                                                *)
ServerBlank(l) ==
    /\ Len(l) < StrLen
    /\ Head(l) = CR
    /\ raw' = Over(raw, l)
    /\ UNCHANGED <<named, launched, args, at, tokenVars, got, given>>

(* The job of the command is launched, with new arguments or with none.    *)
(* The terminal names no job that runs.                                    *)
ServerCommand(l) ==
    /\ Len(l) < StrLen
    /\ Head(l) # CR
    /\ \A j \in Jobs : at[j] # "idle" => ~Names(l, j)
    /\ LET clean == Stripped(Over(raw, l), Len(l))
           split == Split(clean, Clean(clean), Len(l))
           name == split.name
       IN  IF name \in Jobs
           THEN /\ args' = [args EXCEPT ![name] =
                        IF split.args = NULL THEN Zeros(ArgsLen) ELSE Over(@, Cut(split.args))]
                /\ at' = [at EXCEPT ![name] = "running"]
                /\ launched' = name
           ELSE launched' = NULL /\ UNCHANGED <<args, at>>
    /\ raw' = Zeros(StrLen)
    /\ named' = IF \E j \in Jobs : Names(l, j) THEN Saying[l].name ELSE NULL
    /\ given' = [j \in Jobs |-> IF Names(l, j) THEN Saying[l].args ELSE given[j]]
    /\ UNCHANGED <<got, tokenVars>>

-----------------------------------------------------------------------------
(* The API.                                                                *)

(* __job_copy_str refuses what would be cut off.                           *)
FitsArgs(s) == Len(s) < ArgsLen

JobSetArgs(j, s) ==
    /\ FitsArgs(s)
    /\ args' = [args EXCEPT ![j] = Filled(s)]
    /\ given' = [given EXCEPT ![j] = s]

JesLaunchJobArgs(j, s) ==
    /\ at[j] = "idle"
    /\ JobSetArgs(j, s)
    /\ at' = [at EXCEPT ![j] = "running"]
    /\ UNCHANGED <<serverVars, tokenVars, got>>

(* A launch without arguments leaves those of the last one there.          *)
JesLaunchJob(j) ==
    /\ at[j] = "idle"
    /\ at' = [at EXCEPT ![j] = "running"]
    /\ UNCHANGED <<serverVars, args, tokenVars, got, given>>

(* jes_job_set_args, which a job calls when it has read its own.           *)
JesJobSetArgs(j, s) ==
    /\ at[j] \in {"running", "read"}
    /\ JobSetArgs(j, s)
    /\ at' = [at EXCEPT ![j] = "written"]
    /\ UNCHANGED <<serverVars, tokenVars, got>>

(* strtok: the next word from i on; the blank after it becomes NUL, and    *)
(* where there is none the next call finds nothing.                        *)
NoToken == [found |-> FALSE]
Token(buf, i) ==
    LET first == SkipBlanks(buf, i)
        end == WordEnd(buf, first)
    IN  IF buf[first] = NUL THEN NoToken
        ELSE [found |-> TRUE, word |-> SubSeq(buf, first, end - 1), end |-> end]

(* jes_job_arg_next, after the last word too.                              *)
KeptInput(j) == j
InputAfterLast(j) == NULL

Alone(j) == \A k \in Jobs \ {j} : at[k] # "reading"

JesJobArgNext(j) ==
    /\ at[j] \in {"running", "reading"}
    /\ Alone(j)
    /\ LET place == IF input = NULL THEN [job |-> j, index |-> 1] ELSE saved
           token == IF place = NULL THEN NoToken ELSE Token(args[place.job], place.index)
           k == place.job
       IN  IF token.found
           THEN /\ got' = [got EXCEPT ![j] = Append(@, token.word)]
                /\ args' = [args EXCEPT ![k][token.end] = NUL]
                /\ saved' = IF args[k][token.end] = NUL THEN NULL
                            ELSE [job |-> k, index |-> token.end + 1]
                /\ input' = IF input = NULL THEN j ELSE input
                /\ at' = [at EXCEPT ![j] = "reading"]
                /\ UNCHANGED given
           ELSE /\ input' = InputAfterLast(j)
                /\ saved' = NULL
                /\ at' = [at EXCEPT ![j] = "read"]
                /\ UNCHANGED <<args, got, given>>
    /\ UNCHANGED serverVars

(* The function returns; a field that was read keeps its first word.       *)
Return(j) ==
    /\ at[j] \in {"running", "read", "written"}
    /\ at' = [at EXCEPT ![j] = "idle"]
    /\ given' = [given EXCEPT ![j] = IF at[j] = "read" THEN Kept(@) ELSE @]
    /\ got' = [got EXCEPT ![j] = <<>>]
    /\ UNCHANGED <<serverVars, args, tokenVars>>

-----------------------------------------------------------------------------
Next ==
    \/ \E l \in Lines : ServerBlank(l) \/ ServerCommand(l)
    \/ \E j \in Jobs :
        \/ \E s \in ArgStrings : JesLaunchJobArgs(j, s) \/ JesJobSetArgs(j, s)
        \/ JesLaunchJob(j)
        \/ JesJobArgNext(j)
        \/ Return(j)

Spec == Init /\ [][Next]_vars

-----------------------------------------------------------------------------
(* Properties.                                                             *)

Characters == Letters \cup {Space, CR, NUL}

(* Every variable has its type, and what strings are copied to raw_str and *)
(* to args is ended by a NUL.                                              *)
TypeOK ==
    /\ raw \in [1..StrLen -> Characters]
    /\ args \in [Jobs -> [1..ArgsLen -> Characters]]
    /\ at \in [Jobs -> {"idle", "running", "reading", "read", "written"}]
    /\ {named, launched} \subseteq Jobs \cup {NULL}
    /\ input \in Jobs \cup {NULL}
    /\ saved = NULL \/ saved \in [job : Jobs, index : 1..ArgsLen]
    /\ raw[StrLen] = NUL
    /\ \A j \in Jobs : args[j][ArgsLen] = NUL

(* A job that has read its arguments to the end got the words that were    *)
(* given to it, in their order, from the terminal or from the API          *)
(* (jescore_api.h: jes_job_arg_next), and the terminal named that job.     *)
WordsAsGiven ==
    \A j \in Jobs : at[j] = "read" => AreWordsOf(got[j], given[j])

(* The job the terminal names is launched, whatever blanks are around the  *)
(* name, and no other.                                                     *)
NamedIsLaunched == launched = named

=============================================================================
