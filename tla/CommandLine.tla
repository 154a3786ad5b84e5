---------------------------- MODULE CommandLine ----------------------------
(***************************************************************************)
(* cli_loop of kernel.c: it reads a line, cuts it into tokens where it      *)
(* lies, one strtok after the other as the branch it is in asks for them,   *)
(* and makes at most one call of the kernel.  What the calls do is the      *)
(* subject of Processes and FileSystem; here they are recorded, with the    *)
(* names create_file copies into directory entries.                        *)
(*                                                                         *)
(* A character stands for one character of a line or for a whole keyword:   *)
(* the code never looks inside a keyword, and two characters side by side   *)
(* are a longer word.                                                      *)
(***************************************************************************)
EXTENDS Strings, SequencesExt

CONSTANTS
    MAX_INPUT_LENGTH,      (* 128                                           *)
    MAX_FILENAME_LEN,      (* 255                                           *)
    UINT16_MOD,            (* permissions are uint16_t: 2^16                *)
    Programs,              (* the names in process_commands                 *)
    Lines,                 (* by number: what may be typed as that line     *)
    Garbage                (* what the stack holds under a new input array  *)

ASSUME CommandLineAssumption ==
    /\ MAX_INPUT_LENGTH \in Nat \ {0}
    /\ MAX_FILENAME_LEN \in Nat /\ MAX_INPUT_LENGTH <= MAX_FILENAME_LEN
    /\ Lines \in Seq(SUBSET Seq(STRING \ {NUL, "\n"}))
    /\ Programs \subseteq STRING \ {NUL, "start", "syscall", "process"}
    /\ Garbage # {} /\ Garbage \subseteq STRING

VARIABLES
    input,                 (* the input array of the innermost cli_loop     *)
    static_str,            (* of strtok, as an index of input               *)
    tokens,                (* token1, token2, ... as far as asked for       *)
    line,                  (* history: the line that was read               *)
    lines_read,            (* how many                                      *)
    call,                  (* the call the last line led to                 *)
    names,                 (* history: filename fields create_file filled   *)
    loop                   (* prompt, command or halted                     *)

vars == <<input, static_str, tokens, line, lines_read, call, names, loop>>

Blank == {" ", "\t"}

DataEndsAtBlank == {"\n", " "}
Newline == {"\n"}

(* sizeof(input), and the field of a directory entry with what lies behind. *)
InputIndex == 0 .. MAX_INPUT_LENGTH - 1
EmptyField == [i \in 0 .. MAX_FILENAME_LEN + 1 |->
                  IF i < MAX_FILENAME_LEN THEN NUL ELSE "inode_number"]

Call(to, name, data, number) ==
    [to |-> to, name |-> name, data |-> data, number |-> number]
NoCall == Call("none", <<>>, <<>>, 0)

Init ==
    /\ \E c \in Garbage : input = [i \in InputIndex |-> c]
    /\ static_str = 0
    /\ tokens = <<>>
    /\ line = <<>> /\ lines_read = 0
    /\ call = NoCall
    /\ names = {}
    /\ loop = "prompt"

(* read_line(input, MAX_INPUT_LENGTH): a long line is cut; what input held  *)
(* behind the terminator stays.                                            *)
ReadLine(typed) ==
    /\ line' = SubSeq(typed, 1, Shorter(Len(typed), MAX_INPUT_LENGTH - 1))
    /\ input' = [i \in InputIndex |->
                    IF i <= Len(line') THEN Literal(line')[i] ELSE input[i]]
    /\ lines_read' = lines_read + 1
    /\ loop' = "command"
    /\ UNCHANGED <<static_str, tokens, call, names>>

-----------------------------------------------------------------------------
(* The tokens.                                                             *)

Missing(k) == tokens[k] = NoToken
Is(k, keyword) == ~Missing(k) /\ strcmp(input, tokens[k], Literal(<<keyword>>), 0)
Token(k) == Text(input, tokens[k])

OnName == {"make", "read", "rm"}
OnData == {"write", "append"}

(* token1 = strtok(input, ...), the others strtok(NULL, ...).              *)
Strtok(delim) ==
    LET r == strtok(input, IF tokens = <<>> THEN 0 ELSE static_str, delim)
    IN  /\ input' = r.mem
        /\ static_str' = r.static_str
        /\ tokens' = Append(tokens, r.token)
        /\ UNCHANGED <<line, lines_read, call, names, loop>>

Token1 == tokens = <<>> /\ Strtok(Blank)

Token2 ==
    /\ Len(tokens) = 1 /\ (Is(1, "process") \/ Is(1, "file"))
    /\ Strtok(Blank)

(* The name, of a test or of a file, or the priority.                      *)
Token3 ==
    /\ Len(tokens) = 2
    /\ IF Is(1, "process") THEN ~Missing(2) /\ ~Is(2, "start")
       ELSE \E k \in OnName \cup OnData \cup {"chmod"} : Is(2, k)
    /\ Strtok(Blank)

(* The priority or the permissions.                                        *)
Token4 ==
    /\ Len(tokens) = 3
    /\ Is(1, "process") \/ Is(2, "chmod")
    /\ Strtok(Blank)

(* The rest of the line.                                                   *)
Data ==
    /\ Len(tokens) = 3
    /\ Is(1, "file") /\ \E k \in OnData : Is(2, k)
    /\ Strtok(Newline)

-----------------------------------------------------------------------------
(* What the branches end with: the call c, and the prompt again.           *)

Return(c) ==
    /\ call' = c
    /\ tokens' = <<>>
    /\ UNCHANGED <<static_str, line, lines_read>>

Continue(c) == Return(c) /\ loop' = "prompt" /\ UNCHANGED <<input, names>>

Nothing == Len(tokens) = 1 /\ Missing(1) /\ Continue(NoCall)

Exit ==
    /\ Len(tokens) = 1 /\ Is(1, "exit")
    /\ Return(Call("exit", <<>>, <<>>, 0))
    /\ loop' = "halted"
    /\ UNCHANGED <<input, names>>

List ==
    /\ \/ Len(tokens) = 1 /\ Is(1, "ls")
       \/ Len(tokens) = 2 /\ Is(1, "file") /\ Is(2, "ls")
    /\ Continue(Call("list_files", <<>>, <<>>, 0))

Unknown ==
    /\ Len(tokens) = 1 /\ ~Missing(1)
    /\ \A k \in {"exit", "process", "file", "ls"} : ~Is(1, k)
    /\ Continue(NoCall)

(* The usage message of process and of file.                               *)
Usage == Len(tokens) = 2 /\ Missing(2) /\ Continue(NoCall)

(* schedule() does not return here: when no process is ready any more it    *)
(* calls cli_loop again, with an input array of its own.                   *)
Start ==
    /\ Len(tokens) = 2 /\ Is(1, "process") /\ Is(2, "start")
    /\ Return(Call("schedule", <<>>, <<>>, 0))
    /\ \E c \in Garbage : input' = [i \in InputIndex |-> c]
    /\ loop' = "prompt"
    /\ UNCHANGED names

(* The priority of a new process: the token for it, or 1.                  *)
Priority(k) == IF Missing(k) THEN 1 ELSE atoi(input, tokens[k])

(* process syscall test, process process test.                             *)
QueueTest(keyword, program) ==
    /\ Len(tokens) = 4 /\ Is(1, "process") /\ Is(2, keyword) /\ Is(3, "test")
    /\ Continue(Call(program, <<>>, <<>>, Priority(4)))

(* process_commands is searched when neither test was asked for.           *)
AsksForTest == (Is(2, "syscall") \/ Is(2, "process")) /\ Is(3, "test")

QueueProgram(program) ==
    /\ Len(tokens) = 4 /\ Is(1, "process") /\ ~AsksForTest
    /\ Is(2, program)
    /\ Continue(Call(program, <<>>, <<>>, Priority(3)))

UnknownProgram ==
    /\ Len(tokens) = 4 /\ Is(1, "process") /\ ~AsksForTest
    /\ \A program \in Programs : ~Is(2, program)
    /\ Continue(NoCall)

(* file make.  create_file copies the name into an entry whose field is     *)
(* cleared, at the start and by delete_file.                               *)
Make ==
    /\ Len(tokens) = 3 /\ Is(1, "file") /\ Is(2, "make") /\ ~Missing(3)
    /\ Return(Call("create_file", Token(3), <<>>, 0))
    /\ names' = names \cup
           {[text |-> Token(3),
             filename |-> strncpy(EmptyField, input, tokens[3], MAX_FILENAME_LEN)]}
    /\ loop' = "prompt"
    /\ UNCHANGED input

(* file read and file rm.                                                  *)
OfName(keyword, function) ==
    /\ Len(tokens) = 3 /\ Is(1, "file") /\ Is(2, keyword) /\ ~Missing(3)
    /\ Continue(Call(function, Token(3), <<>>, 0))

(* file write and file append.                                             *)
OfData(keyword, function) ==
    /\ Len(tokens) = 4 /\ Is(1, "file") /\ Is(2, keyword) /\ ~Missing(3) /\ ~Missing(4)
    /\ Continue(Call(function, Token(3), Token(4), 0))

Chmod ==
    /\ Len(tokens) = 4 /\ Is(1, "file") /\ Is(2, "chmod") /\ ~Missing(3) /\ ~Missing(4)
    /\ Continue(Call("chmod_file", Token(3), <<>>,
                     atoi(input, tokens[4]) % UINT16_MOD))

(* The usage messages of the operations on files.                          *)
FileUsage ==
    /\ \/ Len(tokens) = 3 /\ (\E k \in OnName : Is(2, k)) /\ Missing(3)
       \/ Len(tokens) = 4 /\ (Missing(3) \/ Missing(4))
    /\ Is(1, "file")
    /\ Continue(NoCall)

UnknownOperation ==
    /\ Len(tokens) = 2 /\ Is(1, "file") /\ ~Missing(2)
    /\ \A k \in OnName \cup OnData \cup {"chmod", "ls"} : ~Is(2, k)
    /\ Continue(NoCall)

(* Behind exit the kernel halts; the bound on the lines ends a behaviour    *)
(* as well.                                                                *)
Stop ==
    /\ loop = "halted" \/ (loop = "prompt" /\ lines_read = Len(Lines))
    /\ UNCHANGED vars

(* The branches of cli_loop.                                               *)
Command ==
    \/ Token1 \/ Token2 \/ Token3 \/ Token4 \/ Data
    \/ Nothing \/ Exit \/ List \/ Unknown \/ Usage \/ Start
    \/ QueueTest("syscall", "syscall_test") \/ QueueTest("process", "process_test")
    \/ (\E program \in Programs : QueueProgram(program)) \/ UnknownProgram
    \/ Make \/ OfName("read", "read_file") \/ OfName("rm", "delete_file")
    \/ OfData("write", "write_file") \/ OfData("append", "append_to_file")
    \/ Chmod \/ FileUsage \/ UnknownOperation

Next ==
    \/ /\ loop = "prompt" /\ lines_read < Len(Lines)
       /\ \E typed \in Lines[lines_read + 1] : ReadLine(typed)
    \/ loop = "command" /\ Command
    \/ Stop

Spec == Init /\ [][Next]_vars

-----------------------------------------------------------------------------
(* Properties.  A line is read without pointers: its words are its longest  *)
(* runs of characters that are not blank.                                  *)

IsBlank(i) == line[i] \in Blank
WordStarts == {i \in 1 .. Len(line) : ~IsBlank(i) /\ (i = 1 \/ IsBlank(i - 1))}
WordEnds   == {i \in 1 .. Len(line) : ~IsBlank(i) /\ (i = Len(line) \/ IsBlank(i + 1))}

(* The k-th smallest number of a set.                                      *)
Kth(S, k) == CHOOSE i \in S : Cardinality({j \in S : j <= i}) = k

Words == [k \in 1 .. Cardinality(WordStarts) |->
             SubSeq(line, Kth(WordStarts, k), Kth(WordEnds, k))]

(* What follows the k-th word and the one blank behind it.                 *)
RestBehind(k) == SubSeq(line, Kth(WordEnds, k) + 2, Len(line))

(* How many digits a word begins with.                                     *)
LeadingDigits(word) ==
    SelectInSeq(Append(word, NUL), LAMBDA c : ~IsDigit(c)) - 1

(* The number a word begins with, 0 if with none.                          *)
Number(word) ==
    LET negative == word[1] = "-"
        digits   == IF negative THEN Tail(word) ELSE word
        leading  == LeadingDigits(digits)
        value[k \in 0 .. leading] ==
            IF k = 0 THEN 0 ELSE 10 * value[k - 1] + DigitValue(digits[k])
    IN  IF negative THEN -value[leading] ELSE value[leading]

Form(to, words, arguments) == [to |-> to, words |-> words, arguments |-> arguments]

(* The commands: the words they begin with and what follows those.         *)
Forms ==
    { Form("exit", <<"exit">>, "none"), Form("list_files", <<"ls">>, "none"),
      Form("list_files", <<"file", "ls">>, "none"),
      Form("schedule", <<"process", "start">>, "none"),
      Form("syscall_test", <<"process", "syscall", "test">>, "priority"),
      Form("process_test", <<"process", "process", "test">>, "priority"),
      Form("create_file", <<"file", "make">>, "name"),
      Form("read_file", <<"file", "read">>, "name"),
      Form("delete_file", <<"file", "rm">>, "name"),
      Form("write_file", <<"file", "write">>, "data"),
      Form("append_to_file", <<"file", "append">>, "data"),
      Form("chmod_file", <<"file", "chmod">>, "permissions") }
    \cup {Form(p, <<"process", p>>, "priority") : p \in Programs}

Fits(f, words) ==
    LET k == Len(f.words) + 1
    IN  /\ IsPrefix([i \in DOMAIN f.words |-> <<f.words[i]>>], words)
        /\ f.arguments = "name" => Len(words) >= k
        /\ f.arguments = "data" => Len(words) >= k /\ RestBehind(k) # <<>>
        /\ f.arguments = "permissions" => Len(words) > k

Meant(f, words) ==
    LET k == Len(f.words) + 1
    IN  CASE f.arguments = "none" -> Call(f.to, <<>>, <<>>, 0)
          [] f.arguments = "priority" ->
                Call(f.to, <<>>, <<>>, IF Len(words) < k THEN 1 ELSE Number(words[k]))
          [] f.arguments = "name" -> Call(f.to, words[k], <<>>, 0)
          [] f.arguments = "data" -> Call(f.to, words[k], RestBehind(k), 0)
          [] f.arguments = "permissions" ->
                Call(f.to, words[k], <<>>, Number(words[k + 1]) % UINT16_MOD)

(* Every line leads to the call its words ask for, with the name, the data  *)
(* and the number that were typed, and to none if it is not a command:     *)
(* cutting tokens out in place loses nothing a later branch reads, and      *)
(* nothing of earlier lines comes back.                                    *)
CallMeansLine ==
    lines_read > 0 /\ loop # "command" =>
        LET words  == Words
            fitted == {f \in Forms : Fits(f, words)}
        IN  {call} = IF fitted = {} THEN {NoCall} ELSE {Meant(f, words) : f \in fitted}

(* strtok never leaves the line: static_str stays at or before the         *)
(* terminator read_line put there, whatever the array holds behind it, and  *)
(* the tokens follow each other in the line without touching.              *)
StrtokInLine ==
    tokens # <<>> =>
        /\ static_str \in 0 .. Len(line)
        /\ \A j, k \in DOMAIN tokens :
              j < k /\ ~Missing(k) => tokens[j] + strlen(input, tokens[j]) < tokens[k]

(* A name asked for matches the field of a directory entry exactly when it  *)
(* is the name the file was made with, and no copy of a name reaches the    *)
(* inode number behind the field.                                          *)
NamesKeptApart ==
    \A n \in names :
        /\ \A i \in MAX_FILENAME_LEN .. MAX_FILENAME_LEN + 1 : n.filename[i] = EmptyField[i]
        /\ call.name # <<>> =>
              (strncmp(n.filename, 0, Literal(call.name), 0, MAX_FILENAME_LEN)
                   <=> call.name = n.text)
=============================================================================
