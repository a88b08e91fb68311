------------------------------ MODULE ShellApp ------------------------------
(***************************************************************************)
(* The standalone shell, src/apps/shell/shell_app.c: a line is cut into    *)
(* arguments in place, then the built-in command or program it names is    *)
(* run.  A character is " " or a letter; the words "exit" and "cd" and the *)
(* names of directories are taken to have one letter.  Running a program   *)
(* (fork, exec and wait) changes the process table, which module Process   *)
(* has, and nothing of the shell.                                          *)
(***************************************************************************)
EXTENDS Integers, SequencesExt

CONSTANTS
  MAX_ARGS,      \* 16
  Letters,       \* the letters of words, "exit" and "cd" among them
  Directories,   \* letters that name a directory
  MaxLine        \* bound of the model: characters of a line

ASSUME ShellAssumption ==
  /\ MAX_ARGS \in Nat \ {0, 1, 2} /\ MaxLine \in Nat
  /\ {"exit", "cd"} \subseteq Letters /\ Directories \subseteq Letters \ {"exit", "cd"}

VARIABLES
  shell,         \* "typing", "parsed" or "exited"
  input,         \* what has been typed, and then the line
  cmd_argv,      \* the arguments, as the texts they point to
  cwd            \* the kernel's current_dir

shell_vars == <<shell, input, cmd_argv, cwd>>

ShellTypeOK ==
  /\ shell \in {"typing", "parsed", "exited"}
  /\ input \in Seq(Letters \cup {" "})
  /\ cmd_argv \in Seq(Seq(Letters \cup {" "})) /\ Len(cmd_argv) < MAX_ARGS
  /\ cwd \in Directories \cup {"/"}

ShellInit == shell = "typing" /\ input = <<>> /\ cmd_argv = <<>> /\ cwd = "/"

-----------------------------------------------------------------------------
(* The line in readln.                                                      *)
shell_types(ch) ==
  /\ shell = "typing" /\ Len(input) < MaxLine
  /\ input' = Append(input, ch)
  /\ UNCHANGED <<shell, cmd_argv, cwd>>

(* One round of parse_args.  The loop ends when the last argument it has    *)
(* room for begins: nothing ends that one, so it keeps the rest of the line.*)
ParseArgs_keeping_word(s, ch) ==
  IF Len(s.argv) = MAX_ARGS - 1 THEN [s EXCEPT !.argv[MAX_ARGS - 1] = Append(@, ch)]
  ELSE IF ch = " " THEN s
  ELSE IF s.in_word THEN [s EXCEPT !.argv[Len(s.argv)] = Append(@, ch)]
  ELSE [argv |-> Append(s.argv, <<ch>>), in_word |-> TRUE]

ParseArgs(s, ch) ==
  IF Len(s.argv) = MAX_ARGS - 1 THEN [s EXCEPT !.argv[MAX_ARGS - 1] = Append(@, ch)]
  ELSE IF ch = " " THEN [s EXCEPT !.in_word = FALSE]
  ELSE IF s.in_word THEN [s EXCEPT !.argv[Len(s.argv)] = Append(@, ch)]
  ELSE [argv |-> Append(s.argv, <<ch>>), in_word |-> TRUE]

parse_args(line) == FoldLeft(ParseArgs, [argv |-> <<>>, in_word |-> FALSE], line).argv

shell_enters ==
  /\ shell = "typing"
  /\ shell' = "parsed"
  /\ cmd_argv' = parse_args(input)
  /\ UNCHANGED <<input, cwd>>

(* builtin_cd: without an argument to "/"; sys_chdir refuses what is no     *)
(* directory.                                                               *)
ChangedDir ==
  IF Len(cmd_argv) = 1 THEN "/"
  ELSE IF \E d \in Directories : cmd_argv[2] = <<d>> THEN cmd_argv[2][1] ELSE cwd

(* The command: nothing for an empty line; "exit" leaves the loop.          *)
shell_runs ==
  /\ shell = "parsed"
  /\ shell' = IF cmd_argv # <<>> /\ cmd_argv[1] = <<"exit">> THEN "exited" ELSE "typing"
  /\ cwd' = IF cmd_argv # <<>> /\ cmd_argv[1] = <<"cd">> THEN ChangedDir ELSE cwd
  /\ input' = <<>> /\ cmd_argv' = <<>>

ShellNext ==
  \/ \E ch \in Letters \cup {" "} : shell_types(ch)
  \/ shell_enters \/ shell_runs

ShellSpec == ShellInit /\ [][ShellNext]_shell_vars

-----------------------------------------------------------------------------
(* The words of the line, by their first positions.                         *)
Begins == {i \in 1 .. Len(input) : input[i] # " " /\ (i = 1 \/ input[i - 1] = " ")}
WordAt(i) ==
  LET blanks == {j \in i .. Len(input) : input[j] = " "}
  IN SubSeq(input, i, IF blanks = {} THEN Len(input) ELSE Min(blanks) - 1)
NthBegin(n) == CHOOSE i \in Begins : Cardinality({j \in Begins : j <= i}) = n

(* The arguments are the words of the line, in order and whole, as long as  *)
(* they are fewer than MAX_ARGS - 1; with more, only the last argument is   *)
(* no word but the rest of the line, and none is lost before it.            *)
ArgsAreTheWords ==
  shell = "parsed" =>
    /\ Len(cmd_argv) = Min({Cardinality(Begins), MAX_ARGS - 1})
    /\ \A n \in 1 .. Len(cmd_argv) :
         cmd_argv[n] = IF n < MAX_ARGS - 1 THEN WordAt(NthBegin(n))
                       ELSE SubSeq(input, NthBegin(n), Len(input))
=============================================================================
