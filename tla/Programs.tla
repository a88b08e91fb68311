------------------------------ MODULE Programs ------------------------------
(***************************************************************************)
(* The user programs of src/apps, with the counterpart of kbmap in the     *)
(* kernel, and the loader that exec uses: each has its own memory, and one *)
(* of them runs, the one that was started.  A program that does not run    *)
(* stays in one initial state.                                             *)
(***************************************************************************)
EXTENDS Editor, Installer, Calculator, ShellApp, NumberText, KeyboardLayouts, ElfLoader

VARIABLE program     \* the program that runs

programs_vars == <<program, editor_vars, installer_vars, calculator_vars, shell_vars,
                   number_vars, layout_vars, elf_vars>>

(* The possible values, of which one does for a program that does not run.  *)
For(name, values) == IF program = name THEN values ELSE {CHOOSE v \in values : TRUE}

ProgramsInit ==
  /\ program \in {"editor", "installer", "calculator", "shell", "printf", "kbmap", "exec"}
  /\ EditorInit(For("editor", Documents))
  /\ InstallerInit(For("installer", FoundMbrs))
  /\ CalculatorInit
  /\ ShellInit
  /\ NumberInit(For("printf", Ints))
  /\ LayoutsInit(For("kbmap", LayoutDirs), For("kbmap", Codes \cup {NoFile}))
  /\ ElfInit(For("exec", Images))

Runs(name, others) == program = name /\ UNCHANGED <<program, others>>

ProgramsNext ==
  \/ /\ Runs("editor", <<installer_vars, calculator_vars, shell_vars,
                         number_vars, layout_vars, elf_vars>>)
     /\ EditorNext
  \/ /\ Runs("installer", <<editor_vars, calculator_vars, shell_vars,
                            number_vars, layout_vars, elf_vars>>)
     /\ InstallerNext
  \/ /\ Runs("calculator", <<editor_vars, installer_vars, shell_vars,
                             number_vars, layout_vars, elf_vars>>)
     /\ CalculatorNext
  \/ /\ Runs("shell", <<editor_vars, installer_vars, calculator_vars,
                        number_vars, layout_vars, elf_vars>>)
     /\ ShellNext
  \/ /\ Runs("printf", <<editor_vars, installer_vars, calculator_vars,
                         shell_vars, layout_vars, elf_vars>>)
     /\ NumberNext
  \/ /\ Runs("kbmap", <<editor_vars, installer_vars, calculator_vars,
                        shell_vars, number_vars, elf_vars>>)
     /\ LayoutsNext
  \/ /\ Runs("exec", <<editor_vars, installer_vars, calculator_vars,
                       shell_vars, number_vars, layout_vars>>)
     /\ ElfNext

ProgramsSpec == ProgramsInit /\ [][ProgramsNext]_programs_vars
=============================================================================
