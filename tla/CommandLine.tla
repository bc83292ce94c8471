----------------------------- MODULE CommandLine -----------------------------
(***************************************************************************)
(* The command line (src/main.rs): reading the arguments, the choice of a  *)
(* command, opening the file system at the offset, and what each command   *)
(* prints or writes before it ends, with which exit code.  An argument is  *)
(* a string taken as a whole.                                              *)
(***************************************************************************)
EXTENDS Partitions

CONSTANTS
    Argv,       \* bound: the arguments the program may be given
    NumberOf,   \* the arguments that are numbers, with their values
    Assigned,   \* the arguments "--offset=<text>", with the text
    Option,     \* the arguments that begin with "-", "-" itself excepted
    Device,     \* what the paths of images and devices lead to
    Kind        \* what the paths within a file system lead to: a "file"; a "dir", or one
                \*   with "gaps", entries for which read_inodes_batch has no inode

ASSUME CommandLineAssumption ==
    /\ \A a \in Argv : a \in Seq(STRING)
    /\ {"--offset", "--"} \cup DOMAIN Assigned \subseteq Option
    /\ {"--offset", "--"} \cap DOMAIN Assigned = {}
    \* a number has no sign and is not empty
    /\ DOMAIN NumberOf \cap (Option \cup {""}) = {}
    /\ \A p \in DOMAIN Kind : Kind[p] \in {"dir", "gaps", "file"}

VARIABLES
    argv,       \* the arguments
    next,       \* the next one to look at
    offset,     \* the bytes into the image
    words,      \* "pos": the arguments that are no options
    at,         \* where the program is
    volume,     \* the file system that is open
    exit,       \* the exit code
    printed,    \* "nothing", "part" or "all" of the result, or "flawed": all of its
                \*   lines, not all with what is there
    file,       \* "nothing", "part" or "all" of the output file
    losses,     \* could parts of the tree not be copied?
    failing     \* auxiliary: may reads and writes fail, this time?

cliVars == <<argv, next, offset, words, at, volume, exit, printed, file, losses, failing>>

Unopened == [is |-> "unopened"]

CliInit ==
    /\ argv \in Argv /\ next = 1
    /\ offset = 0 /\ words = <<>>
    /\ at = "arguments"
    /\ volume = Unopened
    /\ exit = 0 /\ printed = "nothing" /\ file = "nothing" /\ losses = FALSE
    /\ failing \in BOOLEAN

Ends(code) == at' = "over" /\ exit' = code
Usage == Ends(2) /\ UNCHANGED <<volume, printed, file, losses>>
Fails == Ends(1) /\ UNCHANGED <<volume, printed, file, losses>>

-----------------------------------------------------------------------------
(* The arguments                                                           *)

\* A value that is no number is taken for 0.
Number(text) == IF text \in DOMAIN NumberOf THEN NumberOf[text] ELSE 0

Argument ==
    /\ at = "arguments" /\ next <= Len(argv)
    /\ LET a == argv[next] IN
       \/ /\ a = "--offset"
          /\ offset' = IF next < Len(argv) THEN Number(argv[next + 1]) ELSE 0
          /\ next' = next + 2
          /\ UNCHANGED <<words, at, exit>>
       \/ /\ a \in DOMAIN Assigned
          /\ offset' = Number(Assigned[a])
          /\ next' = next + 1
          /\ UNCHANGED <<words, at, exit>>
       \/ /\ a = "--"
          /\ words' = words \o SubSeq(argv, next + 1, Len(argv))
          /\ next' = Len(argv) + 1
          /\ UNCHANGED <<offset, at, exit>>
       \/ /\ a \in Option \ (DOMAIN Assigned \cup {"--offset", "--"})
          /\ Ends(2)
          /\ UNCHANGED <<next, offset, words>>
       \/ /\ a \notin Option
          /\ words' = Append(words, a)
          /\ next' = next + 1
          /\ UNCHANGED <<offset, at, exit>>
    /\ UNCHANGED <<argv, volume, printed, file, losses, failing>>

Word(k) == IF k \in DOMAIN words THEN words[k] ELSE ""
Command == Word(1)
PathOr(default) == IF Len(words) < 3 THEN default ELSE words[3]
Parsed == at = "arguments" /\ next > Len(argv) /\ UNCHANGED <<argv, next, offset, words, failing>>

-----------------------------------------------------------------------------
(* Before a file system is opened                                          *)

TooFew == Parsed /\ (words = <<>> \/ (Command # "devices" /\ Len(words) < 2)) /\ Usage

Prints == printed' = "all" /\ Ends(0)

\* println! panics when it cannot write.
Panics == failing /\ printed' \in {"nothing", "part"} /\ Ends(101)

\* print_table: writes that fail are passed over, a device that does not open again
\* is printed with "?" and the size of a sector as 512, and what lies in a partition
\* that cannot be read is "unknown".
PrintsTables ==
    \/ Prints
    \/ failing /\ printed' \in {"nothing", "part", "flawed"} /\ Ends(0)

\* Drives that cannot be read are listed with what is wrong with them.
Devices ==
    /\ Parsed /\ Command = "devices"
    /\ PrintsTables \/ Panics
    /\ UNCHANGED <<volume, file, losses>>

\* list_partitions
HasTable(device) == device \in DOMAIN Device /\ Table(Device[device], Device[device].sector) # NoTable

Parts ==
    /\ Parsed /\ Command = "parts" /\ Len(words) > 1
    /\ \/ /\ HasTable(words[2])
          /\ PrintsTables /\ UNCHANGED <<volume, file, losses>>
       \/ (~HasTable(words[2]) \/ failing) /\ Fails

\* The slip opens what is at the beginning.
AtBeginning == 0
AtOffset == offset

\* The file system is opened before the command is looked at.
OpenFs ==
    /\ Parsed /\ Command \notin {"devices", "parts"} /\ Len(words) > 1
    /\ LET v == IF words[2] \in DOMAIN Device THEN Opened(Device[words[2]], AtOffset) ELSE Failed IN
       \/ v = Panicked /\ Ends(101) /\ UNCHANGED <<volume, printed, file, losses>>
       \/ (v = Failed \/ (failing /\ v # Panicked)) /\ Fails
       \/ /\ v \notin {Failed, Panicked}
          /\ volume' = v /\ at' = "command"
          /\ UNCHANGED <<exit, printed, file, losses>>

-----------------------------------------------------------------------------
(* The commands                                                            *)

Running(names) ==
    at = "command" /\ Command \in names /\ UNCHANGED <<argv, next, offset, words, volume, failing>>
Copying == {"dump", "extract", "copy"}

NoSuchCommand ==
    /\ Running({Command} \ (Copying \cup {"info", "ls", "stat", "cat"}))
    /\ Usage

\* The number of arguments is looked at with the file system open.
TooFewToCopy == Running(Copying) /\ Len(words) < 4 /\ Usage

Info == Running({"info"}) /\ (Prints \/ Panics) /\ UNCHANGED <<file, losses>>

KindOf(p) == IF p \in DOMAIN Kind THEN Kind[p] ELSE "none"

\* Everything is read before the first line is printed; the slip prints as it reads.
PrintsPart == printed' = "part" /\ Ends(1) /\ UNCHANGED <<volume, file, losses>>
NothingYet == Fails

\* An entry whose inode was not found is printed with the size 0.
Gaps == KindOf(PathOr("/")) = "gaps" \/ failing

Ls ==
    /\ Running({"ls"})
    /\ \/ /\ KindOf(PathOr("/")) \in {"dir", "gaps"}
          /\ \/ KindOf(PathOr("/")) = "dir" /\ Prints
             \/ Gaps /\ printed' = "flawed" /\ Ends(0)
             \/ Panics
          /\ UNCHANGED <<file, losses>>
       \/ KindOf(PathOr("/")) \notin {"dir", "gaps"} /\ Fails
       \/ failing /\ NothingYet

\* The block map is printed as it is found.
Stat ==
    /\ Running({"stat"})
    /\ \/ /\ KindOf(PathOr("/")) # "none"
          /\ \/ Prints
             \/ Panics
             \/ failing /\ printed' = "part" /\ Ends(1)
          /\ UNCHANGED <<file, losses>>
       \/ (KindOf(PathOr("/")) = "none" \/ failing) /\ Fails

\* The whole of the file is read first.
ReadWhole ==
    /\ Running({"cat", "dump"})
    /\ Command = "dump" => Len(words) > 3
    /\ \/ KindOf(PathOr("/")) = "file" /\ at' = "write"
          /\ UNCHANGED <<exit, printed, file, losses>>
       \/ (KindOf(PathOr("/")) # "file" \/ failing) /\ Fails

Writing(name) == at = "write" /\ Command = name /\ UNCHANGED <<argv, next, offset, words, volume, failing, losses>>

CatWrites ==
    /\ Writing("cat") /\ UNCHANGED file
    /\ \/ Prints
       \/ failing /\ printed' \in {"nothing", "part"} /\ Ends(1)

\* fs::write makes the file before it has written it.
DumpWrites ==
    /\ Writing("dump")
    /\ \/ file' = "all" /\ (Prints \/ Panics)
       \/ failing /\ file' \in {"nothing", "part"} /\ Ends(1) /\ UNCHANGED printed

\* cmd_extract and cmd_copy: what could not be copied is printed, each with its
\* reason, and the command has succeeded.
CopiesOut ==
    /\ Running({"extract", "copy"}) /\ Len(words) > 3
    /\ \/ /\ KindOf(words[3]) # "none"
          /\ losses' \in {FALSE, failing}
          /\ file' = IF losses' THEN "part" ELSE "all"
          /\ Prints \/ Panics
       \/ (KindOf(words[3]) = "none" \/ failing) /\ Ends(1)
          /\ file' \in {"nothing", IF failing THEN "part" ELSE "nothing"}
          /\ UNCHANGED <<printed, losses>>

CliNext ==
    \/ Argument \/ TooFew \/ Devices \/ Parts \/ OpenFs
    \/ NoSuchCommand \/ TooFewToCopy \/ Info \/ Ls \/ Stat
    \/ ReadWhole \/ CatWrites \/ DumpWrites \/ CopiesOut

-----------------------------------------------------------------------------
(* What a script that calls the program can rely on.                       *)

\* Where the result may be printed with something missing or wrong in it: the tables
\* of partitions, and the sizes of ls.
MayBeFlawed ==
    \/ Command \in {"parts", "devices"} /\ failing
    \/ Command = "ls" /\ printed = "flawed" /\ Gaps

\* Success means that the result is there as a whole, but for the two cases above
\* and for copies, which print what they lost.  A wrong call leaves nothing behind.
\* An error (1) of a command that reads before it prints comes before its first
\* line; only a panic of println! (101) breaks off amid them.  And without
\* failures of reads and writes no command leaves anything half done (main.rs).
ExitTruthful ==
    at = "over" =>
        /\ exit = 0 => /\ printed = "all" \/ MayBeFlawed
                       /\ Command \in Copying => file = "all" \/ losses
        /\ exit = 2 => printed = "nothing" /\ file = "nothing"
        /\ exit = 1 /\ Command \notin {"stat", "cat"} => printed = "nothing"
        /\ ~failing /\ exit # 0 => printed = "nothing" /\ file = "nothing"

\* Where an argument asks for an offset, and whether it gives a number.
BeforeDashes(k) == \A j \in 1 .. k : argv[j] # "--"
AskedBy(k) == IF argv[k] = "--offset" THEN IF k < Len(argv) THEN argv[k + 1] ELSE ""
              ELSE Assigned[argv[k]]
Asking == {k \in DOMAIN argv : BeforeDashes(k) /\ argv[k] \in DOMAIN Assigned \cup {"--offset"}}

\* The file system that was asked for is the one that is opened: at the offset
\* given, wherever it stands among the arguments, and at 0 if none is.
OffsetObeyed ==
    volume # Unopened /\ (\A k \in Asking : AskedBy(k) \in DOMAIN NumberOf) =>
        volume.start \in IF Asking = {} THEN {0} ELSE {NumberOf[AskedBy(k)] : k \in Asking}

=============================================================================
