----------------------------- MODULE FrontEndsMC -----------------------------
(***************************************************************************)
(* The programs, the GUI and the command line over a few small disks, and  *)
(* the builder of test images.  A behaviour is a session with one of them. *)
(***************************************************************************)
EXTENDS DiskBrowser, CommandLine, TestImages

CONSTANT Gui
VARIABLE program

Program == {"gui", "cli", "mkimg"}

Init ==
    /\ program \in Program
    /\ GuiInit /\ CliInit /\ BuilderInit
    /\ program # "cli" => argv = <<>> /\ ~failing
    /\ program # "gui" => drives = Gui /\ ~faulty

Next ==
    /\ UNCHANGED program
    /\ \/ program = "gui" /\ GuiNext /\ UNCHANGED <<cliVars, builderVars>>
       \/ program = "cli" /\ CliNext /\ UNCHANGED <<guiVars, builderVars>>
       \/ program = "mkimg" /\ BuilderNext /\ UNCHANGED <<guiVars, cliVars>>

Spec == Init /\ [][Next]_<<program, guiVars, cliVars, builderVars>>

-----------------------------------------------------------------------------
(* Disks.                                                                  *)

\* The descriptors of a file system, as units from "u" on.
Gdt(u, sb) ==
    LET step == IF sb.wide THEN sb.desc \div 32 ELSE 1
        CellOf(c) == LET g == c \div step + 1 IN
            IF g \notin DOMAIN sb.tables THEN 0
            ELSE IF c % step = 0 THEN sb.tables[g][1]
            ELSE IF c % step = 1 THEN sb.tables[g][2] ELSE 0
    IN  u :> [is |-> "gdt", cell |-> [c \in 1 .. 16 |-> CellOf(c - 1)]]

\* A file system at unit "u"; its blocks of 2^log KiB begin there.
Ext(u, sb) ==
    (u + 2 :> sb) @@ Gdt(u + IF sb.log % 64 = 0 THEN 4 ELSE 2 * 2 ^ (sb.log % 64), sb)

NoSlot == [type |-> 0, lba |-> 0, sectors |-> 0]
Slot(t, lba, n) == [type |-> t, lba |-> lba, sectors |-> n]
NoMft == [lcn |-> 0]
\* Of FAT12 and FAT16 the label is at 43; FAT32 has it at 71, and at 43 a byte that
\* is 0; exFAT has it in a directory, and at 107 flags and sizes.
Boot(slots, signs, label, mft) ==
    [is |-> "boot", slot |-> slots, signs |-> signs, mft |-> mft,
     text |-> (43 :> IF "FAT32" \in signs THEN "" ELSE label)
              @@ (71 :> IF "FAT32" \in signs THEN label ELSE "")
              @@ (107 :> IF "exFAT" \in signs THEN "???" ELSE "")]
Empty == <<NoSlot, NoSlot, NoSlot, NoSlot>>

\* Two groups of eight blocks, and one block that first_data_block leaves out.
Sb1 == [is |-> "super", blocks |-> 17, bpg |-> 8, inodes |-> 16, ipg |-> 8, log |-> 0,
        wide |-> FALSE, desc |-> 0, label |-> "one", tables |-> <<<<5, 0>>, <<10, 0>>>>,
        dirs |-> (2 :> <<Node("a", 3)>>) @@ (3 :> <<Untold("b", 4)>>) @@ (4 :> <<>>)]
\* Larger blocks, wide descriptors with room to spare, a last group that is short.
Sb2 == [is |-> "super", blocks |-> 11, bpg |-> 4, inodes |-> 12, ipg |-> 4, log |-> 1,
        wide |-> TRUE, desc |-> 128, label |-> "two",
        tables |-> <<<<5, 1>>, <<6, 0>>, <<9, 2>>>>,
        dirs |-> (2 :> <<Node("a", 4)>>) @@ (4 :> <<Node("c", 3)>>) @@ (3 :> <<>>)]
\* A corrupt one: the shift wraps, and a directory is its own child.
Sb3 == [Sb1 EXCEPT !.log = 64, !.label = "", !.dirs = (2 :> <<Node("a", 3)>>) @@ (3 :> <<Node("a", 3)>>)]
Sb4 == [Sb1 EXCEPT !.bpg = 0]
Sb5 == [Sb2 EXCEPT !.desc = 32]

RowOf(i, u, n, f, l) == [index |-> i, start |-> u, sectors |-> n, fs |-> f, label |-> l]

\* MBR: a gap in the numbers, NTFS with a label, and a file system cut short.
MbrDisk ==
    [len |-> 40, sector |-> 1,
     at |-> (0 :> Boot(<<NoSlot, Slot(7, 20, 9), Slot(131, 4, 6), Slot(131, 36, 9)>>, {}, "", NoMft))
            @@ Ext(4, Sb1) @@ Ext(36, Sb2)
            @@ (20 :> Boot(Empty, {"NTFS", "FAT"}, "", [lcn |-> 1, cluster |-> 2, record |-> 1]))
            @@ (25 :> [is |-> "file", attrs |-> <<[type |-> "other"],
                        [type |-> "name", resident |-> TRUE, value |-> "win"], [type |-> "end"]>>]),
     parts |-> {RowOf(2, 20, 9, "NTFS", "win"), RowOf(3, 4, 6, "ext2/3/4", "one"),
                RowOf(4, 36, 9, "ext2/3/4", "two")}]

\* GPT behind a hybrid MBR, with large sectors and large entries.  The labels are those
\* the volumes were given.
GptEntry(a, b) == [is |-> "entry", first |-> a, last |-> b]
GptDisk ==
    [len |-> 34, sector |-> 2,
     at |-> (0 :> Boot(<<Slot(238, 1, 3), Slot(131, 6, 9), NoSlot, NoSlot>>, {}, "", NoMft))
            @@ (2 :> [is |-> "gpt", entries |-> 2, count |-> 6, cells |-> 2])
            @@ (4 :> [is |-> "entries", cell |-> <<GptEntry(6, 7), Zero, Zero, Zero>>])
            @@ (5 :> [is |-> "entries", cell |-> <<GptEntry(8, 16), Zero, GptEntry(9, 3), Zero>>])
            @@ (6 :> [is |-> "entries", cell |-> <<GptEntry(12, 12), Zero, GptEntry(13, 13), Zero>>])
            @@ (12 :> Boot(Empty, {"FAT32", "FAT"}, "usb", NoMft))
            @@ Ext(16, Sb2)
            @@ (24 :> Boot(Empty, {"FAT"}, "dos", NoMft))
            @@ (26 :> Boot(Empty, {"exFAT"}, "cam", NoMft)),
     parts |-> {RowOf(1, 12, 2, "FAT32", "usb"), RowOf(3, 16, 9, "ext2/3/4", "two"),
                RowOf(4, 18, 0, "unknown", ""), RowOf(5, 24, 1, "FAT", "dos"),
                RowOf(6, 26, 1, "exFAT", "cam")}]

\* No table; what is said to be in the partitions is then never listed.
RawDisk(sb) == [len |-> 12, sector |-> 1, at |-> Ext(0, sb), parts |-> {}]
\* A file system without a table that has the signature of one.
UsbStick == [len |-> 4, sector |-> 1, parts |-> {}, 
             at |-> 0 :> Boot(Empty, {"exFAT"}, "stick", NoMft)]

MCOn == ("mbr" :> MbrDisk) @@ ("gpt" :> GptDisk) @@ ("usb" :> UsbStick) @@ ("raw" :> RawDisk(Sb1))
        @@ ("wrap" :> RawDisk(Sb3)) @@ ("zero" :> RawDisk(Sb4)) @@ ("narrow" :> RawDisk(Sb5))
MCDisk == DOMAIN MCOn

ASSUME TablesAssumption == TablesRight
ASSUME VolumesAssumption == VolumesRight

MCFile == {"raw", "wrap", "zero", "narrow"}
MCGoTo == {<<"a">>, <<"a", "b">>, <<"a", "..">>}

MCGui == (0 :> "mbr") @@ (1 :> "gpt")
MCSetup == {MCGui, (0 :> Gone) @@ (1 :> "mbr")}
MCExchange == {"gpt", Gone}
MCMisread == {{<<0, 2, "fs">>, <<1, 1, "label">>}}

-----------------------------------------------------------------------------
(* Arguments.                                                              *)

MCNumberOf == ("2048" :> 4) @@ ("8192" :> 16) @@ ("0" :> 0)
MCAssigned == ("--offset=2048" :> "2048") @@ ("--offset=1M" :> "1M")
MCOption == {"--offset", "--", "-x"} \cup DOMAIN MCAssigned
MCDevice == ("disk" :> MbrDisk) @@ ("image" :> RawDisk(Sb1)) @@ ("gpt" :> GptDisk)
            @@ ("zero" :> RawDisk(Sb4))
MCKind == ("/" :> "dir") @@ ("/f" :> "file") @@ ("/g" :> "gaps")

Commands == {<<>>, <<"devices">>, <<"ls">>, <<"parts", "gpt">>, <<"parts", "image">>, <<"parts", "none">>,
             <<"info", "image">>, <<"info", "zero">>, <<"ls", "image">>, <<"ls", "disk", "/f">>, <<"ls", "image", "/g">>,
             <<"stat", "disk", "/f">>, <<"stat", "image", "/x">>, <<"cat", "disk", "/f">>,
             <<"cat", "image">>, <<"dump", "disk", "/f">>, <<"dump", "disk", "/f", "out">>,
             <<"copy", "image", "/", "out">>, <<"extract", "image", "/x", "out">>, <<"list", "image">>}
MCArgv == {before \o command \o after :
              before \in SeqOf({"--offset", "2048", "--"}, 2) \cup
                         {<<"-x">>, <<"-">>, <<"--offset=2048">>, <<"--offset=1M">>, <<"--offset", "1M">>,
                          <<"--offset", "0", "--offset", "2048">>},
              command \in Commands,
              after \in {<<>>, <<"--offset">>, <<"--offset", "2048">>}}

=============================================================================
