----------------------------- MODULE CopyTreeMC -----------------------------
(***************************************************************************)
(* Small images for CopyTree.                                              *)
(***************************************************************************)
EXTENDS CopyTree

\*  1: d -> 2, <one> -> 3, l -> 4         2: <two> -> 5, c -> <back>
\*  1 and 2 are directories, 3 and 5 files, 4 a link or a file.
MCIno == 1 .. 5
Dots(x, y) == <<[name |-> <<".">>, ino |-> x], [name |-> <<".", ".">>, ino |-> y]>>
Img(one, two, back, four, answer, sick, torn) ==
    [kind |-> <<"dir", "dir", "file", four, "file">>,
     size |-> [x \in MCIno |-> x],
     list |-> (1 :> Dots(1, 1) \o <<[name |-> <<"d">>, ino |-> 2], [name |-> one, ino |-> 3],
                                   [name |-> <<"l">>, ino |-> 4]>>) @@
              (2 :> Dots(2, 1) \o <<[name |-> two, ino |-> 5], [name |-> <<"c">>, ino |-> back]>>),
     answer |-> 4 :> answer,
     sick |-> sick,
     torn |-> torn]

\* Names that need each repair of sanitize_name, or several.
Odd == {<<":", " ">>, <<".", ".", ".">>, <<"n", ".", " ">>, <<"N", ".", "x">>}
Plain == <<"x">>
Well == {{}}
Upset == {{}, {3}, {2}, {4}}

NameImages == {Img(one, two, 3, "file", 0, {}, {}) : one \in Odd, two \in Odd \cup {Plain}}
LinkImages == {Img(Plain, Plain, back, "link", answer, sick, {}) :
                   back \in {1, 4}, answer \in {0, 1, 2, 3, 5, 6}, sick \in Upset}
TornImages == {Img(Plain, Plain, back, four, 2, {}, torn) :
                   back \in {1, 4}, four \in {"link", "file"}, torn \in Upset}
SickImages == {Img(Plain, Plain, back, "file", 0, sick, {}) : back \in {1, 3}, sick \in Upset}

\* Two names that sanitize_name makes one, of files or of directories.
Clash(one, other, x) == [Img(one, Plain, 3, "file", 0, {}, {}) EXCEPT !.list[1] =
                            Append(@, [name |-> other, ino |-> x])]
ClashImages == {Clash(<<":", "x">>, <<"_", "x">>, 4), Clash(<<"n">>, <<"n", ".">>, 4),
                Clash(Plain, <<"d", ".">>, 2)}

MCImages == NameImages \cup LinkImages \cup TornImages \cup SickImages \cup ClashImages

MCGiven == {Plain}

ASSUME NamesAssumption == NamesUnique

=============================================================================
