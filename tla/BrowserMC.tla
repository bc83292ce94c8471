----------------------------- MODULE BrowserMC -----------------------------
(***************************************************************************)
(* Two small images for Browser.                                           *)
(***************************************************************************)
EXTENDS Browser

MCRank == [n \in {".", "..", "a"} |-> CASE n = "." -> 1 [] n = ".." -> 2 [] n = "a" -> 3]
MCHasText == [t \in {"", " ", "."} |-> IF t = "." THEN {".", ".."} ELSE IF t = "" THEN Name ELSE {}]

Row(n, x, t, s) == [name |-> n, ino |-> x, ft |-> t, size |-> s]

\* A directory, and in it a file of the same name; by size they stand between
\* the two dots.
MCFirst == [list |-> (2 :> <<Row(".", 2, Dir, 1), Row("..", 2, Dir, 3), Row("a", 3, Dir, 2)>>) @@
                     (3 :> <<Row(".", 3, Dir, 1), Row("..", 2, Dir, 3), Row("a", 5, 1, 2)>>)]
\* An empty image.
MCSecond == [list |-> 2 :> <<Row(".", 2, Dir, 1), Row("..", 2, Dir, 3)>>]
MCImage == {MCFirst, MCSecond}

\* Loads never have the inode of the first row, so that it has no size.
MCUnread == {{1}}

\* What the proof of CopiesRows takes from the images.
ASSUME ImagesAssumption == ImagesSound

=============================================================================
