------------------------------ MODULE MCFileHandle ------------------------------
(* Model checking of FileHandle: a file "topics.d" is stored as "d", and     *)
(* "toc" is shorter than the string for the root.                            *)
EXTENDS FileHandle

CONSTANTS h1, h2

Root == << "<", "r", "o", "o", "t", ">", "/" >>
Names == {<< "t", "o", "c" >>, << "t", "o", "p", "i", "c", "s", ".", "d" >>}
=============================================================================
