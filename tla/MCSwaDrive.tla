----------------------------- MODULE MCSwaDrive -----------------------------
(* Small instances of SwaDrive for TLC. *)
EXTENDS SwaDriveInvariant

CONSTANTS seed, u1, u2, t1, t2, d1

\* Two directories and a file name below each of them.
TwoDirs == {<<"a">>, <<"a", "x">>, <<"b">>, <<"b", "x">>}
OneDir  == {<<"a">>, <<"a", "x">>, <<"b">>}

\* A tree in use: directory a with the file a/x.
Seeded == [p \in Paths |->
             CASE p = <<"a">> -> Dir [] p = <<"a", "x">> -> seed [] OTHER -> Absent]
\* The directory a alone.
DirOnly == [p \in Paths |-> IF p = <<"a">> THEN Dir ELSE Absent]

OneChunk == [u \in Uploads |-> 1]
SameSize == [c \in Contents |-> 1]

AX == {<<"a", "x">>}
BothX == {<<"a", "x">>, <<"b", "x">>}
BX == {<<"b", "x">>}
DistinctSizes == [c \in Contents |-> IF c = u2 THEN 2 ELSE 1]
None == {}
=============================================================================
