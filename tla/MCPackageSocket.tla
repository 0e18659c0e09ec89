--------------------------- MODULE MCPackageSocket --------------------------
(***************************************************************************)
(* Packages for checking PackageSocket.                                    *)
(***************************************************************************)
EXTENDS PackageSocket

\* Every package of at most two bytes, which fill one piece or less, and some
\* that fill a longer piece, fill two or end inside a second one.
Packages ==
    (UNION {[1..k -> Byte] : k \in 0..2}) \cup
    {<<"n", "newline", "backslash">>, <<"backslash", "backslash", "n", "a">>}

=============================================================================
