---------------------------- MODULE MCContainer ----------------------------
EXTENDS Container

HeaderPaths == {<<"a">>, <<".", "c">>, <<"a", "b">>, <<"..", "a">>}
MCPaths == HeaderPaths \union {<<"c">>}

\* Blobs of up to two bytes; the hash tells all blobs apart.
MCSha256(bytes) == bytes
Bytes == {<<>>, <<1>>, <<0, 1>>}

\* Directories of one or two files, in the order of their paths.
MCDirectories ==
    {<<[path |-> p, bytes |-> b]>> : p \in {<<"a">>, <<"a", "b">>}, b \in Bytes}
    \union {<<[path |-> <<"a">>, bytes |-> b], [path |-> <<"c">>, bytes |-> c]>> :
               b, c \in Bytes}

\* A length far beyond the end of any stream.
MCCells == {0, 1, 2, 9}

\* Headers of at most two entries and bodies of at most four cells, in any
\* combination, and streams that have no header.
MCHeaders ==
    BoundedSeq([path : HeaderPaths, size : 0..1, sha256 : {<<>>, <<1>>}], 2)

NoHeader == [opening : Openings \ {Opening}, header : {<<>>}, body : {<<>>, <<0>>}]

\* A hash of fewer than 16 characters, behind an entry with a whole one.
MCShortHashes == {<<77>>}
ShortHeaders ==
    {<<[path |-> <<"a">>, size |-> 1, sha256 |-> h], [path |-> <<".", "c">>, size |-> 1, sha256 |-> <<77>>]>> :
        h \in {<<1>>, <<77>>}}

MCHashes == BoundedSeq(0..2, 2) \union MCShortHashes

MCStreams ==
    NoHeader \union [opening : {Opening}, header : MCHeaders \union ShortHeaders, body : BoundedSeq(MCCells, 4)]

\* The output directory is new, or an earlier archive had a file there.
Nothing == [f \in Files |-> Absent]
MCLeftovers ==
    {Nothing, [Nothing EXCEPT ![<<"a">>] = <<2, 2>>], [Nothing EXCEPT ![<<"a", "b">>] = <<2>>]}
=============================================================================
