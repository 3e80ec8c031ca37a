----------------------------- MODULE Container ------------------------------
(***************************************************************************)
(* The .skillpack container of src/src/lib.rs: the stream written for a    *)
(* directory, and a stream that may be anything decoded, verified, and     *)
(* unpacked file by file into a directory that may hold files already.     *)
(*                                                                         *)
(* A stream starts with the parts of Opening, as many as it has whole; after *)
(* them comes a sequence of cells, where a length field and a byte of a    *)
(* blob take one cell each.                                                *)
(***************************************************************************)
EXTENDS Naturals, Sequences, FiniteSets, SequencesExt

CONSTANTS
    Cells,          \* values of a cell, numbers
    Paths,          \* paths a header may name, as sequences of components
    Sha256(_),      \* hash of a blob
    Directories,    \* skill directories packed, as sequences of [path, bytes]
    Streams,        \* other streams, as [opening, header, body]
    Hashes,         \* what a header may have as a hash
    ShortHashes,    \* those of them with no 16th character
    Leftovers,      \* what the output directory may hold before unpack
    Absent          \* no file

Blob == Seq(Cells)

MAGIC == "SKILLPAK"
FORMAT_VERSION == "1"

\* The magic bytes, the format version, and a header in JSON (behind its
\* length) that mirrors the format version.
Opening == <<MAGIC, FORMAT_VERSION, FORMAT_VERSION>>
Openings == {<<>>} \union {SubSeq(f, 1, k) :
             f \in {MAGIC, "other"} \X {FORMAT_VERSION, "2"} \X {FORMAT_VERSION, "2", "not_json"},
             k \in 1..3}

\* How far read_header gets: to a header, or to an error.
Intros == {"ok", "truncated", "bad_magic", "unsupported_version", "bad_json"}

\* Mutant: the version before the header is not looked at.
ParsedAnyVersion(opening) ==
    LET right == {k \in 1..3 : \A j \in 1..k : j <= Len(opening) /\ (j = 2 \/ opening[j] = Opening[j])}
        k == Cardinality(right) + 1
    IN  IF k > Len(opening) THEN IF k = 4 THEN "ok" ELSE "truncated"
        ELSE IF k = 1 THEN "bad_magic"
        ELSE IF opening[k] = "not_json" THEN "bad_json" ELSE "unsupported_version"

\* The first part that is missing or wrong decides.
Parsed(opening) ==
    LET right == {k \in 1..3 : \A j \in 1..k : j <= Len(opening) /\ opening[j] = Opening[j]}
        k == Cardinality(right) + 1
    IN  IF k > Len(opening) THEN IF k = 4 THEN "ok" ELSE "truncated"
        ELSE IF k = 1 THEN "bad_magic"
        ELSE IF opening[k] = "not_json" THEN "bad_json" ELSE "unsupported_version"

\* safe_relative: "." is dropped; "..", a root and an empty path are refused.
Unsafe == <<>>

SafeRelative(path) ==
    IF \E k \in DOMAIN path : path[k] \in {"..", "/"}
    THEN Unsafe
    ELSE SelectSeq(path, LAMBDA c : c # ".")

\* Where files can be written, below the output directory.
Files == {SafeRelative(p) : p \in Paths} \ {Unsafe}

\* The directories a file lies in.
Ancestors(file) == {SubSeq(file, 1, k) : k \in 1..Len(file) - 1}

\* Mutant: blobs go out in another order than their entries.
EncodeReversed(bytes) ==
    FlattenSeq(Reverse([k \in DOMAIN bytes |-> <<Len(bytes[k])>> \o bytes[k]]))

\* serialize: every blob behind its length.
Encode(bytes) == FlattenSeq([k \in DOMAIN bytes |-> <<Len(bytes[k])>> \o bytes[k]])

\* The stream pack writes for a directory.
Packed(dir) ==
    [opening |-> Opening,
     header |-> [k \in DOMAIN dir |->
                    [path |-> dir[k].path, size |-> Len(dir[k].bytes),
                     sha256 |-> Sha256(dir[k].bytes)]],
     body |-> Encode([k \in DOMAIN dir |-> dir[k].bytes])]

Stream == [opening : Openings,
           header : Seq([path : Paths, size : Nat, sha256 : Hashes]),
           body : Seq(Cells)]

ASSUME ContainerAssumption ==
    /\ Cells \subseteq Nat
    /\ Absent \notin Blob
    /\ ShortHashes \subseteq Hashes
    /\ Streams \subseteq Stream
    /\ \A dir \in Directories : Packed(dir) \in Stream
    /\ Files \subseteq Seq(STRING)
    /\ Leftovers \subseteq [Files -> Blob \union {Absent}]

\* A skill directory has each path once, below itself.
ASSUME DirectoryAssumption ==
    \A dir \in Directories :
        /\ dir \in Seq([path : Paths, bytes : Blob])
        /\ \A k \in DOMAIN dir : SafeRelative(dir[k].path) = dir[k].path /\ dir[k].path # Unsafe
        /\ \A j, k \in DOMAIN dir : dir[j].path = dir[k].path => j = k

\* A hash that was computed has all its characters.
ASSUME HashAssumption ==
    \A bytes \in {s.body : s \in Streams \union {Packed(dir) : dir \in Directories}} :
        \A i \in 1..Len(bytes) + 1, j \in 0..Len(bytes) : Sha256(SubSeq(bytes, i, j)) \notin ShortHashes

-----------------------------------------------------------------------------
VARIABLES
    archive,    \* the bytes of the archive file, read at once
    command,    \* "verify", "unpack" or "info"
    phase,      \* "header", "blobs", "check", "write", "creating", "list", "done"
    pos,        \* cells of the body consumed
    blobs,      \* blobs decoded
    n,          \* header entry checked, written or listed next
    problems,   \* entries verify has found wrong
    out,        \* files under the output directory of unpack
    dirs,       \* directories under it
    outcome     \* "none", "ok", "failed" (verify found problems) or the error;
                \* "write_failed" is the Io error of a full disk, "panic" no
                \* error but the end of the process

vars == <<archive, command, phase, pos, blobs, n, problems, out, dirs, outcome>>

header == archive.header
body == archive.body

Init ==
    /\ archive \in Streams \union {Packed(dir) : dir \in Directories}
    /\ command \in {"verify", "unpack", "info"}
    /\ phase = "header"
    /\ pos = 0
    /\ blobs = <<>>
    /\ n = 1
    /\ problems = {}
    /\ out \in IF command = "unpack" THEN Leftovers ELSE {[f \in Files |-> Absent]}
    /\ dirs = UNION {Ancestors(f) : f \in {g \in Files : out[g] # Absent}}
    /\ outcome = "none"

Stop(result) ==
    /\ phase' = "done"
    /\ outcome' = result

\* read_header.
ReadHeader ==
    /\ phase = "header"
    /\ IF Parsed(archive.opening) = "ok"
       THEN phase' = (IF command = "info" THEN "list" ELSE "blobs") /\ UNCHANGED outcome
       ELSE Stop(Parsed(archive.opening))
    /\ UNCHANGED <<archive, command, pos, blobs, n, problems, out, dirs>>

\* take(data, pos, count) finds too few cells left.
Short(from, count) == from + count > Len(body)

Entry == Len(blobs) + 1
BlobLen == body[pos + 1]

\* Mutant: the size in the header is not compared.
ReadBlobAnySize ==
    /\ phase = "blobs"
    /\ Entry <= Len(header)
    /\ IF Short(pos, 1) \/ Short(pos + 1, BlobLen)
       THEN Stop("truncated") /\ UNCHANGED <<pos, blobs>>
       ELSE /\ blobs' = Append(blobs, SubSeq(body, pos + 2, pos + 1 + BlobLen))
            /\ pos' = pos + 1 + BlobLen
            /\ UNCHANGED <<phase, outcome>>
    /\ UNCHANGED <<archive, command, n, problems, out, dirs>>

\* One turn of read_archive's loop: a length, a blob, the size in the header.
ReadBlob ==
    /\ phase = "blobs"
    /\ Entry <= Len(header)
    /\ IF Short(pos, 1) \/ Short(pos + 1, BlobLen)
       THEN Stop("truncated") /\ UNCHANGED <<pos, blobs>>
       ELSE IF BlobLen # header[Entry].size
            THEN Stop("size_mismatch") /\ UNCHANGED <<pos, blobs>>
            ELSE /\ blobs' = Append(blobs, SubSeq(body, pos + 2, pos + 1 + BlobLen))
                 /\ pos' = pos + 1 + BlobLen
                 /\ UNCHANGED <<phase, outcome>>
    /\ UNCHANGED <<archive, command, n, problems, out, dirs>>

\* All blobs are read; nothing may follow them.
Decoded ==
    /\ phase = "blobs"
    /\ Entry > Len(header)
    /\ IF pos # Len(body)
       THEN Stop("trailing")
       ELSE /\ phase' = IF command = "verify" THEN "check" ELSE "write"
            /\ UNCHANGED outcome
    /\ UNCHANGED <<archive, command, pos, blobs, n, problems, out, dirs>>

-----------------------------------------------------------------------------
(* verify.                                                                 *)

HashMatches(k) == Sha256(blobs[k]) = header[k].sha256

CheckBlob ==
    /\ phase = "check"
    /\ n <= Len(header)
    /\ problems' = IF HashMatches(n) THEN problems ELSE problems \union {n}
    /\ n' = n + 1
    /\ UNCHANGED <<archive, command, phase, pos, blobs, out, dirs, outcome>>

Report ==
    /\ phase = "check"
    /\ n > Len(header)
    /\ Stop(IF problems = {} THEN "ok" ELSE "failed")
    /\ UNCHANGED <<archive, command, pos, blobs, n, problems, out, dirs>>

-----------------------------------------------------------------------------
(* unpack_to.                                                              *)

Dest == SafeRelative(header[n].path)

\* create_dir_all or File::create fails: a file or a directory is in the way.
Blocked(file) ==
    \/ file \in dirs
    \/ \E d \in Ancestors(file) \intersect Files : out[d] # Absent

\* Mutant: the hash is not looked at.
CreateFileUnchecked ==
    /\ phase = "write"
    /\ n <= Len(header)
    /\ IF Dest = Unsafe
       THEN Stop("unsafe_path") /\ UNCHANGED <<out, dirs>>
       ELSE IF Blocked(Dest)
            THEN Stop("io_error") /\ UNCHANGED <<out, dirs>>
            ELSE /\ dirs' = dirs \union Ancestors(Dest)
                 /\ out' = [out EXCEPT ![Dest] = <<>>]
                 /\ phase' = "creating"
                 /\ UNCHANGED outcome
    /\ UNCHANGED <<archive, command, pos, blobs, n, problems>>

\* The hash, then the path, then the directories and the file, still empty.
CreateFile ==
    /\ phase = "write"
    /\ n <= Len(header)
    /\ IF ~HashMatches(n)
       THEN Stop("hash_mismatch") /\ UNCHANGED <<out, dirs>>
       ELSE IF Dest = Unsafe
            THEN Stop("unsafe_path") /\ UNCHANGED <<out, dirs>>
            ELSE IF Blocked(Dest)
                 THEN Stop("io_error") /\ UNCHANGED <<out, dirs>>
                 ELSE /\ dirs' = dirs \union Ancestors(Dest)
                      /\ out' = [out EXCEPT ![Dest] = <<>>]
                      /\ phase' = "creating"
                      /\ UNCHANGED outcome
    /\ UNCHANGED <<archive, command, pos, blobs, n, problems>>

\* Mutant: a part of the blob passes for the whole.
WriteFileShort ==
    /\ phase = "creating"
    /\ \E k \in 0..Len(blobs[n]) : out' = [out EXCEPT ![Dest] = SubSeq(blobs[n], 1, k)]
    /\ n' = n + 1
    /\ phase' = "write"
    /\ UNCHANGED <<archive, command, pos, blobs, problems, dirs, outcome>>

\* write_all: the whole blob, or a part of it and an error.
WriteFile ==
    /\ phase = "creating"
    /\ \/ /\ out' = [out EXCEPT ![Dest] = blobs[n]]
          /\ n' = n + 1
          /\ phase' = "write"
          /\ UNCHANGED outcome
       \/ /\ \E k \in 0..Len(blobs[n]) - 1 : out' = [out EXCEPT ![Dest] = SubSeq(blobs[n], 1, k)]
          /\ Stop("write_failed")
          /\ UNCHANGED n
    /\ UNCHANGED <<archive, command, pos, blobs, problems, dirs>>

Unpacked ==
    /\ phase = "write"
    /\ n > Len(header)
    /\ Stop("ok")
    /\ UNCHANGED <<archive, command, pos, blobs, n, problems, out, dirs>>

-----------------------------------------------------------------------------
(* info, which looks at nothing but the header.                            *)

\* It cuts every hash to its first 16 characters.
ListEntry ==
    /\ phase = "list"
    /\ n <= Len(header)
    /\ IF header[n].sha256 \in ShortHashes
       THEN Stop("panic") /\ UNCHANGED n
       ELSE n' = n + 1 /\ UNCHANGED <<phase, outcome>>
    /\ UNCHANGED <<archive, command, pos, blobs, problems, out, dirs>>

Listed ==
    /\ phase = "list"
    /\ n > Len(header)
    /\ Stop("ok")
    /\ UNCHANGED <<archive, command, pos, blobs, n, problems, out, dirs>>

-----------------------------------------------------------------------------
Next ==
    \/ ReadHeader \/ ReadBlob \/ Decoded
    \/ CheckBlob \/ Report
    \/ CreateFile \/ WriteFile \/ Unpacked
    \/ ListEntry \/ Listed

Spec == Init /\ [][Next]_vars
-----------------------------------------------------------------------------
(* Correctness.                                                            *)

\* Where each blob must begin, and the last one end, if the sizes in the
\* header are right: the reference the sequential decoding is held against.
OffsetsOf(entries) ==
    LET at[k \in 1..Len(entries) + 1] ==
            IF k = 1 THEN 0 ELSE at[k - 1] + 1 + entries[k - 1].size
    IN  at

Offset == OffsetsOf(header)

BlobAt(k) == SubSeq(body, Offset[k] + 2, Offset[k] + 1 + header[k].size)

WellFormed ==
    /\ archive.opening = Opening
    /\ Len(body) = Offset[Len(header) + 1]
    /\ \A k \in DOMAIN header : body[Offset[k] + 1] = header[k].size

Decoding == phase \in {"header", "blobs"} \/ command = "info"
Undecodable == outcome \in (Intros \ {"ok"}) \union {"size_mismatch", "trailing"}

\* A stream is decoded exactly if its blobs fill it to the last cell with
\* the sizes the header gives, and then into the blobs found where these
\* sizes put them (read_archive, lib.rs:329-363).
DecodesTheWellFormed ==
    ~Decoding =>
        /\ Undecodable <=> ~WellFormed
        /\ ~Undecodable => blobs = [k \in DOMAIN header |-> BlobAt(k)]

TheirDest(k) == SafeRelative(header[k].path)

\* Unpack puts bytes in a file only for an entry whose hash they have, after
\* all entries before it had theirs, and a rejected path or a path outside
\* the output directory is never written (unpack_to, lib.rs:420-443: "Hashes
\* are verified as files are written").
OnlyVerifiedIsWritten ==
    [][\A f \in Files :
          out'[f] # out[f] =>
              \E k \in DOMAIN header :
                  /\ \A j \in 1..k : /\ HashMatches(j)
                                     /\ ".." \notin ToSet(header[j].path)
                  /\ f = TheirDest(k)
                  /\ IsPrefix(out'[f], blobs[k])]_vars

\* No entry needs a directory where another one, or an earlier unpack, has
\* a file.
Disjoint ==
    /\ \A j, k \in DOMAIN header : TheirDest(j) \notin Ancestors(TheirDest(k))
    /\ \A k \in DOMAIN header : \A f \in Files :
          out[f] # Absent => f \notin Ancestors(TheirDest(k)) /\ TheirDest(k) \notin Ancestors(f)

Intact ==
    WellFormed /\ \A k \in DOMAIN header : Sha256(BlobAt(k)) = header[k].sha256

Usable ==
    Intact /\ Disjoint /\ \A k \in DOMAIN header : TheirDest(k) # Unsafe

\* verify finds no problem exactly if every blob of a well-formed stream has
\* its hash; unpack succeeds exactly if also every path is usable, unless the
\* disk is full, and then every file is there whole, with the bytes of the
\* last entry that names it (lib.rs:392-443).  info reads a header without
\* the blobs, and is safe on every archive that verifies (main.rs:275 takes
\* 16 characters of a hash nothing has checked).
OutcomeIsExact ==
    phase = "done" =>
        /\ command = "info" /\ Intact => outcome = "ok"
        /\ command = "verify" => (outcome = "ok" <=> Intact)
        /\ command = "unpack" /\ outcome # "write_failed" => (outcome = "ok" <=> Usable)
        /\ command = "unpack" /\ outcome = "ok" =>
              \A k \in DOMAIN header :
                  (\A j \in k + 1..Len(header) : TheirDest(j) # TheirDest(k))
                  => out[TheirDest(k)] = BlobAt(k)

\* What pack writes is a valid archive: verify finds nothing wrong with it,
\* unpack does not reject it, and if nothing is in the way gives back every
\* file with its bytes (lib.rs:207-258, 278-290, 392-443).
RoundTrip ==
    \A dir \in Directories :
        archive = Packed(dir) /\ phase = "done" =>
            /\ command \in {"verify", "info"} => outcome = "ok"
            /\ command = "unpack" /\ outcome = "ok" =>
                  \A k \in DOMAIN dir : out[dir[k].path] = dir[k].bytes
            /\ ~Undecodable /\ outcome # "hash_mismatch" /\ outcome # "unsafe_path"
=============================================================================
