--------------------------- MODULE RegistryClaims ---------------------------
(***************************************************************************)
(* What the docs and comments of the registry say and its commands do not  *)
(* keep: an unforced add beside another one, or under another spelling of  *)
(* an installed name.                                                      *)
(***************************************************************************)
EXTENDS Registry

\* "Adding the same name+version with different bytes is refused unless you
\* pass --force" (docs/registry.md:15-16): an unforced add never writes an
\* index over one that lists its name and version with another hash.
UnforcedAddNeverReplaces ==
    [][\A p \in Procs :
          /\ pc[p] = "index_truncate" /\ pc'[p] = "index_fill"
          /\ cmd[p].op = "add" /\ ~cmd[p].force
          /\ IndexReadable
          => \A e \in index : KeyOf(e) = Target(p)
                              => e.sha256 = Digest(cmd[p].archive)]_vars

\* "SHA-256 (hex) of the stored archive bytes" (registry.rs:49): between
\* commands, the hash in an entry is that of the archive it leads to.
EntriesHashTheirArchives ==
    (\A p \in Procs : pc[p] = "idle") /\ IndexReadable =>
        \A e \in index : LET bytes == files[Place(KeyOf(e))] IN
                         bytes \in Archives /\ Digest(bytes) = e.sha256

=============================================================================
