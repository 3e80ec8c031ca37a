------------------------------ MODULE Signing ------------------------------
(***************************************************************************)
(* Key pairs and detached signatures (src/src/sign.rs and the keygen,      *)
(* pack, sign and verify commands of src/src/main.rs): processes that      *)
(* share a key file, a public key file, an archive and its sidecar, read   *)
(* each file at once and write it in two steps, as std::fs::write does.    *)
(*                                                                         *)
(* Signatures are symbolic: one is valid for the key it was made with and  *)
(* the bytes it was made over.  Keys are symbolic too; module Hex has the  *)
(* texts they are written as and how two of these compare.                 *)
(***************************************************************************)
EXTENDS Naturals

CONSTANTS
    Procs,
    Keys,       \* key pairs keygen can draw, each once
    OtherKeys,  \* key pairs of other signers
    Sound,      \* archives that verify finds nothing wrong with
    Damaged,    \* the content of an archive that fails verification
    Absent,     \* no file
    Empty,      \* a file between truncation and write
    NoKey, NoData,
    MaxEdits

ALGORITHM == "ed25519"

\* A sidecar: the algorithm and the signer's key it names, and what was really
\* signed with which key.
Sidecar == [algorithm : {ALGORITHM, "another"}, public_key : Keys \union OtherKeys,
            by : Keys \union OtherKeys, over : Sound]

ASSUME SigningAssumption ==
    /\ Keys \intersect OtherKeys = {}
    /\ {Absent, Empty, NoKey} \intersect (Keys \union OtherKeys) = {}
    /\ {Absent, Empty, Damaged, NoData} \intersect Sound = {}
    /\ {Absent, Empty} \intersect Sidecar = {}
    /\ Absent # Empty
    /\ MaxEdits \in Nat

VARIABLES
    key, pub, archive, sig,     \* the files
    pc, data, known,            \* of a process: next step, archive read, key held
    result,                     \* of its last command: "none", "ok" or "failed"
    drawn,                      \* keys drawn so far
    signed,                     \* history: <<key, archive>> signed by anybody
    alone,                      \* history: no two commands have overlapped
    edits                       \* edits and crashes so far

files == <<key, pub, archive, sig>>
vars == <<key, pub, archive, sig, pc, data, known, result, drawn, signed, alone, edits>>

Steps == {"idle", "fill_key", "truncate_pub", "fill_pub", "fill_archive", "sign_key",
          "truncate_sig", "fill_sig", "verify_pub", "verify_sig"}

Init ==
    /\ key = Absent /\ pub = Absent /\ archive = Absent /\ sig = Absent
    /\ pc = [p \in Procs |-> "idle"]
    /\ data = [p \in Procs |-> NoData]
    /\ known = [p \in Procs |-> NoKey]
    /\ result = [p \in Procs |-> "none"]
    /\ drawn = {}
    /\ signed = {}
    /\ alone = TRUE
    /\ edits = 0

Begin(p) == pc[p] = "idle"
Goto(p, step) == pc' = [pc EXCEPT ![p] = step] /\ result' = [result EXCEPT ![p] = "none"]
Return(p, r) == pc' = [pc EXCEPT ![p] = "idle"] /\ result' = [result EXCEPT ![p] = r]

-----------------------------------------------------------------------------
(* keygen: the private half first, then the public half.                   *)

Keygen(p) ==
    /\ Begin(p)
    /\ \E k \in Keys \ drawn :
          /\ drawn' = drawn \union {k}
          /\ known' = [known EXCEPT ![p] = k]
    /\ key' = Empty
    /\ Goto(p, "fill_key")
    /\ UNCHANGED <<pub, archive, sig, data, signed, edits>>

FillKey(p) ==
    /\ pc[p] = "fill_key"
    /\ key' = known[p]
    /\ Goto(p, "truncate_pub")
    /\ UNCHANGED <<pub, archive, sig, data, known, drawn, signed, edits>>

\* Mutant: an existing public key is left as it is.
TruncatePubOnce(p) ==
    /\ pc[p] = "truncate_pub"
    /\ IF pub = Absent
       THEN pub' = Empty /\ Goto(p, "fill_pub")
       ELSE Return(p, "ok") /\ UNCHANGED pub
    /\ UNCHANGED <<key, archive, sig, data, known, drawn, signed, edits>>

TruncatePub(p) ==
    /\ pc[p] = "truncate_pub"
    /\ pub' = Empty
    /\ Goto(p, "fill_pub")
    /\ UNCHANGED <<key, archive, sig, data, known, drawn, signed, edits>>

FillPub(p) ==
    /\ pc[p] = "fill_pub"
    /\ pub' = known[p]
    /\ Return(p, "ok")
    /\ UNCHANGED <<key, archive, sig, data, known, drawn, signed, edits>>

-----------------------------------------------------------------------------
(* pack, over whatever archive is there.                                   *)

Pack(p) ==
    /\ Begin(p)
    /\ \E a \in Sound : data' = [data EXCEPT ![p] = a]
    /\ archive' = Empty
    /\ Goto(p, "fill_archive")
    /\ UNCHANGED <<key, pub, sig, known, drawn, signed, edits>>

\* Over bytes another pack has written meanwhile, a longer tail of them stays.
FillArchive(p) ==
    /\ pc[p] = "fill_archive"
    /\ archive' \in {data[p]} \union (IF archive \in {Empty, data[p]} THEN {} ELSE {Damaged})
    /\ Return(p, "ok")
    /\ UNCHANGED <<key, pub, sig, data, known, drawn, signed, edits>>

-----------------------------------------------------------------------------
(* sign.                                                                   *)

\* The archive is read and verified before the key is looked at.
Sign(p) ==
    /\ Begin(p)
    /\ IF archive \in Sound
       THEN data' = [data EXCEPT ![p] = archive] /\ Goto(p, "sign_key")
       ELSE Return(p, "failed") /\ UNCHANGED data
    /\ UNCHANGED <<files, known, drawn, signed, edits>>

SignReadKey(p) ==
    /\ pc[p] = "sign_key"
    /\ IF key \in Keys
       THEN /\ known' = [known EXCEPT ![p] = key]
            /\ signed' = signed \union {<<key, data[p]>>}
            /\ Goto(p, "truncate_sig")
       ELSE Return(p, "failed") /\ UNCHANGED <<known, signed>>
    /\ UNCHANGED <<files, data, drawn, edits>>

TruncateSig(p) ==
    /\ pc[p] = "truncate_sig"
    /\ sig' = Empty
    /\ Goto(p, "fill_sig")
    /\ UNCHANGED <<key, pub, archive, data, known, drawn, signed, edits>>

FillSig(p) ==
    /\ pc[p] = "fill_sig"
    /\ sig' = [algorithm |-> ALGORITHM, public_key |-> known[p],
               by |-> known[p], over |-> data[p]]
    /\ Return(p, "ok")
    /\ UNCHANGED <<key, pub, archive, data, known, drawn, signed, edits>>

-----------------------------------------------------------------------------
(* verify, without a key and with --pubkey.                                *)

\* Only the archive is read; a sidecar beside it does not matter.
VerifyUnpinned(p) ==
    /\ Begin(p)
    /\ Return(p, IF archive \in Sound THEN "ok" ELSE "failed")
    /\ UNCHANGED <<files, data, known, drawn, signed, edits>>

Verify(p) ==
    /\ Begin(p)
    /\ IF archive \in Sound
       THEN data' = [data EXCEPT ![p] = archive] /\ Goto(p, "verify_pub")
       ELSE Return(p, "failed") /\ UNCHANGED data
    /\ UNCHANGED <<files, known, drawn, signed, edits>>

\* Any text will do for a key here; an empty one equals no signer's.
VerifyReadPub(p) ==
    /\ pc[p] = "verify_pub"
    /\ IF pub # Absent
       THEN known' = [known EXCEPT ![p] = pub] /\ Goto(p, "verify_sig")
       ELSE Return(p, "failed") /\ UNCHANGED known
    /\ UNCHANGED <<files, data, drawn, signed, edits>>

\* Mutant: the sidecar's own key is believed.
AcceptsAnyKey(s, pinned, bytes) ==
    s.algorithm = ALGORITHM /\ s.by = s.public_key /\ s.over = bytes

\* SignatureFile::verify: the key pinned, then the signature over the bytes.
Accepts(s, pinned, bytes) ==
    /\ s.algorithm = ALGORITHM
    /\ s.public_key = pinned
    /\ s.by = s.public_key /\ s.over = bytes

VerifyReadSig(p) ==
    /\ pc[p] = "verify_sig"
    /\ Return(p, IF sig \in Sidecar /\ Accepts(sig, known[p], data[p]) THEN "ok" ELSE "failed")
    /\ UNCHANGED <<files, data, known, drawn, signed, edits>>

-----------------------------------------------------------------------------
(* Others.                                                                 *)

\* The archive is rewritten in place, with another build or a damaged copy, or
\* its sidecar, which may name any algorithm and key with any signature that
\* others can make or that was made before.
Edit ==
    /\ edits < MaxEdits
    /\ edits' = edits + 1
    /\ \/ /\ archive' \in Sound \union {Damaged}
          /\ UNCHANGED <<sig, signed>>
       \/ /\ \E s \in Sidecar :
                /\ s.by \in OtherKeys \/ <<s.by, s.over>> \in signed
                /\ sig' = s
                /\ signed' = signed \union {<<s.by, s.over>>}
          /\ UNCHANGED archive
    /\ UNCHANGED <<key, pub, pc, data, known, result, drawn>>

\* A process is killed; what it has written stays.
Crash(p) ==
    /\ ~Begin(p)
    /\ edits < MaxEdits
    /\ edits' = edits + 1
    /\ Goto(p, "idle")
    /\ UNCHANGED <<files, data, known, drawn, signed>>

Start(p) == Keygen(p) \/ Pack(p) \/ Sign(p) \/ VerifyUnpinned(p) \/ Verify(p)

Continue(p) ==
    \/ FillKey(p) \/ TruncatePub(p) \/ FillPub(p) \/ FillArchive(p)
    \/ SignReadKey(p) \/ TruncateSig(p) \/ FillSig(p)
    \/ VerifyReadPub(p) \/ VerifyReadSig(p)

AtRest == \A p \in Procs : pc[p] = "idle"

Next ==
    \/ Edit /\ UNCHANGED alone
    \/ \E p \in Procs :
          \/ Start(p) /\ alone' = (alone /\ AtRest)
          \/ (Continue(p) \/ Crash(p)) /\ UNCHANGED alone

Spec == Init /\ [][Next]_vars

-----------------------------------------------------------------------------
(* Correctness.                                                            *)

\* When verify --pubkey succeeds, the archive it has read was signed, as it
\* is, with the key it has read, and passes verify, whatever was rebuilt,
\* signed again, edited or generated between its three reads
\* (docs/signing.md: "All three must hold"; main.rs:210-256, sign.rs:128-146).
VerifiedWasSigned ==
    [][\A p \in Procs :
          pc[p] = "verify_sig" /\ result'[p] = "ok"
              => <<known[p], data[p]>> \in signed /\ data[p] \in Sound]_vars

\* Commands that are not killed and do not overlap leave the two halves of one
\* pair in the key files ("Write a keypair to `<dir>/<name>.key` (private) and
\* `<dir>/<name>.pub` (public)", sign.rs:166-179).
PairsWhole == AtRest /\ alone /\ edits = 0 => key = pub
=============================================================================
