--------------------------- MODULE SigningProofs ---------------------------
(***************************************************************************)
(* Proof that a successful verify means the archive was signed, for any    *)
(* number of processes, key pairs, archives and edits; and why keys may be *)
(* symbols there: the text of a key determines it, and two texts compare   *)
(* equal exactly if they are of one key.                                   *)
(***************************************************************************)
EXTENDS Signing, Hex, TLAPS

TypeInv ==
    /\ key \in Keys \union {Absent, Empty}
    /\ pub \in Keys \union {Absent, Empty}
    /\ pc \in [Procs -> Steps]
    /\ data \in [Procs -> Sound \union {NoData}]
    /\ known \in [Procs -> Keys \union {NoKey, Empty}]
    /\ result \in [Procs -> {"none", "ok", "failed"}]

\* A sidecar on disk was signed as it says.
SidecarSigned == sig \in Sidecar => <<sig.by, sig.over>> \in signed

Signer(p) == pc[p] \in {"truncate_sig", "fill_sig"}
Reader(p) == pc[p] \in {"sign_key", "truncate_sig", "fill_sig", "verify_pub", "verify_sig"}

\* What a process in the middle of a command holds.
HoldsSigned ==
    \A p \in Procs :
        /\ Signer(p) => <<known[p], data[p]>> \in signed
        /\ Reader(p) => data[p] \in Sound
        /\ pc[p] \in {"fill_key", "truncate_pub", "fill_pub"} => known[p] \in Keys
        /\ pc[p] # "idle" => result[p] = "none"

SignInv == TypeInv /\ SidecarSigned /\ HoldsSigned

\* The starting state has no sidecar and no command under way.
LEMMA SignInit == Init => SignInv
BY SigningAssumption DEF SigningAssumption, Init, SignInv, TypeInv, SidecarSigned, HoldsSigned,
   Signer, Reader, Sidecar, Steps

\* Every step of every command, every edit and every crash keeps it.
LEMMA SignStep == SignInv /\ [Next]_vars => SignInv'
<1> SUFFICES ASSUME SignInv, [Next]_vars PROVE SignInv'
    OBVIOUS
<1> USE SigningAssumption DEF SigningAssumption, SignInv, Steps
<1>1. CASE UNCHANGED vars
    BY <1>1 DEF vars, TypeInv, SidecarSigned, HoldsSigned, Signer, Reader
<1>2. CASE Edit
    <2>1. TypeInv'
        BY <1>2 DEF Edit, TypeInv
    <2>2. SidecarSigned'
        BY <1>2 DEF Edit, SidecarSigned, Sidecar
    <2>3. HoldsSigned'
        BY <1>2 DEF Edit, HoldsSigned, Signer, Reader
    <2> QED BY <2>1, <2>2, <2>3
<1>3. ASSUME NEW p \in Procs, Start(p) \/ Continue(p) \/ Crash(p) PROVE SignInv'
    <2> USE DEF Goto, Return, Begin, files
    <2>1. CASE Keygen(p)
        BY <2>1 DEF Keygen, TypeInv, SidecarSigned, HoldsSigned, Signer, Reader
    <2>2. CASE FillKey(p)
        BY <2>2 DEF FillKey, TypeInv, SidecarSigned, HoldsSigned, Signer, Reader
    <2>3. CASE TruncatePub(p)
        BY <2>3 DEF TruncatePub, TypeInv, SidecarSigned, HoldsSigned, Signer, Reader
    <2>4. CASE FillPub(p)
        BY <2>4 DEF FillPub, TypeInv, SidecarSigned, HoldsSigned, Signer, Reader
    <2>5. CASE Pack(p)
        BY <2>5 DEF Pack, TypeInv, SidecarSigned, HoldsSigned, Signer, Reader
    <2>6. CASE FillArchive(p)
        BY <2>6 DEF FillArchive, TypeInv, SidecarSigned, HoldsSigned, Signer, Reader
    <2>7. CASE Sign(p)
        BY <2>7 DEF Sign, TypeInv, SidecarSigned, HoldsSigned, Signer, Reader
    <2>8. CASE SignReadKey(p)
        <3>1. TypeInv'
            BY <2>8 DEF SignReadKey, TypeInv
        <3>2. SidecarSigned'
            BY <2>8 DEF SignReadKey, SidecarSigned
        <3>3. HoldsSigned'
            <4>1. CASE key \in Keys
                <5>1. /\ known' = [known EXCEPT ![p] = key]
                      /\ signed' = signed \union {<<key, data[p]>>}
                      /\ pc' = [pc EXCEPT ![p] = "truncate_sig"]
                      /\ result' = [result EXCEPT ![p] = "none"]
                      /\ data' = data /\ pc[p] = "sign_key"
                    BY <2>8, <4>1 DEF SignReadKey
                <5>2. ASSUME NEW q \in Procs, q # p
                      PROVE  pc'[q] = pc[q] /\ known'[q] = known[q] /\ result'[q] = result[q]
                    BY <5>1, <5>2 DEF TypeInv
                <5>3. pc'[p] = "truncate_sig" /\ known'[p] = key /\ result'[p] = "none"
                    BY <5>1 DEF TypeInv
                <5>4. ASSUME NEW q \in Procs, q # p
                      PROVE  /\ Signer(q)' => <<known'[q], data'[q]>> \in signed'
                             /\ Reader(q)' => data'[q] \in Sound
                             /\ pc'[q] \in {"fill_key", "truncate_pub", "fill_pub"} => known'[q] \in Keys
                             /\ pc'[q] # "idle" => result'[q] = "none"
                    BY <5>1, <5>2, <5>4 DEF HoldsSigned, Signer, Reader
                <5>5. <<known'[p], data'[p]>> \in signed' /\ data'[p] \in Sound
                    <6>1. data[p] \in Sound
                        BY <5>1 DEF HoldsSigned, Reader
                    <6>2. known'[p] = key /\ data'[p] = data[p]
                        BY <5>1, <5>3
                    <6>3. <<key, data[p]>> \in signed'
                        BY <5>1
                    <6> QED BY <6>1, <6>2, <6>3
                <5> QED BY <5>3, <5>4, <5>5 DEF HoldsSigned, Signer, Reader
            <4>2. CASE key \notin Keys
                BY <2>8, <4>2 DEF SignReadKey, TypeInv, HoldsSigned, Signer, Reader
            <4> QED BY <4>1, <4>2
        <3> QED BY <3>1, <3>2, <3>3
    <2>9. CASE TruncateSig(p)
        <3>1. SidecarSigned'
            BY <2>9 DEF TruncateSig, SidecarSigned, Sidecar
        <3> QED BY <2>9, <3>1 DEF TruncateSig, TypeInv, HoldsSigned, Signer, Reader
    <2>10. CASE FillSig(p)
        <3>1. SidecarSigned'
            BY <2>10 DEF FillSig, SidecarSigned, HoldsSigned, Signer
        <3> QED BY <2>10, <3>1 DEF FillSig, TypeInv, HoldsSigned, Signer, Reader
    <2>11. CASE Verify(p)
        BY <2>11 DEF Verify, TypeInv, SidecarSigned, HoldsSigned, Signer, Reader
    <2>15. CASE VerifyUnpinned(p)
        <3>1. PICK r \in {"ok", "failed"} : Return(p, r)
            BY <2>15 DEF VerifyUnpinned
        <3> QED BY <2>15, <3>1 DEF VerifyUnpinned, TypeInv, SidecarSigned, HoldsSigned, Signer, Reader
    <2>12. CASE VerifyReadPub(p)
        <3>1. TypeInv' /\ SidecarSigned'
            BY <2>12 DEF VerifyReadPub, TypeInv, SidecarSigned
        <3>2. PICK s \in {"verify_sig", "idle"} : pc' = [pc EXCEPT ![p] = s]
            BY <2>12 DEF VerifyReadPub
        <3>3. /\ data' = data /\ signed' = signed /\ pc[p] = "verify_pub"
              /\ \A q \in Procs : q # p => known'[q] = known[q] /\ result'[q] = result[q]
              /\ pc'[p] # "idle" => result'[p] = "none"
            BY <2>12 DEF VerifyReadPub, TypeInv
        <3>4. \A q \in Procs : pc'[q] = IF q = p THEN s ELSE pc[q]
            BY <3>2 DEF TypeInv
        <3>5. HoldsSigned'
            BY <3>3, <3>4 DEF HoldsSigned, Signer, Reader
        <3> QED BY <3>1, <3>5
    <2>13. CASE VerifyReadSig(p)
        <3>1. PICK r \in {"ok", "failed"} : Return(p, r)
            BY <2>13 DEF VerifyReadSig
        <3>2. UNCHANGED <<files, data, known, drawn, signed, edits>>
            BY <2>13 DEF VerifyReadSig
        <3>3. TypeInv' /\ SidecarSigned'
            BY <3>1, <3>2 DEF TypeInv, SidecarSigned
        <3>4. \A q \in Procs : pc'[q] = IF q = p THEN "idle" ELSE pc[q]
            BY <3>1 DEF TypeInv
        <3>5. \A q \in Procs : q # p => result'[q] = result[q]
            BY <3>1 DEF TypeInv
        <3>6. HoldsSigned'
            BY <3>2, <3>4, <3>5 DEF HoldsSigned, Signer, Reader
        <3> QED BY <3>3, <3>6
    <2>14. CASE Crash(p)
        BY <2>14 DEF Crash, TypeInv, SidecarSigned, HoldsSigned, Signer, Reader
    <2> QED
        BY <1>3, <2>1, <2>2, <2>3, <2>4, <2>5, <2>6, <2>7, <2>8, <2>9, <2>10, <2>11,
           <2>12, <2>13, <2>14, <2>15 DEF Start, Continue
<1> QED BY <1>1, <1>2, <1>3 DEF Next

\* Types, and what is known of sidecars and of processes, in every state.
LEMMA SignInvariant == Spec => []SignInv
<1>1. Init => SignInv
    BY SignInit
<1>2. SignInv /\ [Next]_vars => SignInv'
    BY SignStep
<1> QED BY <1>1, <1>2, PTL DEF Spec

\* A process that returns from its last read with success has compared the
\* sidecar with the archive and the key it read before.
LEMMA AcceptedWasSigned ==
    ASSUME SignInv, [Next]_vars,
           NEW p \in Procs, pc[p] = "verify_sig", result'[p] = "ok"
    PROVE  <<known[p], data[p]>> \in signed /\ data[p] \in Sound
<1> USE DEF SignInv
<1>1. result[p] = "none" /\ data[p] \in Sound
    BY DEF HoldsSigned, Reader
<1>2. CASE VerifyReadSig(p)
    <2>1. sig \in Sidecar /\ Accepts(sig, known[p], data[p])
        BY <1>2 DEF VerifyReadSig, Return, TypeInv
    <2> QED BY <1>1, <2>1 DEF SidecarSigned, Accepts
<1>3. ASSUME NEW q \in Procs, q # p, Start(q) \/ Continue(q) \/ Crash(q)
      PROVE  result'[p] = "none"
    <2>1. PICK r \in {"none", "ok", "failed"} : result' = [result EXCEPT ![q] = r]
        BY <1>3 DEF Start, Continue, Crash, Keygen, FillKey, TruncatePub, FillPub, Pack,
           FillArchive, Sign, SignReadKey, TruncateSig, FillSig, VerifyUnpinned, Verify, VerifyReadPub,
           VerifyReadSig, Goto, Return
    <2> QED BY <1>1, <1>3, <2>1 DEF TypeInv
<1>4. CASE Crash(p)
    BY <1>4 DEF Crash, Goto, TypeInv
<1>5. ASSUME Start(p) \/ Continue(p) PROVE VerifyReadSig(p)
    BY <1>5 DEF Start, Continue, Begin, Keygen, FillKey, TruncatePub, FillPub, Pack,
       FillArchive, Sign, SignReadKey, TruncateSig, FillSig, VerifyUnpinned, Verify, VerifyReadPub
<1>6. CASE UNCHANGED result
    BY <1>1, <1>6
<1> QED BY <1>2, <1>3, <1>4, <1>5, <1>6 DEF Next, Edit, vars

\* A verify that succeeds has read an archive that passes verification and
\* was signed with the key it was given, whatever happened between its reads.
THEOREM SuccessMeansSigned == Spec => VerifiedWasSigned
<1>1. SignInv /\ [Next]_vars =>
          [\A p \in Procs :
              pc[p] = "verify_sig" /\ result'[p] = "ok"
                  => <<known[p], data[p]>> \in signed /\ data[p] \in Sound]_vars
    BY AcceptedWasSigned
<1> QED BY <1>1, SignInvariant, PTL DEF Spec, VerifiedWasSigned

-----------------------------------------------------------------------------
(* Key pairs.                                                              *)

Generating(p) == pc[p] \in {"fill_key", "truncate_pub", "fill_pub"}

\* As long as commands run one after the other and none is killed, the two
\* files differ only while a keygen is between them, and the private half is
\* then that of the pair it holds.
PairInv ==
    /\ edits \in Nat
    /\ alone /\ edits = 0 =>
          /\ \A p, q \in Procs : pc[p] # "idle" /\ pc[q] # "idle" => p = q
          /\ (\A p \in Procs : ~Generating(p)) => key = pub
          /\ \A p \in Procs : pc[p] \in {"truncate_pub", "fill_pub"} => key = known[p]

\* A step of one process, for the proof of the three conjuncts.
LEMMA PairStep == SignInv /\ PairInv /\ [Next]_vars => PairInv'
<1> SUFFICES ASSUME SignInv, PairInv, [Next]_vars PROVE PairInv'
    OBVIOUS
<1> USE DEF SignInv, Steps
<1>1. CASE UNCHANGED vars
    BY <1>1 DEF vars, PairInv, Generating
<1>2. CASE Edit
    BY <1>2 DEF Edit, PairInv
<1>3. ASSUME NEW p \in Procs, Crash(p) PROVE PairInv'
    BY <1>3 DEF Crash, PairInv
<1>4. ASSUME NEW p \in Procs, Start(p), alone' = (alone /\ AtRest) PROVE PairInv'
    <2> USE DEF Goto, Return, Begin, files
    <2>1. edits' = edits
        BY <1>4 DEF Start, Keygen, Pack, Sign, VerifyUnpinned, Verify
    <2>2. PICK s \in Steps : pc' = [pc EXCEPT ![p] = s]
        BY <1>4 DEF Start, Keygen, Pack, Sign, VerifyUnpinned, Verify, Steps
    <2>3. \A q \in Procs : pc'[q] = IF q = p THEN s ELSE pc[q]
        BY <2>2 DEF TypeInv
    <2>4. CASE alone' /\ edits' = 0
        <3>1. AtRest /\ key = pub
            BY <1>4, <2>1, <2>4 DEF PairInv, AtRest, Generating
        <3>2. \/ pc'[p] = "fill_key"
              \/ key' = key /\ pub' = pub /\ pc'[p] \notin {"fill_key", "truncate_pub", "fill_pub"}
            BY <1>4 DEF Start, Keygen, Pack, Sign, VerifyUnpinned, Verify, TypeInv
        <3> QED BY <2>1, <2>3, <2>4, <3>1, <3>2 DEF PairInv, AtRest, Generating
    <2> QED BY <2>1, <2>4 DEF PairInv
<1>5. ASSUME NEW p \in Procs, Continue(p), alone' = alone PROVE PairInv'
    <2> USE DEF Goto, Return
    <2>1. edits' = edits /\ pc[p] # "idle"
        BY <1>5 DEF Continue, FillKey, TruncatePub, FillPub, FillArchive, SignReadKey,
           TruncateSig, FillSig, VerifyReadPub, VerifyReadSig
    <2>2. PICK s \in Steps : pc' = [pc EXCEPT ![p] = s]
        BY <1>5 DEF Continue, FillKey, TruncatePub, FillPub, FillArchive, SignReadKey,
           TruncateSig, FillSig, VerifyReadPub, VerifyReadSig, Steps
    <2>3. \A q \in Procs : pc'[q] = IF q = p THEN s ELSE pc[q]
        BY <2>2 DEF TypeInv
    <2>4. CASE alone /\ edits = 0
        <3>1. \A q \in Procs : q # p => pc[q] = "idle"
            BY <2>1, <2>4 DEF PairInv
        <3>2. \/ FillKey(p) /\ key' = known'[p] /\ s = "truncate_pub"
              \/ TruncatePub(p) /\ key' = key /\ known' = known /\ s = "fill_pub"
              \/ FillPub(p) /\ key' = key /\ pub' = known[p] /\ s = "idle"
              \/ ~Generating(p) /\ key' = key /\ pub' = pub
                 /\ s \notin {"fill_key", "truncate_pub", "fill_pub"}
            <4>1. pc'[p] = s
                BY <2>3
            <4>2. CASE FillKey(p)
                BY <4>1, <4>2 DEF FillKey, TypeInv
            <4>3. CASE TruncatePub(p)
                BY <4>1, <4>3 DEF TruncatePub, TypeInv
            <4>4. CASE FillPub(p)
                BY <4>1, <4>4 DEF FillPub, TypeInv
            <4>5. CASE FillArchive(p) \/ SignReadKey(p) \/ TruncateSig(p) \/ FillSig(p)
                       \/ VerifyReadPub(p) \/ VerifyReadSig(p)
                BY <4>1, <4>5 DEF FillArchive, SignReadKey, TruncateSig, FillSig, VerifyReadPub,
                   VerifyReadSig, TypeInv, Generating, files
            <4> QED BY <1>5, <4>2, <4>3, <4>4, <4>5 DEF Continue
        <3>3. pc[p] = "fill_pub" => key = known[p]
            BY <2>4 DEF PairInv
        <3>4. (~Generating(p)) => key = pub
            BY <2>4, <3>1 DEF PairInv, Generating
        <3>5. pc[p] = "truncate_pub" => key = known[p]
            BY <2>4 DEF PairInv
        <3>6. \A q, r \in Procs : pc'[q] # "idle" /\ pc'[r] # "idle" => q = r
            BY <2>3, <3>1
        <3>7. (\A q \in Procs : ~Generating(q)') => key' = pub'
            BY <2>3, <3>2, <3>3, <3>4 DEF Generating, FillPub
        <3>8. \A q \in Procs : pc'[q] \in {"truncate_pub", "fill_pub"} => key' = known'[q]
            BY <2>3, <3>1, <3>2, <3>5 DEF TruncatePub
        <3> QED BY <2>1, <3>6, <3>7, <3>8 DEF PairInv
    <2> QED BY <1>5, <2>1, <2>4 DEF PairInv
<1> QED BY <1>1, <1>2, <1>3, <1>4, <1>5 DEF Next

\* Keygens that are not killed and do not overlap with other commands leave
\* the halves of one pair, for any number of processes and key pairs.
THEOREM KeygenLeavesPair == Spec => []PairsWhole
<1>1. Init => PairInv
    BY DEF Init, PairInv
<1>2. PairInv => PairsWhole
    BY DEF PairInv, PairsWhole, AtRest, Generating
<1> QED BY <1>1, <1>2, PairStep, SignInvariant, PTL DEF Spec

-----------------------------------------------------------------------------
(* Keys as text.                                                           *)

\* A digit written is the digit read.
LEMMA DigitRoundTrip == \A v \in 0..15 : HexVal(HexDigit(v)) = v
BY DEF HexVal, HexDigit, NoDigit

\* Half bytes make up the byte.
LEMMA HalvesOfByte ==
    \A b \in Byte : b \div 16 \in 0..15 /\ b % 16 \in 0..15 /\ 16 * (b \div 16) + (b % 16) = b
BY DEF Byte

\* Every byte string comes back from its text as it was (to_hex and from_hex).
THEOREM HexRoundTrip ==
    ASSUME NEW bytes \in Seq(Byte)
    PROVE  IsHex(ToHex(bytes)) /\ FromHex(ToHex(bytes)) = bytes
<1> DEFINE text == ToHex(bytes)
           n == Len(bytes)
<1>1. n \in Nat /\ \A k \in 1..n : bytes[k] \in Byte
    OBVIOUS
<1>2. Len(text) = 2 * n /\ DOMAIN text = 1..(2 * n)
    BY <1>1 DEF ToHex
<1>3. ASSUME NEW k \in 1..n
      PROVE  /\ HexVal(text[2 * k - 1]) = bytes[k] \div 16
             /\ HexVal(text[2 * k]) = bytes[k] % 16
    <2>1. 2 * k - 1 \in 1..(2 * n) /\ 2 * k \in 1..(2 * n)
        BY <1>1
    <2>2. (2 * k - 1) % 2 = 1 /\ (2 * k) % 2 # 1 /\ (2 * k) \div 2 = k
            /\ (2 * k - 1 + 1) \div 2 = k
        BY <1>1
    <2>3. text[2 * k - 1] = HexDigit(bytes[k] \div 16) /\ text[2 * k] = HexDigit(bytes[k] % 16)
        BY <2>1, <2>2 DEF ToHex
    <2> QED BY <2>3, <1>1, DigitRoundTrip, HalvesOfByte
<1>4. ASSUME NEW i \in 1..(2 * n) PROVE HexVal(text[i]) # NoDigit
    <2>1. PICK k \in 1..n : i = 2 * k \/ i = 2 * k - 1
        <3>1. i = 2 * ((i + 1) \div 2) \/ i = 2 * ((i + 1) \div 2) - 1
            BY <1>1
        <3>2. (i + 1) \div 2 \in 1..n
            BY <1>1
        <3> QED BY <3>1, <3>2
    <2>2. HexVal(text[i]) \in 0..15
        BY <2>1, <1>3, <1>1, HalvesOfByte
    <2> QED BY <2>2 DEF NoDigit
<1>5. IsHex(text)
    BY <1>1, <1>2, <1>4 DEF IsHex
<1>6. FromHex(text) = [k \in 1..n |-> bytes[k]]
    <2>1. Len(text) \div 2 = n
        BY <1>1, <1>2
    <2>2. \A k \in 1..n : 16 * HexVal(text[2 * k - 1]) + HexVal(text[2 * k]) = bytes[k]
        BY <1>1, <1>3, HalvesOfByte
    <2> HIDE DEF text, n
    <2> QED BY <2>1, <2>2 DEF FromHex
<1>7. [k \in 1..n |-> bytes[k]] = bytes
    OBVIOUS
<1> QED BY <1>5, <1>6, <1>7

\* Two hexadecimal digits have one value exactly if they differ in case only.
LEMMA SameDigit ==
    \A c, d \in Byte :
        HexVal(c) # NoDigit /\ HexVal(d) # NoDigit =>
            (HexVal(c) = HexVal(d) <=> Lower(c) = Lower(d))
BY DEF HexVal, Lower, NoDigit, Byte

\* A digit has a value below 16.
LEMMA DigitRange == \A c \in Byte : HexVal(c) = NoDigit \/ HexVal(c) \in 0..15
BY DEF HexVal, NoDigit, Byte

\* The key pinned with --pubkey is compared as text, ignoring case: that
\* comparison says yes exactly for the texts of one and the same key, in
\* whatever case either is written (keys_equal in SignatureFile::verify).
THEOREM TextComparesKeys ==
    ASSUME NEW a \in Seq(Byte), NEW b \in Seq(Byte), IsHex(a), IsHex(b)
    PROVE  KeysEqual(a, b) <=> FromHex(a) = FromHex(b)
<1> DEFINE m == Len(a) \div 2
<1>1. /\ Len(a) \in Nat /\ Len(a) % 2 = 0 /\ Len(b) \in Nat /\ Len(b) % 2 = 0
      /\ \A i \in 1..Len(a) : a[i] \in Byte /\ HexVal(a[i]) \in 0..15 /\ HexVal(a[i]) # NoDigit
      /\ \A i \in 1..Len(b) : b[i] \in Byte /\ HexVal(b[i]) \in 0..15 /\ HexVal(b[i]) # NoDigit
    <2>1. /\ Len(a) \in Nat /\ \A i \in 1..Len(a) : a[i] \in Byte
          /\ Len(b) \in Nat /\ \A i \in 1..Len(b) : b[i] \in Byte
        OBVIOUS
    <2>2. /\ Len(a) % 2 = 0 /\ \A i \in 1..Len(a) : HexVal(a[i]) # NoDigit
          /\ Len(b) % 2 = 0 /\ \A i \in 1..Len(b) : HexVal(b[i]) # NoDigit
        BY DEF IsHex
    <2> QED BY <2>1, <2>2, DigitRange
<1>2. ASSUME KeysEqual(a, b) PROVE FromHex(a) = FromHex(b)
    <2>1. Len(a) = Len(b) /\ \A i \in 1..Len(a) : HexVal(a[i]) = HexVal(b[i])
        BY <1>1, <1>2, SameDigit DEF KeysEqual
    <2>2. \A k \in 1..m : 2 * k - 1 \in 1..Len(a) /\ 2 * k \in 1..Len(a)
        BY <1>1
    <2>3. \A k \in 1..m : 16 * HexVal(a[2 * k - 1]) + HexVal(a[2 * k]) = 16 * HexVal(b[2 * k - 1]) + HexVal(b[2 * k])
        BY <2>1, <2>2
    <2> QED BY <2>1, <2>3 DEF FromHex
<1>3. ASSUME FromHex(a) = FromHex(b) PROVE KeysEqual(a, b)
    <2>1. DOMAIN FromHex(a) = 1..m /\ DOMAIN FromHex(b) = 1..(Len(b) \div 2)
        BY DEF FromHex
    <2>2. m = Len(b) \div 2
        BY <1>1, <1>3, <2>1
    <2>3. Len(a) = Len(b)
        BY <1>1, <2>2
    <2>4. ASSUME NEW k \in 1..m
          PROVE  HexVal(a[2 * k - 1]) = HexVal(b[2 * k - 1]) /\ HexVal(a[2 * k]) = HexVal(b[2 * k])
        <3>1. FromHex(a)[k] = 16 * HexVal(a[2 * k - 1]) + HexVal(a[2 * k])
            BY DEF FromHex
        <3>2. FromHex(b)[k] = 16 * HexVal(b[2 * k - 1]) + HexVal(b[2 * k])
            BY <2>2 DEF FromHex
        <3>3. 2 * k - 1 \in 1..Len(a) /\ 2 * k \in 1..Len(a)
            BY <1>1
        <3>4. /\ HexVal(a[2 * k - 1]) \in 0..15 /\ HexVal(a[2 * k]) \in 0..15
              /\ HexVal(b[2 * k - 1]) \in 0..15 /\ HexVal(b[2 * k]) \in 0..15
            BY <1>1, <2>3, <3>3
        <3>5. 16 * HexVal(a[2 * k - 1]) + HexVal(a[2 * k])
                = 16 * HexVal(b[2 * k - 1]) + HexVal(b[2 * k])
            BY <1>3, <3>1, <3>2
        <3>6. PICK h, l, i, j \in 0..15 :
                  /\ h = HexVal(a[2 * k - 1]) /\ l = HexVal(a[2 * k])
                  /\ i = HexVal(b[2 * k - 1]) /\ j = HexVal(b[2 * k])
            BY <3>4, Zenon
        <3>7. 16 * h + l = 16 * i + j
            BY <3>5, <3>6
        <3>8. h = i /\ l = j
            BY <3>7
        <3> QED BY <3>6, <3>8
    <2>5. ASSUME NEW i \in 1..Len(a) PROVE HexVal(a[i]) = HexVal(b[i])
        <3>1. i = 2 * ((i + 1) \div 2) \/ i = 2 * ((i + 1) \div 2) - 1
            BY <1>1
        <3>2. (i + 1) \div 2 \in 1..m
            BY <1>1
        <3> HIDE DEF m
        <3> QED BY <3>1, <3>2, <2>4
    <2>6. ASSUME NEW i \in 1..Len(a) PROVE Lower(a[i]) = Lower(b[i])
        BY <1>1, <2>3, <2>5, SameDigit
    <2> QED BY <2>3, <2>6 DEF KeysEqual
<1> QED BY <1>2, <1>3

\* The keys keygen writes are those sign and verify read: the text of any 32
\* bytes is taken for a private key, and that of a point of the curve for a
\* public one, and both give back the bytes (private_hex, public_hex, from_
\* private_hex, verifying_key_from_hex).
THEOREM KeyTextIsRead ==
    ASSUME NEW seed \in Seq(Byte), Len(seed) = KeyBytes, NEW point \in Points
    PROVE  /\ IsPrivateText(ToHex(seed)) /\ FromHex(ToHex(seed)) = seed
           /\ IsPublicText(ToHex(point)) /\ FromHex(ToHex(point)) = point
<1>1. point \in Seq(Byte) /\ Len(point) = KeyBytes
    BY PointsAssumption
<1> QED
    BY <1>1, HexRoundTrip DEF IsPrivateText, IsPublicText

=============================================================================
