# A specification of agentskillpack

TLA+ modules for [agentskillpack](../src/README.md): a packer, signer, local registry and
dependency resolver for skill directories, written in Rust. The program has no threads and
no server; what makes it hard is that every command works on files other commands, editors and
builds work on at the same time, without a lock, and writes them in several steps. The modules
model these steps, TLC checks them on small instances, and TLAPS proves the main results for
every value of the constants.

Paths below are of the repository; `lib.rs:420` is line 420 of `src/lib.rs`.

## 1. The system

| Component | State | Operations | Interacts through |
|---|---|---|---|
| Registry (`registry.rs`) | `index.json`, one archive file per name and version, their directories | `open`, `add`, `remove`, `resolve`, `list`, `catalog` | the file system only: every command is a process of its own |
| Container (`lib.rs` 278-451) | an archive as a byte stream, the output directory | `serialize`, `read_header`, `read_archive`, `verify`, `unpack_to`, and `info` (`main.rs`) | `add`, `resolve`-then-`unpack`, `sign` and `verify` decode what `pack` wrote |
| Packing (`lib.rs` 176-275) | the skill directory, files read so far | `collect_files`, `pack_dir`, `pack_dir_validated` | the author's editor changes the directory meanwhile |
| Signing (`sign.rs`) | key file, public key file, archive, sidecar | `keygen`, `sign`, `verify` with and without `--pubkey`; keys and signatures as text | reads the archive, writes the sidecar beside it |
| Manifest (`manifest.rs`) | the problems found so far, the names and kinds met so far | parse, `validate`, JSON schema | `pack --validate`, `manifest validate`; `lock` only parses |
| Resolver (`resolve.rs`) | the catalog, pins, conflicts, the lockfile | `best_match`, `resolve`, `lock` | takes its catalog from the index, its dependencies from a manifest |
| Command line (`main.rs`) | none | one function per command | calls the others |

Which behaviours are hard, and what correct means for each:

* **Registry.** `add` and `remove` read the index, change the archive tree, and write back the
  copy of the index they hold (`registry.rs:150-185`, `223-246`); `open` tests for the index
  before it creates it (`89-94`); `std::fs::write` truncates before it fills; the path of an archive is
  made of a name nobody has checked (`144-148`); `remove` ignores what it cannot delete (`236`). Correct: the index
  never lists an archive that was not verified or one version twice; a resolve never answers with
  unverified bytes; a damaged index is never taken for a new one; with one writer at a time, index,
  archives and directories agree, but for names that share a file, and the whole is a map from versions
  to archives; damage by a crash, an access that fails, an edit or overlapping commands stays where it was
  done, and a forced `add` of that version alone repairs it; what `list`, `lock` or `resolve` answered with
  can still be had until a command changes that version or the file it shares with another name.
* **Container.** Lengths come from the stream and from the header, and may disagree; unpack may
  stop in the middle; paths may coincide or be in each other's way; `info` cuts hashes nobody has
  checked to 16 characters (`main.rs:275`). Correct: exactly the well-formed
  streams decode, verify and unpack give the same verdict, nothing unverified reaches the disk, what
  is packed comes back.
* **Packing.** `skill.json` is read up to three times (`lib.rs:271`, `223`, `240`), the directory is
  listed before its files are read. Correct: a file left alone is in the archive as it is, nothing
  else is invented, failures have a cause.
* **Signing.** `verify` reads three files, one after the other, and `keygen` writes two. Correct: a
  verify that succeeds has read bytes that were signed with the key it read; key files hold one pair;
  two texts of keys compare equal exactly if the keys are (`sign.rs:199`).
* **Manifest.** `validate` goes on after a problem, knows earlier elements by a set only, and its rules
  are stated twice more, in the doc comment and in the JSON Schema. Correct: what it reports is exactly
  what is broken, each problem once; the verdict is that of the rules; the schema agrees.
* **Resolver.** The index is in no order and may repeat a name; a manifest that is not validated may
  too (`main.rs:488`). Correct: each pin is the highest match, all or nothing, every conflict told,
  and equal inputs give equal lockfiles; a valid manifest fails to lock only for want of a build.

## 2. Modules

| Module | What it is |
|---|---|
| `Registry` | the registry, one action per file system access of every command, the directories that names lead to, crashes, failing accesses and edits; specifications with any interleaving (`Spec`, `FairSpec`) and with one writer at a time (`SingleWriterSpec`) |
| `SkillStore` | what the registry promises: a map from names and versions to archives that every command reads or changes in one step |
| `RegistryRefinement` | the mapping under which `Registry` implements `SkillStore` |
| `RegistryRecovery` | `Registry` with a history of what faults and overlaps have put in doubt, and of what was answered |
| `RegistryClaims` | statements of docs and comments about the registry that do not hold |
| `Container` | decode, verify, unpack and info of any stream, and the stream that is packed |
| `Packing` | packing a directory that is being edited |
| `Signing` | keygen, pack, sign, verify on shared files |
| `Hex` | keys and signatures as text: writing, reading, comparing |
| `Manifest` | documents, what can be read, `validate` as a pass with one action per element, the JSON Schema |
| `Resolver` | catalog and resolution pass over the dependencies of a document (extends `Manifest`) |
| `Lock` | `manifest validate` and `lock` composed, down to the lockfile (extends `Resolver`) |
| `RegistryProofs`, `SingleWriterProofs` (with the refinement), `RecoveryProofs`, `PackingProofs`, `SigningProofs` (with `Hex`), `ContainerProofs`, `ManifestProofs`, `LockProofs` (of `Resolver` and `Lock`) | theorems and proofs |
| `MC...` | values of the constants for TLC |

Definitions whose comment begins with "Mutant" are plausible mistakes, each next to the definition
it would replace; no specification uses them. They show that a property notices the mistake.

### Registry and the code

| Code | Actions |
|---|---|
| `Registry::open` 84-96 | `Open` (the test), `InitTruncate`, `InitFill` |
| `Registry::index` 108-112, every caller | `LoadFails`, `AddLoad`, `RemoveLoad`, `ResolveLoad`, `ListLoad` |
| `add` 119-186 | `AddRejected` (checks), `AddConflict`, `AddLoad` (new entries), `MakeDirs`, `MakeVersionDir`, `ArchiveTruncate`, `ArchiveFill`, then `IndexTruncate`, `IndexFill` |
| `remove` 221-247 | `RemoveLoad`, `Unlink`, `PruneVersion`, `PruneName`, then `IndexTruncate`, `IndexFill` |
| `resolve` 193-219 | `ResolveNoMatch`, `ResolveLoad`, `ResolveRead` |
| `list` 188-191 | `ListLoad` |

A name and version lead to a version directory, their `Place`, in a name directory, `Dir` of it; both are
constants, any operators at all, because `rel` joins the header's name as it is (`144-148`): `alpha` and
`alpha/.` are two names with one `Place`. `Home(p)` is the place a command works in. `Standing` are name
directories that are never empty, such as that of the name `..`, which no `remove` prunes. `Crash` is a
process that is killed, and as well an access that fails and whose error `?` returns: both end the command
there. `RemovalFails` is one of the three accesses of `remove` whose error `.ok()` drops.

`mem[p]` is the `Index` a command holds in a local variable. `live` says whose open archive
file still has a name: bytes written to a file that was unlinked go nowhere. `create_dir_all` is two
steps, so that a concurrent prune can come in between. `Garbage` is what is left when a write is cut
short or when a shorter content is written over a longer one; an index that is `Garbage` does not
parse and an archive that is `Garbage` has no recorded hash.

`Container` has one action per turn of a loop: `ReadHeader`, `ReadBlob`, `Decoded` (`read_header`,
`read_archive`), `CheckBlob`, `Report` (`verify`), `CreateFile`, `WriteFile`, `Unpacked` (`unpack_to`),
`ListEntry`, `Listed` (`info`). The magic bytes, the version and the header are the parts of an
`opening`, any of which may be missing or wrong. A length field and a byte of a blob are one cell each; `safe_relative` is modelled on components of
paths. `Packing` has one action per directory listed, at any depth (`Way` gives the directories that lead to a
file), one per file read, and two for each look at `skill.json`: the test that it is there (`Validate`,
`TestMeta`) and its reading (`ValidateRead`, `ReadMeta`). A sidecar in `Signing` names an algorithm and a key,
and carries what was really signed and by whom; an edit may put there any text with a signature others can
make or have seen. `Signing` one per file read
and two per file written, `Resolver` one per dependency (`InvalidReq`, `Unsatisfied`, `PinDependency`)
and `Finish`. A build of the catalog is its place in the index, and the stable sort of the pins is given by
the `Place` of each: the number of pins that are not behind it.

`Manifest` has `Load` (serde), then `CheckHead`, one action per dependency, capability, scope entry and
field (`CheckDependency`, `CheckCapability`, `CheckScope`, `CheckField`), `CheckCompat`, and `NextList`
at the end of a list. `seen` is the `BTreeSet` of the loop, `issues` the vector of problems, each a
field, an element and a problem. A name has a `name`, which is what names are compared by, and a
`spelling` over three characters: a letter or digit, a separator, anything else. `Lock` takes the same
document through `validate` and then, whatever the verdict, through `resolve`, unless the registry cannot
be opened or read (`CatalogFails`); the lockfile is truncated and then filled.

`RegistryRecovery` adds no behaviour: `suspect`, `crowded` and `promised` record what happened. A
command is `crowded` if another one was at work on the store, or an edit hit its file, or a removal of its own
failed, between its reading and its writing of the index. A command that rewrites a file puts the other names
that lead to it in doubt (`Touching`, `Neighbours`).

## 3. Runs

| Run | Instance | Shows |
|---|---|---|
| `concurrent` | 2 processes, any interleaving; one name, two versions, two builds of one, one archive that does not verify, one without semver; 1 fault | `TypeOK`; `StoreVerified`, `OneEntryPerVersion` (the index); `ResolveSafe` (answers of resolve); `DamagedIndexIsNotReset` |
| `single_writer` | 2 processes, one writer at a time; three names, of which two share their directories, and one directory that is never empty; no faults | `StoreConsistent`, and `ImplementsStore`: the registry implements `SkillStore` |
| `recovery` | 2 processes, any interleaving; two versions of one name, each in its directory; 1 fault | `DamageConfined`, `PromisesKept` |
| `shared_file` | 2 processes, any interleaving; two names that lead to one file, two builds of one of them; 1 fault | `DamageConfined`, `PromisesKept` |
| `liveness` | 2 processes, any interleaving, fair; two builds of one version and another version | `CommandsReturn`; `TornIndexHeals`, which is about behaviours in which writers take turns |
| `container` | all headers of up to 2 entries with all bodies of up to 4 cells, every stream without a header, headers with a short hash, packed directories of up to 2 files; 3 output directories | `DecodesTheWellFormed`, `OutcomeIsExact`, `RoundTrip`, `OnlyVerifiedIsWritten` |
| `lock` | all indexes of up to 3 entries with all lists of up to 2 dependencies and one of 3; names of up to 3 characters; capabilities, scopes and fields of up to 2 each, and three capabilities; sections with problems together | `IssuesAreComplete`, `VerdictIsExact`, `SchemaAgrees` (validation); `LockIsHighest`, `ConflictsAreComplete`, `PinsInOrder`, `ValidManifestLocks` (lock) |
| `packing` | all directories of up to 4 files in 3 levels, 4 contents; 2 edits | `TypeOK`, `ArchiveIsOfTheDirectory`, `RefusalsHaveAReason` |
| `signing` | 2 processes, 2 own key pairs and one of another signer, 2 archives, sidecars that name either algorithm and any key; 1 crash or edit | `VerifiedWasSigned`; `PairsWhole`, which is about keygens that did not overlap |
| `unforced_add` | 2 processes, no faults | an unforced add that replaces another build |
| `spellings` | 1 process, no faults, two names that share their directories | an unforced add that replaces the archive of another entry |
| `validated` | one edit | a validated pack of an invalid manifest |

Each of the last three checks one statement of a doc or comment, which fails. `MCSigning` also evaluates what
`SigningProofs` proves on small texts.

**Why the bounds suffice.** The races of the registry are between two commands on one name and
version, with different bytes; a second version of the same name is needed for the pruning of
directories, a second name for directories that must stay, a third for a file with two names. Two processes give
every pair of commands; in `single_writer` one reads while the other writes, and they take turns. In `recovery`
one version stands by while the other is damaged, in `shared_file` commands with different bytes meet on one version
and one file. One fault gives every place a command can be cut and every access that can fail, and what follows it is
the repair. For streams, two
entries give every relation of two paths and of a blob to its successor, and four cells hold two
entries with a byte each; the cell 9 is a length beyond any stream, as `u64` lengths mostly are. In
`packing`, files in every level, before and after `skill.json` gives every order of listing and
reading relative to it, and two edits a file that moves. Names of three characters have two ends and
a middle; three dependencies or capabilities give two equal ones with another between. The resolver treats names apart from each
other, so two names, and three versions for a range with a middle.

**Fairness.** `FairSpec` says that a command under way takes its next step: a process waits for
nothing but the operating system. No fairness is assumed of users who start commands, or of crashes.
A command that is killed does not return, so this run has no faults.

**Symmetry** is used among processes, and not in the run with liveness properties. `Container`, `Lock` and
`Packing` stop when the command returns, so their runs do not check for deadlock; in the others a
process can always begin a command.

### What the violated statements mean

The registry is documented for one command at a time and nothing says so. Two overlapping `add`s of
different builds replace one another without `--force` (`docs/registry.md:15-16`). In the same way the
index loses one of two overlapping updates, the archive on disk and the hash in the index can be of
different builds for good (`registry.rs:49`), and of two commands that create a registry the slower can
wipe what the faster added: `ImplementsStore` holds for one writer only, and `DamageConfined` says how
far the damage goes without that. A lock file around a command, which is what `SingleWriterSpec`
assumes, makes all of it impossible.

It does not help against names. An archive named `alpha/.` goes where the one of `alpha` is, while the conflict
test compares names (`registry.rs:144-154`): the first entry keeps the hash of bytes that are gone
(`registry.rs:49`), and removing either name removes the archive of both. `resolve` notices, and a `lock` does
not. A rule for the names `add` accepts, such as `validate_name`, makes every name have its place
(`Sole`), and then `StoreConsistent` is exact.

A `remove` that cannot delete reports success and drops the entry (`registry.rs:236`). Nothing
leads to that archive any more: a repeated `remove` finds no entry and deletes nothing; only an `add` of the same
name and version, which finds no entry to compare with, replaces it. A forced add and a remove that overlap can
leave the same.

`pack --validate` reads `skill.json` again after it has validated it (`lib.rs:260-262`). `keygen` writes
two files over whatever is there, and `PairsWhole` needs its condition: overlapping keygens of one name
leave halves of two pairs.

## 4. Proofs

All theorems hold for every value of the constants: any number of processes, names, versions,
archives, files, edits and faults, and any directories the names lead to.

| Theorem | Says |
|---|---|
| `TypeCorrect` | `Spec => []TypeOK` of `Registry` |
| `IndexListsVerified`, `IndexListsOnce` | the index lists only verified archives, and each version once |
| `ResolveAnswersSafely` | a resolve that succeeds answers with a verified archive of the name and range asked for |
| `DamagedIndexStays` | a damaged index is never replaced by an empty one |
| `SingleWriterConsistent` | with `MaxFaults = 0`, `SingleWriterSpec => []StoreConsistent`: exact for every name that has its file to itself, and for names that share one it is whole and of an entry, or gone |
| `RegistryImplementsStore` | with `MaxFaults = 0`, `SingleWriterSpec => ImplementsStore`: every behaviour of the registry, step by step, is one of `SkillStore` |
| `DamageIsConfined`, `PromisesAreKept` | with any interleaving, crashes, accesses that fail and edits: `[]DamageConfined` and `[]PromisesKept` of `RegistryRecovery` |
| `PackTypeCorrect`, `PackedIsOfTheDirectory`, `PackRefusesWithReason` | the three invariants of `Packing` |
| `SuccessMeansSigned`, `KeygenLeavesPair` | `Spec => VerifiedWasSigned` and `Spec => []PairsWhole` of `Signing` |
| `UnpackWritesVerified` | `Spec => OnlyVerifiedIsWritten` of `Container` |
| `DecodesExactly`, `VerdictsAreExact`, `PackedComesBack` | `[]DecodesTheWellFormed`, `[]OutcomeIsExact` and `[]RoundTrip` of `Container`, for streams and directories of any size |
| `ValidateIsExact` | `ValidateSpec => []VerdictIsExact` of `Manifest` |
| `ValidateTellsAll`, `SchemaAndProgramAgree` | `ValidateSpec => []IssuesAreComplete` and `[]SchemaAgrees`, for lists of any length |
| `NameRuleIsThePattern` | the rule for names and the published pattern are one, for names of any length |
| `LockPinsHighest`, `ConflictsTellAll`, `PinsAreSorted` | `Spec => []LockIsHighest`, `[]ConflictsAreComplete` and `[]PinsInOrder` of `Lock`, for any index and any list of dependencies |
| `ValidManifestsLock` | `Spec => []ValidManifestLocks` of `Lock`: what the verdict of validation is worth to resolution |
| `HexRoundTrip`, `KeyTextIsRead`, `TextComparesKeys` | texts of keys are read back as they were, are accepted, and compare as the keys do |

**Assumptions.** SHA-256 has no collisions (`DigestAssumption`) and signatures are unforgeable: a
signature is its key and its bytes. Damaged content is not an index or an archive
(`ContentAssumption`). A file is read in one access. Every name and version leads to one version directory
(`PlacesAssumption`), and nothing else is assumed of where. A public key is a text of a point of the curve,
and which texts are is left open (`PointsAssumption`).
A computed hash has all its characters (`HashAssumption`: `ShortHashes` are hashes somebody wrote), and the
entries `serialize` is given come from a walk over a directory, one for a path and each safe
(`DirectoryAssumption`, as `collect_files` leaves them). The other named assumptions give the constants their
types.

**Arguments.**

* *The index.* `TypeOK` is not inductive: that the bytes `ArchiveFill` writes are an archive depends on
  what the command is. `TypeInv` adds `CmdOK`, which ties the program counter to the command. That the
  index is sound depends on what commands hold and may write later, however stale: `MemSound` says that
  every copy of the index in a process is verified and lists a version once, `IndexSound` the same of
  the file. `AddedSound` and `SubsetSound` show that the two changes the code makes to a copy keep it.
* *Answers of resolve.* The entry held is sound, and the bytes read have its hash; without collisions
  they are the archive that was verified when it was added, whatever happened to the file.
* *One writer.* `WriterInv` says for each program counter of the writer how far index, archives and
  directories are from one another (`Stage`), and that they agree when there is none (`Quiet`). Each
  action moves the writer from one stage to the next; a reader changes nothing. For files that names share the
  agreement is weaker, that the file is whole and of an entry or gone, and is kept apart from that of names
  that are `Sole`.
* *The refinement.* A command takes effect in `SkillStore` when it truncates the index (or, if it only
  reads, when it reads it) and answers when it returns; every other step is a stutter. `CommandsActAlone`
  and `CommittedStays` carry what a command that has taken effect is still going to write; `NextMaps`
  goes through the actions.
* *Damage.* `DamageInv` is `WriterInv` without the suspects: for a version that is not in doubt the index,
  and every copy of it in a command on another version, agree with the archive (`KeyInv`); a writer that
  nobody has crowded knows what it has done (`LoneWriter`), and one that is crowded has its version in
  doubt, as have the neighbours of the file one is rewriting, from the reading of the index on (`CrowdInv`). That `init` may write an empty index over another's needs `FreshInv`: while it is
  pending, only versions in doubt have archives.
* *Packing.* A history variable holds what every file has been. `NothingMissed` follows a file that was
  always there through listing (listed, or its directory still to be listed), `NothingInvented` and
  `Passed` what was read and what was tested, `Reasons` the causes of failure.
* *Signing.* `SignInv`: a sidecar on disk was signed as it says, and so was what a signer is about to
  write; what a verifier holds has passed verification. `PairInv`: as long as no two commands have
  overlapped, the only command that can be between the halves is one keygen, and it knows its key.
* *Unpack.* `WriteInv`: while files are written every blob is there, every entry before the current one
  has its hash, and so has the current one once its file is created.
* *Decode, verify, unpack.* The reference cuts the body at offsets that a recursion over the header gives;
  `DecodeInv` says that the position of the reader is that offset and the blobs read are those cut there.
  That offsets grow, and that a directory packed lies where they say, is induction over the entries: the
  prover takes no induction theorem with an operator parameter, so it is done on a set of numbers, by the
  least one outside it (`WFMin`). `OutcomeInv` follows unpack: the file of a path has the bytes of
  the last entry so far that has that path.
* *Validation.* `ExactInv`: no problem has been found exactly if everything looked at so far keeps the
  rules, where the parts of `SoFar` say for each list how far the pass has come. `SeenInv` ties the set
  to the elements passed. Each action extends one part by what it looks at.
* *What validation tells.* `CompleteInv`: the list of problems has no repetition and is, as a set, `Met`, the
  breaches of what has been looked at. A breach carries the place where it is found, so what the next element
  adds is new. At the end `Met` is `Broken`; for the schema the rules it covers are then compared one by one.
* *Resolution.* `ResolveInv`: the conflicts are those of the dependencies looked at that do not fit, and the
  pins those of the others, each list in the order of the manifest (`Enumerates`). That `LastGreatest` exists is
  induction along the index. When all have been looked at and none failed there are as many pins as
  dependencies; sorting is a bijection because places are distinct (`SortedIs`), so none is lost, and the pin of
  each is the highest match (`PinIsHighest`). `LockInv` carries this together with the invariant of
  validation: a valid verdict gives distinct names and requirements that parse, which is what
  `ValidManifestLocks` needs.
* *Text.* A digit and its value, then a byte and its two digits; two texts of equal length agree up to
  case exactly if all their digits have equal values.

**Only model-checked.** `CommandsReturn` and `TornIndexHeals`: they need fairness, which the prover does
not handle. Every other property of a run that passes is a theorem. `ImplementsStore` and
`StoreConsistent` are theorems for runs without faults, as their run is; what a fault leaves of them is
what `DamageIsConfined` says.

## 5. What is not modelled

* Parsing and formatting of JSON and semver; a requirement is the set of versions it matches. Semver's `*`
  matches no prerelease, so that `resolve` without `--req` (`main.rs:450`, "any version" in
  `docs/registry.md:45`) does not find a skill of which only `1.0.0-rc.1` is installed. A document
  that serde refuses for its shape or for a key or kind it does not know is `Unreadable`; texts without a
  rule (description, authors, tags, license) are left out, and so are unknown keys in a dependency, in
  `compat` and in a field, which go the way of the misspelt scope: it is dropped, although "typos surface loudly" (`manifest.rs:172-173`),
  and leaves the capability unscoped (`ScopeOf`); the schema refuses it (`SchemaAgrees`).
* Parsing of flags and printing: pure functions of the arguments and of what the commands hold. Of the
  two forms of `info`, the one that cuts hashes is modelled.
* Reading a lockfile: no command does. An output archive inside the directory being packed.
* Links and permissions. Directories of the author that are empty. Errors of the file system where they only end
  a command that has changed nothing yet; in the registry any access may fail, in unpack the disk may be full.
* Names that lead into one another's directories, such as `org/skill`, or out of `skills/` into a directory of
  something else: every name has a name directory with version directories directly below. `create_dir_all`
  of such a name makes more than two directories, and they stay.
* Curve points, and the algebra of signatures.
* Damage to the index by hand. A crash damages it, an edit only archives.
* Numbers have no width: the cells of `Container` are far below the limits of `u64`, `usize` is taken
  to have 64 bits, and a header of 4 GiB, whose length `serialize` would cut (`lib.rs:283`), is out of reach.

## 6. What is left

1. The skill directory, the archive, its sidecar and the registry composed, with a second pack between
   any two commands of an author and a user.
2. Lockfiles through time: two `lock`s and an index that is rewritten between them.
