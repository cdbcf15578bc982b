# TLA+ specifications of efivar

efivar is a library (libefivar, libefiboot, libefisec) and a set of tools that
read and change UEFI variables on Linux, build boot entries and device paths,
and manage the signature databases of Secure Boot. This directory holds models
of the library and its tools, the TLC configurations that check them and proofs
for TLAPS. Paths below are relative to the repository's root as `src/` (so the
backend is `src/src/efivarfs.c`).

## 1. Inventory

| Component | State it keeps | Operations | Hard behaviour | What makes it correct | Modules |
|---|---|---|---|---|---|
| efivarfs backend (`efivarfs.c`) | the kernel's: one file per variable, its immutable flag, mode and content; per call: descriptors, `restore_immutable_fd`, `ret` | set, append, delete, get, size, chmod | no locks: a call is up to nine system calls, and any other process runs between two of them; every call may fail, the process may die | a writing call takes effect at one instant or not at all; protection comes back; files without a variable do not stay | `UefiVariable`, `VarStore`, `Efivarfs`, `EfivarfsReads` |
| ESP variable file (`efivarfs.c:85-214`) | a file that holds a copy of all variables | update after every set and delete | truncate and copy without a lock, stdio buffering, `exit(1)` | the file is a copy of one state of the variables, the last one | `EspVarFile` |
| sysfs backend (`vars.c`), helpers (`generics.h`) | files of `/sys/firmware/efi/vars`, a static `DIR *`, the guessed record layout | as efivarfs; iteration over the names | set is delete, then write; append is read, delete, write; a guess made once | no variable is lost without a reason; each name is seen | `VarsSysfs` |
| public API, backend selection (`lib.c`), error table (`error.c`) | the chosen `efi_var_operations`, a thread-local table of errors, `errno`, the verbosity, one log file | constructors, the entry points, the old ABI, error and log functions | constructors in any order, entry points that call entry points, growth that fails, threads that log | the backend that works is chosen; `errno` and trace tell what failed; nothing is left after a success | `Library` |
| export and import (`export.c`), efivar tool (`efivar.c`) | files, variables, an `efi_variable_t` | print, export, append, write, import, convert; import and realize by a client | lengths that the file itself gives; read, then write, with another program between | exports are exact, imports restore what was exported or refuse it, edits do what they say | `ExportImport`, `EfivarTool` |
| security databases (`secdb.c`, `secdb.h`, `list.h`) | a list of lists of signatures, flags, counts | new, set_bool, add, delete, parse, visit, realize | lists found by type and size, sorted, merged; long sequences of calls | it behaves as a set of signatures and survives being written and read | `SigSet`, `SecDb` |
| signature list iterator (`esl-iter.c`), efisecdb tool (`efisecdb.c`) | a cursor over a buffer; the actions of the command line, an output file | next, with or without size correction; parse the files, act, write | malformed sizes, a retry on a half-parsed file, failing system calls | the output has what was asked for and nothing else, or there is none | `EslIter`, `EfiSecdb` |
| GPT and disk (`gpt.c`, `disk.c`), device probes (`linux*.c`), device paths and load options (`dp*.c`, `loadopt.c`, `creator.c`) | the partition tables of a disk, a `struct device`, the caller's buffer | make a path for a file, a device or an address, in two calls; make and read load options; append | one of two tables is damaged or being rewritten; probes that match in part; length arithmetic | the HD() node is true, the path is complete and has the nodes of the device | `SysfsProbe`, `PartTable`, `DevicePath`, `BootEntry` |
| sbchooser (`sbchooser*.c`, `authenticode.c`) | db and dbx, the files with their signatures, digests and scores | options, load, hash, score, sort, print | several signatures with several signers, weak and revoked ones; lengths from the file | what it lists is what the firmware would start, best first | `PeImage`, `SbChooser` |
| thread test (`thread-test.c`) | two threads | asks for the size of a variable | threads that share the library | each has its own `errno` and errors | a program of `MCLibrary` |
| GUIDs, secdb dump, time and character conversions | none | parsing, formatting | none | | not modelled |

Interaction: the tools call libefivar through `lib.c`, which dispatches to a
backend; the efivarfs backend calls the ESP update at the end of every set and
delete (and that calls `efi_get_variable` again). `efisecdb` builds a security
database from files, which `efi_secdb_parse` reads with the iterator;
`sbchooser` reads databases the same way. `creator.c` calls the probes, the
partition tables and the nodes of device paths. Processes that use the library
share nothing but the kernel's files.

`PROJECT.json` lists every component with its status, and under `hazards` what
is hardest to test, at the line where it bites.

## 2. What is modelled

### UefiVariable, VarStore: what a backend promises
`UefiVariable` defines values (attributes and data) and `Written`, what the
firmware makes of a set or an append. `VarStore` is the abstract store: a call
begins, takes effect at one instant (`ApplyWrite`, `ApplyDel`), or gives up, and
finishes. It states two weaknesses of the code openly: a write overtaken by the
removal of its variable may succeed without being seen, and a failed write may
remove the variable (`Undo`), because the roll back works by name.

### Efivarfs: the backend, one system call per step
State: the directory (`dentry`), per inode the immutable flag, content and mode;
per process the next system call (`pc`), the call, its two descriptors, the
inode whose flag it cleared, the result and what a read has collected. A file
that was created and not yet written holds `Uncommitted`. Three history
variables record why a flag or an empty file may stay behind (`tainted`,
`leaked`) and that a call was overtaken.

| Code | Actions |
|---|---|
| `lib.c` entry points | `Call`, `Return`, `Reject` (arguments refused, no memory) |
| `efivarfs_set_variable`, `efivarfs_append_variable` | `OpenR`, `GetFlags`, `ClearFlags`, `OpenW` (`OpenExisting`, `Create`, `CreateFails`; the `fstat` comparison is in it), `Write`, `WriteFails`, `Sync`, `Rollback`, `Restore` |
| `efivarfs_del_variable`, `efivarfs_set_immutable` | `OpenD`, `GetFlags`, `ClearFlags`, `Unlink`, `Sync` |
| `efivarfs_chmod_variable` | `Chmod` |
| `efivarfs_get_variable`, `read_file` | `OpenG`, `ReadAttrs`, `ReadData` (once per `read()`), `Again` (the kernel's rate limiter turns a `read()` of `read_file` away, which sleeps and reads again), `ReadFails` |
| `efivarfs_get_variable_size` | `Stat` (the subtraction modulo the width of `size_t`) |
| the kernel | `Kill`, and what `Write`, `Create` and `Free` say of efivarfs |

The rules of the kernel's efivarfs are external: a write replaces the whole
value (or appends to it), a write that empties the variable removes its file, a
protected file is created immutable, an immutable file cannot be opened for
writing, written or unlinked.

### EfivarfsReads: what reads return
The same behaviours with a history variable `seen`, the values a variable has
had since a read of it began.

### EspVarFile: the copy on the EFI system partition
`efi_update_var_file` and its helpers. A version counts changes, the image of a
version is a sequence of blocks, and stdio's buffer holds one block back until
the next `fwrite` or `fclose`. Actions: `Change` (the set or delete before),
`FileName`, `FilePath` (a `stat()` that fails counts as no file), `Open`, `Skip`,
`Copy`, `Close`, `Exit`, `Return`, `Kill`. What the code tells nobody when it fails
(reading `RTStorageVolatile`, `stat`, `read`, `fclose`) is recorded in `silent`.
In `Efivarfs` the same code is the one step `Sync`, which may end the process.

### VarsSysfs: the backend without efivarfs
State: the variables and their modes; per process the next system call, the
call, which function's delete is running (`phase`: an append deletes, then
sets, and a set deletes, then writes), the value it has read, the layout it
guessed (`abi`), its directory stream. `Probe` guesses the layout of records
from a variable that exists, or from the size of a pointer, and keeps the guess;
`Call`, `Step` (open, read, write to `del_var`, write to `new_var`, chmod, each
may fail) and `Kill`; `NextName` is one call of `generic_get_next_variable_name`
on the static stream, which may return any entry that was not returned, has to
return those that are there all the time, fails on an entry that is no variable
and starts again only when the stream is closed. History variables: what each
call found (`before`), whether another process changed its variable
(`disturbed`), which loss has an excuse.

### Library: constructors, entry points, errors
State: the environment, the constructors that have not run, the backend, and per
thread a stack of frames (the public function, the backend's function, helpers
that call public functions in turn), `errno`, the table of errors with the room
it has memory for; the verbosity, the shared log with its buffer and static
level. `InitPath`, `InitLog`, `InitOps`, `Probe`, `ProbeFailed`, `ProbeFound`,
`Loaded` and `Fini` are the constructors and destructors; the steps of a thread
are the code between two calls or returns: a system call fails, a function
records its error (`efi_error_real_`, whose allocation may fail), returns,
and the entry point clears the table on success. `VarsWrite` is the end of
`vars_set_variable`, which changes modes behind a failed `write()` before it saves
`errno`. The chain
`generic_append_variable` → `efi_get_variable` → ..., and the update of the ESP
file inside a set, run through the same frames. What happens to variables is not
repeated here.

### ExportImport, EfivarTool
`ExportImport` has the two file formats: `Needed` and `Exported` (sizes, name in
UCS-2, checksum), `ImportEfivar`, `ImportDmpstore`, and `Realized`, what
`efi_variable_realize` calls. A record has the fields of its format; a file is
records and a length, so it can be cut. `EfivarTool` runs the tool: `Start`,
`Prepare` (`prepare_data`), `Get`, `Set`, `SetFails`, `Open`, `Format`,
`ImportFile`, and a client's `RealizeVar` and `WalkNext` (imports one after
another by the offset returned); `Other` changes a variable meanwhile, `Kill`
ends the tool anywhere, `Again` starts the next run on what this one left.

### SigSet, SecDb: security databases
`SigSet` says what a database is for its user: a set of signatures. `SecDb`
models `secdb.c`: the lists of lists as sequences, `Find`, `Alloc`, `Add`, `Del`,
`Merge`/`Parse`, `Visited`/`Realize` and the two comparisons as operators, and
one action per public function. `Add` is split as the code is: `HasData` is the
search for a duplicate, `Insert` the new entry with its sort, `AddTo` the end of
the function; `ListSort` gives every element its place in the order. Sizes are counted in words of four bytes,
which divides every size in the code, so the 16 bytes of an owner are 4.
A file is what the iterator makes of it. `Rewrite` writes a database and reads
it again. `qsort_r` is taken to be stable (it is in glibc); only certificates of
one size ever compare equal. Reading beyond the end of an entry, which happens
for hashes of certificates, gives `Junk`.

### EslIter, EfiSecdb
`EslIter` is the cursor: `ListNext` and the signature step on files given by
what stands at which word, with the sizes in list heads as claims that may be
wrong; `Corrected` overwrites a claim, as the code does in the caller's buffer,
and the retry of `efi_secdb_parse` follows. `EfiSecdb` is `main` of the tool:
`Option` (one option), `Start`, `ParseFile`, `NextSig` (one signature of a file
per step; the attempt at offset 0 of a file that begins with attributes leaves
the database alone), `NoIter`, `RunActions`, `Dumped`, then the output file by
system calls: `Open`, `OpenFails`, `Truncate`, `Write`,
`OutputFails`, `Done`; `Appear` is somebody else who makes the file.
It uses the operators of `SecDb`.

### SysfsProbe, PartTable, DevicePath, BootEntry
`SysfsProbe` is `device_get`: the link of a block device as a sequence of
segments, the fourteen probes in their order with what each consumes, and the
nodes each creates. `PartTable` is how `gpt.c` and `disk.c` read, validate and
choose tables, a disk being a function from block numbers to blocks.
`DevicePath` has the sizes, ends and walks of paths, the append functions and
load options with every accessor that depends on a size. `BootEntry` composes
them: `Begin` (one of the three entry points, with a buffer of size 0, or one
as large as asked for, or less, or more), `Open`, `Parent`, `Probe`, `Device`,
`MakeNodes`, `ReadMbr`, `ReadHeader`, `ReadEntries`, `ReadPmbr` (a block per
step), `Choose`, `Sign`, `MakeTail`; `Edit` is another program that writes a
block of a new table; then the application makes a load option (`BuildOption`)
or appends (`AppendTo`).

### PeImage, SbChooser
`PeImage` loads one file, measured in units (a header, the checksum, a directory entry are one each): the checks of `load_pe`, `parse_sigs` over the
certificate table, and the ranges that go into the authenticode digest, so that a
digest is the sequence of the units that were hashed. Sizes are unsigned and wrap
around as in the code: those of the headers and the sums over them at `Word`, which
stands for 2^32, while what is left of the map is less than nothing, that is more
than any size. A read behind the map (`Update`, and `StrayCert` for a security
directory that claims more than there is) returns zeros or something else, or
kills the program (`Killed`). `SbChooser` is the program: an
action for each option, the default databases, the input files, then `ScoreSig`
for each signature, `FileScored`, `Sort` (the comparison of `qsort`),
`PrintFile`. Certificates are records of what the code compares, `Key` and
`SecBits` translate the strengths; OpenSSL's parsing is an outcome.

## 3. Runs

| Run | Question | Properties |
|---|---|---|
| `efivarfs_safety` | Is the immutable flag ever lost, or an empty file left behind, without a dead process or a failed system call to blame? Is a read exact if its variable does not change meanwhile? | `TypeOK`, `ImmutabilityGuarded`, `StubOwned`, `QuietReadExact` |
| `efivarfs_atomic` | Does the backend implement `VarStore`? | `Atomic` |
| `efivarfs_live` | Does every call return, and every cleared flag come back? | `CallReturns`, `ProtectionReturns` |
| `esp_faults` | Without overlapping updates, is the file always the beginning of the image of one version, and does an undisturbed update repair whatever a dead process left, unless it says that it did not or one of the four calls failed that the code does not report? | `TypeOK`, `OneVersion`, `SoloUpdate` |
| `vars_sysfs` | Can sets and appends that overlap lose a variable between them, with every call failing and processes dying? Does an undisturbed call do what it says? Does an iteration return all that was there? | `TypeOK`, `LossExplained`, `SoloOutcome`, `NextCovers` |
| `library` | In every environment and order of the constructors, on every backend, with any system call, allocation or message failing: which backend is chosen, and what are `errno`, the trace and the log after each call? | `TypeOK`, `LoadRight`, `ErrnoIsCause`, `TraceRight`, `ErrorsSurvive`, `LogExact` |
| `efivar_tool` | Two runs of the tool after each other beside a program that changes the variable: are exports exact, restored as they were, refused when damaged, and edits right? | `ExportExact`, `RestoreRight`, `WalkComplete`, `EditRight` |
| `secdb_sorted` | Are sorted databases of hashes sets of signatures, one ordered list per type, through any calls, also when a flag changes between them? | `TypeOK`, `ListsRight`, `ActsAsSet` |
| `efisecdb` | Over about 2300 command lines: does the output have what was asked for up to the first damage of each input, and nothing else if there is no damage; is there none after a failure; and does a file of somebody else stay? | `OutputRight`, `NoClobber` |
| `boot_entry` | Do paths fit and end, name an entry of one intact table while the table is being rewritten, have the nodes of the device, and survive load options and appending? Is the disk only written when asked? | `BufferRight`, `HdRight`, `FullPathFaithful`, `OptRoundTrip`, `AppendRight`, `SigOnlyWhenAsked` |
| `sbchooser` | Is the digest that of the unsigned file, and is nothing read behind a file whose headers claim no more than there is? Do verdict, reason, order and databases follow the manual and the rule quoted at `sbchooser.c:304`? Does every run end? | `ImageRight`, `VerdictRight`, `BestFirst`, `OptionsRight`, `Ends` |
| `sbchooser_revoked` | expects a violation, below | `RevokedNotListed` |

The disagreement that has a run: `is_same_cert` is said to return true for the
same issuer and serial number (`sbchooser-x509.h:56`), and returns true for the
same issuer and *different* serial numbers. TLC finds a file signed with a
certificate that is in dbx and is listed as trusted. The same comparison has a
signer's certificate in db not start its file, and start those of its siblings.
`VerdictRight` states the rule at `sbchooser.c:304` with certificates compared as
the header says, for all files but those with a signer for which the inversion
matters (`Clear`).

Three more comments are not what the code does. No run shows them; the properties
follow the code or leave the case out:
- `load_pe` is said to use only the first signature for sorting when
  `first_sig_only` is set (`sbchooser-pe.h:140`): the dates of all signatures are used
  (`sbchooser-pe.c:392`). `BestFirst` is for files whose signatures all count
  (`AllCount`).
- Each entry of a secdb is said to stand for one owner, algorithm and size (`secdb.h:37`):
  `find_secdb_entry` does not look at the owner. `ListsRight` has one list for a
  type and size.
- `utf8_to_ucs2` is said to add a terminator when asked (`ucs2.h:174`): it writes nothing for
  an empty string, so that a reader of a load option that was made without a
  description, in a buffer that was not cleared, goes on into the path.
  `OptRoundTrip` is for the other options; that the accessors stay within the bytes
  they were given is checked for all.

The models show more places where the code does not do what a reader may
expect; the properties above are stated so that they hold, and leave out these
cases by name:
- a failing set removes the value another process stored meanwhile, since the
  roll back works by name (`efivarfs.c:601`; `Undo` of `VarStore`);
- a file that was created and not yet written is read as an empty variable with
  attributes 0, and its size is 2^64 - 4 (`efivarfs.c:414`, `345`);
- setting a variable that exists does not set its mode; chmod always returns -1;
  a read that overlaps a set returns a mixture of both values;
- two overlapping updates of the ESP file leave an old or mixed copy, silently;
  a failing `fclose` leaves a truncated one, a failing copy ends the program;
- `efi_del_variable` on efivarfs loses the errno and the trace of a failing
  unlink (`efivarfs.c:462`), and a set on sysfs the errno of a failing `write()`
  (`vars.c:606`);
- in the sysfs backend a crash, a refused record or an append beyond 1024 bytes
  loses the variable, and an iteration begun while another was given up goes on
  in its middle;
- a message that another thread overtakes is logged under the other's level;
- certificates whose sizes differ by 16 bytes are confused, one that is removed
  may stay, `nsigs` is not counted down, a certificate hash comes back longer,
  and an empty list in a file is delivered as a signature;
- `efisecdb` removes an output file that it could not open for a reason other
  than `EEXIST`, and takes a short write for a success;
- `efisecdb` ends with status 0 when it has skipped the lists behind a damaged one
  or read them as signatures;
- a native export of less than eight bytes of name and data is not importable,
  and the offset a native import returns is not that of the next record;
- appending to a path of several instances does not return (`dp.c:145`),
  `efidp_append_instance` leaves its result without an end, entries of a GPT are
  128 bytes whatever its header says, an eMMC node has the subtype of NVMe;
- in `sbchooser` keys other than RSA have no strength, the strongest signer
  counts where the manual says the lowest, an unsigned file that ends unaligned
  with its last section has another digest than when it is signed
  (`PaddedAsSigned`), and headers, sections or a security directory that claim more
  than the file has may make it read behind the map.

Every property has a mutant in `PROJECT.json`, a plausible bug in a mapped
definition that makes it fail; a property of several parts has one for each of
the parts that a different piece of code is responsible for.

### Bounds, and why they are enough
- Efivarfs: two processes and one variable. Calls on different variables touch
  different files and no property relates two variables, while three steps of
  interference (create, remove, create again) by one other process already give
  every state a call can meet between two of its own. Three inodes are enough
  for the linked file and one orphan per process, so `Create` is never starved.
  `MaxLen` 1 makes an append overflow, 2 lets a read be torn. `SizeMod` 256
  stands for 2^64. Each passing run lets the system calls fail that matter to
  its properties; between them all do.
- `VIEW` drops what nobody can see: in Efivarfs the old content of inodes that
  nothing refers to (`Create` overwrites it), in VarsSysfs the modes, which no
  step looks at; `SYMMETRY` permutes processes and inodes and is not used where
  liveness is checked.
- EspVarFile: three blocks (written early, written when the next one is read, held
  back), three versions, two processes, the file in none, one or two of the three directories.
- VarsSysfs: two processes on one variable and an entry that is none; a value
  that exceeds `MaxLen` when it is appended once too often, and one the kernel
  refuses; the kernel's layout is the one the guess misses.
- Library: two threads, because errors are thread-local and only the log, which
  two can already garble, is shared; programs that use all entry points in one
  thread, read in two, and log in two. `Backlog` and `Pending` bound the errors
  and messages a program leaves unread, each at one, which a next one can spoil.
- EfivarTool: names of 1 and 4 characters, one of them not ASCII, data of 1 to
  4 bytes, around the limits of both formats; files of one and two records,
  good, damaged and cut; `MaxRuns` 2 so that a run works on what another left,
  `MaxOther` 1 change meanwhile.
- SecDb: hashes of two types, two owners, data that differ in the last word;
  files with two lists of one type, a repeated hash under another owner, an
  unknown type, and one damaged after its second signature. `MaxSigs` bounds
  `nsigs`, which the code never counts down, and `MaxLists` the lists.
- EfiSecdb: files that are sound, padded, prefixed with attributes, cut, with
  sizes grown or an emptied list; command lines of up to two inputs and the
  additions and removals around them, in every order of interest.
- BootEntry: fourteen machines, one for each way a probe may match, disks of
  seven blocks with two entries, intact, with damage to either or both tables,
  without GPT, and blank; buffers of the size asked for, three bytes longer, and
  1, 4, 10 and 40 bytes short.
- SbChooser: files with no, one or two signatures of one or two signers, in
  every mixture of trusted, revoked, weak and foreign; layouts with unsorted,
  empty, overlapping and missing sections, trailing data and padding, and for each
  subtraction of the digest a file that makes it wrap around; every set of options on
  four systems. Units of 2 stand for the
  alignment of 8, and `Word` 64, three times the longest file, for 2^32.

Deadlock is checked in `efivarfs_*`, `vars_sysfs`, `secdb_sorted` and
`efisecdb`. The other models end: every process may have died or been ended by
the library (`esp_faults`, `library`), or the program is done.

### Fairness
`FairSpec` of Efivarfs has weak fairness of the steps of each process: the
scheduler runs a process that is inside the library, and none of its system
calls waits for another process. Nobody is forced to make calls, and dying is
never fair. The only loop is the one of `read_file` (`src/src/util.h:58`), which
sleeps and reads again when the kernel's rate limiter turns it away (`EAGAIN`,
action `Again`), and otherwise goes on while it gets more data, of which there is
at most `MaxLen`. For that loop `FairSpec` has strong fairness of `ReadData`: the
limiter lets a number of reads pass in each second, so a read that is repeated for
ever is not turned away for ever. It keeps what it has read so far; one that began
again would not be sure to end, which is the mutant of `CallReturns`.

`Spec` of SbChooser has weak fairness of its next step: the program is
sequential, waits for nobody, and its user comes to the end of the options.

## 4. Proofs

The theorems hold for every value of the constants that satisfies the named
assumptions of the modules: any number of processes or threads, any variables,
values, directories and blocks, and any set of system calls that may fail.

| Module | Theorem | States |
|---|---|---|
| `EfivarfsProofs` | `TypeCorrect`, `ProtectionKept`, `StubsHaveOwners`, `Implements`, `QuietReadsExact` | `TypeOK`, `ImmutabilityGuarded`, `StubOwned`, the refinement `Atomic`, `QuietReadExact` |
| `EspVarFileProofs` | `TypeCorrect`, `NeverMixed`, `Repairs` | `TypeOK`, `OneVersion`, `SoloUpdate` |
| `VarsSysfsProofs` | `TypeCorrect`, `NothingLost`, `SoloPromises`, `IterationsComplete` | `TypeOK`, `LossExplained`, `SoloOutcome`, `NextCovers` |
| `LibraryProofs` | `TypeCorrect`, `LoadsRight`, `ErrnoTells`, `TraceTells`, `LogTells`, `ErrorsKept` | `TypeOK`, `LoadRight`, `ErrnoIsCause`, `TraceRight`, `LogExact`, `ErrorsSurvive` |
| `EfivarToolProofs` | `ExportsExact`, `EditsRight`, `RestoresRight`, `WalksComplete` | `ExportExact`, `EditRight`, `RestoreRight`, `WalkComplete` |
| `SecDbProofs` | `TypeCorrect`, `ListsStayRight`, `Refinement` | `TypeOK`, `ListsRight`, the refinement `ActsAsSet` |
| `EfiSecdbProofs` | `OthersKept`, `FailuresClean` | `NoClobber`, `FailsClean` (a part of `OutputRight`) |
| `SbChooserProofs` | `OptionsHeeded`, `ImagesRight`, `VerdictsRight`, `BestComesFirst` | `OptionsRight`, `ImageRight` (with `SignaturesFound`, its part `SigsComplete`), `VerdictRight`, `BestFirst` |

So every safety property of the runs is a theorem, apart from those of
`boot_entry` and the contents of the output of `efisecdb`. Each module has the
same shape: an invariant (`IInv`, or one for each theorem) that is a conjunction
of named parts (all but the type are needed because the property alone is not
inductive), one lemma per action that the action keeps it, and the theorems at
the end.

Where a model computes by recursion over data (the offset of a record, the end
of a certificate table, the merge of a file), the fact about every length is
proved as a fact about the set of numbers it holds for: `Least` (a set of natural
numbers has a smallest one, from the well-founded order of the library) gives
`Induction` and `InductionTo`, and for sums `SumsExist` and `SumsGrow`. That the
recursive function exists is proved the same way before anything is said of it.

### The efivarfs backend
`IInv` adds `NoHardLinks` (no two names share an inode; otherwise removing one
name would not free the file of another), `HoldsOwn` (what a call holds is, if
linked at all, the file of its own variable; otherwise clearing a flag could
uncover someone else's file), `Control` (which descriptors are open at which
step: `Created` has to mean that this call created the file) and `ClearedWhere`
(a flag is cleared only at steps from which the code still puts it back or
unlinks).

The refinement needs three more facts (`RInv`): a call that holds a file nobody
can reach knows that it was overtaken (this is why an invisible success is
allowed), only writing calls are overtaken, and `ret` is 0 only when the work is
done. Then each action simulates one action of the abstract store or a stutter:
creating a file and changing flags are stutters, `Write` is `ApplyWrite` on a
linked file and `ApplyInvisibly` on an orphan, `Unlink` is `ApplyDel`,
`Rollback` is `Undo` or a stutter.

`ReadInv` adds `Lengths` (no stored value is longer
than `MaxLen`, which fits a `size_t`, so that the subtraction in
`efivarfs_get_variable_size` is exact) and `ReadAt`: if the variable has had one
value since the read began, the descriptor is still that variable's file, and
what was read is a beginning of its data. It can be the file of no other
because a file is never replaced without the variable being missing between the
two, and then `seen` has more than one element.

### The copy on the ESP
`OnTarget` (an update that writes has a directory with the file, the one that
`get_esp_filepath` should find unless a `stat()` failed in silence), `OneAtATime`
(what `raced` excludes, per directory), `Progress` (an update that is alone has
written all but the last of the blocks it copied, which is still in the buffer)
and `Accounted` (an update that ended early said so, or it is one of the four
failures that the code does not report).

### The sysfs backend
`Control` says which of the nested functions is at which step and that what
`set` is about to write fits and is a value; `SoloState` says how far an
undisturbed call has come: its variable is as it found it up to the delete,
missing from there to the write. `Owes`, which `LossExplained` uses, is the same
for calls that do overlap: a call that deleted a variable and has not written it
yet. The theorem shows that two such calls cannot pay each other's debt.
`IterState` says that what an iteration owes is still in its stream.

### The library
`Loading` follows the constructors and probes: what has been decided, that the
backends before the one being probed do not work, that no thread has run.
For a program that runs, `StackOK` says which frames a thread may have and in
which order (a backend's frame is the chosen backend's, only a program calls
`efi_append_variable`, the outermost frame is the entry point that was called),
and `ErrorsOK` what `errno`, the table and the history say at each return:
`Told`, that errno is the cause and the function that failed has an entry that
is newer than the call, is handed up from frame to frame. It fails exactly in
the four ways the properties name: no memory to record an error, the update of
the ESP file (whose errors the code drops), `efivarfs_del_variable`, and the
`write()` of `vars_set_variable`. The
subtle part is `Looking`: while `generic_append_variable` reads the variable
nothing may have failed before, or a refusal that is silent would be blamed on
an entry that was cleared. `IdleOK` is the same for a call that is over.
`LogState` says that a message no other thread has touched carries the static
level of `error.c`, and counts messages and writers against the bound of the
buffer. `ErrorsKept` is an action property and needs `TypeOK` only.

### The efivar tool
`OnPath` says that `main()` stays on the path of its operation, `StoreOK` that a
variable that exists has attributes and that its value is among those seen since
the tool started, `RegOK` that what an export has in memory is such a value (or
the data file), and `EditOK` that, as long as nobody else wrote, the firmware is
as it was and the variable in memory is what the edit asks for. The last step of
`EditRight` needs that an existing variable is never left without attributes:
otherwise `-A 0` would delete a variable it could read.

`RestoreRight` and `WalkComplete` rest on a second invariant, `ReadInv`: `OnReadPath`
(where an import, a realize or a walk can be), `ImportOK` (the variable in memory
is what the record at the offset holds, if its checksum is right, and a refused
one leaves none), `RestoreOK` (the firmware has that value once it is realized) and
`WalkOK` (the offset of a walk is the sum of the sizes of the records it has
returned, so it is the place of the next one). The last needs that the sums of
the sizes grow: two records never have one offset, so `RecordAt` finds the right
one.

### Security databases
Sorting comes first. The place `ListSort` gives an element is the number of those
that may not stand behind it; if they are ordered, these numbers are a
rearrangement (`PlacesRight`, an injection of a finite set into itself).
Comparing sequences of one length by their first difference orders them
(`CmpSign`, `CmpTransitive`), and ties are broken by position, so `list_sort`
rearranges and leaves the order the comparison asks for (`ListSortRight`).

The invariant is `Good`: every list is of a type with one size, has that size and
a length other than 0, its entries have the size of the type and no data twice,
and no two lists have one type. `nsigs` and `listsz` are not tied to the entries,
because a deletion leaves them stale; that `listsz` is never 0 again is what keeps
`find_secdb_entry` from taking over a list that a deletion has emptied. With
`Good`, each operation is about `Stored`, the set of signatures: `AddRight`,
`DelRight`, `MergeRight` (by induction over the entries of a file),
`RealizeRight` (over the lists) and `RewriteRight`, in which a database that was
written and read again has the same signatures because one type never has the
same data twice. The refinement maps each action to one of `SigSet`.

The theorems are about instances that are `Regular`: signatures of any types but
certificates, each as long as the table of types says, or of a type the library
does not know; files without corrected sizes; and databases that have SORT from
the beginning to the end. Each part is needed: certificates of sizes that differ
by 16 bytes share a list, and without SORT the lists of a file stay apart, so that
a signature may be there twice and be deleted once. The instance that TLC checks
is `Regular` (an `ASSUME` of `MCSecDb`).

### efisecdb
`NotYet` and `OpenedOurs`: before `open()` the file is not the tool's, and after
an `open()` without `--force` it is. So a file that somebody makes while the
inputs are read is found by O_EXCL, and without `--force` the `unlink()` after a
failed `ftruncate()` or `write()` removes only what the tool made. An `open()` that
fails for another reason than EEXIST removes any file, which `NoClobber` leaves out.

### sbchooser
`OptInv` says which files and which of the system's databases db and dbx hold
after the options given so far, `LoadInv` how far the walk over the certificate
table has come (`Walking`) and that the signatures found are those of the
entries before (`Found`). `DigestInv` follows
`generate_authenticode_digest`: `SortState`, that
the insertion sort has the first sections in the order of their offsets and has
lost none (`SortedTo`), `SectionState`, that the sections hashed so far cover a
tidy file up to one end without a gap and the others are behind it (`Contiguous`),
and `RestState` for the data behind the last section, the padding and the table.
For files that are not tidy it counts: the sum of the bytes hashed is that of the
headers and the sections done, so that in a file that has room for them all
(`Inside`) no subtraction wraps (`NoWrap`) and every read is of the file
(`UpdateInside`, `InsideSorted`).
`ScoreInv` says what is known of a file after some of its signatures: whether one
of them is accepted (`Judged`), and that the strengths kept so far are the lowest
of the certificates by which the trusted ones are rated (`Strong`, `Lowest`), so that
a file is rated by its weakest trusted signature (`Weakest`); after `Sort` no file
stands behind one that `pe_cmp` puts after it, and `ToldTo` says what was printed.
The invariant judges signatures as the code does, with the inverted comparison
of serial numbers; `TrustingIs` shows that under `Clear` this is what the rule says,
because the issuer's certificate then matches in both readings.

### Assumptions
They are the `ASSUME`s of the component's modules, which TLC evaluates on every
run. Beyond naming (a value that means "none" is not a value) they say: the
firmware stores no value whose size a `size_t` cannot hold
(`MaxLenAssumption` of `Efivarfs`), the variable file has at least one block and
the directories of the ESP are a finite sequence (`EspVarFile`), a program has
finitely many threads (`ThreadAssumption` of `Library`, for the bound of the log's
buffer), a variable that exists has attributes, and a command that reads, edits or
exports names a variable or a file (`StoresAssumption` and `CommandsAssumption` of
`EfivarTool`; `validate_name` ends the tool otherwise). The tool's proofs also assume
that a record with a right checksum was written by an exporter
(`FilesAssumption` of `EfivarTool`) and that names are not empty
(`NamesAssumption` of `ExportImport`), those of sbchooser that the
fields of a file are numbers of their width (`FilesAssumption`) and that digests in databases are of algorithms
the code computes (`MenusAssumption`).

### Only model-checked
- Liveness (`CallReturns`, `ProtectionReturns`, `Ends`): the prover has neither
  fairness nor ENABLED.
- What the output of `EfiSecdb` contains (`OutputComplete`, `OutputClean`): it
  relates the command line to folds over inputs that may be damaged, padded and
  corrected, where `Regular` of `SecDb` does not hold.
- `BootEntry`: its invariants relate two calls of an entry point and what folds
  over the links and nodes of a device compute, and would need assumptions on
  the disks and machines that say little less than the properties.

## 5. Plan

Modelled: all components with state. Proofs that are left: the invariants of
`BootEntry` and `OutputComplete` for inputs that are not damaged.

Models that could be refined: threads that share an iteration in `VarsSysfs`,
failing allocations in `SecDb` and `ExportImport`.

## 6. Not modelled

GUIDs (parsing, formatting and a search in a generated table), the dump of
security databases and the formatters of device paths print only; time and
character conversions have no state. Cryptography and OpenSSL are outcomes,
checksums are right or wrong. The ASN.1 checks that only log, logging except in
`Library`, and `errno` except there and where a decision depends on it are left
out. Failing memory allocations are modelled in the backends, the ESP update and
the library's error table, not in `SecDb`, the formats and the boot entries.
`linux-md.c` is not in the table of probes. `PROJECT.json` gives the reason for
each component.
