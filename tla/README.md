# Cryo: a model of its archives, of how they are written and of how they are read

Cryo is a command-line archiver. This directory has TLA+ modules translated from its
source (`src/src/*.rs`), TLC configurations that check them on small instances, and proofs,
checked by TLAPS, of properties of `compress`, `append`, the listing of trees, the layout of the
archive, the loader, the blocks and extraction for every value of the constants.

## The system

| Component | State | Operations | Hard behaviour |
|---|---|---|---|
| compress, main thread (`compress.rs` 25-198) | entries read, stream position, next block id, `read_result`, the archive's file | check arguments, create archive, start threads, read and cut, drop the sender, join the pool, send Finalize, join the writer, remove the file on error | shutdown order, errors of other threads, crash, clean-up while threads still run |
| listing (`compress.rs` 200-373) | a stack of directories, the list of paths, `index.files` | list a tree, record each path, skip what the index has | links, files that go away or change meanwhile, overlapping trees |
| worker pool (`compress.rs` 413-482) | shared receiver, engine pool, rayon's error flag | take a block, compress, encrypt, send | any order of completion; one worker fails and others go on |
| writer thread (`compress.rs` 375-412, `writer.rs`) | reorder queue, `expected_id`, index, file position, `BufWriter` | receive, drain what is due, finish (index, footer, flush, set_len) | order, Finalize against blocks, write errors, end without Finalize |
| append (`append.rs`) | `.tmp` copy, the old archive's index, the pipeline's state | copy, load, seek, pipeline, rename, clean up | crash between any two steps, detached threads, a shorter new index, duplicates, `.tmp` files left behind, two appends at once |
| archive file (`format.rs`, `loader.rs`) | header, blocks, index, footer | serialize, load | stale tail, partial file, sizes that a file claims |
| block layout (`compress.rs` 200-272, `reader.rs` 108-284, 342-354) | one byte stream over all files, blocks | read, cut, flush, slice | block boundaries, empty files, files that change, appends, 32-bit sizes |
| blocks (`codec.rs`, `engine.rs`, `reader.rs` 230-339) | key, entry, stored bytes | compress if it helps, seal, open, unpack, compare | incompressible data, damage, exchanged blocks, two copies of the checks |
| extraction run (`decompress.rs`, `reader.rs` 47-229) | output directory, `BufWriter` | check the directory, extract entries in order, set permissions and times | half-written results, second tries, links, late writes |
| verify, list (`verify.rs`, `list.rs`, `format.rs` 45-73) | none | read-only | an append beside them; shares of blocks |
| path safety, filter | none | pure functions | links |
| command line, names, errors, consts | none | - | - |

`compress` and `append` share the pipeline. The main thread sends raw blocks through one
unbounded channel to a rayon pool; the pool sends processed blocks through another to the
writer; the main thread sends `Finalize` through that same channel. A channel closes when its
last sender is dropped: the main thread holds the only sender of the first, and one of the
second, of which the pool has the other. `list`, `verify`, `decompress` and `append` meet the
result only through the file, which nothing locks.

What makes each part correct: `compress` reports success only for a complete archive, an error
only for a cause, and leaves nothing that loads and is not complete; the pool loses no error;
the writer stores blocks in the order in which they were cut, because position *i* of the index
*is* block *i*; `append` never leaves the archive's name without a whole archive and loses
nothing an earlier append added; the layout gives each file back byte for byte; a block comes
back as it was put in or not at all; the loader takes no memory that the file has no right to;
an extraction that reports success leaves exactly what was selected. `PROJECT.json` lists the
hazards behind these one by one, at their lines.

## Modules

| Module | Models | Composed from |
|---|---|---|
| `ArchiveFile` | a file as its length and the chunks intact in it, `write`, `set_len`, what the loader finds | - |
| `Word32` | `as u32`: the lengths that the format keeps in 32 bits | - |
| `Pipeline` | channels, pool, writer thread, `BufWriter`: one action per step of each thread, and the part of the inductive invariant that speaks of them | `ArchiveFile`, `Word32` |
| `Compress` | the main thread of `compress`, faults and crash | `Pipeline` |
| `OrderedLog` | the abstract specification of the pipeline: blocks stored in production order, then committed or given up | - |
| `CompressRefinement` | the mapping from `Compress` to `OrderedLog` | `Compress`, `OrderedLog` |
| `Append` | the main thread of `append`, the copy, the rename, the same mapping | `Pipeline`, `OrderedLog` |
| `SharedArchive` | several appends and readers of one archive: names, inodes, open files | `ArchiveFile` |
| `Lists` | retaining some elements of a vector, running sums | - |
| `Layout` | reading, cutting, appending, slicing, with real bytes | `Lists`, `Word32` |
| `Listing` | the columns and totals of `list` | `Layout` |
| `FileTree` | directories, files and links, and how the kernel follows a path | - |
| `Traversal` | listing and recording a tree, over appends | `FileTree`, `Lists` |
| `Extract` | runs of `decompress` into one directory | `FileTree`, `Lists` |
| `RoundTrip` | from a tree to an index to a tree | `Traversal`, `Extract` |
| `Loader` | opening an archive: checks, limits, password, memory | `Word32` |
| `BlockCodec` | one block's way to the disk and back, and damage | `Word32` |
| `ListsProofs` | lemmas: induction, recursion, sums, sorted and retained elements, slices, prefixes | `Lists` |
| `PipelineProofs` | the invariant of the pipeline, action by action | `Pipeline` |
| `CompressProofs`, `AppendProofs` | threads, disk and refinement of each command | `CompressRefinement`, `Append`, `PipelineProofs` |
| `SharedArchiveProofs` | appends one after the other and readers beside them | `SharedArchive` |
| `LayoutProofs` | the round trip through the blocks, and the figures of `list` | `Listing`, `ListsProofs` |
| `TreeProofs` | listing and recording a tree, extracting one, and both together | `RoundTrip`, `ListsProofs` |
| `ReaderProofs` | the loader, and the blocks | `Loader`, `BlockCodec` |
| `MC*` | instances for TLC | the module checked |

### How the models correspond to the code

*Pipeline.* `raw_rx` and `rw_rx` are the contents of the two channels, `raw_tx` and `rw_tx` say
whether the main thread still holds its sender. A worker is one split of rayon's
parallel bridge: `WorkerBegin` is where a split starts, and does not if `try_for_each` has seen
an error (`full`); `WorkerTake` and `WorkerEnd` are `next()` on the shared receiver;
`WorkerSend` and `WorkerFail` are the closure with `process_block`. A split looks at `full` only
after it has consumed a block, so others go on after a failure, as in the code. The pool
is done when every split has stopped, which is when `spawn_workers` returns and drops its
sender. `WriterRecvBlock`, `WriterDrain` and `WriterDrained` are the two nested loops of
`writer`; `WriterFinish` and `WriterSetLen` are `finish()` before and after the flush;
`WriterDisconnected` is the loop's end when `recv` fails. `Spill` is the `BufWriter`, which
may pass data to the file at any time. A send whose error the code drops loses the block
(`SendRaw` with the pool gone). Here a block is its id and, once processed, its stored
length. `WriterDrain` and `WriterFinish` cut the lengths of blocks and of the index to 32 bits, as
the code does, and `file_position` goes on by what is left; `SizesFit` assumes that nothing is lost
(blocks and index below 4 GiB), which `--bs` does not see to.

*ArchiveFile.* A chunk on disk says what it holds: block data has the id that its ciphertext is
bound to, an index its entries, a footer the place and length of the index. Writing over any
part of a chunk destroys it. `Loadable` is the loader's path (header at 0, footer at the end,
index where the footer says), `Sound` is what `verify` then asks of every block. The footer has
length 1 in place of 29.

*Faults.* `Faults` names what the environment may do: `read`, `process` (a codec or cipher
fails), `write`, `finish`, `unlink` (`remove_file` fails), `copy`, `retrieve`, `rename`,
`open`, `mkdir`, `create`, `block`, `times`, `crash`. A crash is the end of the process: the
kernel keeps what was written, what is in a `BufWriter` is lost. Loss of power is not modelled:
the code calls no `fsync`, and a promise about it would be false at once. A panic in a thread is
not a fault of its own.

*Compress.* `pc` is the main thread's position: `start` to line 97, `read` to 174, `join` 176-179,
`finalize` 180-185, `join_writer` 186-188, `cleanup` 191-193, `return` to the end of the
function, where the last sender is dropped, and `left` until the process exits; in `left` and
`cleanup` the detached threads still run. `path` is what has the archive's name.

*Append.* `before` is the archive as it was, `file` the `.tmp` file once it is a copy, and `arch`
which of the two the archive's name stands for. Every archive of up to `MaxOld` blocks that
compress can make is an initial state (`Archives`); entries of an archive that was appended to
have the same form. `LeaveClosure` is the return from the closure, which drops the senders and
detaches the threads. A `.tmp` file may exist before and is overwritten, as by `fs::copy`.

*SharedArchive.* A run is the sequence of its calls to the file system. A name leads to an inode,
an open file is an inode, `rename` moves an inode from one name to the other, and a file that
was opened stays what it was. The pipeline, which `Append` has in full, is here one block, the
index with its footer, and `set_len`. A killed append and one whose copy failed leave the `.tmp`
inode, and the next one truncates it. `Overlap` says whether an append may start while another
runs.

*Layout and Listing.* Here bytes are real values (which session, which file, which byte), so that
a wrong slice is a wrong value. `ReadChunk` may return fewer bytes than asked for. An input entry
has the size of its metadata and the bytes that reading it gives, which may be more or fewer.
`SizePlain` is kept modulo `U32`, as the `u32` in the index. `total_stream_size` is the one that
`finish` puts into the index; `BeginAppend` restores `stream_position` from it. The extraction operators are the
arithmetic of `extract_file`: `FirstBlock` is the partition point, `BlocksOf` the loop with its
`break`, `Slice` the range, `Readable` the checks of `read_block`. `Listing` computes shares of
blocks in whole parts (`Scale`), where the code has `f64`, and rounds down at the same place.

*FileTree, Traversal, Extract, RoundTrip.* A tree is a function from paths (sequences of names, at
most `MaxDepth` long) to nodes: a directory, a file with its slices, permissions and time, a link
(how many levels up, and then which names), a special file, or nothing. Permissions and times are
values of `Attribute`. `FinalPath` is the
kernel's way of following links, with its limit. `Traversal` keeps the code's two passes: the
tree is listed with an explicit stack, then each path is looked at again; in between other
programs may remove things. `Extract` has one action per call to the file system in
`extract_file`, with the `BufWriter` between a file's slices and the disk: a run that fails drops
it, which may still write, and one that is killed loses it. `RoundTrip` runs `Traversal`, then a
fault-free `Extract` over its index; what came back is read through links (`RealPath`), as the
tests read it.

*Loader.* One action per stage of `FileStructs::retrieve` and of `Cipher::new`, which it calls:
Argon2 is given its parameters, and may refuse them, before the password is asked for; a question
may fail, and so may the derivation of the key (`AskPassword`, `AskAgain`, `DeriveKey`). `taken`
records every size for which memory is requested, with `LoadBlock` for the blocks that `verify` and
`decompress` go on to read. A file is any combination of sizes and at most one defect. That there
is no footer is not a defect which the code could see: the last 29 bytes are taken for one. A
damaged index is noticed by the cipher (`DecryptIndex`); without one nothing checks it, and
`UnpackIndex` may go either way. The options are those of `decompress`; `EffLimit` has the division
of `--max-m-cost` by 1024 and its cast to 32 bits.

*BlockCodec.* `Seal` is what `encrypt_block` makes: it opens only under the same key, archive
(nonce) and block number, and a cipher is otherwise assumed perfect. A checksum is the data
itself: hash collisions are not modelled. Without a cipher anything opens, and only the checksum
is left. `DamagedBlock` and `Swap` are what may happen to the file between the commands. The
lengths in an entry are cut to 32 bits; `LengthsFit` assumes that a block with its tag is below that.

Definitions marked *Mutant* are not part of the models. Each is a plausible bug of the definition
below it; with it in that definition's place TLC finds the named property violated
(`PROJECT.json`, "mutants"), which shows that the property can fail.

## Runs

| Run | Question | Bounds |
|---|---|---|
| `compress` | success only for a complete archive, an error only for a cause; nothing incomplete loads, after a crash either; `OrderedLog` implemented; every run ends; the invariants of the proofs | 2 workers, 3 blocks, stored lengths 1 and 2, all faults together |
| `append` | the name always leads to a whole archive; old entries kept; nothing writes after the rename; `OrderedLog`; every run ends; the invariant of the proofs | old archives of 0 to 2 blocks up to length 5, 2 new ones, index lengths 1 and 3, all faults |
| `append_copy_fails` | a *violation*: a failed copy leaves the `.tmp` file | fault `copy` only |
| `shared_archive` | an append that reported success stays; readers are never disturbed | 3 appends one after the other, 1 reader at any moment, failures and kills at every step |
| `shared_archive_in_place` | a *violation*: two appends at once write to the archive in place | 2 appends, no failures |
| `layout` | round trip, accounting, block sizes, the columns of `list` | block size 2, 17 listings, compress and two appends |
| `layout_zero_block` | a *violation*: block size 0 stores nothing | one file of 1 to 5 bytes |
| `round_trip` | the listing has everything once, parents first; the index has each path once; what was put in comes out, and when it does not | two names, trees of two levels and one of three, all nodes of `MCRoundTrip`, two appends, one removal, any filter |
| `round_trip_clash` | a *violation*: an append through a link overwrites another file at extraction | the same, one append |
| `extract` | success leaves exactly the selection, passed entries stand, half a file is a prefix | 4 indexes, any filter, 4 states of the directory, 2 runs, all faults |
| `loader` | no memory beyond a limit; the password is asked for last; sound files open, and of the others only one kind can | sizes at and above each limit, three options or none, all defects, 4 commands, a block |
| `block_codec` | blocks come back exact or not at all; `verify` agrees with extraction | 4 blocks of 3 kinds, 3 kinds of noise, 2 passwords or no cipher, damage to one block or an exchange of two |

Deadlock is checked in every run; a process that is done may stutter.

*Why the bounds are enough.* Two workers suffice for every overtaking of two blocks, for one
failing while another works, and for one stopping before the other; a third block makes the
reorder queue hold one block while another is drained, and lets a failed block have successors.
Blocks carry no data beyond id and length, so more of them repeat these cases; the proofs remove
the bound. Index lengths 1 and 3 make the new archive both shorter and longer than the old.
With block size 2, files of 0 to 5 bytes end before, at and behind a boundary and span up to three
blocks, and the short block at the end of each command lies before, inside or behind the files of
the next. A third append in `shared_archive` meets the `.tmp` file of the first one over the
archive of the second. Trees of two levels have a link inwards, to the top, and outwards,
a directory in a directory, and siblings on both sides of each; the one of three levels has a file
two directories down, so that a filter may keep it without them where something else was before
(`Clash` looks at every directory above an entry, not at the nearest one). Deeper ones repeat the
step from a directory to its children. In `loader` a size is either within a limit or beyond it. In
`block_codec` two passwords are one that is right and one that is wrong; each kind of block is
one side of each comparison with the block size and the packed size.

*Fairness.* Each thread is weakly fair: the main thread, the writer, and each split of the
pool. The operating system schedules every thread that can run, and rayon
runs every split of a bridge before `try_for_each` returns. A blocked `recv` or `join` is an
action that is not enabled, so nothing is assumed of it. Faults and crashes are never forced;
a `Worker` step may always be the failing one, and a read may always go on until `MaxBlocks`. The
writer's fairness covers `Spill`: `flush` writes the buffer out.

## Findings

1. `append.rs:26`: the `?` after `fs::copy` leaves `append_file` before the closure whose
   failure removes the `.tmp` file, so a partial copy stays. `src/README.md:94` says "If anything
   fails the `.tmp` is removed". The original is untouched, as that line says
   (`ArchiveAlwaysWhole`), and the next append is not harmed (`NoAppendLost`).
2. `compress.rs:248`: `--bs 0` is accepted; a chunk without room makes every read return 0, which
   the loop takes for the end of the file. Compress reports success and has stored nothing.
3. `append.rs:25`: two appends at once share one `.tmp` name. The first one renames the inode that
   the second still has open, and the second then writes to the archive itself, while
   `src/README.md:94` says that append never does.
4. `append.rs:105`: append compares paths only. Where the archive has a link `a` to the
   directory `b` and a directory `a` with a file `x` is appended, extraction makes the link,
   writes `a/x` through it over `b/x`, and reports success: who reads `b/x` gets the content of `a/x`.

*Known limits that no run is about*, met while reading:

- `compress` records links that lead out of the tree and files from before 1970; `decompress`
  refuses the first and panics at the second (`reader.rs:154`), when part of the tree has been
  written. `FailsOnlyFor` states that these and finding 4 are the only such cases.
- A file that shrinks between its metadata and its reading is recorded too long; extraction
  fills it with bytes of its successor (`compress.rs:250`).
- The index has lengths modulo 2^32: of a block (`compress.rs:458`), of what is stored of it
  (`compress.rs:383`, by which `file_position` goes on) and of the index itself (`writer.rs:96`,
  `writer.rs:108`), while `--bs` accepts more. A block of 2^32 bytes has size 0, and compress
  reports success. `SizesFit`, `LengthsFit` and `UsableBlockSize` are the assumptions of the proofs
  that exclude this. `--max-m-cost` wraps likewise.
- Without a cipher nothing checks the index (`loader.rs:111`): a damaged one that still unpacks and
  deserializes is opened, to other entries. `OpensTheSound` has this as its one exception. Nor is a
  missing footer noticed as such (`loader.rs:67`).
- `list`, `verify` and `append` use the default limits; `compress` makes archives with block
  sizes that they refuse, and the error names an option that they do not have.
- The `.tmp` name is made by cutting the archive's name at its first `cryo`, and may be the name of
  another file, which is then written over. Names that end in `cryo` without a dot are accepted
  by some commands only.
- Appending the directory in which the archive lies lists the archive and its `.tmp`.
- Two extractions into one directory at once both find it empty.
- Neither channel nor the reorder queue has a limit: one slow block keeps all later ones in memory.

## Proofs

Each proof module names the assumptions of the module it is about and uses nothing else: workers
are any non-empty set, block bounds, sizes, limits and fault sets are arbitrary, an index takes at
least one byte, and lengths that the format keeps in 32 bits fit into them (`SizesFit`,
`LengthsFit`, `UsableBlockSize`).

*The pipeline* (`PipelineProofs`, then `CompressProofs` and `AppendProofs`). That a successful run has
a complete index is not inductive: it depends on where every block is before. `IInv` is
`TypeOK`, `PipeInv` and `MainInv`. In `PipeInv`, `NoneLost` says that as long as neither a worker
nor the writer has failed, each id from `expected_id` on that has been cut is in the raw channel,
with a busy worker, in the writer's channel or in the queue; `StopsOnlyAtEnd` that no worker stops
while there is still something to take; `FinalizeLast` that a Finalize in the channel is the
last message and the pool is done without error; `NoneDue` that a waiting writer has nothing due
in its queue. So when the writer receives Finalize, three of the four places are empty, and the
lowest id in the fourth would be due: nothing is pending and `expected_id = block_id`
(`FinalizeFindsAll`, the heart of the argument). `MainInv` ties the main thread's position to
this: it sends Finalize only after joining the pool and seeing no error. Each action of the
pipeline has its own lemma in `PipelineProofs`, which both commands cite; they differ in what the
log starts with (`<<>>` or the old index) and in the ways out. For `compress`: `Invariant`,
`TypeCorrect`, `SuccessHasCompleteIndex`, `ErrorsReachTheCaller`, `ErrorsAreReal`,
`FinalizeNeverOvertakes`, `IndexIsAppendOnly`, `IndexIsContiguous`, `ForeignIsUntouched`,
`FailureIsCleanedUp`, and step by step `CompressImplementsOrderedLog`. For `append`: `Invariant`,
`OutcomeIsTrue`, `FailureIsCleanedUp`, `AppendImplementsOrderedLog`.

*The disk, `compress`* (`CompressProofs`). `DiskInv` says that each chunk the archive should have
by now is on disk or in the buffer (or was in the buffer of a writer that failed, and belongs
behind all that is on disk), that nothing else is on disk, that the buffer is in order and
behind the disk's end, and that the place of the next block is free. That `file_position` is where
the block before it ended needs `SizesFit` (`CastKeeps`). Because the buffer is written
in order, a footer on disk means that all before it is there as well (`FooterComesLast`), and with
`IInv` that is every block. Theorems: `DiskInvariant`, `LoadableFilesAreComplete` (also after a
crash anywhere), `SuccessMeansCompleteArchive`.

*The disk, `append`* (`AppendProofs`). Here the file starts full: behind the last old block
are the old index and footer, which the new chunks overwrite piece by piece. `DiskInv` has three
parts: `NothingMissing` (what the new archive should have is on disk or in the buffer),
`NothingDestroyed` (chunks on disk, and those of the new archive, do not overlap, so a write
destroys only what is old), `NewBehindOld` (the new entries follow the old ones, and lie behind
them). After the flush all chunks are there; what else is left lies in what is not theirs, and
`set_len` cuts it where the new footer ends, so that the loader finds that footer and no other.
The rename happens only then. Theorems: `DiskInvariant`, `ArchiveStaysWhole` (at every moment, and
so after a crash anywhere), `OldEntriesStay`, `NothingWritesAfterRename`.

*The loader* (`ReaderProofs`). `LoaderInv` says of each stage what has been found out about the file
when it is reached (`SizesSeen`, `DefectsSeen`, `PasswordsSeen`), and carries the three properties along. A
step that takes memory, asks, or opens the file does so at a stage before which all the
property speaks of has been seen (`StepTakes`, `StepAsks`, `StepOpens`); `StepSees` goes through the
stages once. Theorems: `MemoryIsLimited`, `PasswordComesLast`, `OpensWhatIsSound`.

*Blocks* (`ReaderProofs`). `CodecInv` says that entry and stored bytes of an untouched block are
those of the data put in, under its own number, and that damage leaves a mark which the cipher
compares; `LengthsKept` takes from `LengthsFit` that the casts to 32 bits change nothing. Theorems: `BlocksComeBack`, `DamageIsNoticed`, `VerifyIsExtraction`. Perfect sealing and
the absence of hash collisions are part of the model.

*Sharing* (`SharedArchiveProofs`). Any number of appends one after the other (`~Overlap`, which
nothing in the code enforces), each failing or killed anywhere, and any number of readers beside
them. `SharedInv` says that the `.tmp` file's inode is neither the archive's nor open in a reader
(`Apart`), nor is that of an append that has not begun (`Fresh`); that at most one append is at
work (`Alone`); and what its copy holds at each of its steps (`Stage`), from the whole old archive
to a whole new one. Writing the new block destroys the old index, and what it leaves of the old
footer lies where the new index goes (`BlockDone`), so that one footer is left. Theorems:
`NoAppendIsLost`, `ReadersAreUndisturbed`, `NeverInPlaceAlone`; the run `shared_archive_in_place` shows
why the assumption is needed.

*Lemmas on vectors* (`ListsProofs`). Sums, retained elements and joined slices are recursive
functions, and what they compute is proved by induction. `Induction` follows from the fact that
`<` is well-founded on the naturals, for a set of numbers in place of a predicate; `Recursion`
says that a function given by its steps exists, and with it that the `CHOOSE` behind a recursive
definition finds it.

*The layout* (`LayoutProofs`). Assumed is `UsableBlockSize`: at least 1, which the run
`layout_zero_block` shows to be needed, and below `U32`, so that the sizes in the index are those
of the blocks. `IInv` says that a stream of bytes exists that no variable holds, and places in it
where the blocks end: blocks and pending bytes are what lies between those places (`Cut`), and
each file's bytes stand in the stream from its offset on (`Holds`). Reading adds to the end of the
stream, so what a file has there stays; cutting adds ends. Of a stored archive it says that the
index has the stream's length, from which an append goes on. The sums of the sizes in the index are
those ends (`EndsAreSums`); the blocks from the partition point to the `break` are those that
overlap the file, and their slices follow each other without a gap, so that joined they are the
stream between the file's offset and its end (`ExtractionReadsStream`, an induction over the
blocks). Theorems: `LayoutInvariant`, `BlocksAreNeverTooLarge`, `WriterAndReaderCountAlike`,
`FilesComeBack`. The figures of `list` need in addition that each file starts where the one before
it ended and the last one ends the stream (`Placed`). `Worth` of a place in the stream is what all
before it takes on the disk; a file's shares are the difference between two such places
(`SharesBetween`), so that over all files they add up to the whole. Theorem: `ListedFiguresAddUp`.

*Listing a tree* (`TreeProofs`). Trees have any finite set of names, any depth, and any
shape that `IsTree` allows: a node that is there has a parent that is a directory. The invariant
says of the first pass that stack and list have no path twice and nothing in common, that each
path there exists below a root that is asked for, that a directory comes before all
that is below it, and that what is not yet listed lies below something on the stack; of the second
that the index is what was there of the part of the list that has been looked at. That every path
below the root is listed is an induction on its length. Theorems: `TraversalInvariant`,
`PathsAreDistinct`, `DirectoriesComeFirst`, `NothingIsSkipped`, `TheWholeTreeIsListed`.

*Extraction* (`TreeProofs`). Any number of runs into one directory, each with any filter, failing or
killed anywhere, over whatever the directory had first. Assumed is `UsableArchives`: no index has
a path twice, which `PathsAreDistinct` shows of those that the program makes, and none has an entry
below another one that is no directory, which finding 4 shows to be needed. `MCExtract` has
`UsableArchives` as an assumption that TLC evaluates of its instance. That what a run has come past
stays is not inductive: a later entry might be made through a link, or emptied by
`File::create`. `ExtractInv` says of each run (`Good`) that what it has come past is there as the
index says (`Behind`), that above each of its entries there is a directory or nothing yet
(`Roads`), and that there is nothing else in the directory but these entries, what is above them
and what the current one needs (`Contents`); so no link is ever followed on the way, the place of a
file or a link is free, and the file that is open is that of the current entry alone. `Written`
relates the file, its buffer and the slices that were read, `Half` what a run that ended has left of a file. Of
two runs one has not begun (`Alone`): the next run starts only where nothing is, and whoever has
written anything has left something there (`TraceOfRun`). Two lemmas say what the recursive
functions come to where there is no link: `FinalOfNoLink`, and `MakeDirsPaves` for `mkdir -p`.
Theorems: `ExtractInvariant`, `ExtractedEntriesStand`, `HalfAFileIsAPrefix`,
`SuccessLeavesTheSelection`.

*From a tree to a tree* (`TreeProofs`). `RoundInv` joins the two. While the archive is made nothing
has happened to the run of decompress (`Ready`), and the index is that of `TraversalInv`; what is
listed and not gone can be stored (`Stored`), and as long as there was one command and nothing went
away, entries and tree say the same (`Faithful`). Once the run has begun the index stays, the run
has a selection of it, and if that has no clash (`Sound`, from `PathsAreDistinct` and the
hypothesis of the property), the run is as `Good` as any of `ExtractInv`; the step from one to the
other is `HandoverRound`. In addition a run comes past no link that leads out and no file whose time
cannot be set (`Passed`). That the directory has the paths of the index and no more is an
induction along `ParentsFirst` (`ClosedUpwards`). `FailsOnlyFor` takes `NothingFails` as its
assumption, which TLC evaluates for the instance of `MCRoundTrip`: no fault, and no file above
the limit. Then `ErrorIsOutward` goes through the steps that end in an error and finds each but the
refusal of a link impossible. Theorems: `RoundInvariant`, `WhatWentInComesBack`,
`NothingElseFails`.

*Only model-checked.* Liveness (`Terminates`, of `Compress` and `Append`), which is out of
the prover's reach, as is ENABLED. Every other property that a passing run checks is a theorem.

## Not modelled

- MessagePack and the field layout of header, index and footer; dates, JSON strings, permission
  letters, colours, progress bars, logging, texts of errors; argument parsing; glob patterns (a
  filter is any subset of the entries).
- The codecs and ciphers themselves, levels of compression, the drawing of nonces, the derivation
  of keys: third-party code.
- File names and extensions as letters (`archive_filename`, `create_tmp_file`).
- The reuse of engines in `engine_pool`: an engine keeps no state between blocks that a result
  depends on.
- Permissions and times of directories, which the code does not restore; a special file given to
  `compress` by itself; links that the check of a path follows on its way (`normalize` works on
  names only, as `LinkGoal` does).
- Rounding of `f64` in `list`: `Listing` computes exactly.
- Power failure and `fsync`; panics other than the one above; more than one process that
  compresses or extracts at a time.

## Plan

What is left, in order of importance: for each `Terminates` what it rests on, as theorems: a
measure that every step of a run decreases, and that one of its steps is possible until it has
ended; names as a module of their own.
