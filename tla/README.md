# A verification development of the epub library

TLA+ modules that model the library in `src/src`, TLC configurations that check
them on small instances, and TLAPS proofs of what the reader of epub files
promises. File and line references are to the repository's sources.

## 1. The system

The library reads an epub, which is a zip file, from a FAT disk, expands it into
a directory of the same disk and extracts its metadata. It is `no_std`,
single-threaded and synchronous: nothing runs concurrently inside a call. What
makes it hard is elsewhere: block boundaries, look-ahead, a disk that outlives
the process and keeps what an interrupted call has done, several `EPubFile`
values over one directory, and loops that end only if each round consumes
something. A panic aborts the process (`panic = "abort"` in `Cargo.toml`).

| component | source | state | operations | called by |
|---|---|---|---|---|
| `BufReader` | `io.rs:13-186` | two blocks, `block_idx`, `cursor`, `peek_rolled`, the file's own offset | `new`, `read1/2/4`, `peek4`, `read_to_array` (and `load_block`) | everything that reads a file |
| `read_lines` | `io.rs:188-219` | the reader's, a line being collected | one call, on a fresh reader | the parsers, `has_expanded` |
| path functions | `io.rs:222-276` | none; `create_dirs` makes directories | `basename_and_ext`, `split_path`, `create_dirs` | `EPubFile::expand`, `Package::read` |
| zip records | `container.rs:12-153` | none | `LocalFileHeader::read`, `DataDescriptor::read`, `is_file`, `is_dir`, `have_data_descriptor` | `Container::expand` |
| `inflate` | `container.rs:155-220` | input buffer, output buffer (also the decompressor's window) | one call per entry | `Container::expand` |
| `Container` | `container.rs:225-365` | the directory's name; the disk | `expand`, `get_container_rootfile` | `EPubFile` |
| `Rootfile` | `container.rs:367-398` | none | `new` | `Container` |
| `EPubFile` | `lib.rs:120-288` | cached container, package, toc; the memo file on the disk | `new`, `expand`, `has_expanded`, `read_container`, `get_package`, `get_toc` | the application |
| `Package` and its parts | `package.rs` | none between calls | `Package::read` | `EPubFile` |
| `Toc`, `NavPoint` | `navigation.rs` | none between calls | `Toc::read` | `EPubFile` |
| master boot record | `mbr.rs` | none | `get_partition` | applications |
| bump allocator | `ensure_no_std/src/main.rs` | the head of the free memory | `alloc`, `dealloc` | a build check only |
| fatfs, miniz_oxide, xml | dependencies | | file system, decompressor, XML events | all of the above |

### What is hard, and what makes each part correct

- **BufReader.** Reads of any length and peeks fall anywhere on the block
  boundaries. A peek that crosses one has loaded the other block and must not
  lose it; the rollover after it must not load again (`io.rs:80,135`). A device
  error returns out of a peek before the cursor is restored (`io.rs:130`).
  Correct: the bytes delivered are those of the file, in order, once each; an
  index goes out of bounds only for a caller that asks for more than there is;
  calls that ask for less return.
- **read_lines.** A line may span blocks. Correct: the lines are the file, cut
  behind each newline.
- **Container::expand.** Entries have to be consumed exactly, or the next peek
  is not at a record. An entry that is neither a file nor a directory is passed
  over without reading its data (`container.rs:320-344`). Errors and power cuts
  come at any step, and the next attempt meets the files of the last. A stored
  file is flushed only when it is dropped (`container.rs:338`), and an error of
  that is seen by no one. Correct: Ok means that the files are there (but for
  that error); anything else leaves prefixes of them; a repeated attempt takes
  nothing away.
- **inflate.** The output fills the window at places that have nothing to do
  with where the input buffers end, and matches reach around the window.
  Correct: the file is the decompressed data.
- **EPubFile.** The memo says which book is in the directory; it is written
  last, by another call than the files. Caches are filled by one call and
  cleared by another, and read from a directory that several books may have been
  expanded into. Correct: the memo is never ahead of the files; a toc
  belongs to the package it is cached with; what is read is of the book last
  expanded; the getters unwrap only what is there.
- **Parsers.** Each is a machine over XML events with a stack and flags.
  Correct: what is collected is what the document nests; the stack holds the
  path to the element at hand; the process is aborted only for a bad file.
- **Local header.** The records of the extra field are counted down in a `usize`
  and never compared with the field (`container.rs:129`). Correct: a header that
  is accepted ends where its lengths say, or the entry's data is read from the
  wrong place.
- **Paths.** Slashes anywhere; names with a dot; the base directory is cut at the
  first place the base name occurs (`package.rs:44`). `create_dirs` takes every
  error for a directory that is missing. Correct: names are the runs between
  slashes; after Ok the whole path is there.
- **Partition table.** One read, whose count is not looked at (`mbr.rs:103`).
  Correct: an entry is only taken if it was read.
- **Allocator.** Sums of addresses and sizes (`main.rs:28,30`). Correct: blocks
  are apart, aligned, in the region; null only if it is full.

`PROJECT.json` lists every hazard at its line, with the properties that cover it.

## 2. Modules

```
ByteStream   <--implements--  BufReader  <--EXTENDS--  ReadLines
                                  |                        |
                           BufReaderProofs          ReadLinesProofs --+
Inflate                                                               |
   +--------------------------------------------- InflateProofs ------+
                                                                      |
Container    <--EXTENDS--  EPubFile                                   |
    |                         |                                       |
ContainerProofs <---------- EPubFileProofs                            |
                                                                      |
XmlDocument  <--EXTENDS--  XmlReader  <--EXTENDS--  TocParse,         |
                              PackageParse, RootfileParse             |
                                 |            |                       |
                                 |      ParserProofs -----------------+
                              MCParts                                 |
                                 |                              SequenceProofs
        ZipHeader, Mbr, BumpAlloc, Paths                              |
              |      |      |       |                                 |
              +------+------+-------+--- PartsProofs -----------------+
```

Each `MC...` module gives the constants of the modules it extends their values.
`MCLoops` has the loops of `ReadLines` and `Inflate`, of which one runs in each
behaviour. `MCParts` puts the parts that do not interact side by side: `part` says which of
them runs, so one run explores each with all its inputs. The `...Proofs` modules
hold the theorems and their lemmas (section 4); `SequenceProofs` has the lemmas
about sequences that the others share.

### ByteStream and BufReader

`ByteStream` is what a caller is promised: a position in a file, an operation
that delivers and consumes the next n bytes, one that delivers the next four and
leaves them, and a failure that may consume some of what was asked for.

`BufReader` has the fields of the struct as variables, and the locals of a call
in progress (`op`, `arr`, `arr_idx`, `nbytes`, `saved`). One action is one
iteration of the loop in `read_to_array`: `CopyWithinBlock` is the branch that
stays in the block, `Rollover` the one that does not, with the call of
`load_block` it makes; `IndexPanic` is the same branch when the other block does
not hold the rest; `LoadError` is a `File::read` that fails. `Call`, `ReturnRead`
and `ReturnPeek` are the beginning and the end of a call. A byte is identified
with its offset in the file, so a block is where it starts and how long it is.
`read1`, `read2` and `read4` are `Read(1)`, `Read(2)` and `Read(4)`.

`ShortReads` says whether `File::read` may return less than the buffer holds
before the end of the file. fatfs stops at cluster ends only, and those are
block ends; a device below it that stops short breaks `read_to_array`, as the
TODO at `io.rs:92` says: with `ShortReads = TRUE` TLC finds `PanicOnlyPastEnd`
violated at once. `MCBufReader` and the theorems but one take it FALSE.

### ReadLines

Extends `BufReader` by the loop of `read_lines`, one action per round
(`NextBlock`, `LastBlock`), over files with newlines in any place. Here
`ShortReads` is TRUE: a short block does no harm to `read_lines`. The call is
made on a reader just created, as all of its callers do; on any other it would
not be right (`io.rs:190`), which is not modelled. `Split` is what one round makes
of the lines so far and the bytes of its block, `After` the same after each byte.

### Container

One action per step of `Container::expand`: reading a header, the decisions on
it, one round of the loop for stored data, one input buffer of `inflate`, the
end of an entry; `IOFailure` and `InflateFails` are every `?`, `Crash` is the
power going. A call that ends early takes its locals with it (`Ends`), so that
what is left of an attempt is the disk. The reader is reduced to where it stands: between records, or some
bytes off (`unread`), which is what passing over an entry, or reading a data
descriptor that is not there, makes of it. The disk is what fatfs makes of the
calls: `create_file` opens what is there without truncating it, a write stops at
the end of a cluster, and what was written since the last flush or close may be
lost with the power.

An output file is closed by being dropped. `inflate` has flushed it before, with a
`?` (`container.rs:209`); a stored file is flushed by the drop alone, which cannot
return an error. `CloseFile` is the close that works, `CloseLoses` the one that
does not: the directory keeps the length it had before (`NotRecorded`), and
`expand` goes on as if nothing had happened, to return Ok in the end. The same
drop is part of `IOFailure`, where an error is returned anyway. `lost` is a history
variable: it remembers the files that were closed that way and not written again
since, and the properties say of all others what Ok means; that it should mean it
of all is `OkMeansOnDisk`, which run `epub_dropped` shows to be false.

Of `inflate`, `Container` takes what module `Inflate`
shows: the bytes are right as long as the data fits one input buffer, and open
otherwise.

Of an archive the module assumes that names differ, that nothing comes out of no
bytes, and that a stored entry is as long as its data (`ArchiveAssumption`).
`Due` are the entries that Ok promises: those with data, in one input buffer,
and not `TakenForDescriptor`. The last is an entry of a method that `expand` does
not know, with bit 4 set and exactly as much data as a data descriptor is long:
the data is read for a descriptor, and no error tells of the file that is missing.

### Inflate

The three nested loops of `inflate`. The decompressor is external: it is modelled
by how the code uses it, with a circular output buffer whose end makes it return
`HasMoreOutput`. A byte of input is a token, a literal or a match. The data that
the tokens stand for (`Unfolded`, `Plain`) is the format's definition, one token
at a time; a stream in which a match reaches back before the first byte is
corrupt, and `Fails`.

### EPubFile

Composes `Container` with the calls of `EPubFile`. `Instances` are values the
application holds, for books of `Books`, all expanded into one directory, as the
constant `CUR_BOOK_DIR` suggests. `ExpandStart` clears the caches and opens the
epub, `Container`'s actions run, and `MemoCreate`, `MemoWrite` and `ExpandReturn`
write the memo. The memo is dropped without a flush too, behind the last `?`:
`ReturnWithoutMemo` is the return that leaves it as it was in the directory, Ok
like the other. `Get` is `read_container` and the getter behind it. What a
parser makes of a file is known by whose bytes the file holds: those of a whole
file of some book, or `Torn`, of which anything may come, a panic included. A
call cannot overlap another, since each borrows the file system mutably, but
calls on different instances come in any order, and `PowerCut` and `Restart`
come between any two steps. `expand` sets the container before it knows that
the expansion succeeds (`lib.rs:226`), so after one that failed `Get` may find
the book that was in the directory before; the caller was told, and no property
forbids it. What is read after an expansion that returned Ok is of that book alone,
whichever instance reads and whatever other books left in the directory
(`ReadsLastExpanded`).

`NoPanicOnWholeBook` says of a book whose metadata is on the disk that no call for
what the book has can abort the process; a book without a rootfile, or without a
toc, is asked for the rest (`Offers`). `get_toc` of a book that has no toc does
abort (`lib.rs:171`); nothing in the repository says that it should not.

Directories that `expand` makes through `create_dirs` appear in `ExpandStart`
as one, `ExpandRefused` is its failure.

Assumed are a path that fits a cluster (`PathAssumption`; it is a file name of the
same disk), a memo that no entry is called like and marks that are no books
(`NameAssumption`), and that no parser takes an empty file (`MetadataAssumption`).

### XmlDocument and XmlReader

`XmlDocument` is what the parsers are fed, event by event: the table of the
document's elements (name, attributes, parent, text) and the path to the
innermost open one. Which elements a format has is a constant. The file may be
cut off anywhere, attributes may be missing, and an end tag may have the wrong
name, which the XML parser lets pass; `broken` remembers that. An end tag with
no start tag before it is ignored by all readers and left out.

`XmlReader` is what `Toc::read`, `Package::read` and `get_container_rootfile` have
in common: the stack of start tags, the text since the last one, and how the call
ends. In all of them the stack is popped at every end tag, and what is done with
the popped tag is decided by flags and the name of the *end* tag; `StackIsPath` and
`PanicMeansBadFile` say that this comes to the same as looking at the element.
The `panic!` behind the last line of `Package::read` is kept apart as
`"panic at end"`.

### TocParse, PackageParse, RootfileParse

One action per event. The references the results are compared with are read off
the document's table and know nothing of stacks and flags: `InOrder` lists what
the elements of a set give in the order of the document, and `Elements`, `Texts`,
`TextOf` and `Lists` are the forms of it that the formats need. What each reader
relies on of its format is an assumption of its module (`TocFormat`,
`PackageFormat`, `ContainerFormat`, `NavPointAttributes`): which elements may be
in which, and in particular that the names the flags go by occur nowhere else.
The code checks none of that; a file that breaks it is read as something else.

- `TocParse`: the four flags and the point being collected. Of nested points
  only the innermost are kept (`navigation.rs:55`): that is what the code does.
- `PackageParse`: three flags; `AddTag` is `Metadata::add_tag` and
  `Identifier::add_tag`, `Lacks` the attributes without which `Item::new`,
  `ItemRef::new` and `Meta::new` panic. The optional fields of `Metadata` are
  represented by the date, its lists by the creators. (`contributor` is a field
  that `add_tag` never sets.)
- `RootfileParse`: one flag, no assertion on the names, and of several root files
  the last is taken.

### ZipHeader

`LocalFileHeader::read` on an archive of any length with any length fields,
which `Container` takes for one step on a good header. `ReadRecord` subtracts in a
word: where overflow is checked it panics, otherwise it wraps around and goes on
reading. `"pastend"` is a read that the archive is too short for; what that does
is in `BufReader`.

### Paths

Paths are sequences of characters. `Chunks` goes through a path one character at a
time (`AddChar`), as `split` does, and `Kept` leaves the empty chunks out;
`BasenameAndExt` and `BaseDir` are searches like the code's; `create_dirs` opens or makes one directory per
step over a disk that has some of them, or a file of that name. The directory of
`content/content.opf` comes out as the empty string: the comment at
`package.rs:42` ("get the leading directories from the file name") does not hold
for it. `BaseDirIsLeading` says for which paths it does.

### Mbr, BumpAlloc

`Mbr` is `get_partition`: the block is zero where the read did not reach, so a
footer that is right has been read. (`LEN_U32` in `mbr.rs:16` is 521 where the
length is 512; nothing uses it.) `BumpAlloc` hands out blocks with addresses below
`W`; a `Layout` bounds size and alignment, which is what the assumptions say.

## 3. Runs

| run | checks | shows |
|---|---|---|
| `buf_reader` | `TypeOK`, `BlocksAreWindows`, `CallFollowsStream`, `PanicOnlyPastEnd`, `FailedPeekKeepsPlace`, `ImplementsByteStream`, `InBoundsCallReturns` | the reader delivers the file, whatever the boundaries, peeks and errors |
| `loops`, read_lines | `CollectedSoFar`, `LinesAreFile`, `LinesReturn` | lines are the file, cut at newlines |
| `loops`, inflate | `OneBufferIsRight`, `LengthIsRight`, `InflateReturns` | data of one input buffer comes out right, the length always |
| `container` | `TypeOK`, `ExpandedIntact`, `CleanPrefixes`, `RepeatNeverHarms`, `ExpandReturns` | what Ok, an error, a power cut and another attempt leave on the disk |
| `epub_one` | `HasExpandedMeansOnDisk`, `HasExpandedStays` | one book: the memo is never ahead of the files, and stays |
| `parts`, the readers | `StackIsPath`, `PanicMeansBadFile` | the stack is the path to the element; only a bad file aborts |
| `parts`, the toc | `LeavesAreKept`, `TitleIsItsOwn` | what `Toc::read` collects is what the document nests |
| `parts`, the opf | `MetadataIsDocuments`, `SpineIsDocuments`, `OkMeansWholePackage` | each section holds its own entries in order; no package of a file that is cut off |
| `parts`, container.xml | `RootfileIsLast` | the last root file is returned |
| `parts`, paths | `SplitIsRuns`, `BaseDirIsLeading`, `DirsArePath` | the names of a path, its base directory, its directories on the disk |
| `parts`, header | `HeaderEndsExactly` | accepted headers end where they say |
| `parts`, partition | `PartitionWasRead` | no entry is taken that was not read |
| `parts`, allocator | `BlocksApart`, `NullMeansFull` | blocks share no byte; null means full |
| `epub_two` | `CacheCoherent`, `LastExpandedOnDisk`, `LastExpandedHasMemo`, `NoPanicOnWholeBook`, `ReadsLastExpanded` | two books, one without a toc, with files and paths of the same lengths: the last one expanded is there and is what is read, caches are coherent, the getters find what they unwrap |

Six runs show where the code differs from what its comments say; each
is expected to be violated.

| run | property | the code |
|---|---|---|
| `container_empty` | `EveryFileIsThere` | an empty file is not created: `is_file` asks for sizes above zero (`container.rs:88`) |
| `container_descriptor` | `DescriptorIsSeen` | the bit tested for a data descriptor is 4, the format's is 3 (`container.rs:83`); such entries are refused |
| `inflate_chunks` | `InflatedIsPlain` | `out_pos` is 0 in every call (`container.rs:184`), so with a second input buffer matches copy from the wrong place |
| `epub_dropped` | `OkMeansOnDisk` | a stored file is flushed only by being dropped (`container.rs:324-338`), the memo too (`lib.rs:232-235`); an error of that is swallowed and Ok returned |
| `epub_mixed` | `HasExpandedMeansOnDisk` | the memo of the book before stays while another is expanded over it and fails (`lib.rs:228`) |
| `epub_tail` | `LastExpandedOnDisk` | a file is not truncated before it is written over (`container.rs:324`); the memo neither (`lib.rs:232`), so that with paths of different lengths `LastExpandedHasMemo` is false as well |

### Bounds, and why they are enough

- `buf_reader`: blocks of five bytes, the least in which a peek of four can start
  at two places without crossing; files of 0 to 14 bytes, so that there are up to
  three blocks, the last of every length; arrays of 0, 1, 2, 4, 7 and 11 bytes:
  inside a block, across one boundary and across two. The cursor only moves
  forward, so the states are finite without a further bound.
- `loops`, read_lines: blocks of four, files of up to eight bytes, newlines anywhere and
  device reads of any length: up to eight blocks, the last line with or without
  a newline.
- `container`: archives of up to two entries out of ten that differ in what the
  code does with them, with or without a directory in front. A stored file takes
  four rounds, the last not full, in two clusters; a deflated one one buffer or
  two. The chunk divides the cluster, as 256 divides every FAT cluster.
- `loops`, inflate: an input buffer of three, a window of four and up to four tokens
  give two buffers of input, and output that wraps the window several times, with matches
  longer than the window and at every distance.
- `epub_*`: two instances and two books bring in every order of calls; a third of
  either adds nothing that a pair does not show. Every book has a stored entry, the
  opf, between two deflated ones, so that a file can be lost in the middle of an
  expansion, or a torn one parsed. A directory in the archive (META-INF) is in
  `container`'s archives and not in these. `epub_two` takes the instances
  as symmetric; it has no liveness property.

- `parts`: documents of up to seven elements and pieces of text (six for the
  opf), each attribute there or not: a navPoint with a label around another, one
  with label and content, a title beside an author; two titles with
  their text; an item and an itemref in their sections; two root files and a
  link. The elements that a document has once (`Once`) are had once. Paths of up
  to five characters on five disks: two directories with a slash too many, a name
  with two dots. Archives of 0 to 50 bytes with records that fit, end early and
  are too long; the word is 64, so that a count that wraps stays in reach of no
  archive, as 2^32 is. Nine lengths of the read of the partition table, at every
  border. The allocator's region has eleven bytes in an address space of 64.

`CHECK_DEADLOCK FALSE` is in the configurations of `BufReader` (a panic ends the
process), `ReadLines`, `Inflate` and `MCParts` (one call, which ends).

### Fairness

Only the code's own steps are fair, each model's `Progress`, `Step` or the like
(in `MCLoops` the rounds of both loops, of which one can run), weakly: the code is
sequential and nothing in it waits, so a call that has begun takes its next step.
`EPubSpec` states no fairness, and no run asks liveness of it: the three steps of the
memo behind `Container`'s loops have no loop of their own. The application need not call, the device need not fail,
the power need not go.

## 4. Proofs

Every safety property that section 3 shows to hold is proved for all values of the
constants. The theorems assume what the modules assume of their
constants, and what is said below.

### The reader

`BufReaderProofs`, for all block sizes of at least four, all file lengths and all
array lengths:

| theorem | property |
|---|---|
| `TypeCorrect` | `TypeOK` |
| `InductiveInvariant` | `IInv` |
| `WindowsCorrect` | `BlocksAreWindows` |
| `CallsFollowStream` | `CallFollowsStream` |
| `NoPanicInBounds` | `PanicOnlyPastEnd` |
| `FailedPeekTheorem` | `FailedPeekKeepsPlace` |
| `ReaderImplementsStream` | `ImplementsByteStream` |

All but `TypeCorrect` assume that the device fills the buffer
(`ASSUME ~ShortReads`), without which they are false.

The inductive invariant is `TypeOK /\ BlocksAreWindows /\ CallFollowsStream`.
`BlocksAreWindows` says that the current block is full unless the file ends in
it, that the block a peek has loaded follows it, and that the file's own offset
is right behind the last block loaded: this makes a rollover deliver the next
bytes. It is not inductive alone, because `peek4` restores `cursor` and
`block_idx` after an arbitrary read in between; `CallFollowsStream` says where a
peek can be between two iterations (not moved, done in its block, done one block
on, or at the end of the file for good), and that the block it started in is
still there. With it `ReturnPeek` preserves `BlocksAreWindows`, `PanicOnlyPastEnd`
and `FailedPeekKeepsPlace` follow from the step that could violate them, and
every step maps to one of `ByteStream` or to a stutter, with the position in the
stream as the refinement mapping (`StreamPos`).

### The lines

`ReadLinesProofs`, for every file, every set of newlines, every block size and a
device that reads as little as it likes: `NothingLost` (`CollectedSoFar`) and
`LinesCorrect` (`LinesAreFile`).

`LinesInv` says that the block under the cursor ends where the file handle stands
(`InBlock`) and that what is in front of it has been collected: as lines whose only
newline is at the end and a line without any (`Lined`), which together are the
bytes so far. The properties themselves say less: nothing of the line begun has a
newline in it, which a newline found later needs. A round adds the bytes of its
block one by one (`ByteAdded`), and the last round's leftovers make the last line
(`FileCut`). The round is a recursive function, and induction over it is
`SetInduction` of `SequenceProofs`: a set that has zero and with each number the
next has every number, which follows from the well-foundedness of `<`. The
library's induction theorem is about an operator and cannot be used by the
installed provers; a fact about a set can.

### Decompression

`InflateProofs`, for data of every length, every window, matches of every length
and distance, and writes that take as little as they like:

| theorem | property |
|---|---|
| `LengthCorrect` | `LengthIsRight` |
| `OneBufferCorrect` | `OneBufferIsRight` |

`LengthInv` counts: the bytes of the tokens taken, less what is left of the match
being copied (`Made`), are those in the file and those in the window that wait to be
written (`Counted`); the loop is left only with nothing of either (`Taken`). It holds
for any number of buffers, right bytes or not. `OneBufferInv` is about the bytes,
if one buffer holds the data: what is written is the plain data so far (`InFile`);
in front of `pos` the window holds what follows that, and behind it what is one
window older (`InWindow`), so that a match that reaches around the start of the
window finds its bytes (`LooksBack`); in the middle of a match the distance does not
reach behind the first byte (`Copying`); and a call begins with a full window or
with nothing (`AtOnce`). The last is what fails with a second buffer, where the call
before it ended in the middle of the window (run `inflate_chunks`). That the bytes
copied are the format's is `MatchCopies`: a match that is longer than its distance
repeats itself.

### The expansion

`ContainerProofs`, for every archive, chunk, cluster and input buffer:

| theorem | property |
|---|---|
| `TypeCorrect` | `TypeOK` |
| `ExpandedCorrect` | `ExpandedIntact` |
| `PrefixesClean` | `CleanPrefixes` |
| `RepeatHarmless` | `RepeatNeverHarms` |

`ExpandInv` has the parts `FilesOK` and `JobOK` (types), `NotTooLong` (no file is longer
than its entry, or a file of the right bytes would not be the right file, since
nothing truncates), `InStep` (the reader, the loop's count and the output file agree
on how much is done, and a stored file has been written in whole chunks: that the
chunk divides the cluster is what keeps a short write from losing its rest),
`DoneSoFar` (what is behind the reader is on the disk; when it stands at a record,
so is the entry it has just left), both but for what is in `lost`: a close that
fails cuts a file of the right bytes short, and the next close of it that works
takes it out again. `ExpandedIntact` is `DoneSoFar` at the end. Prefixes
need `Clean` besides, byte by byte; `RepeatHarmless` is about one step: each either
leaves the file, or writes the same bytes over it, or cuts off what was not yet
flushed of it, which no intact file has (`Kept`, `Overwritten`, `CutOff`).

### The application's view

`EPubFileProofs`, for any books, instances and orders of calls:

| theorem | property | under |
|---|---|---|
| `CachesCoherent` | `CacheCoherent` | |
| `NoPanic` | `NoPanicOnWholeBook` | |
| `LastHasMemo` | `LastExpandedHasMemo` | `SamePathLengths` |
| `LastOnDisk` | `LastExpandedOnDisk` | `SameSizes`, `AllDue` |
| `ReadsLast` | `ReadsLastExpanded` | `SameSizes`, `AllDue` |
| `ExpandedMeansOnDisk` | `HasExpandedMeansOnDisk` | `OneBook`, `AllDue` |
| `ExpandedStays` | `HasExpandedStays` | `OneBook` |

What is assumed is what the code needs. `OneBook` is what `CUR_BOOK_DIR` does not
enforce: run `epub_mixed` breaks `HasExpandedMeansOnDisk` with two. `OnDisk` is meant with the
exception of what is in `lost`. `SamePathLengths`
and `SameSizes` (entries of one name have one size in all books) stand for the
truncation that is not done, and run `epub_tail` breaks `LastExpandedOnDisk` without.
`AllDue` leaves out the entries that the expansion does not get right: data of more
than one input buffer, and data taken for a descriptor.

`InstancesOK` types what an instance holds, and carries `CacheCoherent`. `NoPanic`
needs no more of the instances than their types: from a whole book's files `Results`
are errors and that book alone (`WholeBookResults`). `ReadsLast` stands on the same
lemma and on `DiskInv`, by which the files of the last book are whole while the
instances read. `MemoInv` is
needed to follow the memo: where the expansion is, so that it is known to write to
no file of that name, and that the memo is whole while it is being written.
`LastInMemo` with `MemoNotLonger` says that the memo names the last book;
`MemoNotLonger` because a longer memo would keep its end, and a memo that is cut when
its drop fails is one cut off, not another (`MemoIsCut`). `DiskInv` takes `ExpandInv`
over to a disk that all books share (`NoneTooLong`) and says that the memo is only
written when all is done. For one book `AllSaved` adds that from the first memo on
the files are flushed or lost, so that neither another attempt nor a power cut takes
anything away.

### The parsers

`ParserProofs`, for every document of the format, of any size and depth, cut off
anywhere, and with wrong end tags where the property does not exclude them:

| theorem | property | of |
|---|---|---|
| `TocStack`, `PackageStack`, `RootfileStack` | `StackIsPath` | all three |
| `TocPanics`, `PackagePanics`, `RootfilePanics` | `PanicMeansBadFile` | all three |
| `WholePackage` | `OkMeansWholePackage` | `PackageParse` |
| `SpineCorrect` | `SpineIsDocuments` | `PackageParse` |
| `MetadataCorrect` | `MetadataIsDocuments` | `PackageParse` |
| `LeavesCorrect` | `LeavesAreKept` | `TocParse` |
| `TitleCorrect` | `TitleIsItsOwn` | `TocParse` |
| `RootfileCorrect` | `RootfileIsLast` | `RootfileParse` |

`ReaderInv` is common: the document is well nested so far (`DocInv`) and the stack
names its open elements (`StackOK`). `StackIsPath` alone is not inductive, since an
end tag pops by position and not by name. On it stand, one per reader, the
meanings of the flags: each says that the element at the second place of the path
has that name (`FlagsOK`, `TocFlags`, `RootfileInv`), which makes them worth as much as
the path. `SpineInv` then has the lists of the sections so far, `LastInv` the last root
file. For texts it takes `Family` (every element is in one that may hold it) and
`TextRead`: when an element ends that holds no other, the characters since the last
start tag are its text and nothing else. `MetadataInv` says that the metadata is that
of the document read so far (`MetadataIn`), for every prefix of it: an element more
adds exactly what its name says. `TocContents` has to say what the point being
collected is: the last navPoint, with the label and the content that are whole so
far (`PointOK`), unless another has begun or it has ended, in which case none is;
the navPoints around are known not to be leaves.

### The parts

`PartsProofs`:

| theorem | property |
|---|---|
| `HeaderCorrect` | `HeaderEndsExactly` |
| `AllocCorrect` | `BlocksApart` |
| `NullCorrect` | `NullMeansFull` |
| `PartitionCorrect` | `PartitionWasRead` |
| `SplitCorrect` | `SplitIsRuns` |
| `DirsCorrect` | `DirsArePath` |
| `BaseDirCorrect` | `BaseDirIsLeading` |

The header's invariant (`CountsDown`): what was taken and what is left add up to
what the header declares, or to a word more. A record that is too long moves from
the first to the second; there `data_left` is zero only a whole word further on,
which no archive has (`WordAssumption`), and a second underflow would need as
much. The allocator's (`AllocInv`): blocks end at or below the head, and the head
stays in the region. `StartAligned` is the arithmetic: a start is a multiple of the
alignment, at or behind the head and less than one alignment away; `NoWrap` adds
the bounds of a `Layout`; `StartIsFirst` says that no other multiple comes before.
The partition's (`MbrInv`): what was not read is zero, so a footer was read
(`TakenWasRead`), and with it everything in front of it.

The paths' rests on what is found among the first `n` characters (`Found`): the
names so far are the runs that have ended, each at the place of its start among the
starts (`Names`), and the chunk is the run that has not (`ChunkOf`). `OneMore` is one
character, `ChunksFound` the path as a whole, `ChunkEnds` the chunk that its end
makes a name. The induction is over the number of characters, as a fact about a set
of numbers (`SetInduction`), which the provers can instantiate. `LastNameEnds`, the
same for the last name, gives the base directory: the place behind the directories is
among those where the base name is found, and is the first of them if none is in the
directories. The walk's invariant (`PathInv`): the directory reached is the first
names of the path (`ReachedIsLeading`), and all on the way to it are on the disk.
Assumed is that the disk was a tree before (`TreesAssumption`).

### Model-checked only

Liveness (`InBoundsCallReturns`, `LinesReturn`, `ExpandReturns`, `InflateReturns`), which the prover does not do, and the disagreements that the
runs expecting a violation find.

## 5. Not modelled

- Calls of `read_to_array` that ask for more than the file has are modelled up to
  the panic, or to where the loop goes on without progress; what a truncated epub
  does to `Container::expand` is not.
- Entries are well-formed: the sizes and the checksum in a header are right. The
  code compares neither (`container.rs:214`). What `LocalFileHeader::read` does
  with lengths that do not fit is in `ZipHeader`, which `Container` does not use.
- The parsers appear by their outcome in `EPubFile`, and a whole file is one they
  take. Namespaces are not modelled: names are the local names the code compares.
- The data descriptor is twelve bytes (`FinishEntry` of `Container`); nothing uses
  its contents.
- The allocator on a machine with interrupts that allocate: its comment says
  single core, and nothing in the build check has any.
- `read_lines` on a reader that has been read from: no caller does that.
- Two bytes of data that look like a signature are left out of `UnknownSignature`.
- `EPubError` and logging.

## 6. Plan

Done: the reader and its proof first, since every component stands on it, then
the expansion, then the application's view of it, then the three parsers and the
small parts; then the proofs, in the same order.

What is left is not a proof of a property but more to say: a corrupt archive, whose
sizes and checksum `Container::expand` does not compare (`container.rs:214`), and a
read after a failed expansion, which skips `has_expanded` (`lib.rs:226`).
