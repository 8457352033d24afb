# ULBOX360: a TLA+ verification of its core

ULBOX360 is a desktop tool for Xbox 360 owners, written in Rust: it converts ISO images to
GOD packages, packs and unpacks XISO images, mounts FATX volumes through FUSE, and uploads
directories by FTP. This directory models the parts of it that carry state, order and
concurrency, checks them with TLC on small instances, and proves the most important
properties with TLAPS for every value of the constants. Paths below are relative to the
repository's root; `PROJECT.json` maps each definition to its lines.

## 1. The system

| Component | Code | State it keeps | Operations | Hard because |
|---|---|---|---|---|
| Volume geometry | `src/fatx/fs.rs` `open_device`, `src/fatx/fat.rs` `Fat::new` | `FatxFs`: cluster size and count, FAT, offsets | open a device or image | order of checks decides whether u64 subtractions wrap; 16/32-bit boundary; partition cut to the file |
| FAT and addressing | `fat.rs` `entry`, `fs.rs` `cluster_to_byte_offset` | the table, read once | look up a link, map a cluster to an address | out-of-range links panic with the mutex held; off-by-one in the range check |
| Files | `src/fatx/file.rs` | per handle: position, cached index and cluster; shared: device position | `seek`, `read` | cached place in the chain; handles interleave on one device position; errors half way |
| Directories and paths | `src/fatx/dir.rs`, `path.rs`, `fs.rs` `stat`/`open`/`read_dir` | iterator: cluster, slot, finished | resolve a path, iterate, list | cluster crossings, stale and deleted slots, damaged chains, errors that are passed over |
| FUSE filesystem | `src/fatx_runner.rs` | `InodeTracker`: bidirectional map, counter | `lookup`, `getattr`, `read`, `readdir` | requests of many programs interleave; listings are cut into pages but made anew each time |
| Extraction | `fatx_runner.rs` `extract_fatx_directory_recursive` | work list | copy a tree | errors hidden by `flatten` |
| FATX tab | `src/main.rs` 271-349, `ui/app.slint` | window properties, `Arc<Mutex<Option<BackgroundSession>>>` | mount, unmount | each click starts a thread; results arrive through an event queue |
| ISO to GOD | `src/iso2god_runner.rs`, `main.rs` 31-120 | files on disk, an atomic counter, the window's status | convert a batch | parallel part tasks, hash chain, failures at any step, clicking twice |
| XISO | `src/xiso_runner.rs`, `main.rs` 122-269 | files on disk | unpack a batch, pack | names that collide, buffered output |
| FTP upload | `src/ftp_runner.rs`, `main.rs` 351-402 | remote directories and files | upload a tree | errors ignored, failure half way |
| Time stamps | `src/fatx/datetime.rs` | none | decode 16-bit fields | field widths |
| Partition table | `src/fatx/partition.rs` | none (constant) | find by letter | - |

How they interact. The window runs on the main thread (Slint). A handler reads window
properties and starts a `std::thread` (GOD, FATX, FTP) or a tokio task (XISO); the thread
reaches the window only by queueing closures with `upgrade_in_event_loop`. Mounting hands a
`FuseFatxFs` to fuser, which serves kernel requests one at a time on a thread of its own; each request
calls `FatxFsHandle` (`stat`, `open`, `read_dir`, `File::read`), which takes the one
`Mutex<FatxFs>` of the volume. A panic while the mutex is held poisons it, and every later
`lock().unwrap()` panics too. A GOD conversion starts a rayon pool of its own; its tasks share
the disk and one atomic counter.

What makes each component correct:

* geometry: what opens has a data area inside the partition, names for all its clusters, table entries for them;
* files: a handle behaves as a plain sequence of bytes with a position, whatever other handles do; reads end;
* directories: answers are those of the tree that the clusters encode; on damaged volumes, what is answered is true;
* FUSE: inodes and paths correspond one to one for the life of the mount; pages add up to the listing, pieces to the file;
* FATX tab: no FUSE session that nobody can end; the window's words are true; every attempt is reported;
* GOD: "Done" means that the directory holds the ISO's parts, correctly linked, and its header; batches end;
* XISO, FTP, extraction: what is said to be done is there, whole and in its place; what is there is true; every job ends;
* time stamps: programs are told the moment that the console wrote.

The hazards this code is exposed to are listed in `PROJECT.json`, each with its line and the
properties that watch it.

## 2. The modules

```
FatxVolume     FAT and addresses              used by  FatxFile  FatxDir
PathComponents paths                          used by  FatxPath  DirAnswers
Subsequence    entries picked from a list     used by  DirAnswers
FatxPath       normalize_virtual_path         used by  FatxDir
DirAnswers     what a tree of entries answers used by  FatxDir  DirTree  FatxFuse  FatxExtract
FatxTime       time stamps                    used by  FatxFuse
FileTree       disks                          used by  LocalJobs
LocalJobs      jobs of the tabs               used by  XisoTab  FtpUpload  FatxExtract
                                              composed LocalTools

FatxFile   implements  ByteFile               proved in FatxFile_proofs
FatxDir    implements  DirTree                proved in FatxDir_proofs
FatxFuse, FatxGeometry, FatxMount, GodConvert, LocalTools   FatxFuse_proofs, ...

CommonFacts  lemmas for  FatxFile_proofs  FatxGeometry_proofs  FatxDir_proofs
                         FatxFuse_proofs  LocalTools_proofs
```

* **FatxVolume** has no state: the constants of an opened volume and the operators for a table
  entry, the panic of an index outside the table, the check and the 32-bit arithmetic of
  `cluster_to_byte_offset`. Addresses are counted from the first byte of the data area, and *a
  byte of the device is its address*, so that what a read returns says where it came from.
* **FatxFile** is `File`. `seekPos`, `curRel`, `curAbs` are its fields; `lock` is the mutex, `devPos`
  the position of the shared `device_handle`; `pc`, `want`, `buf`, `hops` are the locals of a `read` in
  progress. A read is split where it can stop or where others could come between: taking the
  mutex, the test of the loop, the start of the mapping, each link, the seek, the device read.
  The device may return any non-empty part of what is asked for, or fail. Positions wrap at `U32`.
  Opening a file again, a broken link, a panic and a poisoned mutex are actions or disjuncts.
* **ByteFile** is the abstract file: content, position, last reply. A read is one step. The
  refinement maps the abstract position to `seekPos - Len(buf)`: a read in progress has not moved yet.
  Bytes whose cluster is off a damaged chain are `Lost`: no read may return anything for them.
* **FatxDir** is a call of `stat`, `open` or `read_dir` with the listing that follows. `it` is the
  `DirectoryEntryIterator` with its three fields; each `Fetch*` disjunct is one way out of
  its `next`; `UseInPath` is the loop of `from_path`, `UseInListing` the loop over `flatten()`.
  Each directory `d` of a volume has `chains[d]`, the clusters that were written for it: what the FAT says may
  differ on a damaged volume; `bad` are the slots that the device fails to read at times. `WellFormed` says that
  neither is so; `Unstraying` allows both, but no damage that leads a directory into clusters of something else.
* **PathComponents** has no state: a path as `std::path::Components` gives it.
* **FatxPath** is `normalize_virtual_path`: `Push`, the step of its loop, over the components.
* **Subsequence** has one operator, the entries of a sequence that a set admits.
* **DirAnswers** has no state: `Answer` says what each call returns for a path in a tree of entries,
  written from names and parents and without clusters or iterators. A lookup that misses reports the end of
  the chain as an error when a full directory has no end marker, as the code does.
* **DirTree** is the abstract specification of the calls: a call is asked and answered by `Answer`, or, on a volume that is
  damaged or whose device fails, by what `FallsShort` allows.
* **FatxFuse** is `FuseFatxFs` with `InodeTracker`; it takes the volume's answers from
  `DirAnswers`, as `FatxDir` implements them. `reader` are the open file descriptions of programs; `said` records what programs were told
  of paths. fuser serves one request at a time, so a request is one step; a device failure makes
  a lookup fail or cuts a listing short. An entry carries the two words of its time stamp; `Mtime` is what FatxTime
  makes of them for the attributes.
* **FatxTime** has no state: the two decodings of `datetime.rs` as shifts and masks, chrono's checks of
  calendar and clock, and the fallback to the year 2000 of `fatx_datetime_to_systemtime`.
* **FatxGeometry** is `open_device`: one action per group of checks, in the code's order.
* **FatxMount** is the FATX tab: the handlers and the queued closures are single steps of the
  window's thread; opening the volume and storing the session are steps of the thread of an attempt.
* **GodConvert** is the batch thread and `convert_iso_to_god`. A part file is what its hash
  table covers and which click created it, so that a file that was removed and made again while a task
  still writes to the old one is told apart.
* **FileTree** is a disk: a function from paths to directories and files, the latter sequences of
  chunks, with `create_dir_all`, `File::create` (which truncates) and positioned writes that leave holes.
  The console's disk behind the FTP server is one too.
* **LocalJobs** is what the jobs that use the local disk have in common: `job` is what was chosen in the
  dialogs for a click, `work` the locals of its thread or task. The path fields of the window are read-only
  text, so the chosen queue and the text shown agree.
* **XisoTab** is the XISO tab: the loop over the chosen images with the directory that each goes to, `unpack_xiso`
  entry by entry and chunk by chunk, and `pack_xiso`, which creates the image *before* it looks at the folder
  and then writes through a buffer that is flushed when it is dropped, errors ignored. An image is a file whose first
  chunk is a table of entries and whose others are their data. A failed image is skipped, and the batch goes on.
* **FtpUpload** is the upload tab: connecting, the recursive scan in any order of entries, a directory made for each
  step of a file's path, by a relative path and with errors ignored, and the file put by an absolute one.
* **FatxExtract** is `extract_fatx_directory_recursive`: the stack of directories, the list of files, and the copies,
  over the answers of `DirAnswers`. A listing may be cut short anywhere, which the code cannot see. It is `pub` in
  `fatx_runner.rs` and no handler calls it yet; the model lets a caller do so at any time.
* **CommonFacts** holds the lemmas that proofs share: quotients and remainders, induction with a set in place of a
  predicate; subsequences, lookups and normalized names in trees of any size.
* **LocalTools** composes the three over one local disk and one console. `before` is a history of the disk at each
  click, `clashed` of the jobs whose files another job wrote, or wrote to, while they ran.

Each component that is run has an `MC...` module with small values and one `.cfg` per question. Definitions
called "Mutant" in a comment are plausible wrong versions of the definition that follows; replacing it by
one of them must break the property that `PROJECT.json` names, which shows that the property can fail.

## 3. What the runs show

| Run | Question | Result |
|---|---|---|
| `FatxFile_volumes` | two handles on sound volumes (files with interleaved, descending clusters, a file that ends with its cluster, an empty file) and on damaged ones (a chain that ends early, leads to a number that is refused, or outside the table); device errors, after which callers drop the handle or go on with it; a handle whose chain proved broken is dropped | the cursor is on the chain, the device at the position's byte, the bytes are the file's; handles implement `ByteFile`, whose bytes may be lost but never replaced; `read` gives the mutex back (a panic poisons it) |
| `FatxDir_volumes` | every path of up to three components on directories of one to three clusters; the same with chains broken at two places, chains that come back to their first or second cluster, directories that begin at impossible clusters, an overlong name, a device that fails at some slots | `stat`, `open` and listings implement `DirTree`: exact answers on sound volumes, errors or prefixes but nothing untrue on the others; every path normalizes as its ".." say; every call is answered, unless it panics on a damaged volume or gets to a chain that comes back to itself without an end marker (`ScanEnds`); even there a lookup of what exists ends (`PresentIsAnswered`) |
| `FatxGeometry_images` | every image of up to 120 bytes (15 sectors) with every superblock of the sets | what opens is consistent |
| `FatxFuse_mounted` | two programs list, read and look up in any order, the device failing at will | inodes are one to one and kept, pages and pieces add up; times are told as they were written, but for the highest bit of the minute, which the code's mask takes off (`StampsTold`) |
| `FatxMount_tab` | three attempts in any overlap, failures, sessions that end by themselves | no orphan session; true words as long as attempts do not overlap; every attempt is reported |
| `GodConvert_batch` | three ISOs of one title with 3, 2 parts and 1, two threads, a failure at any step | "Done" means converted; counts are shown once each; the batch ends |
| `LocalTools_desk` | each of unpack, build, upload and extract, alone, clicked twice, or two at a time on the same or different files, with a failure at every step | an image said to be unpacked is there unless a later one of its batch has the same stem (batches that write over their own images are left out); a built image has what the folder had, and itself if it lies in it; an upload is below `/Hdd1/Games/`, wherever the session starts; an extraction is complete unless a listing was cut short, and never untrue; every job ends, even one whose files others write |

Runs that find a disagreement between the code and what its docs, comments or
messages say (see `findings` in `PROJECT.json`):

| Run | What TLC shows |
|---|---|
| `FatxFile_overrun` | `cluster == num_clusters` is accepted and begins outside the partition, against the `debug_assert!` |
| `LocalTools_stems` | of two images with one stem only the later is there, after "Done." for each and "Batch unpack completed successfully!" |
| `FatxGeometry_block` | a block device never opens: its metadata has length 0 |
| `FatxMount_false` | mount, mount, unmount: the window says "Mounted!" without a session, and its button does nothing |
| `GodConvert_twice` | the second click empties the directory of the first, which still says "Done!" |

Two more are plain in the code, without an order of steps to find them by: a batch of conversions or images ends in
"completed successfully!" whether or not one of them failed (`src/src/main.rs:116` and `:230`), and an extraction whose
listing was cut short by a device error, which `flatten` at `src/src/fatx_runner.rs:308` drops, leaves files out and ends
in "Extraction completed successfully."

### Bounds, and why they are enough

* Files: clusters of 2 bytes, four of them, files of up to three clusters, reads of 1 and 3 bytes. Three
  clusters give a first, a middle and a last link, forward and backward scans; reads of 3 bytes cross a
  boundary from either alignment, and two handles are enough to disturb each other's device position.
* Directories: clusters of two slots, six of them, up to three per directory: every crossing, markers on
  both sides of it, a full last cluster. `MaxListed = 6` entries of a listing are as many as three clusters
  hold; the bound stops only the listings that never would. The device fails at a slot in the middle of the root, or at the
  first and the last of the directory below it. Paths of three components have a first, middle and last one.
* Geometry: sectors and pages of 8 bytes, FAT16 below 6 entries: the type boundary, the cut of
  the partition and clusters larger than superblock and FAT are all reached. `U32` is 64.
* FUSE: one directory below the root, one label, one empty file; two readers. Page sizes 1 and 2
  split the listing everywhere; more readers are symmetric. Three moments: a leap day with a minute
  that fits the mask, the last day of the encoding with one that does not, and one whose minute the mask makes 0.
* Mount: three names for attempts and sessions, and `MaxQueued = 3` attempts under way or closures queued: two overlap and one replaces.
* GOD: 3 parts have a first, middle and last link; two threads of three tasks leave one waiting when
  another fails; each ISO has fewer parts than the one before, so stale parts would show, and the last has one, with no
  link to make. An ISO has at least one part: its volume descriptor has been read before the parts are counted.
* Local tools: two jobs per session, in eleven sessions that cover each job alone, the same job clicked
  twice, and pairs where one writes what the other reads, both write the same, or they have nothing in common. Files of at
  most two chunks: a copy can stop before, between and after them. An older, longer file is in the way of a shorter
  one, so that a missing truncation shows; an image is built into its own folder; there are an empty image, an empty file, two
  images of one stem (`a.iso` and `a.xiso`), something that is no image, a listing that is cut after each entry, and a file that is lost
  in part. The FTP session starts in the root or in a directory of its own.

### Fairness

`FatxFile` assumes that a thread inside `read` keeps running (weak fairness of its steps), never
that the mutex is granted or that a caller calls. `FatxDir` assumes the same of a call in progress. `FatxMount`
assumes that threads run, that `mount_fatx` returns, and that the window handles its queue.
`GodConvert` assumes that the threads of a batch run, `LocalTools` that the thread or task of each job that was
started keeps running: threads of the system and a multi-threaded runtime see to that, and no step of theirs waits
for another's. Connections that hang for ever are not steps that end, so `JobsEnd` speaks of servers that answer or fail.
No user action is ever fair. `FatxFuse` and `FatxGeometry` have only safety properties.

## 4. What is proved

`FatxFile_proofs` proves, for any number of handles, any cluster size and any volumes:

* `TypeCorrect`: types, and "a handle is inside `read` exactly while it holds the mutex", on all volumes, damaged ones too.
* Under the assumption `Sound` (every volume is well formed and no caller seeks past the end), with
  device errors and handles used again after them:
  `CursorStaysOnChain`, `PositionIsMapped`, `OwnBytesDelivered`, and `Implementation`: every
  behaviour of `FatxFile` is one of `ByteFile`.

None of these is inductive alone. The invariant `IInv` says of each handle where it is in the
chain (`CursorOK`: on a chain that covers the file, the cached cluster is the cluster of the
cached index, or, while links are followed, the one `hops` short of the target), that the position
is in the file and the buffer within it (`PositionOK`), that the device stands at the position's byte when it is
about to be read (`DeviceOK`, which needs the mutex: only its holder moves the device), and
that the buffer holds the bytes before the position (`BufferOK`). Soundness gives `FollowLink` its
next cluster, so broken links and panics do not occur; `DeviceRead` rests on the
arithmetic of `CommonFacts`: bytes of one cluster are consecutive, and quotient and remainder are unique.
The refinement then has one lemma per action: a step inside a read leaves the abstract
state alone, `FinishRead` is `ReadOk`, an error is `ReadFailed`, a seek is `Seek`.

`FatxMount_proofs` proves, for any number of attempts, `TypeCorrect`, `NoOrphans` and
`TruthfulOneAtATime`. The last needs `Alone`: while attempts have not overlapped, at most one attempt or
closure is under way, and the window, the slot and that attempt agree.

`FatxGeometry_proofs` proves, for every device, offset and cluster size, `TypeCorrect`, `DataAreaCorrect`,
`NamesSuffice` and `EntriesSuffice`, with the code's 32-bit truncations and u64 subtractions in
the model. The invariant says at each check what the earlier ones have established: the
partition lies in the file and is either as large as asked for or ends with it (`Placed`), the
entries were counted without losing bits (`Measured`), the table fits in the partition (`Tabled`), and so
did the count of clusters (`Counted`). That the table fits follows from its having been read when the partition
was cut to the file, and otherwise from `GeometryAssumption`: the sizes asked for have fewer than
2^32 - 16 sectors and room for the table that counts them, as 2,000,000,000,000 bytes do.
Without that assumption `fatBytes` may exceed the partition, and `DataBytes` wraps.

`GodConvert_proofs` proves, for any number of batches, ISOs, parts and threads:

* `TypeCorrect`. The invariant `TInv` adds to the types where a batch stands in its list of files
  (`InList`), and that a header is in the directory of its ISO.
* `CountsCorrect`: `EveryCountShown` speaks of the end of the parallel loop only; its invariant says at
  each step that the counter is the number of tasks that have counted, and that the numbers up to it are those
  already shown together with those that tasks still hold (`CountOK`). As many numbers are shown as tasks
  have finished, so that at the end none is shown twice.
* `ConversionsCorrect`: `Spec /\ []Apart => DoneMeansConverted`, where `Apart` says that no two batches at
  work use one directory. `GodConvert_twice` shows that this cannot be left out. `DiskOK` says what the directory
  holds while parts are written (`Writing`: an open file is the one in the directory, and written parts are
  there) and while they are linked (`Linked`: from the place of the chain on, each table covers all that
  follows). A link is one step of the chain by `LinkCovers`; a step of one batch leaves every other
  batch's locals alone (`OthersAlone`) and, under `Apart`, its directory (`OneDirectory`, `OtherDisk`).

`FatxDir_proofs` proves, for volumes, directories and paths of any size:

* `TypeCorrect`. The iterator's entry stays in its cluster, one past it only when the chain has ended, and the cluster
  number is one that 32 bits hold; a slot is only looked at when its cluster has passed `cluster_to_byte_offset`
  and it can be read, and is then one that the volume has (`PlaceTyped`).
* `PathsNormalized`: `normalize_virtual_path` keeps the names that no ".." takes away. The loop works with a stack, while
  `Staying` counts: a name stays if no stretch of the path after it has more ".." than names. After `n`
  components the stack has the names that stay as far as `n` (`Held`), at ascending places, and the name that
  is `k` from the top has exactly `k` more names than ".." after it (`Kept`): so a ".." takes away the
  topmost, and it is the only one that no longer stays.
* `AnswersAsTree`: `FatxDir` implements `DirTree`, every step of a call being a stutter or its answer, if
  `\A v \in Volumes : Unstraying(v)`. The invariant `RInv` says how far a call has come: `n` slots of directory `d` have been
  used, none an end marker, and the iterator is at slot `n` (`Scanned`, `At`); a lookup has followed the names before `depth` to
  `d` and has not met the next one (`LooksIn`); a listing is of the directory that the path leads to, and has what the first `n`
  slots show (`Lists`). That slot `n + 1` is what `next` yields is `NextPlace` and `FetchScans`; that the
  first match is the tree's child is `MatchIsChild`; that an end marker or the chain's end means that there is none, `NoMatchNoChild`;
  that what has been listed is all, or the beginning, of what the tree shows, `ShownAll` and `ShownGrows`.

  `Unstraying` allows chains that are cut off anywhere, that lead to cluster numbers where nothing can
  be read (`LeadsNowhere`: refused, past the device, or outside the table), that come back to themselves, and directories that begin
  at such numbers; the device may fail at any slot of a chain that does not come back to itself (`GoesRound`); names may be overlong, and the call panics. `WellFormedHolds` shows that every sound volume is
  one of these, and TLC evaluates it for each volume of `FatxDir_volumes`. What it leaves out is a link from one
  directory's chain into clusters of another, or of a file: the code cannot tell, and the answer is not true of
  what was written. On a chain that comes back to itself (`Circles`) nothing new is seen: every slot has been missed before by a lookup,
  and a listing never ends, so that it never says anything untrue either. A device that failed on such a chain in a later
  round would end a listing that has entries twice, which is why the two do not go together.

`FatxFuse_proofs` proves, for any trees, any number of programs and any sizes of pages and pieces:

* `TypeCorrect` and `InodesStay`, with the invariant `IInv`: the counter is past every inode, so that `BiMap::insert` never
  displaces a pair (`Created`); the tracker after a page is followed entry by entry (`TrackedTyped`); what the kernel knows
  and what programs have open is in the table.
* `InodesCorrect`, `PagesCorrect` and `PiecesCorrect`, if names tell the entries of a directory apart (`NamesDistinct`, which TLC evaluates for the
  trees of the run): with two entries of one name a listing shows both and a lookup finds the first, so that
  programs could be told two kinds of one path. Their invariant `TInv` adds to `IInv` that what was said of a path is true of the tree (`TrueOf`)
  and that what a program has got is the beginning of its listing or file (`PagesAre`, `PiecesAre`). A page
  continues where the last one ended because the listing made anew is the same again, or its beginning (`ListingTrue`, `Stretch`).
* `StampsCorrect`: every moment that the encoding has, in any of the years 2000 to
2127, is told with its date, hour and second, and with its minute, less 32 from 32 on. The fields of a word do not
overlap (`DateFields`, `TimeFields`), and what is left of a valid moment is valid, so the
fallback is never taken for one.

`LocalTools_proofs` proves, for any number of jobs and any files, images, folders and volumes:

* `TypeCorrect`: whatever the jobs do at the same time, the local disk and the console stay trees of directories and files
  (a parent of what exists is a directory), and every job stands where it can go on. `TypeOK` is inductive as it
  stands: nothing in `src/` takes away a file or a directory (`Grows`), so that a job with an open file can go on after any step of
  another (`StandsStill`). There is one lemma per action of each job. What they rest on: the layout of an image has an
  entry and a path for all that is in the folder, in any order of a scan (`LayoutTyped`); flushing a buffer, wherever its chunks
  go, makes only longer or changed files (`FlushesAlike`); and the answers of a volume, cut short or not, are entries of
  its tree (`AnswersTyped`).
* `ExtractionsTrue`: `ExtractedIsTrue` speaks of extractions whose destination no other job uses while they run, with others at work elsewhere.
  Its invariant `TrueInv` says that jobs at work with files in common are told (`Told`), and of every other extraction under way that each
  file at a place of the volume is as it was when the job began, or the beginning of the volume's, and that the file at work has just the chunks
  copied so far (`DiskTrue`). An extraction writes only the file at work, and different paths of the volume have
  different local names (`LocalNameTells`, as the root is no name); a step of another job
  changes nothing outside the place where it writes (`JobSpares`), and those places are apart from this
  job's as long as they do not clash (`WritesElsewhere`, `TrueStays`). That the file at work is the one the listing named, opened
  under its path, is `OpenedIsThere`.
* `ExtractionsComplete`: what such an extraction promises when it ends well. Its invariant `CompleteInv` adds to `TrueInv` that, as long as
  no listing was cut short, each directory that listings lead to (`LedTo`) has its files in the list, or is one of the
  directories still on the stack, or below one (`Gathered`); and that the files of the list before the one at work are
  on the disk, whole (`Copied`), but for one with the path of the file at work, which is being written again. With an empty stack
  the list has all that `VolumeFiles` tells of the volume (`VolumeFilesReached`), so that at the end of the list all of it is
  copied (`WholeWhenDone`). A step of another job changes nothing that the extraction writes (`OthersApart`).
* `UploadsComplete`: what an upload promises when it ends well, if no other job writes to its folder or uploads meanwhile. Its
  invariant `UploadInv` says of each such upload under way that the files of the folder are as they were at the click (`FolderSame`),
  that each of them is in the list or at or below something the scan has still to look at (`Sought`), and that the files of
  the list before the one at work are on the console, with the one at work as far as it has been sent (`Delivered`). All on
  the way to a file of a tree is a directory (`WayThere`), so that a directory's files are at or below its entries
  (`ChildOnWay`) and the scan loses none (`SoughtOn`); different files have different places on the console (`RemoteTells`), so
  that sending one leaves the others as they are, and making directories leaves all files as they are (`SentBefore`).
* `BatchesComplete`: what a batch of images promises when it ends, if no other job writes to its images or where it unpacks
  them. Its invariant `BatchInv` says of each such batch under way that its images are as they were at the click
  (`SourcesSame`), that each image so far that was not given up is in its directory unless a later one up to the one at work
  has its stem (`EarlierLaid`), and that the entries before the one at work are there, with the one at work as far as it has been
  copied (`CurrentLaid`, `MiddleChunks`). Images with different stems go to different directories (`PlaceTells`), so that
  unpacking one leaves the others (`OwnApart`). Stating the invariant showed what `UnpackedWhenDone` has to leave out, both for
  images and choices no run has: of entries of one image with the same path the last is on the disk, and a batch that
  unpacks a file over one of its own images (`ImagesApart` fails) has not that image's content to give any more. TLC confirms
  that the invariant fails without `ImagesApart` on a batch whose first image has a file that goes where the last image lies.

The constants' assumptions (`VolumeAssumption`, `VolumesAssumption`, `CallerAssumption`, `DirectoryAssumption`,
`FuseAssumption`, `MomentsAssumption`, `MountAssumption`, `GeometryAssumption`, `ConvertAssumption`,
`UploadAssumption`, `ToolsAssumption`) are evaluated by TLC in every run of their modules.

What folds and recursive functions compute is proved by induction over their length, with the library's
theorem on well-founded relations replaced by one with a set in place of a predicate (`UpTo` in `CommonFacts`): the set of
lengths for which the claim holds contains 0 and is closed under successor. `OnlySteps`, `WalkSteps` and `NormalizeSteps`
show in this way that the recursive functions of the model exist and satisfy their equations.

Only model-checked:

* all liveness (`ReadsEnd`, `ScanEnds`, `PresentIsAnswered`, `MountSettles`, `BatchEnds`, `JobsEnd`), which is out of this prover's reach;
* what `PackedWhenDone` says of a build that has ended, which is within reach (section 6).

## 5. What is not modelled

* File contents, hashes and the formats of GOD and XISO and the FTP protocol, which are those of the external crates
  `iso2god`, `xdvdfs` and `ftp`: a block is named by the ISO it is of, a file is a sequence of chunks. Owners and permissions of entries.
* The partition table (`partition.rs`), a constant of which one entry is used, whose offset and size the callers
  replace. Of the error type, the messages and the conversion to `io::Error`.
* Progress numbers and the words of the status lines, but for those that a property names ("Mounted!", "Done!",
  "completed successfully"). Jobs of one tab share its status line and its bar, which then go back and forth.
* Reading a chunk and writing it elsewhere is one step. Nothing in `src/` removes a file that such a job has open, which is why
  an open file is as good as its path there.
* Whether `xdvdfs` flushes the writer it is given is not to be seen here: `PackedWhenDone` speaks of the moment after the
  buffer was dropped, without an error. Between "Done!" and then, or after an error, the image is incomplete unless the crate
  has flushed.
* What jobs that clash leave on the disk: only that they end is checked.
* What the window says after a panic in the session's thread (a looked-up name that is not UTF-8): the session is over while
  the slot and "Mounted!" stay until Unmount. The panic is a step of `FatxMount` and `FatxFuse`; nothing promises otherwise.
* Zero as a cluster number is modelled with the subtraction wrapping, as in the release build that
  `build_appimage.sh` makes; a debug build panics there instead.
* Files whose chain comes back to itself: a read ends by the size of the file, and `FatxFile` has no such volume. Directories
  with such chains are modelled: listings of them and lookups of what they do not hold never end, with the mutex
  held, which no comment or doc of the repository denies.
* Callers that use a handle again after "Corrupt FAT chain": the cached cluster has moved and its index has not, so that
  the next read starts in the wrong cluster. None in `src/` does (`fatx_runner.rs` drops the handle), and
  `FatxFile_volumes` leaves them out. Reuse after the device failed is in the run and in the proofs.
* Callers that seek past the end of a file: what is left of it wraps there and the read goes on to the device, against
  the comment at `src/src/fatx/file.rs:73`. None in `src/` does (`fatx_runner.rs` checks the offset); `MaySeekPastEof` admits them.
* A file with cluster `num_clusters` at the end of an image: a device read of no bytes before the end of the file repeats for
  ever with the mutex held. `DataAreaFits` says that whole clusters are on the device, and `ReadsEnd` is checked with files
  that have no other.
* A failing `Seek` of the device in directories: `device_handle` is a `std::fs::File`, and the positions are valid.
* What the comment at `src/src/fatx/datetime.rs:39` says of the hour, that the mask `0xf` of an original is copied: the code
  beside it has `0x1f`, which is what `FatxTime` has and what 24 hours need.
* Entries that lie outside the partition (a directory whose chain reaches `num_clusters` on a longer device): `FatxDir_volumes`
  uses a device that ends with the partition, `FatxFile_overrun` one that does not.
* A partial write of a hash table by a link step that fails: the conversion then fails and writes no header.

## 6. Plan

Done, most important behaviour first: models of files, mount, geometry, directories, FUSE, GOD, time stamps, and of
the jobs on the local disk; abstract specifications of a file and of a tree of directories, both implemented and both
implementations proved; proofs of files, mount, geometry, GOD, directories, FUSE and time stamps, and of the types of the local jobs and the truth
and completeness of what an extraction writes, of what an upload sends and of what a batch unpacks.

What is left:

1. A proof of what a build has done when it says so: `PackedWhenDone` follows the buffer to its end.
2. An atomic conversion that `GodConvert` implements per directory; the proof of `ConversionsCorrect` has the invariant for it.
3. The status line shared by the batches of a tab, with progress that moves backwards.

## 7. Running

    tlc -workers 2 -config FatxFile_volumes.cfg MCFatxFile
    tlapm FatxFile_proofs.tla

Every run of `PROJECT.json` names its module and its `.cfg`.
