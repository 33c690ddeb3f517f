# ChipFS in TLA+

A formal model of ChipFS, the read-only FUSE filesystem that presents chiptune
files (`.nsf`, `.nsfe`, `.gbs`, `.spc`) as folders of WAV tracks rendered on
demand.  The modules are translated from the Go source; TLC checks them on small
instances, and TLAPS proves the safety properties for every value of the
constants.  Paths and line numbers below are those of the repository.

## 1. The system

| Part | Code | State it keeps | Operations |
|---|---|---|---|
| LRU cache | `internal/cache/cache.go` | mutex, map, recency list, byte counter | `New`, `Get`, `Set`, `String` |
| Track store | `internal/vfs/vfs.go` 612-677 | the cache and a singleflight call group, shared by all tracks | `TrackFile.Read`, `trackStore.render` |
| Rendering | `vfs.go` 679-765, `internal/gme/gme.go` | one emulator handle and a sample buffer per render | `renderTrack`, `gme.Open/StartTrack/SetFade/Play/TrackEnded/Close`, `clampMs`, `fitSamples` |
| Virtual file | `vfs.go` 566-643, 800-811 | nothing but pre-built header bytes and a size | `Open` (direct I/O), `Getattr`, `Read`, `sliceAt` |
| WAV muxer | `internal/wav/muxer.go` | none (pure) | `Encode`, `HeaderBytes`, `EstimatedSize`, `SampleCount` |
| Scan | `vfs.go` 100-262, 531-560 | the static inode tree | `NewRoot`, `Root.OnAdd`, `populate`, `addChipDir`, `ChipDir.OnAdd` |
| Track lists | `vfs.go` 331-529 | none (pure, reads one file) | `buildTrackList`, `cleanTag`, `sanitizeFilename`, `mostCommon` |
| Passthrough files | `vfs.go` 268-329 | one open descriptor per open file | `Open`, `Read`, `Release`, `Getattr` |
| Format parsers | `internal/formats/{nsf,spc,gbs}` | none (pure) | `Parse` |
| Mount | `cmd/chipfs/main.go` | the FUSE server, a signal channel | `parseArgs`, `run` |
| Developer renderer | `cmd/render/main.go`, `RenderTrack` in `vfs.go` | none | `run` |

How they interact.  The scan runs once, at mount time, and calls the parsers; what
it leaves is a tree of nodes with their sizes, headers and durations fixed.
From then on go-fuse calls `Getattr`, `Open` and `Read` from a goroutine per
request.  All `TrackFile`s share one track store.  A `Read` asks the cache; on a
miss it either answers from the header or enters the call group, where the
first reader of a track (the leader) renders and fills the cache and the others
wait for its result.  A render reads the source file as it is *now* and drives
libgme through a handle it owns.

What is hard: concurrent misses of one track; fills that evict what others read;
renders that fail or panic with readers waiting on them; a source file that is
replaced under the mount, with a kernel that caches its bytes; signals that come while an
unmount is under way; two tag encodings that no field tells apart; the size promised before anything is rendered; an
emulator that ends early, late or never; the boundary between header and PCM
data under short reads.  `PROJECT.json` lists each hazard at its line.

What makes each part correct:

* cache: map, list and counter describe the same entries at all times; evicts in
  LRU order, as much as needed and no more, never the newest; always unlocks;
* track store: one render per track at a time, none that the cache makes needless,
  every waiter gets the result of its own track, every read returns, no client
  sees an older version of a source after a newer one;
* rendering: exactly the promised number of samples or an error, music never cut
  short by the ceiling, the handle closed once on every path, termination;
* virtual file: reads like a plain file of the reported size; metadata probes never
  render;
* WAV muxer: chunk sizes and padding consistent, header independent of the audio;
* scan: every regular file and every recognized chiptune appears, under a unique
  name that does not depend on luck; one album artist per SPC folder;
* parsers: track count and per-track data agree whatever the order of chunks;
  durations are never misread;
* passthrough files: a client that opens a replaced file sees the new one, although the
  kernel is told to keep its cache;
* mount: a failed unmount leaves the mount in service and can be retried; no signal
  is lost.

## 2. The modules

| Module | What it is |
|---|---|
| `Cache` | the LRU cache, one step of `Set` per turn of its loop |
| `LRUStore` | abstract: keyed content with a recency relation; no list, counter, mutex or loop |
| `CacheRefinement` | what `Get` returned as a history variable; the mapping from `Cache` to `LRUStore` |
| `TrackStore` | concurrent `Read`/`render` over `C == INSTANCE Cache` and the call group |
| `MonotonicReads` | abstract: what clients may rely on when a source is replaced |
| `ReadHistory` | `TrackStore` with history variables; the mapping to `MonotonicReads` |
| `RenderTrack` | one call of `renderTrack` against an external emulator |
| `Renderer` | abstract: an error, or the promised number of samples |
| `TrackFile` | clients that open, seek and read through `TrackStore` |
| `VirtualFile` | abstract: a plain file of fixed size |
| `Durations` | `clampMs` and the built-in defaults, shared by `RenderTrack`, `NSFe` and `SpcFile` |
| `NSFe` | the NSF/NSFe parser, one step per chunk, the GBS parser, and the track entries made of their results |
| `NSFeReading` | abstract: what such a file says, as a definition over its chunks, read in one step |
| `MountTree` | the scan that builds the inode tree, one step per directory entry |
| `SpcFile` | how one SPC file becomes one track: tag, entry, file name, WAV header |
| `WavLayout` | where the parts of a WAV file lie and what sizes they declare; what a reader of it expects |
| `Passthrough` | one source file, its replacement and removal, the clients and the kernel that read it and its track |
| `Mount` | `Passthrough` under the life of a mount: `run`, the unmounting goroutine, signals |
| `CacheProofs` (`Cache`, `CacheRefinement`), `TrackStoreProofs` (`TrackStore`, `ReadHistory`, `TrackFile`), `RenderTrackProofs`, `NSFeProofs`, `MountProofs` (`Mount`, `Passthrough`), `MountTreeProofs`, `SpcFileProofs` (`SpcFile`, `WavLayout`) | theorems |
| `FoldFacts` | lemmas about the folds of the community modules, for `CacheProofs`, `MountTreeProofs` and `SpcFileProofs` |
| `MC*` | small instances for TLC |

`TrackFile` and `ReadHistory` extend `TrackStore`, which instantiates `Cache`; so the
file-level runs and theorems are about the whole read path.  `RenderTrack` refines
`Renderer`, whose three actions (`Load`, `Rendered`, `RenderFails`) are the ones a
leader takes in `TrackStore` between `Recheck` and `Store`.  `Mount` extends `Passthrough`,
whose `ReadTrack` is what `MonotonicReads` promises of the track store; `SpcFile` extends
`WavLayout`, whose `Header` is what `TrackFile` takes for a constant length.

### Correspondence with the code

**Cache.**  `mu`, `used`, `items`, `lru` are the struct's fields; an element of the
list is the entry it holds.  `Get` is one step (it holds the mutex across no loop).
`Set` is the part of `Set` before its loop, `EvictBack` a turn of the loop,
`SetReturn` the deferred unlock.  Data is told apart by its length.

**TrackStore.**  A reader is a goroutine serving one `Read`.  `pc` names the next
point at which another goroutine can get in:

| `pc` | code (`vfs.go`) | action that leaves it |
|---|---|---|
| `idle` | no request | `BeginRead` |
| `get` | 624 | `Lookup` (hit, header reply at 633, or on to the call group) |
| `do`, `waiting` | 662 | `Do`; a waiter leaves with its leader's `Finish` |
| `recheck` | 663 | `Recheck` |
| `load`, `emulate` | 666, 684-712 | `Load`, `Rendered`, `RenderFails` |
| `store`, `evict` | 670 | `Store`, `Evict`, `Stored` (the cache's steps) |
| `finish` | 671, return of `sf.Do` | `Finish` |
| `reply` | 625, 634, 640, 642 | `Return` |

`flight` is the call group's map.  `golang.org/x/sync/singleflight` is not vendored;
`Do` and `Finish` model it from its use in `render`: a key is registered by the first
caller and deleted when its call ends, and its waiters get the same value or
error.  A panic of the leader reaches every caller and `Read` turns it into `EIO`
(`vfs.go` 617), so `RenderFails` stands for errors and panics alike.  Renderings
are told apart by track and by the version of the source file they were made from.

**RenderTrack.**  `Init` is the computation of a track's durations by up to three
stages (options, file, `cmd/render`'s override), each clamped, and of the size that
`newTrackFile` stores.  Each call into libgme is an action that may fail;
`TrackEnded` after a `Play` is any Boolean.  `Close` is the deferred call, taken on
every return past `gme.Open`.

**TrackFile.**  A client holds `file`, `pos`, `want` and `status`; `ReadOn` is `BeginRead`
at its offset, `Receive` is `Return` with the slice that `sliceAt` cuts from the header
or from the rendered WAV.  Because of `FOPEN_DIRECT_IO` (`vfs.go` 602) a short reply
is not an end of file and an empty one is.

**NSFe.**  `pos` is the chunk the loop is at, `trackCount` and `tracks` are the fields of the
`Header` under construction, `plst` the raw playlist.  `Chunk` is the head of the loop
(`nsf.go` 73-85), each of `Info`, `Auth`, `Titles`, `Times`, `Fades`, `Playlist` and `Skip` a case
of its switch (`Skip` those that it ignores, `Auth` the one that says nothing about tracks),
`BadChunk` every error return inside the loop (`TooShort`, `UnknownMandatory` and truncation),
`Finish` what follows it.
`Build` is `parseNSF` or `parseGBS` and `buildTrackList` (`vfs.go` 376-447).  A chunk's body
is the sequence of its values, not of its bytes; a title is a string, and which one
`strings.TrimSpace` makes of it is the constant `Trimmed`.  `ReadGBS` is `gbs.Parse`, which finds
nothing but a track count that the list depends on.

**SpcFile.**  `written` is what a tagging tool was told to write; `Rest` encodes it, in text
or binary, as the bytes from 0xA9 on, which is where the encodings differ.  `Reject`,
`NoID666`, `ParseBinary` and `ParseText` are the returns of `spc.Parse` and leave `tag`;
`Build` is `parseSPC` with the loop body of `buildTrackList` for a single track and leaves
`entry`; `NewTrackFile` leaves `wav`, the layout of the header.  The album artist is the
folder's, which `MountTree` computes.  Titles, artists and album names are ASCII, so a rune is
a byte, a length in characters is one in bytes, and what `sanitizeFilename` does with C1
controls and with invalid UTF-8 is not covered.  After the artist's 32 bytes `Rest` has the byte
of the silenced channels: `spc.go` 84 reads it as the last of the artist when that is read from
the offset of a text tag.

**WavLayout.**  A tag is the lengths of its texts.  Each operator is one function of
`muxer.go`, reduced to offsets and sizes.  `After`, `Unsync` and what follows them are the
reader: RIFF's and ID3v2's rules, not the code's.

**Passthrough.**  Contents and modification times of the source are told apart by
`version`; `opened` is a client's node and, for the passthrough file, the version behind
its descriptor; `attr` and `pages` are what the kernel holds of that file.  `Mtime` is what
the two `Getattr`s report: `os.Stat`'s time for `RealFile` (`vfs.go` 293-302), the scan's
for `TrackFile` (609).  The mount sets no attribute timeout, so the kernel asks before
each read and drops its pages when the time has changed (`Held`); it may drop them at any
time (`MemoryShort`).

**Mount.**  `pc` follows `run` (`main.go` 71-103), `sig` counts the signals in its channel,
`handler` follows the goroutine at 92-99.  A signal before `signal.Notify` kills the
process (`Signal`'s second disjunct); from then on the channel takes it or, when full,
drops it.  `Unmount` fails exactly while a file of the mount is open.

**MountTree.**  `stack` holds the active calls of `populate`, since the recursion happens
in the middle of a directory (`vfs.go` 175): each has its directory, the next entry, and
its local `pending` and `spcArtists`.  `nodes` is the inode tree as a function of paths.
`AddChip` is `addChipDir` with the `ChipDir.OnAdd` that go-fuse calls when the inode is
made (`vfs.go` 219), which is when the tracks' headers take the album artist in.  What
stem, fallback and clean file name a string has are constants of the model; only which
of them are equal matters.  A track's file name is a sequence of ASCII codes, put together as
`vfs.go` 398-406 does: `Number` is `%02d`, with two digits or as many as the number has,
followed by ` - ` and the clean title, or preceded by `Track_` when there is none.  So names are
different because of how they are formatted, and a title may look like another track's number.

Each module defines, before an action, the mutated forms of it that the
mutation runs of `PROJECT.json` use; no action refers to them.

## 3. What TLC checks

| Run | States | Shows |
|---|---|---|
| `cache` | 3,475 | invariants at every turn of the loop, refinement of `LRUStore`, the lock is always released |
| `store_safe` | 244,822 | coalescing, no redundant render, right results, monotonic reads |
| `render` | 636 | handle, buffer and length of one rendering, its end, refinement of `Renderer` |
| `file` | 66,274 | refinement of `VirtualFile`, probes never render; reading on reaches the end of the file or an error |
| `nsfe` | 31,467 | every file's tracks are exactly those it plays, in any order of its chunks; what is kept of tracks beyond the count |
| `nsfe_phantom` | (violation) | `nsf.go` 164 against `nsf.go` 168, see below |
| `nsfe_fade` | (violation) | `docs/specs/nsfe.md` 88 against `vfs.go` 411, see below |
| `tree` | 28,480 | the tree mirrors the source, folder names, album artists, no track lost |
| `tree_dropped` | (violation) | `docs/LIVING_SPEC.md` 133 against `vfs.go` 246, see below |
| `spc` | 45,940 | tags are read back as written, file names are legal, the WAV header is readable |
| `mount` | 144,026 | no signal is lost, a signal stops the process once files are closed, no stale pages for a new descriptor |
| `mount_times` | (violation) | `vfs.go` 774 against `vfs.go` 609, see below |

Bounds and why they suffice.

* `cache`: three keys (one to hit, one to evict, one to insert), sizes 1, 2 and 4
  with a capacity of 3: everything from three entries that fit to one that exceeds
  the capacity alone.  Two callers, since more only queue for the mutex.
* `store_safe`: three readers (a leader, a waiter, and one that fills or evicts
  meanwhile), two tracks of one source that do not fit together, so every fill
  evicts; `MaxVersion = 1`: one replacement of the source, enough for an old and a
  new version to race.  Readers are symmetric (no property names one).
* `render`: durations below, at and above every limit, none and negative; 2.5
  frames per millisecond so that `SampleCount` rounds; a chunk that divides neither
  the ceiling nor most lengths.  The real numbers (44,100 Hz, 4,096 samples) differ
  only in scale, and the theorems hold for all of them.
* `file`: two clients, two tracks whose files evict each other, a header of one and of
  two bytes and three of data, reads of one and three bytes, opens at every offset up to
  one past the end.  `MaxVersion = 0`: file offsets and waiting do not depend on versions.
  No symmetry, as liveness requires.  The largest run, about two and a half minutes.
* `nsfe`: all files of up to three chunks from sixteen (bodies shorter than, as long as
  and longer than the track count; durations negative, zero, within and above the
  limits; a title that `cleanTag` blanks; playlists that are empty, repeat, omit, and name a
  missing track), all files
  of INFO and three chunks about tracks, cut-off chunks, plain NSF and GBS.  Three chunks are
  enough for one to overwrite another with INFO or a playlist between them.
* `tree`: every choice of at most five of twelve names that compete for `game`,
  `game (nsf)` and `(nsf)` or sort around them (losing both names takes three entries,
  and a chiptune can lose to the fallback of another), and every folder of up to four
  SPC files with three artists or none, where a tie, a late overtaking and a folder
  below it occur.  Track lists have titles that repeat, become equal when sanitized, are
  missing, or begin with another track's number; one has 102 tracks, so that numbers of three
  digits stand beside numbers of two.
* `spc`: durations that are blank, of one to three digits, whose low byte is just outside,
  at and inside the codes of digits (47, 48, 57, 58, and 304 = 256 + 48), at and above the
  limit of binary ones; artists that are blank, start with a digit, a space or a control
  character, or end in a space, and artists of 31 and 32 bytes, before a byte of channels that is zero or
  could be a letter; both encodings, both paddings, with and without a date; and all titles of up to three of ten
  bytes (NUL, control characters, space, `/`, `:`, `.`, `?`, DEL, a letter).  The album artist has
  none, two or three letters and the album 130, so texts are empty, even and odd, and one size
  needs two seven-bit bytes.  The sample rate is scaled down; it changes nothing but `data`'s size.
* `mount`: two clients (one whose descriptor is older than the source and one whose is
  not), two replacements, so that a page may be cached under each of three times, and a
  channel of capacity one as in the code.  `mount_times` needs one replacement.

Deadlock is checked everywhere except in `render`, `nsfe`, `tree`, `spc` and `mount`, which
end: a rendering, a parse, a scan, a file's way to a track, and the process.

Fairness.  Goroutines that can run do run (`WF` on each step of a read: Go's scheduler
is preemptive and fair).  Taking the cache's mutex is strongly fair: other
readers may take it in between, and `sync.Mutex` hands it over in starvation mode
after one millisecond.  An emulation ends, weakly fair on
`Load`/`Rendered`/`RenderFails`; that is not an assumption about libgme's idea of
the track's end but what `RenderEnds` shows in `render`, from each single libgme call
returning.  A client that has opened a file reads on (`file` only).  Nobody is
obliged to begin a read, to replace a source or to call the cache.  In `mount` the main
goroutine and the unmounting one are weakly fair, each as a whole; nobody is obliged to
send a signal, to close a file or to keep one closed.  `StopsWhenAsked` is therefore about
behaviours in which, from some point of a pending signal on, nothing is open.

Two exceptions are part of the properties and not of the model:

* `FreshUnlessStraddled` excepts a source that a client opened before its replacement and
  read after it.  Without the exception TLC finds the stale page in a few steps: the old
  descriptor's bytes enter the page cache under the new time, and every later descriptor
  is shown them.  The code cannot prevent that short of giving up `FOPEN_KEEP_CACHE`.
* `ReadsBack` is about `Unambiguous` tags.  The others are a text tag without a date and with
  a fade but no play duration, and a binary tag whose duration has a low byte from 48 to
  57 (`spc.go` 104 names the durations 48 to 57 s; 304 s is one as well) or whose year byte
  is a slash.  They are read in the other encoding.  `docs/specs/spc.md` 103 has one more
  heuristic, the emulator byte at 0xD1, which `isBinaryFormat` does not use; it would tell some of
  these apart.  The others are a binary tag whose artist begins with a control character, which
  `spc.go` 83 takes for the padding of a text tag, and one whose artist begins with a space, fills
  its field and is followed by a byte of silenced channels, which becomes its last character.

### Disagreements with the documentation

* `README.md` 85: "`-cache_size_mb` bounds what is kept afterwards".  `Set`'s loop never evicts
  the entry just inserted, as its comment says (`cache.go` 79-81), so one rendering larger than
  the capacity is kept until another track is rendered: with `-cache_size_mb 31` (32,505,856
  bytes, `main.go` 75) any track of the default length (188 s with its fade, 33,163,200 bytes of
  samples).  It has no run of its own; `WithinCapacity` is what does hold, and is proved: within
  the capacity, or one entry.
* `docs/specs/nsfe.md` 88, of the fade chunk: "Zero = immediate end; negative = player
  default".  `clampMs` treats both as "use the default" (`vfs.go` 411, 793), as
  `TrackInfo` says it wants (`nsf.go` 40), so a track made to stop fades for eight seconds.
  Run `nsfe_fade`.
* `nsf.go` 163-164, the comment on `applyTrackInt32s`: it "calls set for each entry, bounded by
  h.TrackCount".  The bound is skipped when the count is zero (168), so durations are kept of
  tracks that INFO does not count, and a playlist brings them to light: INFO with a count of
  zero, `time` with 9, -1 and 3 and `plst` with 0 give a track of 9 ms.  Run `nsfe_phantom`.  What
  does hold, and is proved, is `BeyondTheCount`: only then, and never titles.
* `docs/LIVING_SPEC.md` 133: a chiptune whose stem is taken "becomes `stem (ext)` [...]
  rather than being dropped".  It is dropped, with a log line, when that name is taken
  as well (`vfs.go` 246), by a real entry or by the folder of a chiptune `stem (ext).ext`.
  Run `tree_dropped`.  What does hold is `FoldersNamed`: dropped only then.
* `vfs.go` 773-774, the comment on `setTimes`: "using the source's time also lets clients
  notice when the source changes".  `TrackFile` reports the time that the scan found
  (`vfs.go` 556, 609) for as long as the mount lives, while `renderTrack` reads the source as
  it is now (684): contents change under one time.  Run `mount_times`.  For `RealFile` the
  comment is right, and `FreshUnlessStraddled` depends on it.

## 4. What TLAPS proves

Every theorem is about the same `Spec` that TLC runs, for any sets of readers,
tracks, sources and sizes, under the named assumptions in the modules (types of the
constants, and that markers such as `Nil` are none of the values they mark).

* **`FoldFacts`.**  A fold of the community modules is a recursive function over the subsets of
  a finite set.  The library's induction theorems cannot be instantiated, but two facts of
  well-foundedness can be cited: a nonempty set of natural numbers has a least member
  (`LeastNatural`), a nonempty set of subsets of a finite set a minimal one
  (`MinimalSubset`).  So that the recursion has a solution (`FoldExists`), that it is
  the only one (`FoldUnique`), and any claim about what it computes are proved by looking at a
  smallest set for which they would fail.
* **`CacheProofs`.**  `IInv` is `TypeOK`, `MapListAgree` and `UsedIsTotal`, with the
  condition that a `Set` in progress has at least one entry and, between calls,
  `WithinCapacity`.  The counter must be in the invariant for the capacity to mean
  anything, and agreement of map and list for the counter to be kept: `Set` takes
  off the size of the *map's* element while the list is what is summed.  The sum is
  stated by partial sums, and two lemmas (removal anywhere, insertion in front)
  rebuild them.  No assumption bounds the capacity; it may be negative.
  `CacheIsLRU` is the refinement of `LRUStore`.  The abstract store keeps the keys that fit
  together with all newer ones, at least the newest, whereas `Set` takes entries off the back
  while the counter is too large.  The mapping says which keys that will leave (`Kept`), so
  `Set`'s first step is the abstract one and the loop stutters.  The argument: the counter is
  the bytes of the keys listed (`TotalIsBytes`), bytes grow towards the back (`BytesMonotone`),
  hence an entry that the loop takes was not kept (`LastNotKept`), what it leaves behind keeps
  its standing (`EvictionKeeps`), and when the loop stops all are kept (`AllKept`).  It needs
  that no data equals `Nil` (`NilDataAssumption`), else a hit looks like a miss.
* **`TrackStoreProofs`.**  Each step of the store is a step of the cache or leaves it
  alone (`NextIsCacheStep`), so `CacheProofs`' invariant is reused through `INSTANCE`;
  the rest relates `pc`, `flight` and `items`.  `NoRedundantRender` needs
  `OneRenderPerTrack`: only the leader could fill the entry, and there is one.
  For `MonotonicReads` the versions of a track are ordered: shown, held by returning
  readers, in the cache or held by the leader, on disk.  Coalescing is what makes
  it inductive: with two leaders an old render could overwrite a newer one.
  For `VirtualFile` a reply is cut from the header only if it starts there, so it is
  empty only at the end of the file; a step of a client is a step of `VirtualFile`
  and the store's own steps are stutters.
* **`RenderTrackProofs`.**  `SampleCount` is monotonic, so the ceiling covers every clamped
  track; `FitSamples` is exact; the handle count follows `pc`.
* **`NSFeProofs`.**  `IInv` adds to the types that nothing is known before the first chunk.
  `PhantomsExcluded`: if that chunk is the only INFO and counts some tracks, each later chunk
  makes at most as many as there are (`SplitTitles`, `Int32s`), and the playlist makes count and
  tracks equal; if it counts none, only durations are kept.  Without "INFO first" it is false:
  durations before INFO are not bounded.
  `RInv` says what the parser knows at each chunk, in the terms of `NSFeReading` applied to
  the chunks before `pos`: the count, the playlist, and of every track the title and the
  durations that the last chunk mentioning it gives.  A lemma per kind of chunk shows that
  one more chunk changes exactly what that kind may say; `Finish` turns it into what the
  whole file says, since the chunks before the end are those in use, and `Build` into the
  entries.  So `ParserImplementsReading` holds for every file, and `OrderDoesNotMatter` is
  a fact about `NSFeReading` alone: with one chunk of each kind after INFO, "the last chunk
  that mentions a track" is the same chunk in any order.
* **`MountProofs`.**  `SignalRemembered` is inductive once the channel's bound is known: a
  dropped signal found it full.  `FreshUnlessStraddled` needs two facts about the kernel's
  copy: its time is never ahead of the source's (`AttrNotAhead`), and, unless a straddling
  read has happened, pages held under the present time are the present contents
  (`HeldIsCurrent`).  A replacement keeps both by making the time a new one.
* **`MountTreeProofs`.**  `IInv` says of every active call of `populate` what it has done so
  far (`FrameOK`) and of every other directory that it is finished (`Done`).  Entries keep
  their names because of the order of the two passes: until the chiptunes' turn a directory
  holds no folder (`NoFolders`), so the name of the next entry is free.  That a step for one
  directory disturbs no other one follows from paths alone (`ElsewhereKept`), and that no
  two calls are for the same directory from the lengths of theirs (`Placed`).  The trees may
  have any depth and any number of entries; `TreesAssumption` says that `os.ReadDir`
  returns entries of different names, that an SPC file has one track, and that a track list is
  shorter than 10^10, the widest number that `Number` writes (a playlist has at most 2^32 entries,
  since a chunk's size has 32 bits).
  `EveryTrackListed` rests on `TrackNamesDiffer`: two numbers with the same digits are the same
  (`LastDigit` and what follows it), numbers of different width are told apart by the space that
  follows the shorter one, since none of the longer one's digits is a space, and a name that
  begins with `Track_` begins with no digit.
  `ArtistInv` adds to it, for `OneAlbumArtist`, that an active call's `spcArtists` lists the
  artists of the SPC entries it has passed, and that every folder made carries the most frequent
  artist of its directory's SPC entries (`AllCredited`).  `MostCommonIs` says what the fold in
  `MostCommon` finds: an artist no other outnumbers, of equals the first in order, or none when there is none.
* **`SpcFileProofs`.**  A file goes through three stages, and `IInv` has a conjunct for the
  outcome of each: a tag within its limits that says what was written (`TagOK`, `AsWritten`), an
  entry with a legal file name, clamped durations and texts of bounded length (`EntryOK`), and
  a header that is the layout of that entry.
  *Reading back* (`ReadsBack`) rests on lemmas about what the parser is built from: trimming
  and cutting at a NUL return the written text from a padded field (`FieldReadsBack`); a number
  written by dividing by powers of ten is what the decimal fold of `parseASCIIInt` computes
  (`DecimalFolds`, `DigitsOfNumber`); so are the bytes of a little-endian one
  (`BytesOfNumber`).  `TextAsText` and `BinaryAsBinary` put them together along the offsets;
  `TextAsBinary` is the case that the code's comment describes, a text tag with blank durations
  read as a binary one: its fields, NULs or spaces, are zero or numbers beyond the limits, which
  is what `NumberAssumption` says of `maxBinaryPlaySec` and `maxBinaryFadeMs`.
  *Names* (`NameLegal`): `sanitizeFilename` replaces each illegal byte, trims what it leaves and
  replaces a relative path; the name is not empty since the title it is made of never is and
  begins with a byte that is no space.
  *The header* (`WavReadable`): `ChunksLineUp` by the evenness of what is padded,
  `SyncsafeReadsBack` by dividing by 128 three times, `TextsLineUp` from both, and
  `EncodedFileReadable` for a file of any duration, rate and channels.  The limit 2^28 is the
  syncsafe encoding's own.
  The assumptions are what a file can hold: durations that fit their fields and texts of at
  most 32 bytes (`WrittenAssumption`), a directory's name of at most 255 bytes and
  artists read from other SPC files (`TextAssumption`).

Every invariant and action property that a passing run checks, and every refinement, is thus
a theorem.  Only model-checked is liveness, which TLAPS cannot prove under fairness:
`LockReleased` (cache), `RenderEnds` (render), `ReadingEnds` (file) and `StopsWhenAsked`
(mount).  The refinements proved are of the abstract specifications without fairness, and two of
them let the code give up: `Renderer` may fail, and `NSFeReading` may return no list, as it must
for a file that cannot be read.  They show that what is returned is right, not that a good file
is never rejected.

## 5. Not modelled, and why

* libgme: external; nothing is assumed of its audio or of when it ends a track.
* The kernel and go-fuse: represented by clients that read; no caching, since the
  mount turns it off for tracks.
* Log output, `Cache.String`, the flags of both commands (`parseArgs` copies them into the
  options), what `cmd/render` prints and writes.
* The bytes of samples and texts in a WAV file, texts outside ASCII, and `spcAlbum`, which
  is a path's last folder.
* Of a passthrough read, offset and length: `os.File.ReadAt` with the kernel's own.
* Integer width: durations are clamped to 21 minutes, so with Go's 64-bit `int` no
  product in `SampleCount` comes near its limit.
* Consistency of one pass over a file across an eviction and a replaced source: the
  code promises none (a hazard in `PROJECT.json` says so).

## 6. Plan

Done: every module of section 2, and every safety property and refinement as a theorem.
What is left:

1. The durations and the album artist of an `SpcFile` through `RenderTrack`: one theorem from
   the tag's bytes to the number of samples in the file.
2. A count of renders per pass over a file, for the hazard at `vfs.go` 637.
