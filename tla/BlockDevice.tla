---------------------------- MODULE BlockDevice ----------------------------
(***************************************************************************)
(* The block device of the boot loader's installer (limine/limine.c): one  *)
(* cached block, written back when another block is needed, and a log of   *)
(* what every write has replaced, for undoing an install.                  *)
(*                                                                         *)
(* A byte range of the program is a range of cells here.  The state of the *)
(* device is a record s and an operation is the set of the states it may   *)
(* end in: a transfer of a block may fail, part of it done, as long as     *)
(* s.faults is positive.  stdio (external) is write through: a block that  *)
(* fwrite accepts is on the device.                                        *)
(***************************************************************************)
EXTENDS Integers, Sequences, SequencesExt, FiniteSets

CONSTANTS
    Cut,                \* how many cells a failed transfer may have moved
    UNINSTALL_DATA_MAX

\* dev: the device; cache, block, dirty: the cached block, -1 for none;
\* bs: block size; log: uninstall_data; undoing: uninstalling; ok: the last call's
\* result; buf: the buffer of the last read; bad: uninstall has reported an error;
\* lost: history, the cells of the write that failed during an install.
Opened(dev, faults) ==
    [dev |-> dev, cache |-> <<>>, block |-> -1, dirty |-> FALSE, bs |-> 1, log |-> <<>>,
     undoing |-> FALSE, ok |-> TRUE, buf |-> <<>>, faults |-> faults, lost |-> {}, bad |-> FALSE]

Failures(s) == IF s.faults > 0 THEN Cut ELSE {}
Failed(s) == [s EXCEPT !.ok = FALSE, !.faults = @ - 1]

\* The device after the first n cells of the cache have been written to their block,
\* and the cache after the first n cells of block b have been read.
Stored(s, n) ==
    [c \in DOMAIN s.dev |->
       LET o == c - s.block * s.bs IN IF o \in 0..(n - 1) THEN s.cache[o] ELSE s.dev[c]]
Loaded(s, b, n) ==
    [o \in 0..(s.bs - 1) |-> IF o < n THEN s.dev[b * s.bs + o] ELSE s.cache[o]]

\* device_init with block size g, after the smaller sizes have failed.
DeviceInit(s, g) ==
    [s EXCEPT !.bs = g, !.block = 0, !.dirty = FALSE,
              !.cache = [o \in 0..(g - 1) |-> s.dev[o]]]

DeviceFlushCache(s) ==
    IF ~s.dirty THEN {s}
    ELSE {[s EXCEPT !.dev = Stored(s, s.bs), !.dirty = FALSE]}
           \cup {[Failed(s) EXCEPT !.dev = Stored(s, n)] : n \in Failures(s)}

\* A failed read leaves the number of the old block on a cache that is partly new.
DeviceCacheBlock(s, b) ==
    IF s.block = b THEN {s}
    ELSE UNION {
      IF ~t.ok THEN {t}
      ELSE IF (b + 1) * t.bs > Cardinality(DOMAIN t.dev) THEN {[t EXCEPT !.ok = FALSE]}
      ELSE {[t EXCEPT !.cache = Loaded(t, b, t.bs), !.block = b]}
             \cup {[Failed(t) EXCEPT !.cache = Loaded(t, b, n)] : n \in Failures(t)}
      : t \in DeviceFlushCache(s)}

\* The blocks of the range of n cells at loc, and the range's part of block b.
Blocks(s, loc, n) ==
    [i \in 1..((loc + n - 1) \div s.bs - loc \div s.bs + 1) |-> loc \div s.bs + i - 1]
From(s, b, loc) == IF loc > b * s.bs THEN loc ELSE b * s.bs
UpTo(s, b, loc, n) == IF loc + n < (b + 1) * s.bs THEN loc + n ELSE (b + 1) * s.bs

ReadChunk(s, b, loc, n) ==
    IF ~s.ok THEN {s}
    ELSE {IF t.ok
          THEN [t EXCEPT !.buf = @ \o [k \in 1..(UpTo(s, b, loc, n) - From(s, b, loc)) |->
                                         t.cache[From(s, b, loc) - b * s.bs + k - 1]]]
          ELSE t : t \in DeviceCacheBlock(s, b)}

WriteChunk(s, b, loc, data) ==
    IF ~s.ok THEN {s}
    ELSE {IF t.ok
          THEN [t EXCEPT !.dirty = TRUE,
                  !.cache = [o \in DOMAIN @ |->
                     LET c == b * s.bs + o IN
                     IF c \in From(s, b, loc)..(UpTo(s, b, loc, Len(data)) - 1)
                     THEN data[c - loc + 1] ELSE @[o]]]
          ELSE t : t \in DeviceCacheBlock(s, b)}

DeviceRead(s, loc, n) ==
    FoldLeft(LAMBDA S, b : UNION {ReadChunk(t, b, loc, n) : t \in S},
             {[s EXCEPT !.buf = <<>>]}, Blocks(s, loc, n))

\* What is replaced is read first; the entry counts once all of it is written.
Save(s, loc, n) ==
    IF s.undoing THEN {s}
    ELSE IF Len(s.log) >= UNINSTALL_DATA_MAX THEN {[s EXCEPT !.ok = FALSE]}
    ELSE DeviceRead(s, loc, n)

DeviceWrite(s, data, loc) ==
    UNION {
      IF ~t.ok THEN {t}
      ELSE {IF t.undoing THEN u
            ELSE IF u.ok THEN [u EXCEPT !.log = Append(@, [loc |-> loc, data |-> t.buf])]
            ELSE [u EXCEPT !.lost = loc..(loc + Len(data) - 1)]
            : u \in FoldLeft(LAMBDA S, b : UNION {WriteChunk(w, b, loc, data) : w \in S},
                             {t}, Blocks(t, loc, Len(data)))}
      : t \in Save(s, loc, Len(data))}

\* uninstall: the cache is forgotten, then every entry of the log is written back,
\* with one more try for an entry that fails.
Forget(s) == [s EXCEPT !.dirty = FALSE, !.block = -1, !.ok = TRUE]

\* Seeded fault: the second try trusts the cache the first one has left.
UndoEntryTrusting(s, e) ==
    UNION {IF t.ok THEN {t}
           ELSE {[w EXCEPT !.ok = TRUE] : w \in DeviceWrite([t EXCEPT !.ok = TRUE], e.data, e.loc)}
           : t \in DeviceWrite(s, e.data, e.loc)}

UndoEntry(s, e) ==
    UNION {
      IF t.ok THEN {t}
      ELSE UNION {{[w EXCEPT !.ok = TRUE, !.bad = ~f.ok \/ ~w.ok \/ @]
                    : w \in DeviceWrite(Forget(f), e.data, e.loc)}
                  : f \in DeviceFlushCache([t EXCEPT !.ok = TRUE])}
      : t \in DeviceWrite(s, e.data, e.loc)}
=============================================================================
