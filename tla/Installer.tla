----------------------------- MODULE Installer -----------------------------
(***************************************************************************)
(* `limine bios-install` (limine/limine.c): finds the partition table,     *)
(* turns the GPT of an ISO image into an MBR, checks the table, writes the *)
(* boot sector and stage 2, and keeps a log that a failed install and a    *)
(* later `--uninstall` undo.  One action per call, or per turn of a loop;  *)
(* every transfer may fail.                                                *)
(*                                                                         *)
(* Positions keep the order and the overlaps of the byte offsets, in cells *)
(* of one field each.  A partition is a number; Part gives its contents.   *)
(***************************************************************************)
EXTENDS BlockDevice

CONSTANTS
    Image,               \* devices: functions from cells to numbers
    Options,            \* command lines: [force, convert, ndx, save, phys]
    Part,               \* [type, start, end] of a partition, by its number
    MaxFaults,
    SectorCells, BlockGuess, LbGuess,
    NMbr, NGpt,         \* entries of an MBR and of a GPT
    Primary, Secondary, \* logical blocks of the two GPTs
    MinStart, MinSize,  \* 63 sectors, 32KiB
    MaxLba,             \* UINT32_MAX
    Boot, Stage2        \* the boot loader's image

\* Offsets in sector 0, of the ISO signature, and the file system signatures
\* validate_or_force looks for.
StampAt == 3
LocAt == 4
DiskIdAt == 5
FlagAt(i) == 4 + 2 * i
EntryAt(i) == 5 + 2 * i
IsoAt == 3 * SectorCells + 5
ISO == 901
EFI == 900
EmptyLba(lb) == [k \in 1..lb |-> 0]
Hint == <<[at |-> 0, sig |-> 801], [at |-> 1, sig |-> 802], [at |-> 2, sig |-> 802],
          [at |-> 0, sig |-> 803], [at |-> 2 * SectorCells + 1, sig |-> 804]>>

VARIABLES
    io,         \* the device, see BlockDevice
    ipc,
    opt,        \* the command line
    v,          \* locals of bios_install
    udfile,     \* the uninstall data file
    exit,       \* EXIT_SUCCESS (0), EXIT_FAILURE (1), or -1 while it runs
    before      \* history: the device before the install

instVars == <<io, ipc, opt, v, udfile, exit, before>>

NoFile == [log |-> <<>>, whole |-> FALSE]

Locals == [i |-> 1, gpt |-> FALSE, lb |-> 0, alt |-> 0, conv |-> <<>>, active |-> FALSE, mbr |-> FALSE,
           base |-> 0, stage2 |-> SectorCells, stamp |-> <<>>, table |-> <<>>]

InstInit ==
    /\ before = <<>>
    /\ opt = {}
    /\ io = Opened(<<>>, 0)
    /\ ipc = "main"
    /\ v = Locals
    /\ udfile = NoFile
    /\ exit = -1

\* The command line: a device and options.
Main ==
    /\ ipc = "main"
    /\ before' \in Image
    /\ opt' \in Options
    /\ io' = Opened(before', MaxFaults)
    /\ ipc' = "init"
    /\ UNCHANGED <<v, udfile, exit>>

\* Call t has ended: on to p, or to cleanup if it failed.
Go(t, p) == io' = [t EXCEPT !.buf = <<>>] /\ ipc' = IF t.ok THEN p ELSE "cleanup"
Keep == UNCHANGED <<opt, udfile, exit, before>>
Stays == UNCHANGED <<io, opt, udfile, exit, before>>

\* device_init: the first block size the device can be read with.
DeviceOpen(p) ==
    \/ \E n \in DOMAIN BlockGuess :
         LET tried == {k \in 1..(n - 1) : BlockGuess[k] >= opt.phys} IN
         /\ BlockGuess[n] >= opt.phys
         /\ Cardinality(tried) <= io.faults
         /\ io' = DeviceInit([io EXCEPT !.faults = @ - Cardinality(tried)], BlockGuess[n])
         /\ ipc' = p
         /\ UNCHANGED exit
    \/ LET tried == {k \in DOMAIN BlockGuess : BlockGuess[k] >= opt.phys} IN
         /\ Cardinality(tried) <= io.faults
         /\ io' = [io EXCEPT !.faults = @ - Cardinality(tried)]
         /\ ipc' = "end" /\ exit' = 1

Start ==
    /\ ipc \in {"init", "again"}
    /\ DeviceOpen(IF ipc = "init" THEN "probe" ELSE "load")
    /\ UNCHANGED <<opt, v, udfile, before>>

-----------------------------------------------------------------------------
\* The GPT header, a signature and alternate_lba, for each logical block size.
Probe ==
    /\ ipc = "probe"
    /\ \E t \in DeviceRead(io, LbGuess[v.i], 2) :
         LET found == t.ok /\ t.buf[1] = EFI
             last == v.i = Len(LbGuess) IN
         /\ Go(t, IF found THEN "secondary" ELSE IF last THEN "mbr" ELSE "probe")
         /\ v' = [v EXCEPT !.gpt = found, !.lb = IF found THEN LbGuess[v.i] ELSE 0,
                           !.alt = IF found THEN t.buf[2] ELSE 0,
                           !.i = IF found \/ last THEN 1 ELSE @ + 1]
    /\ Keep

\* partition_entry_lba
TableAt(lb) == 2 * lb

ProbeSecondary ==
    /\ ipc = "secondary"
    /\ \E t \in DeviceRead(io, v.lb * v.alt, 1) :
         Go(t, IF t.ok /\ t.buf[1] # EFI THEN "cleanup"
                 ELSE IF opt.convert THEN "iso" ELSE "select")
    /\ UNCHANGED v /\ Keep

ProbeIso ==
    /\ ipc = "iso"
    /\ \E t \in DeviceRead(io, IsoAt, 1) :
         Go(t, IF t.ok /\ t.buf[1] = ISO THEN "gather" ELSE "select")
    /\ UNCHANGED v /\ Keep

\* gpt2mbr_type: only some types have an MBR type.
MbrType == [efi |-> 239, data |-> 7, hfs |-> 175]

Convertible(p) ==
    /\ Part[p].start <= MaxLba /\ Part[p].end <= MaxLba
    /\ Part[p].end - Part[p].start + 1 <= MaxLba
    /\ Part[p].type \in DOMAIN MbrType

\* One entry of the GPT: at most NMbr, all convertible, or the GPT stays.
Gather ==
    /\ ipc = "gather"
    /\ v.i <= NGpt
    /\ \E t \in DeviceRead(io, TableAt(v.lb) + v.i - 1, 1) :
         LET p == IF t.ok THEN t.buf[1] ELSE 0
             give == p # 0 /\ (Len(v.conv) = NMbr \/ ~Convertible(p)) IN
         /\ Go(t, IF give THEN "select" ELSE "gather")
         /\ v' = [v EXCEPT !.i = IF give THEN 1 ELSE @ + 1,
                           !.conv = IF p = 0 \/ give THEN @ ELSE Append(@, p)]
    /\ Keep

GatherEnd ==
    /\ ipc = "gather"
    /\ v.i > NGpt
    /\ ipc' = "nuke"
    /\ v' = [v EXCEPT !.i = 0]
    /\ Stays

\* Both GPTs are cleared, block by block, ...
NukeAt(i) ==
    IF i < Primary THEN i * v.lb
    ELSE (v.alt - (Secondary - 1) + (i - Primary)) * v.lb

Nuke ==
    /\ ipc = "nuke"
    /\ \E t \in DeviceWrite(io, EmptyLba(v.lb), NukeAt(v.i)) :
         LET last == v.i = Primary + Secondary - 1 IN
         /\ Go(t, IF last THEN "disk_id" ELSE "nuke")
         /\ v' = [v EXCEPT !.i = IF last THEN 1 ELSE @ + 1,
                           !.gpt = IF last /\ t.ok THEN FALSE ELSE @]
    /\ Keep

\* ... and the MBR gets an id and the gathered partitions.
DiskId ==
    /\ ipc = "disk_id"
    /\ \E t \in DeviceWrite(io, <<77>>, DiskIdAt) : Go(t, "entries")
    /\ UNCHANGED v /\ Keep

WriteEntry ==
    /\ ipc = "entries"
    /\ v.i <= Len(v.conv)
    /\ \E t \in DeviceWrite(io, <<v.conv[v.i]>>, EntryAt(v.i)) : Go(t, "entries")
    /\ v' = [v EXCEPT !.i = @ + 1]
    /\ Keep

EntriesEnd ==
    /\ ipc = "entries"
    /\ v.i > Len(v.conv)
    /\ ipc' = "mbr"
    /\ v' = [v EXCEPT !.i = 1]
    /\ Stays

-----------------------------------------------------------------------------
\* The checks of one MBR entry: its flag, put right with --force, ...
CheckFlag ==
    /\ ipc = "mbr"
    /\ v.i <= NMbr
    /\ \E t \in DeviceRead(io, FlagAt(v.i), 1) :
         LET flag == IF t.ok THEN t.buf[1] ELSE 0
             odd == flag \notin {0, 128} IN
         /\ \E u \in IF odd /\ opt.force
                     THEN DeviceWrite(t, <<(flag \div 128) * 128>>, FlagAt(v.i)) ELSE {t} :
              Go(u, "mbr_entry")
         /\ v' = [v EXCEPT !.mbr = (v.i = 1 \/ @) /\ ~(odd /\ ~opt.force),
                           !.active = @ \/ flag >= 128]
    /\ Keep

\* ... and its first sector.
CheckEntry ==
    /\ ipc = "mbr_entry"
    /\ \E t \in DeviceRead(io, EntryAt(v.i), 1) :
         Go(t, IF t.ok /\ t.buf[1] # 0 /\ Part[t.buf[1]].start < MinStart
                 THEN "cleanup" ELSE "mbr")
    /\ v' = [v EXCEPT !.i = @ + 1]
    /\ Keep

CheckEnd ==
    /\ ipc = "mbr"
    /\ v.i > NMbr
    /\ ipc' = IF v.mbr THEN "validate" ELSE "cleanup"
    /\ v' = [v EXCEPT !.i = 1, !.base = 0]
    /\ Stays

\* validate_or_force at v.base: no file system, or with --force none any more.
Validate ==
    /\ ipc = "validate"
    /\ v.i <= Len(Hint)
    /\ \E t \in DeviceRead(io, v.base + Hint[v.i].at, 1) :
         LET hit == t.ok /\ t.buf[1] = Hint[v.i].sig IN
         \E u \in IF hit /\ opt.force
                  THEN DeviceWrite(t, <<0>>, v.base + Hint[v.i].at) ELSE {t} :
           Go(u, IF hit /\ ~opt.force THEN "cleanup" ELSE "validate")
    /\ v' = [v EXCEPT !.i = @ + 1]
    /\ Keep

ValidateEnd ==
    /\ ipc = "validate"
    /\ v.i > Len(Hint)
    /\ ipc' = IF v.gpt \/ v.active THEN "stamp" ELSE "activate"
    /\ UNCHANGED v /\ Stays

\* No active partition: the first becomes active.
Activate ==
    /\ ipc = "activate"
    /\ \E t \in DeviceWrite(io, <<128>>, FlagAt(1)) : Go(t, "stamp")
    /\ UNCHANGED v /\ Keep

-----------------------------------------------------------------------------
\* The partition for stage 2: the one asked for, or the first for BIOS boot code.
\* ndx 0 is no argument, -1 one that is not a number.
Chosen(p, lb) ==
    (Part[p].end - Part[p].start + 1) * lb >= MinSize

Select ==
    /\ ipc = "select"
    /\ opt.ndx # 0
    /\ IF opt.ndx \notin 1..NGpt
       THEN ipc' = "cleanup" /\ UNCHANGED <<io, v>>
       ELSE \E t \in DeviceRead(io, TableAt(v.lb) + opt.ndx - 1, 1) :
              LET p == IF t.ok THEN t.buf[1] ELSE 0
                  fits == p # 0 /\ (opt.force \/ Part[p].type = "bios") /\ Chosen(p, v.lb) IN
              /\ Go(t, IF fits THEN "validate" ELSE "cleanup")
              /\ v' = IF fits THEN [v EXCEPT !.i = 1, !.base = Part[p].start * v.lb,
                                             !.stage2 = Part[p].start * v.lb] ELSE v
    /\ Keep

Autodetect ==
    /\ ipc = "select"
    /\ opt.ndx = 0
    /\ IF v.i > NGpt
       THEN ipc' = "cleanup" /\ UNCHANGED <<io, v>>
       ELSE \E t \in DeviceRead(io, TableAt(v.lb) + v.i - 1, 1) :
              LET p == IF t.ok THEN t.buf[1] ELSE 0
                  bios == p # 0 /\ Part[p].type = "bios" IN
              /\ Go(t, IF ~bios THEN "select"
                         ELSE IF Chosen(p, v.lb) THEN "validate" ELSE "cleanup")
              /\ v' = IF bios THEN [v EXCEPT !.i = 1, !.base = Part[p].start * v.lb,
                                             !.stage2 = Part[p].start * v.lb]
                              ELSE [v EXCEPT !.i = @ + 1]
    /\ Keep

-----------------------------------------------------------------------------
\* The install: the timestamp and the partition table are saved, the image is
\* written, and they are put back.
SaveStamp ==
    /\ ipc = "stamp"
    /\ \E t \in DeviceRead(io, StampAt, 1) :
         Go(t, "table") /\ v' = [v EXCEPT !.stamp = t.buf]
    /\ Keep

\* Seeded fault: the disk id is left out of what is saved.
SaveTableShort ==
    /\ ipc = "table"
    /\ \E t \in DeviceRead(io, DiskIdAt, SectorCells - DiskIdAt - 1) :
         Go(t, "boot") /\ v' = [v EXCEPT !.table = t.buf]
    /\ Keep

SaveTable ==
    /\ ipc = "table"
    /\ \E t \in DeviceRead(io, DiskIdAt, SectorCells - DiskIdAt) :
         Go(t, "boot") /\ v' = [v EXCEPT !.table = t.buf]
    /\ Keep

WriteBoot ==
    /\ ipc = "boot"
    /\ \E t \in DeviceWrite(io, Boot, 0) : Go(t, "stage2")
    /\ UNCHANGED v /\ Keep

WriteStage2 ==
    /\ ipc = "stage2"
    /\ \E t \in DeviceWrite(io, Stage2, v.stage2) : Go(t, "loc")
    /\ UNCHANGED v /\ Keep

WriteLoc ==
    /\ ipc = "loc"
    /\ \E t \in DeviceWrite(io, <<v.stage2>>, LocAt) : Go(t, "restamp")
    /\ UNCHANGED v /\ Keep

WriteStamp ==
    /\ ipc = "restamp"
    /\ \E t \in DeviceWrite(io, v.stamp, StampAt) : Go(t, "retable")
    /\ UNCHANGED v /\ Keep

WriteTable ==
    /\ ipc = "retable"
    /\ \E t \in DeviceWrite(io, v.table, DiskIdAt) : Go(t, "flush")
    /\ UNCHANGED v /\ Keep

Flush ==
    /\ ipc = "flush"
    /\ \E t \in DeviceFlushCache(io) :
         /\ io' = t
         /\ ipc' = "cleanup"
         /\ exit' = IF t.ok THEN 0 ELSE -1
    /\ UNCHANGED <<opt, v, udfile, before>>

-----------------------------------------------------------------------------
\* store_uninstall_data, which may fail at every write.
StoreUninstallData(log) ==
    {[log |-> log, whole |-> TRUE]} \cup (IF io.faults > 0 THEN {NoFile} ELSE {})

\* cleanup: the log is turned round; a failed install is undone, the log of a good
\* one is stored, and a failure to store it is not reported.
CleanupFailed ==
    /\ ipc = "cleanup"
    /\ exit = -1
    /\ io' = [Forget(io) EXCEPT !.undoing = TRUE, !.log = Reverse(@)]
    /\ v' = [v EXCEPT !.i = 1]
    /\ ipc' = "undo"
    /\ exit' = 1
    /\ UNCHANGED <<opt, udfile, before>>

CleanupDone ==
    /\ ipc = "cleanup"
    /\ exit = 0
    /\ io' = [io EXCEPT !.log = Reverse(@)]
    /\ ipc' = "end"
    /\ udfile' \in IF opt.save THEN StoreUninstallData(io'.log) ELSE {udfile}
    /\ UNCHANGED <<opt, v, exit, before>>

\* uninstall: one entry of the log, and the last flush.
UndoNext ==
    /\ ipc = "undo"
    /\ v.i <= Len(io.log)
    /\ \E t \in UndoEntry(io, io.log[v.i]) : io' = [t EXCEPT !.buf = <<>>]
    /\ v' = [v EXCEPT !.i = @ + 1]
    /\ UNCHANGED <<ipc, opt, udfile, exit, before>>

UndoFlush ==
    /\ ipc = "undo"
    /\ v.i > Len(io.log)
    /\ \E t \in DeviceFlushCache(io) :
         io' = [t EXCEPT !.bad = @ \/ ~t.ok, !.ok = TRUE]
    /\ ipc' = "undone"
    /\ exit' = IF exit = 1 \/ io'.bad THEN 1 ELSE 0
    /\ UNCHANGED <<opt, v, udfile, before>>

\* A later run with --uninstall; a file that is not whole is refused.
Uninstall ==
    /\ ipc = "end"
    /\ exit = 0
    /\ opt.save
    /\ io' = Opened(io.dev, io.faults)
    /\ ipc' = "again"
    /\ v' = Locals
    /\ exit' = -1
    /\ UNCHANGED <<opt, udfile, before>>

Load ==
    /\ ipc = "load"
    /\ IF udfile.whole
       THEN /\ io' = [Forget(io) EXCEPT !.undoing = TRUE, !.log = udfile.log]
            /\ ipc' = "undo"
            /\ UNCHANGED exit
       ELSE ipc' = "end" /\ exit' = 1 /\ UNCHANGED io
    /\ UNCHANGED <<opt, v, udfile, before>>

InstNext ==
    \/ Main \/ Start \/ Probe \/ ProbeSecondary \/ ProbeIso \/ Gather \/ GatherEnd
    \/ Nuke \/ DiskId \/ WriteEntry \/ EntriesEnd
    \/ CheckFlag \/ CheckEntry \/ CheckEnd \/ Validate \/ ValidateEnd \/ Activate
    \/ Select \/ Autodetect
    \/ SaveStamp \/ SaveTable \/ WriteBoot \/ WriteStage2 \/ WriteLoc \/ WriteStamp
    \/ WriteTable \/ Flush
    \/ CleanupFailed \/ CleanupDone \/ UndoNext \/ UndoFlush \/ Uninstall \/ Load

InstSpec == InstInit /\ [][InstNext]_instVars

-----------------------------------------------------------------------------
\* An undo that reports no error, after a failed install or with --uninstall, has
\* put back every cell, but for those of the write that failed.
Restored ==
    ipc = "undone" /\ ~io.bad =>
      \A c \in DOMAIN before \ io.lost : io.dev[c] = before[c]

\* "Install failed, undoing work..." (limine.c): an undo without errors puts back
\* everything the install has written.
FailedInstallUndone == ipc = "undone" /\ ~io.bad => io.dev = before

\* The device an install should leave, written down from the device before it.
Converted == v.lb # 0 /\ ~v.gpt
Nuked(c) == Converted /\ \E i \in 0..(Primary + Secondary - 1) :
                            c \in NukeAt(i)..(NukeAt(i) + v.lb - 1)
Old(c) == IF Nuked(c) THEN 0 ELSE before[c]
OldFlag(i) == IF Old(FlagAt(i)) >= 128 THEN 128 ELSE 0
Expected(c) ==
    IF c \in v.stage2..(v.stage2 + Len(Stage2) - 1) THEN Stage2[c - v.stage2 + 1]
    ELSE IF c < StampAt THEN Boot[c + 1]
    ELSE IF c = LocAt THEN v.stage2
    ELSE IF Converted /\ c = DiskIdAt THEN 77
    ELSE IF Converted /\ \E i \in DOMAIN v.conv : c = EntryAt(i)
         THEN v.conv[CHOOSE i \in DOMAIN v.conv : c = EntryAt(i)]
    ELSE IF ~v.gpt /\ c = FlagAt(1) /\ \A i \in 1..NMbr : OldFlag(i) = 0 THEN 128
    ELSE IF ~v.gpt /\ \E i \in 1..NMbr : c = FlagAt(i)
         THEN OldFlag(CHOOSE i \in 1..NMbr : c = FlagAt(i))
    ELSE IF \E h \in DOMAIN Hint : c = v.base + Hint[h].at /\ Old(c) = Hint[h].sig THEN 0
    ELSE Old(c)

\* A successful install leaves the boot sector with the location of stage 2, stage 2,
\* the partition table and the timestamp of the device, and nothing else changed.
InstalledExactly ==
    ipc = "end" /\ exit = 0 => \A c \in DOMAIN before : io.dev[c] = Expected(c)
=============================================================================
