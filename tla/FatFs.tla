-------------------------------- MODULE FatFs --------------------------------
(***************************************************************************)
(* The FAT file system (fs/ff.c as ffconf.h configures it: read only, one  *)
(* volume, short names, no exFAT, a sector buffer per file) over the disk  *)
(* layer of fs/diskio.c, and loader.c's loop on top of it.                 *)
(*                                                                         *)
(* A sector is known by its address, and a buffer by the address whose     *)
(* bytes are in it (win, buf); what the driver believes to be in it is a   *)
(* variable of its own (winsect, sect).  The card (`card`, one of Cards)   *)
(* never changes: its sectors are read with Boot, FatByte and Entry.  Every *)
(* function of ff.c is an operator from the driver's state to its next     *)
(* state, `res` and `val` being what it returns; each call of the library  *)
(* is one action, in which one access to the disk may fail.                *)
(***************************************************************************)
EXTENDS Integers, Sequences, FiniteSets, TLC

CONSTANTS
  SS,                \* bytes per sector (512)
  SZDIRE,            \* bytes per directory entry (32)
  MAX_FAT12, MAX_FAT16, MAX_FAT32,  \* clusters of each kind of volume
  MIN_SECTORS,       \* sectors of the smallest volume (128)
  MAX_DIR,           \* bytes of the longest directory
  PAGE_SIZE,         \* bytes the loader reads at a time
  Cards,             \* the cards that may be in the slot
  Paths,             \* the paths that callers use
  Sizes, Offsets,    \* the byte counts they read, the places they seek
  Failures,          \* how an access to the disk may fail
  MAX_ACCESS         \* the last access of a call that may

ASSUME FatAssumption ==
  /\ SS \in Nat \ {0} /\ SS % 4 = 0
  /\ SZDIRE \in 1 .. SS /\ SS % SZDIRE = 0
  /\ Failures \subseteq {"reported", "unnoticed"}

VARIABLES
  card,      \* what is on the card
  stat,      \* diskio.c: has the drive been initialised?
  fs,        \* the FATFS object and FatFs[0]
  fp, dp,    \* a FIL and a DIR
  out        \* what the last call gave its caller
vars == << card, stat, fs, fp, dp, out >>

NoSect == -1                      \* (LBA_t)0 - 1
DISK_ERROR == -1                  \* 0xFFFFFFFF
FF_VOLUMES == 1
Illegal == "*"                    \* a segment create_name() refuses
NoPath == [drive |-> 0, segs |-> << >>]
EndMark == [name |-> "", attr |-> "file", clust |-> 0, hi |-> 0, size |-> 0]
NoBpb == [jump |-> FALSE, sign |-> FALSE, fat32 |-> FALSE, bytes |-> 0, fatsz |-> 0,
          nfats |-> 0, spc |-> 0, rootent |-> 0, totsec |-> 0, nrsv |-> 0,
          version |-> 0, rootclus |-> 0]

----------------------------------------------------------------------------
\* The card's sectors (external): it has a partition table or is a volume
\* itself, and a volume has a boot sector, FATs, directories and clusters.
Boot(lba) ==
  IF lba = card.base THEN card.bpb ELSE [NoBpb EXCEPT !.sign = lba = 0 /\ card.sign]
Part(lba, i) == IF lba = 0 THEN card.parts[i] ELSE 0
FatByte(lba, i) ==
  LET n == (lba - card.base - card.bpb.nrsv) * SS + i
  IN IF n \in 0 .. Len(card.fat) - 1 THEN card.fat[n + 1] ELSE 0
Entry(lba, i) ==
  IF lba \in DOMAIN card.dirs /\ i < Len(card.dirs[lba])
  THEN card.dirs[lba][i + 1] ELSE EndMark

----------------------------------------------------------------------------
\* The disk.  `left` counts down to the access that fails (0: none does).
\* "reported" is what diskio.h lets disk_read() answer; "unnoticed" is what
\* disk_read() makes of a failure of sd_readblock(): it takes the 0 for
\* success, and the buffer keeps what it held.
Count(f) == [f EXCEPT !.left = IF @ > 0 THEN @ - 1 ELSE 0]
ReadFails(f) == f.left = 1 /\ f.failure = "reported"
Keeps(f) == f.left = 1 /\ f.failure = "unnoticed"
Filled(f, old, sect) == IF ReadFails(f) THEN NoSect ELSE IF Keeps(f) THEN old ELSE sect

Return(f, res) == [f EXCEPT !.res = res]

WinSect_kept(f, sect) == sect
WinSect(f, sect) == IF ReadFails(f) THEN NoSect ELSE sect
move_window(f, sect) ==
  IF sect = f.winsect THEN Return(f, "FR_OK")
  ELSE [Count(f) EXCEPT
          !.win = Filled(f, @, sect),
          !.winsect = WinSect(f, sect),
          !.res = IF ReadFails(f) THEN "FR_DISK_ERR" ELSE "FR_OK"]

IsCluster(f, clst) == clst >= 2 /\ clst < f.n_fatent
clst2sect(f, clst) ==
  IF IsCluster(f, clst) THEN f.database + f.csize * (clst - 2) ELSE 0

\* An entry of the FAT, in f.val: a byte and a half, two or four bytes wide, `i`
\* its first byte.  The second byte of a FAT12's may be in the next sector.
NextWindow_same(f, sect) == f
NextWindow(f, sect) == IF f.res = "FR_OK" THEN move_window(f, sect) ELSE f

Decoded(f, clst, i, byte) ==
  LET At(k) == FatByte(f.win, (i + k) % SS)
      low == byte + 256 * At(1)
  IN IF f.res # "FR_OK" THEN [f EXCEPT !.val = DISK_ERROR]
     ELSE [f EXCEPT !.val =
            CASE f.fs_type = 12 -> IF clst % 2 = 1 THEN low \div 16 ELSE low % 4096
              [] f.fs_type = 16 -> low
              [] f.fs_type = 32 -> low + 65536 * At(2) + 16777216 * (At(3) % 16)]
SecondByte(f, clst, i) ==
  Decoded(IF f.fs_type = 12 THEN NextWindow(f, f.fatbase + (i + 1) \div SS) ELSE f,
          clst, i, FatByte(f.win, i % SS))
get_fat(f, clst) ==
  LET i == (clst * (f.fs_type \div 4)) \div 2
  IN IF IsCluster(f, clst) THEN SecondByte(move_window(f, f.fatbase + i \div SS), clst, i)
     ELSE [f EXCEPT !.val = 1]

----------------------------------------------------------------------------
\* Directories: x.fs and x.dp go in and come out, the result in x.fs.res.
Result(x, res) == [x EXCEPT !.fs.res = res]
EndOf(x) == [x EXCEPT !.dp.sect = 0, !.fs.res = "FR_NO_FILE"]
EntryAt(x) == Entry(x.fs.win, (x.dp.dptr % SS) \div SZDIRE)

dir_sdi(x) ==                      \* every caller of this build passes offset 0
  LET clst == IF x.dp.sclust = 0 /\ x.fs.fs_type = 32 THEN x.fs.dirbase ELSE x.dp.sclust
      sect == IF clst = 0 THEN x.fs.dirbase ELSE clst2sect(x.fs, clst)
  IN IF clst = 0 /\ x.fs.n_rootdir = 0
     THEN [Result(x, "FR_INT_ERR") EXCEPT !.dp.dptr = 0]
     ELSE [Result(x, IF sect = 0 THEN "FR_INT_ERR" ELSE "FR_OK") EXCEPT
             !.dp.dptr = 0, !.dp.clust = clst, !.dp.sect = sect]

RootEnds_late(f, ofs) == ofs \div SZDIRE > f.n_rootdir
RootEnds(f, ofs) == ofs \div SZDIRE >= f.n_rootdir
NextSector(x) == [x EXCEPT !.dp.dptr = @ + SZDIRE, !.dp.sect = @ + 1, !.fs.res = "FR_OK"]
NextCluster(x, f) ==
  LET stuck(res) == [x EXCEPT !.fs = Return(f, res), !.dp.sect = @ + 1]
  IN IF f.val = DISK_ERROR THEN stuck("FR_DISK_ERR")
     ELSE IF f.val \in {0, 1} THEN stuck("FR_INT_ERR")
     ELSE IF f.val >= f.n_fatent THEN EndOf([x EXCEPT !.fs = f])
     ELSE [x EXCEPT !.fs = Return(f, "FR_OK"), !.dp.dptr = @ + SZDIRE,
                    !.dp.clust = f.val, !.dp.sect = clst2sect(f, f.val)]
dir_next(x) ==
  LET ofs == x.dp.dptr + SZDIRE
  IN IF ofs >= MAX_DIR \/ x.dp.sect = 0 THEN EndOf(x)
     ELSE IF ofs % SS # 0 THEN [Result(x, "FR_OK") EXCEPT !.dp.dptr = ofs]
     ELSE IF x.dp.clust = 0 THEN IF RootEnds(x.fs, ofs) THEN EndOf(x) ELSE NextSector(x)
     ELSE IF (ofs \div SS) % x.fs.csize # 0 THEN NextSector(x)
     ELSE NextCluster(x, get_fat(x.fs, x.dp.clust))

\* The next entry that dir_read(dp, 0) stops at.
Listed(e) == e.name \notin {"", "deleted", "."} /\ e.attr \notin {"lfn", "vol"}

RECURSIVE dir_read(_)
Unreadable(x) == [x EXCEPT !.dp.sect = 0]
ReadOn(x) == IF x.fs.res # "FR_OK" THEN Unreadable(x) ELSE dir_read(x)
ReadHere(x) ==
  LET e == EntryAt(x)
      here == [x EXCEPT !.dp.attr = e.attr]
  IN IF x.fs.res # "FR_OK" THEN Unreadable(x)
     ELSE IF e.name = "" THEN EndOf(x)
     ELSE IF Listed(e) THEN here ELSE ReadOn(dir_next(here))
dir_read(x) ==
  IF x.dp.sect = 0 THEN Result(x, "FR_NO_FILE")
  ELSE ReadHere([x EXCEPT !.fs = move_window(@, x.dp.sect)])

\* The entry with the name dp.fn, from where dp is.
Named(e, fn) == e.attr \notin {"lfn", "vol"} /\ e.name = fn

RECURSIVE FindFrom(_)
FindHere(x) ==
  LET e == EntryAt(x)
      here == [x EXCEPT !.dp.attr = e.attr]
  IN IF x.fs.res # "FR_OK" THEN x
     ELSE IF e.name = "" THEN Result(x, "FR_NO_FILE")
     ELSE IF Named(e, x.dp.fn) THEN here ELSE FindFrom(dir_next(here))
FindFrom(x) ==
  IF x.fs.res # "FR_OK" THEN x
  ELSE FindHere([x EXCEPT !.fs = move_window(@, x.dp.sect)])
dir_find(x) == FindFrom(dir_sdi(x))

ld_clust_anyType(f, e) == e.clust + 65536 * e.hi
ld_clust(f, e) == e.clust + IF f.fs_type = 32 THEN 65536 * e.hi ELSE 0

\* A path is the list of its segments; a null one is the directory itself.
RECURSIVE FollowSegments(_, _)
Followed(x, path) ==
  LET last == Len(path) = 1
  IN IF x.fs.res = "FR_NO_FILE" /\ ~last THEN Result(x, "FR_NO_PATH")
     ELSE IF x.fs.res # "FR_OK" \/ last THEN x
     ELSE IF x.dp.attr # "dir" THEN Result(x, "FR_NO_PATH")
     ELSE FollowSegments([x EXCEPT !.dp.sclust = ld_clust(x.fs, EntryAt(x))], Tail(path))
FollowSegments(x, path) ==
  IF Head(path) = Illegal THEN Result(x, "FR_INVALID_NAME")
  ELSE Followed(dir_find([x EXCEPT !.dp.fn = Head(path)]), path)
follow_path(x, path) ==
  LET root == [x EXCEPT !.dp.sclust = 0]
  IN IF path = << >> THEN dir_sdi(root) ELSE FollowSegments(root, path)

----------------------------------------------------------------------------
\* Mounting.  f.val of check_fs and find_volume: 0 a FAT volume, 2 another
\* boot sector, 3 none, 4 a disk error.
PowerOf2(n) == n \in {2 ^ i : i \in 0 .. 15}

Plausible(b) ==
  /\ b.bytes = SS /\ PowerOf2(b.spc) /\ b.nrsv # 0 /\ b.nfats \in {1, 2}
  /\ b.rootent # 0 /\ b.totsec >= MIN_SECTORS /\ b.fatsz # 0

Judged(f, b) ==
  [f EXCEPT !.val = IF f.res # "FR_OK" THEN 4
                    ELSE IF b.jump /\ ((b.sign /\ b.fat32) \/ Plausible(b)) THEN 0
                    ELSE IF b.sign THEN 2 ELSE 3]
JudgeWindow(f) == Judged(f, Boot(f.win))
check_fs(f, sect) == JudgeWindow(move_window([f EXCEPT !.winsect = NoSect], sect))

RECURSIVE TryPartition(_, _, _)
TriedPartition(f, table, i) ==
  IF f.val < 2 \/ i = 4 THEN f ELSE TryPartition(f, table, i + 1)
TryPartition(f, table, i) ==
  TriedPartition(IF Part(table, i) = 0 THEN [f EXCEPT !.val = 3]
                 ELSE check_fs(f, Part(table, i)), table, i)
ScanTable(f) == IF f.val = 2 THEN TryPartition(f, f.win, 1) ELSE f
find_volume(f) == ScanTable(check_fs(f, 0))

\* The geometry, from the boot sector in the window.
Geometry(f, b) ==
  LET rootsects == b.rootent \div (SS \div SZDIRE)
      sysect == b.nrsv + b.fatsz * b.nfats + rootsects
      nclst == (b.totsec - sysect) \div b.spc
      type == IF nclst <= MAX_FAT12 THEN 12 ELSE IF nclst <= MAX_FAT16 THEN 16 ELSE 32
  IN [f EXCEPT
        !.fs_type = type, !.csize = b.spc, !.n_rootdir = b.rootent,
        !.n_fatent = nclst + 2, !.fatbase = f.winsect + b.nrsv,
        !.database = f.winsect + sysect,
        !.dirbase = IF type = 32 THEN b.rootclus
                    ELSE f.winsect + b.nrsv + b.fatsz * b.nfats]

\* What of it mount_volume() tests, part by part.
GoodGeometry(g, b) ==
  LET bytes == (g.n_fatent * (g.fs_type \div 4) + 1) \div 2
  IN /\ b.bytes = SS /\ b.nfats \in {1, 2} /\ PowerOf2(b.spc) /\ b.nrsv # 0
     /\ b.rootent % (SS \div SZDIRE) = 0
     /\ g.n_fatent > 2 /\ g.n_fatent <= MAX_FAT32 + 2
     /\ IF g.fs_type = 32 THEN b.version = 0 /\ b.rootent = 0 ELSE b.rootent # 0
     /\ b.fatsz >= (bytes + SS - 1) \div SS

Accepted(f, g, b) ==
  IF GoodGeometry(g, b) THEN [g EXCEPT !.res = "FR_OK", !.id = @ + 1]
  ELSE Return(f, "FR_NO_FILESYSTEM")
Mounted(f, b) ==
  IF f.val = 4 THEN Return(f, "FR_DISK_ERR")
  ELSE IF f.val >= 2 \/ ~PowerOf2(b.spc) THEN Return(f, "FR_NO_FILESYSTEM")
  ELSE Accepted(f, Geometry(f, b), b)
MountFound(f) == Mounted(f, Boot(f.win))

\* disk_initialize() is the first access of a mount; once it has succeeded the
\* drive stays initialised (diskio.c never takes STA_OK back).
IsMounted_never(f) == FALSE
IsMounted(f) == f.fs_type # 0 /\ stat
InitFails(f) == f.left = 1
mount_volume(f, drive) ==
  IF drive >= FF_VOLUMES THEN Return(f, "FR_INVALID_DRIVE")
  ELSE IF ~f.registered THEN Return(f, "FR_NOT_ENABLED")
  ELSE IF IsMounted(f) THEN Return(f, "FR_OK")
  ELSE IF InitFails(f) THEN [Count(f) EXCEPT !.fs_type = 0, !.res = "FR_NOT_READY"]
  ELSE MountFound(find_volume([Count(f) EXCEPT !.fs_type = 0]))
Initialised(f, drive) ==
  stat \/ (drive < FF_VOLUMES /\ f.registered /\ ~InitFails(f))

validate(o) == o.open /\ fs.fs_type # 0 /\ o.id = fs.id /\ stat

----------------------------------------------------------------------------
\* Files: y.fs, y.fp and the bytes y.data delivered so far.  A byte is the
\* sector it is in and its place there; Stale ones never came from the card.
Bytes(lba, from, n) ==
  [i \in 1 .. n |-> IF lba = NoSect THEN << NoSect, 0 >>
                    ELSE << lba + (from + i - 1) \div SS, (from + i - 1) % SS >>]
MinOf(a, b) == IF a < b THEN a ELSE b

Abort(y, f, res) == [y EXCEPT !.fs = Return(f, res), !.fp.err = res]

\* Fill the file's own buffer.
Load1(y, f, sect) ==
  IF ReadFails(f) THEN Abort([y EXCEPT !.fp.buf = NoSect], Count(f), "FR_DISK_ERR")
  ELSE [y EXCEPT !.fs = Return(Count(f), "FR_OK"), !.fp.sect = sect,
                 !.fp.buf = Filled(f, @, sect)]

\* Whole sectors that are read at once, straight to the caller's buffer.
Direct_acrossClusters(f, csect, btr) == btr \div SS
Direct(f, csect, btr) == MinOf(btr \div SS, f.csize - csect)

RECURSIVE ReadLoop(_, _)
\* ... through the file's own buffer, up to the end of the sector.
ReadBuffered(y, btr) ==
  LET rcnt == MinOf(SS - (y.fp.fptr % SS), btr)
  IN IF y.fp.err # "FR_OK" THEN y
     ELSE ReadLoop([y EXCEPT !.fp.fptr = @ + rcnt,
                             !.data = @ \o Bytes(y.fp.buf, y.fp.fptr % SS, rcnt)], btr - rcnt)
\* ... from a sector boundary on, in cluster y.fp.clust.
ReadSector(y, btr) ==
  LET csect == (y.fp.fptr \div SS) % y.fs.csize
      sect == clst2sect(y.fs, y.fp.clust) + csect
      n == SS * Direct(y.fs, csect, btr)
  IN IF clst2sect(y.fs, y.fp.clust) = 0 THEN Abort(y, y.fs, "FR_INT_ERR")
     ELSE IF n = 0 THEN ReadBuffered(IF y.fp.sect = sect THEN y ELSE Load1(y, y.fs, sect), btr)
     ELSE IF ReadFails(y.fs) THEN Abort(y, Count(y.fs), "FR_DISK_ERR")
     ELSE ReadLoop([y EXCEPT !.fs = Count(@), !.fp.fptr = @ + n,
                     !.data = @ \o Bytes(Filled(y.fs, NoSect, sect), 0, n)], btr - n)
\* ... from the first byte of the next cluster on.
ReadCluster(y, f, btr) ==
  IF f.val = DISK_ERROR THEN Abort(y, f, "FR_DISK_ERR")
  ELSE IF f.val < 2 THEN Abort(y, f, "FR_INT_ERR")
  ELSE ReadSector([y EXCEPT !.fs = Return(f, "FR_OK"), !.fp.clust = f.val], btr)
ReadLoop(y, btr) ==
  IF btr = 0 THEN [y EXCEPT !.fs.res = "FR_OK"]
  ELSE IF y.fp.fptr % SS # 0 THEN ReadBuffered(y, btr)
  ELSE IF (y.fp.fptr \div SS) % y.fs.csize # 0 THEN ReadSector(y, btr)
  ELSE ReadCluster(y, IF y.fp.fptr = 0 THEN [y.fs EXCEPT !.val = y.fp.sclust]
                      ELSE get_fat(y.fs, y.fp.clust), btr)

f_read(y, btr) ==
  IF y.fp.err # "FR_OK" THEN [y EXCEPT !.fs.res = y.fp.err]
  ELSE ReadLoop(y, MinOf(btr, y.fp.objsize - y.fp.fptr))

\* f_lseek() follows the chain from the current cluster or from the first.
RECURSIVE SeekLoop(_, _)
SeekCluster(y, f, ofs) ==
  LET bcs == f.csize * SS
      linked == [y EXCEPT !.fs = f, !.fp.fptr = @ + bcs]
  IN IF f.val = DISK_ERROR THEN Abort(linked, f, "FR_DISK_ERR")
     ELSE IF ~IsCluster(f, f.val) THEN Abort(linked, f, "FR_INT_ERR")
     ELSE SeekLoop([linked EXCEPT !.fp.clust = f.val], ofs - bcs)
SeekLoop(y, ofs) ==
  LET first == clst2sect(y.fs, y.fp.clust)
      sect == first + ofs \div SS
      there == [y EXCEPT !.fp.fptr = @ + ofs]
  IN IF ofs > y.fs.csize * SS THEN SeekCluster(y, get_fat(y.fs, y.fp.clust), ofs)
     ELSE IF ofs % SS # 0 /\ first = 0 THEN Abort(there, y.fs, "FR_INT_ERR")
     ELSE IF ofs % SS = 0 \/ sect = y.fp.sect THEN [there EXCEPT !.fs.res = "FR_OK"]
     ELSE Load1(there, y.fs, sect)

Clip_none(y, offset) == offset
Clip(y, offset) == MinOf(offset, y.fp.objsize)
Near_atBoundary(y, ofs) ==
  LET bcs == y.fs.csize * SS IN y.fp.fptr > 0 /\ ofs \div bcs >= y.fp.fptr \div bcs
Near(y, ofs) ==
  LET bcs == y.fs.csize * SS IN y.fp.fptr > 0 /\ (ofs - 1) \div bcs >= (y.fp.fptr - 1) \div bcs
f_lseek(y, offset) ==
  LET bcs == y.fs.csize * SS
      ofs == Clip(y, offset)
      near == Near(y, ofs)
      base == IF near THEN ((y.fp.fptr - 1) \div bcs) * bcs ELSE 0
      from == [y EXCEPT !.fp.fptr = base, !.fp.clust = IF near THEN @ ELSE y.fp.sclust]
  IN IF y.fp.err # "FR_OK" THEN [y EXCEPT !.fs.res = y.fp.err]
     ELSE IF ofs = 0 THEN [y EXCEPT !.fp.fptr = 0, !.fs.res = "FR_OK"]
     ELSE IF from.fp.clust = 0 THEN [from EXCEPT !.fs.res = "FR_OK"]
     ELSE SeekLoop(from, ofs - base)

\* f_open() into a blank FIL and f_opendir() into a blank DIR.
Blank == [open |-> FALSE, id |-> 0, sclust |-> 0]
BlankFile == Blank @@ [objsize |-> 0, err |-> "FR_OK", fptr |-> 0, clust |-> 0,
                       sect |-> 0, buf |-> NoSect, path |-> NoPath]
BlankDir == Blank @@ [dptr |-> 0, clust |-> 0, sect |-> 0, attr |-> "file", fn |-> "",
                      path |-> NoPath]

FollowMounted(f, segs) ==
  IF f.res = "FR_OK" THEN follow_path([fs |-> f, dp |-> BlankDir], segs)
  ELSE [fs |-> f, dp |-> BlankDir]
OpenPath(f, p) == FollowMounted(mount_volume(f, p.drive), p.segs)

Opened(x, p) ==
  LET e == EntryAt(x)
      res == IF x.fs.res # "FR_OK" THEN x.fs.res
             ELSE IF p.segs = << >> THEN "FR_INVALID_NAME"
             ELSE IF x.dp.attr = "dir" THEN "FR_NO_FILE" ELSE "FR_OK"
  IN [fs |-> Return(x.fs, res), data |-> << >>,
      fp |-> IF res # "FR_OK" THEN BlankFile
             ELSE [BlankFile EXCEPT !.open = TRUE, !.id = x.fs.id, !.path = p,
                     !.sclust = ld_clust(x.fs, e), !.objsize = e.size]]
f_open(f, p) == Opened(OpenPath(f, p), p)

OpenedDir(x, p) ==
  IF x.fs.res = "FR_OK" THEN [x EXCEPT !.dp.open = TRUE, !.dp.id = x.fs.id, !.dp.path = p]
  ELSE [x EXCEPT !.dp = BlankDir]
FoundDir(x, p) ==
  IF x.fs.res # "FR_OK"
  THEN Result(x, IF x.fs.res = "FR_NO_FILE" THEN "FR_NO_PATH" ELSE x.fs.res)
  ELSE IF p.segs = << >> THEN dir_sdi(x)
  ELSE IF x.dp.attr # "dir" THEN Result(x, "FR_NO_PATH")
  ELSE dir_sdi([x EXCEPT !.dp.sclust = ld_clust(x.fs, EntryAt(x))])
f_opendir(f, p) == OpenedDir(FoundDir(OpenPath(f, p), p), p)

\* f_readdir(): the entry is copied out before the next step moves the window.
\* At the end of the directory the name is empty.
Advanced(x, entry) ==
  [x |-> IF x.fs.res = "FR_NO_FILE" THEN Result(x, "FR_OK") ELSE x, entry |-> entry]
ReadEntry(x) ==
  IF x.fs.res = "FR_OK" THEN Advanced(dir_next(x), EntryAt(x)) ELSE Advanced(x, EndMark)
f_readdir(x) == ReadEntry(dir_read(x))

Found(x, p) ==
  LET res == IF x.fs.res = "FR_OK" /\ p.segs = << >> THEN "FR_INVALID_NAME" ELSE x.fs.res
  IN [fs |-> Return(x.fs, res), data |-> IF res = "FR_OK" THEN << EntryAt(x) >> ELSE << >>]
f_stat(f, p) == Found(OpenPath(f, p), p)

\* load_file_to_memory() reads pages until one stays empty.
RECURSIVE LoadLoop(_)
LoadedPage(y, n) == IF Len(y.data) = n THEN y ELSE LoadLoop(y)
LoadLoop(y) == LoadedPage(f_read(y, PAGE_SIZE), Len(y.data))
LoadOpened(y) == IF y.fs.res = "FR_OK" THEN LoadLoop(y) ELSE y
load_file_to_memory(f, p) == LoadOpened(f_open(f, p))

\* The loop of the shell's `ls`, and the entries it printed.
RECURSIVE ListLoop(_, _)
ListedOne(r, shown) ==
  IF r.x.fs.res # "FR_OK" \/ r.entry.name = "" THEN [fs |-> r.x.fs, data |-> shown]
  ELSE ListLoop(r.x, Append(shown, r.entry))
ListLoop(x, shown) == ListedOne(f_readdir(x), shown)
ListOpened(x) ==
  IF x.dp.open THEN ListLoop(x, << >>)
  ELSE [fs |-> Return(x.fs, "FR_INVALID_OBJECT"), data |-> << >>]
shell_cmd_ls(f) == ListOpened(f_opendir(f, NoPath))

----------------------------------------------------------------------------
\* The calls.  f is the driver's state with the access that fails chosen; the
\* choice is forgotten when the call returns.
Faulty(left, failure) == [fs EXCEPT !.left = left, !.failure = failure]
Done(f) == [f EXCEPT !.left = 0, !.failure = "none", !.res = "FR_OK", !.val = 0]
Answer(call, f, p, at, data) ==
  [call |-> call, res |-> f.res, path |-> p, at |-> at, data |-> data]
Faults == {<< 0, "none" >>} \cup ((1 .. MAX_ACCESS) \X Failures)

f_mount ==                                  \* hypervisor_main(), opt 0
  /\ ~fs.registered
  /\ fs' = [fs EXCEPT !.registered = TRUE, !.fs_type = 0]
  /\ UNCHANGED << card, stat, fp, dp, out >>

Opens(p, x) == stat' = Initialised(Faulty(x[1], x[2]), p.drive)

\* A bound of the model: one object is open at a time.
FileCall(call, at, y) ==
  /\ fs' = Done(y.fs) /\ fp' = y.fp
  /\ out' = Answer(call, y.fs, y.fp.path, at, y.data)
  /\ UNCHANGED << card, dp >>
File(x) == [fs |-> Faulty(x[1], x[2]), fp |-> fp, data |-> << >>]
Refuse(y) == [y EXCEPT !.fs.res = "FR_INVALID_OBJECT"]

Open == \E p \in Paths, x \in Faults :
  /\ ~dp.open /\ Opens(p, x)
  /\ FileCall("f_open", 0, f_open(Faulty(x[1], x[2]), p))
Read == \E btr \in Sizes, x \in Faults :
  /\ FileCall("f_read", fp.fptr,
              IF validate(fp) THEN f_read(File(x), btr) ELSE Refuse(File(x)))
  /\ UNCHANGED stat
Lseek == \E ofs \in Offsets, x \in Faults :
  /\ FileCall("f_lseek", ofs, IF validate(fp) THEN f_lseek(File(x), ofs) ELSE Refuse(File(x)))
  /\ UNCHANGED stat
\* A closed object is refused whatever its other fields hold.
Close ==
  LET y == File(<< 0, "none" >>)
  IN /\ FileCall("f_close", 0, IF validate(fp) THEN [y EXCEPT !.fp = BlankFile] ELSE Refuse(y))
     /\ UNCHANGED stat

DirCall(call, x, entries) ==
  /\ fs' = Done(x.fs) /\ dp' = x.dp
  /\ out' = Answer(call, x.fs, x.dp.path, x.dp.dptr, entries)
  /\ UNCHANGED << card, fp >>
Dir(x) == [fs |-> Faulty(x[1], x[2]), dp |-> dp]

OpenDir == \E p \in Paths, x \in Faults :
  /\ ~fp.open /\ Opens(p, x)
  /\ DirCall("f_opendir", f_opendir(Faulty(x[1], x[2]), p), << >>)
DirRead(r) == DirCall("f_readdir", r.x, << r.entry >>)
ReadDir == \E x \in Faults :
  /\ IF validate(dp) THEN DirRead(f_readdir(Dir(x)))
     ELSE DirCall("f_readdir", Refuse(Dir(x)), << >>)
  /\ UNCHANGED stat
CloseDir ==
  LET d == Dir(<< 0, "none" >>)
  IN /\ DirCall("f_closedir", IF validate(dp) THEN [d EXCEPT !.dp = BlankDir] ELSE Refuse(d),
                << >>)
     /\ UNCHANGED stat

PathCall(call, y, p, x) ==
  /\ fs' = Done(y.fs)
  /\ out' = Answer(call, y.fs, p, 0, y.data)
  /\ Opens(p, x)
  /\ UNCHANGED << card, fp, dp >>
Stat == \E p \in Paths, x \in Faults : PathCall("f_stat", f_stat(Faulty(x[1], x[2]), p), p, x)
Load == \E p \in Paths, x \in Faults :
  PathCall("load", load_file_to_memory(Faulty(x[1], x[2]), p), p, x)
Ls == \E x \in Faults : PathCall("ls", shell_cmd_ls(Faulty(x[1], x[2])), NoPath, x)

Init ==
  /\ card \in Cards /\ stat = FALSE
  /\ fs = [registered |-> FALSE, fs_type |-> 0, id |-> 0, csize |-> 0, n_rootdir |-> 0,
           n_fatent |-> 0, fatbase |-> 0, database |-> 0, dirbase |-> 0, win |-> NoSect,
           winsect |-> NoSect, left |-> 0, failure |-> "none", res |-> "FR_OK", val |-> 0]
  /\ fp = BlankFile /\ dp = BlankDir
  /\ out = [call |-> "none", res |-> "FR_OK", path |-> NoPath, at |-> 0, data |-> << >>]

Next ==
  \/ f_mount \/ Open \/ Read \/ Lseek \/ Close \/ OpenDir \/ ReadDir \/ CloseDir
  \/ Stat \/ Load \/ Ls
Spec == Init /\ [][Next]_vars

----------------------------------------------------------------------------
\* What is on the card, read off its clusters and directories without any of
\* the driver's arithmetic: card.links is the next cluster of each, card.data
\* the sector of cluster 2, card.root the sectors of the root directory.
RECURSIVE Chain(_, _)
Chain(c, seen) ==
  IF c \in DOMAIN card.links \ seen
  THEN << c >> \o Chain(card.links[c], seen \cup {c}) ELSE << >>
Sectors(c) ==
  LET chain == Chain(c, {})
      spc == card.bpb.spc
  IN [i \in 1 .. Len(chain) * spc |->
        card.data + (chain[(i - 1) \div spc + 1] - 2) * spc + ((i - 1) % spc)]
Content(e) ==
  LET sectors == Sectors(e.clust)
      full == Len(sectors) * SS
  IN [i \in 1 .. (IF e.size < full THEN e.size ELSE full) |->
        << sectors[(i - 1) \div SS + 1], (i - 1) % SS >>]
PER_SECTOR == SS \div SZDIRE
Entries(sectors) ==
  LET at == [i \in 1 .. Len(sectors) * PER_SECTOR |->
               Entry(sectors[(i - 1) \div PER_SECTOR + 1], (i - 1) % PER_SECTOR)]
      ends == {i \in DOMAIN at : at[i].name = ""}
  IN IF ends = {} THEN at
     ELSE SubSeq(at, 1, (CHOOSE i \in ends : \A j \in ends : i <= j) - 1)
RECURSIVE Lookup(_, _)
Lookup(sectors, segs) ==
  LET entries == Entries(sectors)
      found == {entries[i] : i \in {j \in DOMAIN entries : Named(entries[j], Head(segs))}}
  IN IF Len(segs) = 1 THEN found
     ELSE UNION {Lookup(Sectors(e.clust), Tail(segs)) : e \in {d \in found : d.attr = "dir"}}
Object(p) == IF p.segs = << >> THEN {} ELSE Lookup(card.root, p.segs)
Files(p) == {e \in Object(p) : e.attr = "file"}

TypeOK ==
  /\ card \in Cards /\ stat \in BOOLEAN
  /\ fs.fs_type \in {0, 12, 16, 32} /\ fs.id \in {0, 1} /\ fs.left = 0
  /\ fp.open \in BOOLEAN /\ fp.fptr \in 0 .. fp.objsize /\ fp.id \in {0, 1}
  /\ dp.open \in BOOLEAN /\ dp.dptr \in 0 .. MAX_DIR /\ dp.id \in {0, 1}

\* A buffer holds the sector the driver believes to be in it, so a later access
\* that finds it there may skip the disk (move_window(), f_read(), f_lseek()).
WindowHonest ==
  /\ fs.winsect # NoSect => fs.win = fs.winsect
  /\ fp.open /\ fp.err = "FR_OK" /\ fp.sect # 0 /\ fp.fptr % SS # 0 => fp.buf = fp.sect

\* Wherever reads and seeks left a file, its current cluster is the one of its
\* chain that holds the byte before the pointer; f_read() goes on from there.
PointerAgrees ==
  LET bcs == fs.csize * SS
  IN fp.open /\ fp.err = "FR_OK" /\ fp.fptr > 0 =>
       LET chain == Chain(fp.sclust, {})
           i == (fp.fptr - 1) \div bcs + 1
       IN i \in DOMAIN chain => fp.clust = chain[i]

\* f_read() that succeeds delivers the bytes of the file from the pointer on,
\* as many as were asked for or are left, whatever was sought before.
DeliversFile ==
  out.call = "f_read" /\ out.res = "FR_OK" =>
    \A e \in Files(out.path) :
      /\ out.data = SubSeq(Content(e), out.at + 1, out.at + Len(out.data))
      /\ \E btr \in Sizes : Len(out.data) = MinOf(btr, e.size - out.at)

\* load_file_to_memory() that reports success has loaded the whole file, byte for
\* byte; it finds a chain broken only where the card's chain is too short.
LoadedIsFile ==
  out.call = "load" =>
    /\ out.res = "FR_OK" =>
         \E e \in Files(out.path) : out.data = Content(e) /\ Len(out.data) = e.size
    /\ out.res = "FR_INT_ERR" => \E e \in Files(out.path) : Len(Content(e)) < e.size

\* `ls` that reaches the end has shown every file and directory of the root once
\* and in their order, and neither deleted entries nor volume labels.
ListsDirectory ==
  out.call = "ls" /\ out.res = "FR_OK" => out.data = SelectSeq(Entries(card.root), Listed)

\* A path opens what it names: the file's first cluster and size are those of its
\* entry; only what is not there is not found, whatever the disk did.
OpensNamed ==
  /\ fp.open => \E e \in Files(fp.path) : fp.sclust = e.clust /\ fp.objsize = e.size
  /\ out.res \in {"FR_NO_FILE", "FR_NO_PATH"} =>
       IF out.call \in {"f_opendir", "ls"} THEN \A e \in Object(out.path) : e.attr # "dir"
       ELSE Files(out.path) = {}

\* A volume is mounted with the geometry of the card that is in the slot, once:
\* no later failure takes it away or changes it.
MountedForGood ==
  [][fs.fs_type # 0 =>
       /\ fs'.fs_type = fs.fs_type /\ fs'.id = fs.id /\ fs'.database = card.data
       /\ fs'.winsect # NoSect => fs'.winsect \in card.base .. card.last]_vars

\* What the driver believes of its buffers and of its place in a file is so.
DriverHonest == TypeOK /\ WindowHonest /\ PointerAgrees

\* What open, read and list answer is what is on the card.
AnswersTrue == DeliversFile /\ ListsDirectory /\ OpensNamed
=============================================================================
