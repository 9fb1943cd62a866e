-------------------------------- MODULE MCFat --------------------------------
EXTENDS FatFs

\* Sectors of 8 bytes, entries of 4: the smallest in which a 12-bit entry of the
\* FAT straddles two sectors and a sector holds two entries.
File_(name, clust, hi, size) ==
  [name |-> name, attr |-> "file", clust |-> clust, hi |-> hi, size |-> size]
Dir_(name, clust) == [name |-> name, attr |-> "dir", clust |-> clust, hi |-> 0, size |-> 0]
Mark_(name, attr) == [name |-> name, attr |-> attr, clust |-> 0, hi |-> 0, size |-> 0]

\* The bytes of a FAT: a link is the next cluster, 0 the end of the chain; the
\* first two entries are not links.
EncodeFat(links, type, n) ==
  LET eoc == CASE type = 12 -> 4095 [] type = 16 -> 65535 [] type = 32 -> 268435455
      V(c) == IF c < 2 THEN eoc ELSE IF c \notin DOMAIN links THEN 0
              ELSE IF links[c] = 0 THEN eoc ELSE links[c]
      B12(p) == LET k == 2 * (p \div 3)
                IN CASE p % 3 = 0 -> V(k) % 256
                     [] p % 3 = 1 -> V(k) \div 256 + 16 * (V(k + 1) % 16)
                     [] p % 3 = 2 -> V(k + 1) \div 16
      B16(p) == (V(p \div 2) \div (IF p % 2 = 0 THEN 1 ELSE 256)) % 256
      B32(p) == IF p % 4 = 3 THEN V(p \div 4) \div 16777216 + 160
                ELSE (V(p \div 4) \div (256 ^ (p % 4))) % 256
  IN [i \in 1 .. n |-> CASE type = 12 -> B12(i - 1) [] type = 16 -> B16(i - 1)
                        [] type = 32 -> B32(i - 1)]

Bpb(spc, nrsv, nfats, fatsz, rootent, totsec, fat32, rootclus) ==
  [jump |-> TRUE, sign |-> TRUE, fat32 |-> fat32, bytes |-> SS, fatsz |-> fatsz,
   nfats |-> nfats, spc |-> spc, rootent |-> rootent, totsec |-> totsec, nrsv |-> nrsv,
   version |-> 0, rootclus |-> rootclus]

\* FAT12 in the first partition: a root directory that is full, files whose
\* clusters are not in order, the first of which looks like a directory.
Fat12 ==
  LET links == 2 :> 5 @@ 5 :> 3 @@ 3 :> 0 @@ 4 :> 6 @@ 6 :> 0 @@ 7 :> 0
  IN [base |-> 3, last |-> 21, sign |-> TRUE, parts |-> << 3, 0, 0, 0 >>,
      bpb |-> Bpb(2, 1, 2, 2, 4, 19, FALSE, 0), links |-> links,
      fat |-> EncodeFat(links, 12, 16), data |-> 10, root |-> << 8, 9 >>,
      dirs |-> 8 :> << Mark_("V", "vol"), File_("K", 2, 0, 40) >>
            @@ 9 :> << Mark_("x", "lfn"), Dir_("D", 4) >>
            @@ 10 :> << File_("Z", 3, 0, 4) >>
            @@ 14 :> << Dir_(".", 4), Dir_(".", 0) >>
            @@ 15 :> << Mark_("deleted", "file"), File_("E", 0, 0, 0) >>
            @@ 18 :> << File_("G", 7, 0, 11) >>]

\* FAT16 without a partition table; the high half of the first cluster is not used.
Fat16(links, size) ==
  [base |-> 0, last |-> 14, sign |-> TRUE, parts |-> << 0, 0, 0, 0 >>,
   bpb |-> [Bpb(1, 1, 1, 3, 2, 15, FALSE, 0) EXCEPT !.sign = FALSE], links |-> links,
   fat |-> EncodeFat(links, 16, 24), data |-> 5, root |-> << 4 >>,
   dirs |-> 4 :> << File_("K", 2, 1, size), Dir_("D", 5) >>
         @@ 8 :> << Dir_(".", 5), Dir_(".", 0) >>
         @@ 13 :> << Mark_("deleted", "file"), File_("E", 0, 0, 0) >>
         @@ 9 :> << File_("G", 7, 0, 8) >>]
Links16 == 2 :> 9 @@ 9 :> 3 @@ 3 :> 8 @@ 8 :> 4 @@ 4 :> 0 @@ 5 :> 10 @@ 10 :> 6 @@ 6 :> 0
        @@ 7 :> 0
\* A directory that comes back to its first cluster, a file whose chain is short.
Broken == [Links16 EXCEPT ![10] = 5, ![3] = 0]

\* FAT32 in the second partition, after one of another kind.
Fat32 ==
  LET links == 2 :> 7 @@ 7 :> 0 @@ 3 :> 12 @@ 12 :> 0 @@ 4 :> 0 @@ 5 :> 0
  IN [base |-> 4, last |-> 26, sign |-> TRUE, parts |-> << 2, 4, 0, 0 >>,
      bpb |-> Bpb(1, 1, 1, 8, 0, 23, TRUE, 2), links |-> links,
      fat |-> EncodeFat(links, 32, 64), data |-> 13, root |-> << 13, 18 >>,
      dirs |-> 13 :> << File_("K", 3, 0, 16), Mark_("deleted", "file") >>
            @@ 18 :> << Dir_("D", 4) >>
            @@ 15 :> << File_("G", 5, 0, 3), File_("E", 0, 0, 0) >>]

\* A card with a partition table and no FAT volume.
Other == [Fat12 EXCEPT !.parts = << 0, 2, 0, 0 >>]

TheCards == {Fat12, Fat16(Links16, 36), Fat16(Broken, 36), Fat32, Other}
At(drive, segs) == [drive |-> drive, segs |-> segs]
ThePaths == {At(0, << "K" >>), At(0, << "D", "G" >>), At(0, << "D", "N" >>),
             At(0, << "K", "G" >>), At(0, << >>), At(0, << "D", "E" >>), At(0, << "D" >>),
             At(0, << Illegal >>), At(1, << "K" >>)}
=============================================================================
