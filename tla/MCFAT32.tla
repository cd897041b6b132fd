------------------------------ MODULE MCFAT32 ------------------------------
(* A scaled disk: 4-byte sectors with two table or directory entries each,    *)
(* tables of three sectors (clusters 2..5), chains that end, break, leave the *)
(* table or run in circles; clusters of one, two and, past the sector numbers *)
(* a uint32_t holds, eight sectors.                                           *)
EXTENDS FAT32

Boot(spc, fat_size, reserved, root) ==
    [signature |-> TRUE, bytes_per_sector |-> 4, sectors_per_cluster |-> spc,
     reserved_sectors |-> reserved, total_sectors |-> 0,
     fat_size_sectors |-> fat_size, root_cluster |-> root]

File(first, size) ==
    [kind |-> "file", directory |-> FALSE, first_cluster |-> first, file_size |-> size]
Directory == [File(3, 8) EXCEPT !.directory = TRUE]

Tables ==
    {[e \in 0..5 |-> CASE e < 2 -> 14 [] e = 2 -> a [] e = 3 -> b [] e = 4 -> c [] e = 5 -> d] :
        a \in {5, 14}, b \in {0, 4, 5, 12, 14}, c \in {1, 3, 15}, d \in {5, 14}}

\* Cluster 2 is the first of the root directory and cluster 5 may be its second;
\* file data may look like entries too.
DirOf(spc) ==
    LET lba(c) == 7 + (c - 2) * spc
        Sector(s) ==
            CASE s = lba(2) -> [e \in 0..1 |-> IF e = 0 THEN File(3, 9) ELSE Free]
              [] s = lba(5) -> [e \in 0..1 |-> IF e = 0 THEN File(4, 8) ELSE Directory]
              [] OTHER -> [e \in 0..1 |-> IF e = 0 THEN File(IF spc = 8 THEN 5 ELSE 12, 9)
                                            ELSE File(3, 5)]
    IN  [s \in lba(2)..(lba(6) - 1) |-> Sector(s)]

GoodDisks ==
    {[boot |-> Boot(spc, 3, 1, 2), fat |-> t, dir |-> DirOf(spc),
      sector_size |-> 4, total_sectors |-> 7 + 4 * spc] : spc \in {1, 2, 8}, t \in Tables}

\* Boot sectors sb_fat32_mount refuses, each for another reason.
BadDisks ==
    {[boot |-> b, fat |-> [e \in 0..(b.fat_size_sectors * b.bytes_per_sector) \div 2 - 1 |-> 0], dir |-> DirOf(1),
      sector_size |-> size, total_sectors |-> 11] : size \in {2, 4},
        b \in {Boot(0, 3, 1, 2), Boot(1, 0, 1, 2), Boot(1, 3, 0, 2), Boot(1, 3, 1, 1),
               Boot(1, 15, 3, 2), Boot(1, 5, 1, 2),
               [Boot(1, 3, 1, 2) EXCEPT !.signature = FALSE],
               [Boot(1, 3, 1, 2) EXCEPT !.bytes_per_sector = 8]}}

MCDisks == GoodDisks \cup BadDisks
MCWords == {0, 3, 14}
MCIndices == {0, 1, 2, 3, 5}
MCRequests == {<<0, 0>>, <<0, 5>>, <<0, 9>>, <<1, 4>>, <<3, 5>>, <<4, 4>>, <<5, 1>>, <<8, 1>>, <<9, 1>>}
=============================================================================
