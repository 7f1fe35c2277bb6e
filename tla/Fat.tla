-------------------------------- MODULE Fat --------------------------------
(***************************************************************************)
(* The boot loader's FAT32 reader (boot/fat.c) as entry() of boot/main.c   *)
(* uses it: find KERNEL_FILE, follow its cluster chain through the cached  *)
(* file allocation table, and load it.  One action per access to the disk, *)
(* which may fail; any failure ends in entry()'s halt loop.                *)
(*                                                                         *)
(* The contents of a sector of a file are abstracted to its LBA relative   *)
(* to the partition, modulo 2^32: LbaMod - 1 is the one before the first.  *)
(* A volume is a record:                                                   *)
(*   sectors, reserved, fat_sectors, spc, root   partition and header      *)
(*   next    the words from the start of the file allocation table on,     *)
(*           those beyond its end included                                 *)
(*   dirs    the contents of a sector as directory entries                 *)
(***************************************************************************)
EXTENDS Integers, Sequences, FiniteSetsExt

CONSTANTS
  Volumes,          \* the disks the loader may find
  FAT_EOC,          \* 0x0FFFFFF8: values from here on end a chain
  FAT_ENTRIES,      \* 128: entries of a sector of the FAT
  NAME_LEN,         \* 8 and
  NAME_EXT_LEN,     \* 11: the parts of a short name
  KERNEL_FILE,      \* the path, as a sequence of characters
  Components,       \* its components as they are stored in directories
  LbaMod,           \* 2^32: sector numbers are uint32_t
  MaxLoaded         \* sectors loaded that are told apart

Clusters(vol) == DOMAIN vol.next
SectorNo(c) == c \div FAT_ENTRIES
Data(vol) == (vol.reserved + vol.fat_sectors) % LbaMod

\* The sectors from the start of the FAT on in which a number below FAT_EOC has its word.
FatReach == SectorNo(FAT_EOC) + 1

\* What a directory holds; the first character of the name of the last entry is "0".
Entries == [name : Seq(STRING), lfn : BOOLEAN, directory : BOOLEAN, cluster : Nat]

ASSUME SizesAssumption ==
  /\ FAT_EOC \in Nat /\ FAT_EOC >= 2 /\ FAT_ENTRIES \in Nat \ {0}
  /\ LbaMod \in Nat \ {0, 1} /\ MaxLoaded \in Nat \ {0}

\* Any disk and any header: fat_dev_init checks nothing.  The bounds are the widths of
\* the fields (reserved_sectors is a uint16_t, so that the numbers of FAT sectors do
\* not wrap) and MaxLoaded, which an acyclic chain does not exceed.
ASSUME VolumesAssumption ==
  \A vol \in Volumes :
    /\ vol.sectors \in 0 .. LbaMod - 1 /\ vol.spc \in 0 .. LbaMod - 1
    /\ vol.fat_sectors \in Nat /\ vol.root \in Nat
    /\ vol.reserved \in Nat /\ vol.reserved + FatReach < LbaMod
    /\ Clusters(vol) = 0 .. FAT_ENTRIES * FatReach - 1
    /\ \A c \in Clusters(vol) : vol.next[c] \in Nat
    /\ DOMAIN vol.dirs = 0 .. LbaMod - 1
    /\ \A l \in DOMAIN vol.dirs : vol.dirs[l] \in Seq(Entries)
    /\ FAT_ENTRIES * FatReach * vol.spc <= MaxLoaded

VARIABLES
  pc,
  vol,           \* the disk
  path,          \* fat_path_lookup: what is left of the path
  file,          \* fat_path_lookup: current_entry
  cluster, s,    \* the cluster, and its sector, that a loop is at
  fat_cache,
  loaded,        \* the sectors at KERN_PHYS, KERN_PHYS + 512, ...
  last_read      \* ghost: sectors asked of the disk

vars == <<pc, vol, path, file, cluster, s, fat_cache, loaded, last_read>>

Root == [directory |-> TRUE, cluster |-> vol.root]

Init ==
  /\ pc = "fat_dev_init"
  /\ vol \in Volumes
  /\ path = KERNEL_FILE
  /\ file = Root
  /\ cluster = 0 /\ s = 0
  /\ fat_cache = [valid |-> FALSE, sector_no |-> 0, entry |-> <<>>]
  /\ loaded = <<>>
  /\ last_read = {}

InChain(c) == c >= 2 /\ c < FAT_EOC
Lba(c) == (Data(vol) + (c - 2) * vol.spc) % LbaMod
SectorAt(c, i) == (Lba(c) + i) % LbaMod

\* Mutant: only the first sector is checked.
ReadableFirst(lba, count) == lba <= vol.sectors

\* fat_read_sectors refuses what ends beyond the partition, by a 32-bit sum.
Readable(lba, count) == (lba + count) % LbaMod <= vol.sectors

Asked(lba, count) == {(lba + i) % LbaMod : i \in 0 .. count - 1}

\* fat_read_sectors(lba, count) succeeds.
Reads(lba, count) == Readable(lba, count) /\ last_read' = Asked(lba, count)

\* It fails, before or in disk_read; entry() gives up.
ReadFails(lba, count) ==
  /\ last_read' = IF Readable(lba, count) THEN Asked(lba, count) ELSE last_read
  /\ pc' = "halted"

fat_dev_init ==
  /\ pc = "fat_dev_init"
  /\ \/ Reads(0, 1) /\ pc' = "path_lookup"
     \/ ReadFails(0, 1)
  /\ UNCHANGED <<vol, path, file, cluster, s, fat_cache, loaded>>

(***************************************************************************)
(* Names.                                                                  *)
(***************************************************************************)

Capitals == [b |-> "B", e |-> "E", i |-> "I", k |-> "K", l |-> "L", m |-> "M",
             n |-> "N", r |-> "R", s |-> "S", t |-> "T", y |-> "Y"]
toupper(ch) == IF ch \in DOMAIN Capitals THEN Capitals[ch] ELSE ch

IsSlash(ch) == ch = "/"
Slashes(name) == {i \in DOMAIN name : IsSlash(name[i])}
Blanks(n) == [i \in 1 .. n |-> " "]

\* What precedes the first slash; what follows it.
Until(name) ==
  IF Slashes(name) = {} THEN name ELSE SubSeq(name, 1, Min(Slashes(name)) - 1)
AfterSlash(name) ==
  IF Slashes(name) = {} THEN <<>> ELSE SubSeq(name, Min(Slashes(name)) + 1, Len(name))

\* fat_short_name_to_name_ext, character by character.  A full stop pads the name,
\* or goes back to its end.
fat_short_name_to_name_ext(short_name) ==
  LET name == Until(IF IsSlash(short_name[1]) THEN Tail(short_name) ELSE short_name)
      Put(str, ch) ==
        IF Len(str) >= NAME_EXT_LEN THEN str
        ELSE IF ch = "." THEN SubSeq(str \o Blanks(NAME_LEN), 1, NAME_LEN)
        ELSE Append(str, toupper(ch))
      out[i \in 0 .. Len(name)] == IF i = 0 THEN <<>> ELSE Put(out[i - 1], name[i])
  IN  SubSeq(out[Len(name)] \o Blanks(NAME_EXT_LEN), 1, NAME_EXT_LEN)

\* KERNEL_FILE has two components.
ASSUME PathAssumption ==
  /\ KERNEL_FILE # <<>> /\ AfterSlash(KERNEL_FILE) # <<>>
  /\ AfterSlash(AfterSlash(KERNEL_FILE)) = <<>>
  /\ Components[1] = fat_short_name_to_name_ext(KERNEL_FILE)
  /\ Components[2] = fat_short_name_to_name_ext(AfterSlash(KERNEL_FILE))

(***************************************************************************)
(* Clusters.                                                               *)
(***************************************************************************)

\* Mutant: whatever sector is cached will do.
StaleIfInvalid(c) == ~fat_cache.valid

\* fat_cache_is_stale; there is one device.
fat_cache_is_stale(c) == ~fat_cache.valid \/ fat_cache.sector_no # SectorNo(c)

\* Mutant: the entries are taken to start at cluster 1.
FatSectorOff(n) ==
  [i \in 0 .. FAT_ENTRIES - 1 |-> vol.next[IF n + i = 0 THEN 0 ELSE n * FAT_ENTRIES + i - 1]]

\* The entries in sector n of the FAT.
FatSector(n) == [i \in 0 .. FAT_ENTRIES - 1 |-> vol.next[n * FAT_ENTRIES + i]]

\* fat_get_next_cluster(cluster), then on to the given step.  A fetch that fails
\* may leave anything in the cached sector, under its old number.
fat_get_next_cluster(step) ==
  LET n == SectorNo(cluster)
      lba == vol.reserved + n
  IN  /\ IF fat_cache_is_stale(cluster)
         THEN \/ /\ Reads(lba, 1)
                 /\ fat_cache' = [valid |-> TRUE, sector_no |-> n, entry |-> FatSector(n)]
                 /\ cluster' = FatSector(n)[cluster % FAT_ENTRIES]
                 /\ pc' = step
              \/ /\ ReadFails(lba, 1)
                 /\ fat_cache' = [fat_cache EXCEPT !.entry = <<>>]
                 /\ UNCHANGED cluster
         ELSE /\ cluster' = fat_cache.entry[cluster % FAT_ENTRIES]
              /\ pc' = step
              /\ UNCHANGED <<fat_cache, last_read>>
      /\ s' = 0
      /\ UNCHANGED <<vol, path, file, loaded>>

Fail(pc0) ==
  /\ pc = pc0 /\ pc' = "halted"
  /\ UNCHANGED <<vol, path, file, cluster, s, fat_cache, loaded, last_read>>

(***************************************************************************)
(* fat_path_lookup and fat_file_lookup.                                    *)
(***************************************************************************)

\* The head of fat_path_lookup's loop.
path_lookup ==
  /\ pc = "path_lookup" /\ (path = <<>> \/ file.directory)
  /\ pc' = IF path = <<>> THEN "read" ELSE "scan"
  /\ cluster' = file.cluster /\ s' = 0
  /\ UNCHANGED <<vol, path, file, fat_cache, loaded, last_read>>

not_a_directory == path # <<>> /\ ~file.directory /\ Fail("path_lookup")

\* The entries of a sector at which the search stops: a match, or the last.
IsLast(e) == e.name[1] = "0"
Stops(entries, target) ==
  {i \in DOMAIN entries : IsLast(entries[i]) \/ (~entries[i].lfn /\ entries[i].name = target)}

\* One sector of a directory.
scan ==
  /\ pc = "scan" /\ InChain(cluster) /\ s < vol.spc
  /\ \E target \in {fat_short_name_to_name_ext(path)} :
       LET entries == vol.dirs[SectorAt(cluster, s)]
           stops == Stops(entries, target)
           e == entries[Min(stops)]
           found == stops # {} /\ ~IsLast(e)
       IN  \/ /\ Reads(SectorAt(cluster, s), 1)
              /\ pc' = IF found THEN "path_lookup"
                       ELSE IF stops # {} THEN "halted" ELSE "scan"
              /\ file' = IF found THEN [directory |-> e.directory, cluster |-> e.cluster]
                         ELSE file
              /\ path' = IF found THEN AfterSlash(path) ELSE path
              /\ s' = s + 1
           \/ ReadFails(SectorAt(cluster, s), 1) /\ UNCHANGED <<file, path, s>>
  /\ UNCHANGED <<vol, cluster, fat_cache, loaded>>

not_found == ~InChain(cluster) /\ Fail("scan")

dir_next ==
  pc = "scan" /\ InChain(cluster) /\ s >= vol.spc /\ fat_get_next_cluster("scan")

(***************************************************************************)
(* fat_read's loop; then entry() goes on to the kernel.                    *)
(***************************************************************************)

Sectors(c) == [i \in 1 .. vol.spc |-> SectorAt(c, i - 1)]

read ==
  /\ pc = "read" /\ InChain(cluster)
  /\ \/ /\ Reads(Lba(cluster), vol.spc)
        /\ loaded' = IF Len(loaded) < MaxLoaded THEN loaded \o Sectors(cluster) ELSE loaded
        /\ pc' = "next"
     \/ ReadFails(Lba(cluster), vol.spc) /\ UNCHANGED loaded
  /\ UNCHANGED <<vol, path, file, cluster, s, fat_cache>>

next == pc = "next" /\ fat_get_next_cluster("read")

kernel64_entry ==
  /\ pc = "read" /\ ~InChain(cluster)
  /\ pc' = "kernel"
  /\ UNCHANGED <<vol, path, file, cluster, s, fat_cache, loaded, last_read>>

Ended == pc \in {"kernel", "halted"} /\ UNCHANGED vars

Next ==
  \/ fat_dev_init \/ path_lookup \/ not_a_directory \/ scan \/ not_found \/ dir_next
  \/ read \/ next \/ kernel64_entry \/ Ended

Spec == Init /\ [][Next]_vars

\* The loader is the only thread, and disk_read returns.
FairSpec == Spec /\ WF_vars(Next)

(***************************************************************************)
(* Properties.                                                             *)
(***************************************************************************)

\* The values met from c on in the FAT, up to one that is not in a chain (or, in a
\* cycle, as many as there are clusters).
Walk(c) ==
  LET n == Cardinality(Clusters(vol))
      leads(x) == InChain(x) /\ x \in Clusters(vol)
      after == [x \in {c} \cup Range(vol.next) |-> IF leads(x) THEN vol.next[x] ELSE x]
      at[k \in 0 .. n] == IF k = 0 THEN c ELSE after[at[k - 1]]
      length == Min({k \in 0 .. n : ~leads(at[k])} \cup {n})
  IN  [k \in 1 .. length + 1 |-> at[k - 1]]

AllEntries == UNION {Range(vol.dirs[l]) : l \in DOMAIN vol.dirs}

\* The clusters of the chain that starts at c.
Chain(c) == SubSeq(Walk(c), 1, Len(Walk(c)) - 1)

\* No chain is cyclic that the root directory or the entry of a directory begins.
Acyclic ==
  \A c \in {vol.root} \cup {e.cluster : e \in AllEntries} :
    LET end == Walk(c)[Len(Walk(c))] IN ~InChain(end) \/ end \notin Clusters(vol)

\* The sectors are those of the chain that starts at c, cluster by cluster.
HoldsChain(sectors, c) ==
  LET w == Chain(c)
  IN  /\ Len(sectors) = Len(w) * vol.spc
      /\ \A k \in 1 .. Len(w), i \in 1 .. vol.spc :
           sectors[(k - 1) * vol.spc + i] = SectorAt(w[k], i - 1)

\* What the directory at cluster c says about the name: e is its first entry with
\* that name, and none before e ends the directory.
Names(c, name, e) ==
  LET w == Chain(c)
      at(k, t) == vol.dirs[SectorAt(w[k], t)]
      other(x) == ~IsLast(x) /\ (x.lfn \/ x.name # name)
      none(entries) == \A i \in DOMAIN entries : other(entries[i])
  IN  \E k \in 1 .. Len(w), t \in 0 .. vol.spc - 1 :
        /\ \E i \in DOMAIN at(k, t) :
             /\ e = at(k, t)[i] /\ ~IsLast(e) /\ ~e.lfn /\ e.name = name
             /\ \A j \in 1 .. i - 1 : other(at(k, t)[j])
        /\ \A u \in 0 .. t - 1 : none(at(k, u))
        /\ \A h \in 1 .. k - 1, u \in 0 .. vol.spc - 1 : none(at(h, u))

\* The kernel runs only when KERNEL_FILE exists and exactly the sectors of its
\* cluster chain are in memory, in their order: through every mix of cached and
\* fetched FAT sectors, of deleted, long-name and other entries, and of failures.
\* (Where the sectors of a cluster are is what the 32-bit arithmetic makes of it,
\* which differs from its place on the disk only if that is beyond 2^32.)
LoadedIsFile ==
  pc = "kernel" =>
    \E e1, e2 \in AllEntries :
      /\ Names(vol.root, Components[1], e1) /\ e1.directory
      /\ Names(e1.cluster, Components[2], e2)
      /\ HoldsChain(loaded, e2.cluster)

\* With this header no number that InChain accepts has sectors beyond 2^32 (as with
\* up to 8 sectors per cluster and the data in the first half of that).
Fits(volume) ==
  volume.reserved + volume.fat_sectors + FAT_EOC * volume.spc < LbaMod

\* The disk is never asked for a sector behind the partition, whatever the header,
\* the FAT and the directories say.  fat_read_sectors' sum may wrap: then a read
\* begins before the partition, by at most a cluster, but not on a volume that
\* Fits, where every sector asked for is in the partition.
ReadsInPartition ==
  /\ \A l \in last_read : l < vol.sectors \/ l >= LbaMod - vol.spc
  /\ Fits(vol) => last_read \subseteq 0 .. vol.sectors - 1

\* Unless a chain is cyclic, the loader gets to the kernel or gives up.
BootEnds == Acyclic => <>(pc \in {"kernel", "halted"})
=============================================================================
