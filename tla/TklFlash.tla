------------------------------ MODULE TklFlash ------------------------------
(***************************************************************************)
(* The flash emulation (tkl_flash.c): one file, opened and if need be      *)
(* filled by tkl_flash_get_one_type_info, read and written by seeking and  *)
(* then transferring, and nothing locked; tkl_flash_erase does nothing.    *)
(* A step is one call into stdio or the kernel.  Data waits in the stdio   *)
(* buffer until a flush or a seek, then in the page cache until fsync; a   *)
(* crash loses what is not on disk, or a part of it.                       *)
(*                                                                         *)
(* The unit is a page (PARTITION_SIZE); a page holds one value, marked     *)
(* with the partition it was written for.                                  *)
(***************************************************************************)
EXTENDS Integers, Sequences

CONSTANTS
    Callers,       \* threads
    Types,         \* caller -> the partitions it uses
    KV_PAGES, UF_PAGES, RCD_PAGES, FILE_PAGES,
    MaxWrites,     \* bound: writes started
    MaxCrashes     \* bound: crashes

AllTypes == {"KV_KEY", "KV_DATA", "UF", "RCD"}

(* The table of partitions fits the file. *)
ASSUME FlashAssumption ==
    /\ Types \in [Callers -> SUBSET AllTypes]
    /\ KV_PAGES \in Nat /\ UF_PAGES \in Nat /\ RCD_PAGES \in Nat
    /\ FILE_PAGES \in Nat /\ 1 + KV_PAGES + UF_PAGES + RCD_PAGES <= FILE_PAGES

VARIABLES
    s_flash_file,  \* the file is open
    pos,           \* its position
    buf,           \* stdio buffer: <<>> or one <<page, value>>
    cache, disk,   \* external: the file in the page cache and on disk
    pc,            \* caller -> where it is, page and value it works on
    writes, crashes,
    acked,         \* history: page -> last value whose write returned OPRT_OK
    begun,         \* history: page -> values of writes begun and not returned
    cut            \* history: a crash has hit the first fill of the file

flashvars == <<s_flash_file, pos, buf, cache, disk, pc, writes, crashes, acked, begun, cut>>
history == <<writes, crashes, acked, begun, cut>>

FF == <<"0xff", 0>>
Hole == <<"zero", 0>>
Pages == 0..(FILE_PAGES - 1)
Idle == [at |-> "idle", page |-> 0, val |-> FF]
NoFile == [exists |-> FALSE, data |-> <<>>]

(* The table of tkl_flash_get_one_type_info, in pages.                     *)
Partition(type) ==
    CASE type = "KV_KEY" -> [start |-> 0, size |-> 1]
      [] type = "KV_DATA" -> [start |-> 1, size |-> KV_PAGES]
      [] type = "UF" -> [start |-> 1 + KV_PAGES, size |-> UF_PAGES]
      [] type = "RCD" -> [start |-> 1 + KV_PAGES + UF_PAGES, size |-> RCD_PAGES]

PagesOf(type) ==
    Partition(type).start .. (Partition(type).start + Partition(type).size - 1)

FlashInit ==
    /\ s_flash_file = FALSE /\ pos = 0 /\ buf = <<>>
    /\ cache = NoFile /\ disk = NoFile
    /\ pc = [c \in Callers |-> Idle]
    /\ writes = 0 /\ crashes = 0
    /\ acked = [p \in Pages |-> FF] /\ begun = [p \in Pages |-> {}] /\ cut = FALSE

(* Writing past the end leaves a hole, which reads as zero bytes.          *)
Put(file, page, val) ==
    LET old == file.data
        len == IF page < Len(old) THEN Len(old) ELSE page + 1
    IN [exists |-> TRUE,
        data |-> [i \in 1..len |-> IF i = page + 1 THEN val
                                   ELSE IF i <= Len(old) THEN old[i] ELSE Hole]]

Flushed == IF buf = <<>> THEN cache ELSE Put(cache, buf[1], buf[2])

Goes(c, at) == pc' = [pc EXCEPT ![c].at = at]

-----------------------------------------------------------------------------
(* tkl_flash_get_one_type_info.                                            *)
LooksForFile(c) ==
    /\ pc[c].at = "idle" /\ ~s_flash_file
    /\ Goes(c, IF cache.exists THEN "open" ELSE "create")
    /\ UNCHANGED <<s_flash_file, pos, buf, cache, disk, history>>

OpensFile(c) ==
    /\ pc[c].at = "open"
    /\ s_flash_file' = TRUE /\ pos' = 0 /\ buf' = <<>>
    /\ Goes(c, "idle")
    /\ UNCHANGED <<cache, disk, history>>

(* "wb+" empties the file if another caller has created it meanwhile.      *)
CreatesFile(c) ==
    /\ pc[c].at = "create"
    /\ s_flash_file' = TRUE /\ pos' = 0 /\ buf' = <<>>
    /\ cache' = [exists |-> TRUE, data |-> <<>>]
    /\ pc' = [pc EXCEPT ![c] = [at |-> "fill", page |-> 0, val |-> FF]]
    /\ UNCHANGED <<disk, history>>

(* __flash_file_init writes page after page wherever the position is, then *)
(* flushes and syncs.                                                      *)
flash_file_init(c) ==
    /\ pc[c].at = "fill"
    /\ IF pc[c].page < FILE_PAGES
       THEN /\ cache' = Put(Flushed, pos, FF)
            /\ buf' = <<>> /\ pos' = pos + 1
            /\ pc' = [pc EXCEPT ![c].page = @ + 1]
            /\ UNCHANGED disk
       ELSE /\ cache' = Flushed /\ disk' = cache' /\ buf' = <<>>
            /\ pc' = [pc EXCEPT ![c] = Idle]
            /\ UNCHANGED pos
    /\ UNCHANGED <<s_flash_file, history>>

-----------------------------------------------------------------------------
(* fseek empties the stdio buffer and sets the position.                   *)
Seek(page) ==
    /\ s_flash_file
    /\ cache' = Flushed /\ buf' = <<>> /\ pos' = page
    /\ UNCHANGED <<s_flash_file, disk, crashes, cut>>

ReadSeek(c, page) ==
    /\ pc[c].at = "idle" /\ Seek(page)
    /\ pc' = [pc EXCEPT ![c] = [at |-> "fread", page |-> page, val |-> FF]]
    /\ UNCHANGED <<writes, acked, begun>>

(* fread, which stops short at the end of the file.                        *)
tkl_flash_read(c) ==
    /\ pc[c].at = "fread"
    /\ pos' = IF pos < Len(Flushed.data) THEN pos + 1 ELSE pos
    /\ pc' = [pc EXCEPT ![c] = Idle]
    /\ UNCHANGED <<s_flash_file, buf, cache, disk, history>>

WriteSeek(c, type, page) ==
    /\ pc[c].at = "idle" /\ writes < MaxWrites /\ Seek(page)
    /\ writes' = writes + 1
    /\ pc' = [pc EXCEPT ![c] = [at |-> "fwrite", page |-> page, val |-> <<type, writes'>>]]
    /\ begun' = [begun EXCEPT ![page] = @ \cup {<<type, writes'>>}]
    /\ UNCHANGED acked

WriteData(c) ==
    /\ pc[c].at = "fwrite"
    /\ cache' = Flushed /\ buf' = <<pos, pc[c].val>> /\ pos' = pos + 1
    /\ Goes(c, "fflush")
    /\ UNCHANGED <<s_flash_file, disk, history>>

WriteFlush(c) ==
    /\ pc[c].at = "fflush"
    /\ cache' = Flushed /\ buf' = <<>>
    /\ Goes(c, "fsync")
    /\ UNCHANGED <<s_flash_file, pos, disk, history>>

Returns(c) ==
    /\ acked' = [acked EXCEPT ![pc[c].page] = pc[c].val]
    /\ begun' = [begun EXCEPT ![pc[c].page] = {}]
    /\ pc' = [pc EXCEPT ![c] = Idle]

WriteNoSync(c) ==
    /\ pc[c].at = "fsync"
    /\ Returns(c)
    /\ UNCHANGED <<s_flash_file, pos, buf, cache, disk, writes, crashes, cut>>

(* fsync, after which tkl_flash_write returns OPRT_OK.                     *)
WriteSync(c) ==
    /\ pc[c].at = "fsync"
    /\ disk' = cache
    /\ Returns(c)
    /\ UNCHANGED <<s_flash_file, pos, buf, cache, writes, crashes, cut>>

-----------------------------------------------------------------------------
(* What a crash may leave of the file: of each page the synced or the      *)
(* cached content, and any length in between.                              *)
Left(n, new) ==
    [exists |-> TRUE,
     data |-> [i \in 1..n |-> IF i \in new \/ i > Len(disk.data)
                              THEN cache.data[i] ELSE disk.data[i]]]

FileSurvives ==
    LET both == IF Len(disk.data) < Len(cache.data) THEN Len(disk.data) ELSE Len(cache.data)
        changed == {i \in 1..Len(cache.data) :
                       i <= Len(disk.data) => disk.data[i] # cache.data[i]}
    IN  /\ \/ disk' = disk
           \/ /\ cache.exists
              /\ \E n \in both..Len(cache.data) : \E new \in SUBSET changed :
                    disk' = Left(n, new)
        /\ cache' = disk'

FlashCrash ==
    /\ crashes < MaxCrashes
    /\ crashes' = crashes + 1
    /\ cut' = (cut \/ \E c \in Callers : pc[c].at = "fill")
    /\ FileSurvives
    /\ s_flash_file' = FALSE /\ pos' = 0 /\ buf' = <<>>
    /\ pc' = [c \in Callers |-> Idle]
    /\ UNCHANGED <<writes, acked, begun>>

FlashNext ==
    \/ FlashCrash
    \/ \E c \in Callers :
          \/ LooksForFile(c) \/ OpensFile(c) \/ CreatesFile(c) \/ flash_file_init(c)
          \/ tkl_flash_read(c) \/ WriteData(c) \/ WriteFlush(c) \/ WriteSync(c)
          \/ \E type \in Types[c] : \E page \in PagesOf(type) :
                \/ ReadSeek(c, page) \/ WriteSeek(c, type, page)

FlashSpec == FlashInit /\ [][FlashNext]_flashvars

-----------------------------------------------------------------------------
(* The file holds pages only, and data waits in the stdio buffer only      *)
(* between an fwrite and the flush that follows it.                        *)
FlashTypeOK ==
    /\ pos \in 0..FILE_PAGES
    /\ Len(cache.data) <= FILE_PAGES /\ Len(disk.data) <= FILE_PAGES
    /\ buf # <<>> => \E c \in Callers : pc[c].at = "fflush"

Settled == s_flash_file /\ \A c \in Callers : pc[c].at \in {"idle", "fread"}

Content(page) == IF page < Len(cache.data) THEN cache.data[page + 1] ELSE Hole

(* A write that returned OPRT_OK is what the page holds until the next     *)
(* write to it is begun, whatever crashes and reopenings lie between; a    *)
(* write that was cut off is there as a whole or not at all.               *)
PagesKept ==
    Settled => \A p \in Pages :
        Content(p) \in {acked[p], Hole} \cup begun[p]
        /\ (acked[p] # FF => Content(p) # Hole)

(* What is stored in a page was written through its own partition: the     *)
(* partitions of the table do not overlap.                                 *)
PartitionsSeparate ==
    Settled => \A type \in AllTypes : \A p \in PagesOf(type) :
        Content(p) \in {FF, Hole} \/ Content(p)[1] = type

(* "The description of the flash": once the file is open, every page of    *)
(* every partition the table describes exists and can be read, unless a    *)
(* crash has hit the first fill.                                           *)
PartitionsReadable ==
    Settled /\ ~cut => \A type \in AllTypes : \A p \in PagesOf(type) : p < Len(cache.data)

(* A write acknowledged by tkl_flash_write survives crashes and no write   *)
(* to another partition touches it.  Unless a crash hit the first fill,    *)
(* every page of every partition can be read.                              *)
AckedKept == FlashTypeOK /\ PagesKept /\ PartitionsSeparate /\ PartitionsReadable
=============================================================================
