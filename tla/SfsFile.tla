------------------------------ MODULE SfsFile ------------------------------
(***************************************************************************)
(* The blocks of the files of the simple file system: block allocation,    *)
(* the map from file blocks to disk blocks with its indirect block, writes *)
(* and truncation (kern/fs/sfs/sfs_inode.c, sfs_io.c, bitmap.c).           *)
(*                                                                         *)
(* din[f] is the struct sfs_disk_inode of file f; bytes[b] and ents[b] are *)
(* what block b contains when it is read as data or as an indirect block.  *)
(* A call holds sin->sem; op[f] is the call that holds it for file f.  A   *)
(* step of a call handles one block, and calls for different files may     *)
(* interleave between the steps, where they use the disk (the RAM disk     *)
(* answers at once, but callers must not rely on that).                    *)
(*                                                                         *)
(* The callers of vop_truncate are vfs_open, with length 0, and            *)
(* sfs_tryseek, which only enlarges.  Disk operations do not fail, but     *)
(* the disk fills up.                                                      *)
(***************************************************************************)
EXTENDS Integers, FiniteSets, FiniteSetsExt, Sequences

CONSTANTS
    Files,
    NBlocks,        \* the disk blocks for data: 1 .. NBlocks
    NDIRECT,        \* SFS_NDIRECT
    NENTRY,         \* SFS_BLK_NENTRY
    BLKSIZE,        \* SFS_BLKSIZE
    MaxSize,        \* SFS_MAX_FILE_SIZE
    Lens            \* bound: the lengths of the writes

ASSUME SfsFileAssumption ==
    /\ Files \subseteq Nat \ {0} /\ IsFiniteSet(Files)
    /\ NDIRECT \in Nat \ {0} /\ NENTRY \in Nat \ {0} /\ BLKSIZE \in Nat \ {0} /\ MaxSize \in Nat
    /\ Lens \subseteq Nat \ {0}
    /\ NBlocks \in 0 .. NDIRECT + NENTRY      \* no file can outgrow its block map

VARIABLES
    din, bytes, ents,
    freemap,        \* the free blocks
    unused_blocks,  \* of the superblock
    op,
    panicked,
    contents,       \* history: what every file should contain
    high,           \* history: the largest size of every file so far
    strained        \* history: the files a full disk has left with blocks that do not match the size

vars == <<din, bytes, ents, freemap, unused_blocks, op, panicked, contents, high, strained>>

Blocks == 1 .. NBlocks

Idle == [call |-> "none", start |-> 0, pos |-> 0, end |-> 0]

ZeroBytes == [o \in 0 .. BLKSIZE - 1 |-> 0]
ZeroEnts == [e \in 0 .. NENTRY - 1 |-> 0]

Init ==
    /\ din = [f \in Files |-> [size |-> 0, blocks |-> 0, indirect |-> 0,
                               direct |-> [i \in 0 .. NDIRECT - 1 |-> 0]]]
    /\ bytes = [b \in Blocks |-> ZeroBytes] /\ ents = [b \in Blocks |-> ZeroEnts]
    /\ freemap = Blocks /\ unused_blocks = NBlocks
    /\ op = [f \in Files |-> Idle]
    /\ panicked = FALSE
    /\ contents = [f \in Files |-> <<>>] /\ high = [f \in Files |-> 0] /\ strained = {}

ROUNDUP_DIV(n, m) == (n + m - 1) \div m

---------------------------------------------------------------------------
(* A file system [din, bytes, ents, freemap, unused_blocks]; the operators
   below map such records. *)
Fs == [din |-> din, bytes |-> bytes, ents |-> ents, freemap |-> freemap, unused_blocks |-> unused_blocks]

SetFs(s) ==
    /\ din' = s.din /\ bytes' = s.bytes /\ ents' = s.ents
    /\ freemap' = s.freemap /\ unused_blocks' = s.unused_blocks

(* bitmap_alloc: the first block whose bit is set. *)
FirstFree(s) == Min(s.freemap)

(* Mutant: a block that has been used before keeps its contents. *)
sfs_block_alloc_dirty(s) ==
    [s EXCEPT !.freemap = @ \ {FirstFree(s)}, !.unused_blocks = @ - 1,
              !.ents[FirstFree(s)] = ZeroEnts]

(* sfs_block_alloc: the first free block, cleared. *)
sfs_block_alloc(s) ==
    [s EXCEPT !.freemap = @ \ {FirstFree(s)}, !.unused_blocks = @ - 1,
              !.bytes = [s.bytes EXCEPT ![FirstFree(s)] = ZeroBytes],
              !.ents = [s.ents EXCEPT ![FirstFree(s)] = ZeroEnts]]

sfs_block_free(s, b) == [s EXCEPT !.freemap = @ \cup {b}, !.unused_blocks = @ + 1]

(* The block of file f with number index, 0 if there is none. *)
BlockOf(s, f, index) ==
    IF index < NDIRECT THEN s.din[f].direct[index]
    ELSE IF s.din[f].indirect = 0 THEN 0
    ELSE s.ents[s.din[f].indirect][index - NDIRECT]

(* How many blocks must be allocated to create the block with number index. *)
Needed(s, f, index) == IF index >= NDIRECT /\ s.din[f].indirect = 0 THEN 2 ELSE 1

SetInode(s, f, inode) == [s EXCEPT !.din = [s.din EXCEPT ![f] = inode]]

(* Entry e of the indirect block b. *)
SetEnt(s, b, e, block) == [s EXCEPT !.ents = [s.ents EXCEPT ![b] = [s.ents[b] EXCEPT ![e] = block]]]

(* The data of block b. *)
SetBytes(s, b, data) == [s EXCEPT !.bytes = [s.bytes EXCEPT ![b] = data]]

SetDirect(s, f, index, block) ==
    SetInode(s, f, [s.din[f] EXCEPT !.direct = [s.din[f].direct EXCEPT ![index] = block]])

SetIndirect(s, f, block) == SetInode(s, f, [s.din[f] EXCEPT !.indirect = block])

(* Mutant: the indirect block is not entered in the inode. *)
sfs_bmap_create_drops_indirect(s, f, index) ==
    LET s1 == sfs_block_alloc(s)
        s2 == sfs_block_alloc(s1)
    IN  IF index < NDIRECT THEN SetDirect(s1, f, index, FirstFree(s))
        ELSE IF s.din[f].indirect # 0
        THEN SetEnt(s1, s.din[f].indirect, index - NDIRECT, FirstFree(s))
        ELSE SetEnt(s2, FirstFree(s), index - NDIRECT, FirstFree(s1))

(* sfs_bmap_get_nolock and sfs_bmap_get_sub_nolock with create, when there
   are enough free blocks. *)
sfs_bmap_create(s, f, index) ==
    LET s1 == sfs_block_alloc(s)
        s2 == sfs_block_alloc(s1)
    IN  IF index < NDIRECT THEN SetDirect(s1, f, index, FirstFree(s))
        ELSE IF s.din[f].indirect # 0
        THEN SetEnt(s1, s.din[f].indirect, index - NDIRECT, FirstFree(s))
        ELSE SetEnt(SetIndirect(s2, f, FirstFree(s)), FirstFree(s), index - NDIRECT, FirstFree(s1))

(* sfs_bmap_load_nolock: the block after the last one is created. *)
Creates(s, f, index) == index = s.din[f].blocks
Fits(s, f, index) == Creates(s, f, index) => Cardinality(s.freemap) >= Needed(s, f, index)

SetBlocks(s, f, n) == SetInode(s, f, [s.din[f] EXCEPT !.blocks = n])

sfs_bmap_load(s, f, index) ==
    IF Creates(s, f, index) THEN SetBlocks(sfs_bmap_create(s, f, index), f, index + 1) ELSE s

(* sfs_bmap_truncate_nolock, sfs_bmap_free_nolock and
   sfs_bmap_free_sub_nolock. *)
sfs_bmap_truncate(s, f) ==
    LET index == s.din[f].blocks - 1
        freed == IF BlockOf(s, f, index) = 0 THEN s ELSE sfs_block_free(s, BlockOf(s, f, index))
        cleared == IF index < NDIRECT THEN SetDirect(freed, f, index, 0)
                   ELSE IF s.din[f].indirect = 0 THEN freed
                   ELSE SetEnt(freed, s.din[f].indirect, index - NDIRECT, 0)
    IN  SetBlocks(cleared, f, index)

---------------------------------------------------------------------------
(* The data a process writes to f: different for every file. *)
Byte(f) == f

(* What a file contains after n bytes have been written at pos. *)
Overwrite(c, f, pos, n) ==
    [i \in 1 .. Max({Len(c), pos + n}) |->
        IF i > pos /\ i <= pos + n THEN Byte(f) ELSE IF i <= Len(c) THEN c[i] ELSE 0]

Record(f, c) ==
    /\ contents' = [contents EXCEPT ![f] = c]
    /\ high' = [high EXCEPT ![f] = Max({@, Len(c)})]

(* sfs_io and the beginning of sfs_io_nolock: pos is the offset in a struct
   file, which another open may have truncated since. *)
sfs_write(f, pos, len) ==
    /\ op[f] = Idle /\ ~panicked
    /\ pos <= high[f] /\ pos < MaxSize
    /\ op' = [op EXCEPT ![f] = [call |-> "write", start |-> pos, pos |-> pos,
                                end |-> Min({pos + len, MaxSize})]]
    /\ UNCHANGED <<din, bytes, ents, freemap, unused_blocks, panicked, contents, high, strained>>

SetSize(s, f, size) == SetInode(s, f, [s.din[f] EXCEPT !.size = size])

(* The end of sfs_io_nolock, when the data up to pos have been written. *)
SizeAfter(f, pos) == Max({din[f].size, pos})

(* The data of block number index of f, when those of the write that go to
   the positions pos .. next - 1 have been put there. *)
Patched(f, data, index, pos, next) ==
    [o \in 0 .. BLKSIZE - 1 |-> IF index * BLKSIZE + o \in pos .. next - 1 THEN Byte(f) ELSE data[o]]

(* One round of sfs_io_nolock: the part of the data that lies in one block,
   at first, in the middle or at the end. *)
sfs_write_block(f) ==
    LET pos == op[f].pos
        index == pos \div BLKSIZE
        next == Min({op[f].end, (index + 1) * BLKSIZE})
        s == sfs_bmap_load(Fs, f, index)
        b == BlockOf(s, f, index)
    IN  /\ op[f].call = "write" /\ ~panicked
        /\ index <= din[f].blocks /\ Fits(Fs, f, index)
        /\ LET written == SetBytes(s, b, Patched(f, s.bytes[b], index, pos, next))
           IN  IF next = op[f].end
               THEN /\ SetFs(SetSize(written, f, SizeAfter(f, next)))
                    /\ op' = [op EXCEPT ![f] = Idle]
                    /\ Record(f, Overwrite(contents[f], f, op[f].start, next - op[f].start))
               ELSE /\ SetFs(written)
                    /\ op' = [op EXCEPT ![f].pos = next]
                    /\ UNCHANGED <<contents, high>>
        /\ UNCHANGED <<panicked, strained>>

(* Mutant: the error return skips the update of the size. *)
sfs_write_full_keeps_size(f) ==
    LET pos == op[f].pos
        written == Overwrite(contents[f], f, op[f].start, pos - op[f].start)
    IN  /\ op[f].call = "write" /\ ~panicked
        /\ pos \div BLKSIZE <= din[f].blocks /\ ~Fits(Fs, f, pos \div BLKSIZE)
        /\ op' = [op EXCEPT ![f] = Idle]
        /\ Record(f, SubSeq(written, 1, din[f].size))
        /\ UNCHANGED <<din, bytes, ents, freemap, unused_blocks, panicked, strained>>

(* The disk is full: the write ends early.  If nothing could be written
   behind the end of the file, its size still becomes the offset. *)
sfs_write_full(f) ==
    LET pos == op[f].pos
    IN  /\ op[f].call = "write" /\ ~panicked
        /\ pos \div BLKSIZE <= din[f].blocks /\ ~Fits(Fs, f, pos \div BLKSIZE)
        /\ SetFs(SetSize(Fs, f, SizeAfter(f, pos)))
        /\ op' = [op EXCEPT ![f] = Idle]
        /\ Record(f, Overwrite(contents[f], f, op[f].start, pos - op[f].start))
        /\ strained' = IF pos = op[f].start /\ pos > din[f].size THEN strained \cup {f} ELSE strained
        /\ UNCHANGED panicked

(* The assert of sfs_bmap_load_nolock: the block does not follow the last. *)
sfs_write_panics(f) ==
    /\ op[f].call = "write" /\ ~panicked
    /\ op[f].pos \div BLKSIZE > din[f].blocks
    /\ panicked' = TRUE
    /\ UNCHANGED <<din, bytes, ents, freemap, unused_blocks, op, contents, high, strained>>

(* sfs_read changes nothing, unless the block it wants is missing: the call
   of sfs_bmap_load_nolock then creates it. *)
sfs_read(f) ==
    /\ op[f] = Idle /\ ~panicked
    /\ din[f].blocks * BLKSIZE < din[f].size /\ Fits(Fs, f, din[f].blocks)
    /\ SetFs(sfs_bmap_load(Fs, f, din[f].blocks))
    /\ UNCHANGED <<op, panicked, contents, high, strained>>

---------------------------------------------------------------------------
Grows(f, len) == din[f].blocks < ROUNDUP_DIV(len, BLKSIZE)

(* sfs_tryseek and sfs_truncfile, whose callers are vfs_open (len = 0) and
   sfs_tryseek (len > size).  Their first tests are made without sin->sem;
   nothing comes between the tests and the lock as long as no other call
   for the file is under way. *)
sfs_truncfile(f, len) ==
    /\ op[f] = Idle /\ ~panicked
    /\ len = 0 \/ (len > din[f].size /\ len < MaxSize)
    /\ \/ /\ din[f].size = len
          /\ panicked' = (ROUNDUP_DIV(len, BLKSIZE) # din[f].blocks)
          /\ UNCHANGED op
       \/ /\ din[f].size # len
          /\ op' = [op EXCEPT ![f] = [call |-> "truncate", start |-> 0, pos |-> 0, end |-> len]]
          /\ UNCHANGED panicked
    /\ UNCHANGED <<din, bytes, ents, freemap, unused_blocks, contents, high, strained>>

(* One round of its loops. *)
sfs_truncfile_block(f) ==
    /\ op[f].call = "truncate" /\ ~panicked
    /\ \/ Grows(f, op[f].end) /\ Fits(Fs, f, din[f].blocks) /\ SetFs(sfs_bmap_load(Fs, f, din[f].blocks))
       \/ din[f].blocks > ROUNDUP_DIV(op[f].end, BLKSIZE) /\ SetFs(sfs_bmap_truncate(Fs, f))
    /\ UNCHANGED <<op, panicked, contents, high, strained>>

sfs_truncfile_end(f) ==
    LET len == op[f].end
    IN  /\ op[f].call = "truncate" /\ ~panicked
        /\ din[f].blocks = ROUNDUP_DIV(len, BLKSIZE)
        /\ SetFs(SetSize(Fs, f, len))
        /\ op' = [op EXCEPT ![f] = Idle]
        /\ Record(f, [i \in 1 .. len |-> IF i <= Len(contents[f]) THEN contents[f][i] ELSE 0])
        /\ strained' = strained \ {f}
        /\ UNCHANGED panicked

(* The disk is full: the blocks that were added stay. *)
sfs_truncfile_full(f) ==
    /\ op[f].call = "truncate" /\ ~panicked
    /\ Grows(f, op[f].end) /\ ~Fits(Fs, f, din[f].blocks)
    /\ op' = [op EXCEPT ![f] = Idle]
    /\ strained' = strained \cup {f}
    /\ UNCHANGED <<din, bytes, ents, freemap, unused_blocks, panicked, contents, high>>

---------------------------------------------------------------------------
Next == \E f \in Files :
    \/ \E pos \in 0 .. MaxSize - 1, len \in Lens : sfs_write(f, pos, len)
    \/ sfs_write_block(f) \/ sfs_write_full(f) \/ sfs_write_panics(f) \/ sfs_read(f)
    \/ \E len \in 0 .. MaxSize : sfs_truncfile(f, len)
    \/ sfs_truncfile_block(f) \/ sfs_truncfile_end(f) \/ sfs_truncfile_full(f)

Spec == Init /\ [][Next]_vars

---------------------------------------------------------------------------
(* The places of an inode that name a block: -1 for din->indirect, and the
   block numbers of the file. *)
Places == -1 .. NDIRECT + NENTRY - 1

(* The block that file f names at a place, 0 if none. *)
Refers(s, f, place) == IF place = -1 THEN s.din[f].indirect ELSE BlockOf(s, f, place)

(* The places, of all files, that name block b. *)
References(s, b) == {r \in Files \X Places : Refers(s, r[1], r[2]) = b}

(* However writes, truncations and failures for want of space are mixed, at
   every step every disk block is either free or named in exactly one place
   of one file, the superblock's count is right, and the blocks of a file
   are those with the numbers below din->blocks: no block leaks, is freed
   twice or belongs to two files.  (The type invariant is included.) *)
BlocksOK ==
    /\ freemap \subseteq Blocks
    /\ \A f \in Files :
        /\ din[f].size \in 0 .. MaxSize /\ din[f].blocks \in 0 .. NDIRECT + NENTRY
        /\ \A place \in Places : Refers(Fs, f, place) \in Blocks \cup {0}
        /\ op[f].call \in {"none", "write", "truncate"}
    /\ unused_blocks = Cardinality(freemap)
    /\ \A b \in freemap : References(Fs, b) = {}
    /\ \A b \in Blocks \ freemap : \E r \in Files \X Places : References(Fs, b) = {r}
    /\ \A f \in Files, i \in 0 .. NDIRECT + NENTRY - 1 : (BlockOf(Fs, f, i) # 0) <=> i < din[f].blocks

(* What sfs_read finds at position p: a block that is missing is created,
   and is empty. *)
ByteAt(f, p) ==
    LET b == BlockOf(Fs, f, p \div BLKSIZE)
    IN  IF b = 0 THEN 0 ELSE bytes[b][p % BLKSIZE]

(* A file that no call is at work on reads back what was written to it, and
   zeros where nothing was written, though its blocks have belonged to other
   files before and writes may have ended early on a full disk. *)
ContentsOK ==
    \A f \in Files : op[f] = Idle =>
        /\ din[f].size = Len(contents[f])
        /\ \A p \in 1 .. din[f].size : ByteAt(f, p - 1) = contents[f][p]

(* The assert at the beginning of sfs_truncfile: a file that no call is at
   work on has the blocks its size calls for, unless a seek or a write
   behind its end has failed on a full disk since it was last truncated. *)
SizeMatches ==
    \A f \in Files \ strained : op[f] = Idle => din[f].blocks = ROUNDUP_DIV(din[f].size, BLKSIZE)
============================================================================
