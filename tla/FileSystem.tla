----------------------------- MODULE FileSystem -----------------------------
(***************************************************************************)
(* The in-memory file system of filesystem/filesystem.c: an inode table, a  *)
(* root directory, a block bitmap, the blocks and the counters of the       *)
(* superblock.  Only the command loop calls it, so a call is one action;    *)
(* last records the call and its result.                                   *)
(***************************************************************************)
EXTENDS Least, Sequences, FiniteSets

CONSTANTS
    MAX_FILES,            (* inodes, and entries of the root directory: 256 *)
    BLOCK_COUNT,          (* blocks: 1024                                   *)
    MAX_BLOCKS_PER_FILE,  (* 4                                              *)
    BLOCK_SIZE,           (* bytes of a block: 4096                         *)
    COUNT_MOD,            (* the counters of sb are uint32_t: 2^32          *)
    Names,                (* file names                                     *)
    NoName,               (* the cleared filename of an unused entry        *)
    Bytes,                (* what buffers and blocks hold; 0 initially      *)
    Buffers,              (* the buffers callers pass                       *)
    ReadSizes,            (* the sizes callers pass to read_file            *)
    Permissions           (* the permissions callers pass to chmod_file     *)

(* permissions: the modes of check_permissions the bits grant (0: read,    *)
(* 1: write; no caller asks for 2).                                        *)
Modes == {"read", "write"}

ASSUME FileSystemAssumption ==
    /\ MAX_FILES \in Nat \ {0}
    /\ BLOCK_COUNT \in Nat \ {0}
    /\ MAX_BLOCKS_PER_FILE \in Nat \ {0}
    /\ BLOCK_SIZE \in Nat \ {0}
    /\ COUNT_MOD \in Nat /\ MAX_FILES < COUNT_MOD /\ BLOCK_COUNT < COUNT_MOD
    /\ NoName \notin Names
    /\ 0 \in Bytes
    /\ Buffers \subseteq Seq(Bytes)
    /\ ReadSizes \subseteq Nat
    /\ Permissions \subseteq SUBSET Modes

(* The name of no file is not a file itself.                               *)
ASSUME NoNameAssumption ==
    NoName \notin [name : Names, content : Seq(Bytes), modes : SUBSET Modes]

Slot   == 0 .. MAX_FILES - 1
Block  == 0 .. BLOCK_COUNT - 1
Ptr    == 0 .. MAX_BLOCKS_PER_FILE - 1
Offset == 0 .. BLOCK_SIZE - 1
NONE   == -1

max_size == MAX_BLOCKS_PER_FILE * BLOCK_SIZE

VARIABLES sb, inode_table, root_directory, storage, block_bitmap,
          last            (* the last call: its name, what was asked for,   *)
                          (* what it returned and the bytes it read         *)

vars == <<sb, inode_table, root_directory, storage, block_bitmap, last>>

Min2(a, b) == IF a < b THEN a ELSE b
Max2(a, b) == IF a > b THEN a ELSE b

Result(call, asked, ret) == [call |-> call, asked |-> asked, ret |-> ret, data |-> <<>>]

(* The disk after format_disk.                                             *)
Init ==
    /\ sb = [free_inodes |-> MAX_FILES, free_blocks |-> BLOCK_COUNT]
    /\ inode_table = [i \in Slot |->
          [inode_number |-> 0, size |-> 0, blocks |-> [j \in Ptr |-> NONE],
           permissions |-> {}]]
    /\ root_directory = [i \in Slot |-> [filename |-> NoName, inode_number |-> 0]]
    /\ storage = [b \in Block |-> [o \in Offset |-> 0]]
    /\ block_bitmap = [b \in Block |-> 0]
    /\ last = Result("format", 0, 0)

-----------------------------------------------------------------------------
(* Allocation.                                                             *)

FreeInodes == {i \in Slot : inode_table[i].inode_number = 0}
FreeBlocks == {b \in Block : block_bitmap[b] = 0}
FreeEntries == {i \in Slot : root_directory[i].inode_number = 0}
EmptyPtrs(blocks) == {j \in Ptr : blocks[j] = NONE}

(* The one assignment of blocks allocate_blocks makes: the lowest empty    *)
(* pointers take the lowest free blocks in order, until required pointers  *)
(* are filled or either runs out.                                          *)
Allocations(blocks, required) ==
    LET count == Min2(required, Min2(Cardinality(EmptyPtrs(blocks)),
                                     Cardinality(FreeBlocks)))
        Filled == {D \in SUBSET EmptyPtrs(blocks) :
                      /\ Cardinality(D) = count
                      /\ \A s \in D, t \in EmptyPtrs(blocks) : t < s => t \in D}
    IN  UNION {{nb \in [D -> FreeBlocks] :
                   /\ \A s, t \in D : s < t => nb[s] < nb[t]
                   /\ \A s \in D, b \in FreeBlocks :
                         b < nb[s] => \E t \in D : nb[t] = b} : D \in Filled}

Taken(nb) == {nb[s] : s \in DOMAIN nb}

MarkNothing(nb) == block_bitmap

(* The pointers of an inode, and the bitmap, with the blocks nb added.     *)
WithBlocks(blocks, nb) ==
    [j \in Ptr |-> IF j \in DOMAIN nb THEN nb[j] ELSE blocks[j]]
MarkUsed(nb) == [b \in Block |-> IF b \in Taken(nb) THEN 1 ELSE block_bitmap[b]]

-----------------------------------------------------------------------------
(* Directory lookup and data transfer.                                     *)

Matches(name) ==
    {i \in Slot : /\ root_directory[i].inode_number # 0
                  /\ root_directory[i].filename = name}

(* The entry i the loops over root_directory stop at, and its inode.       *)
Finds(name, i) == IsLeast(i, Matches(name))
InodeOf(i) == root_directory[i].inode_number - 1

CeilBlocks(n) == (n + BLOCK_SIZE - 1) \div BLOCK_SIZE

(* Bytes the copy loops transfer of the want bytes at position from: they  *)
(* stop at the first block pointer that is empty.                          *)
Transferred(blocks, from, want) ==
    LET holes == {b \in Ptr : /\ from < (b + 1) * BLOCK_SIZE
                              /\ b * BLOCK_SIZE < from + want
                              /\ blocks[b] = NONE}
    IN  IF holes = {} THEN want
        ELSE LET b == CHOOSE x \in holes : IsLeast(x, holes)
             IN  Max2(0, b * BLOCK_SIZE - from)

(* Position of byte p of a file: its block pointer and the offset there.   *)
PtrAt(p) == p \div BLOCK_SIZE
OffAt(p) == p % BLOCK_SIZE

CopiedFromStart(blocks, from, buffer, n) ==
    [b \in Block |-> [o \in Offset |->
        LET at == {p \in 0 .. n - 1 : blocks[PtrAt(p)] = b /\ OffAt(p) = o}
        IN  IF at = {} THEN storage[b][o] ELSE buffer[(CHOOSE p \in at : TRUE) + 1]]]

(* The blocks after the first n bytes of buffer are copied to the file     *)
(* positions from, from + 1, ...  Two positions never share a byte of a    *)
(* block: that is BlocksAccounted, below.                                  *)
Copied(blocks, from, buffer, n) ==
    [b \in Block |-> [o \in Offset |->
        LET at == {p \in from .. from + n - 1 :
                      blocks[PtrAt(p)] = b /\ OffAt(p) = o}
        IN  IF at = {} THEN storage[b][o]
            ELSE buffer[(CHOOSE p \in at : TRUE) - from + 1]]]

(* The first n bytes of the file with these block pointers.                *)
Contents(blocks, n) ==
    [p \in 1 .. n |-> storage[blocks[PtrAt(p - 1)]][OffAt(p - 1)]]

-----------------------------------------------------------------------------
(* The calls.  One that fails leaves the disk as it is.                    *)

disk == <<sb, inode_table, root_directory, storage, block_bitmap>>

(* create_file, no inode left.                                             *)
CreateNoInode(name) ==
    /\ FreeInodes = {}
    /\ last' = Result("create", 0, -1)
    /\ UNCHANGED disk

(* create_file, no block left: the inode is given back, its count is not.  *)
CreateNoBlock(name) ==
    /\ FreeInodes # {} /\ FreeBlocks = {}
    /\ sb' = [sb EXCEPT !.free_inodes = (@ - 1) % COUNT_MOD]
    /\ last' = Result("create", 0, -1)
    /\ UNCHANGED <<inode_table, root_directory, storage, block_bitmap>>

(* create_file.  A name may be created twice; with no entry left in the    *)
(* directory the inode and its block would be lost.                        *)
Create(name) ==
    \E i \in FreeInodes, b \in FreeBlocks :
        /\ IsLeast(i, FreeInodes) /\ IsLeast(b, FreeBlocks)
        /\ sb' = [sb EXCEPT !.free_inodes = (@ - 1) % COUNT_MOD,
                            !.free_blocks = (@ - 1) % COUNT_MOD]
        /\ inode_table' = [inode_table EXCEPT ![i] =
              [inode_number |-> i + 1, size |-> 0,
               blocks |-> [@.blocks EXCEPT ![0] = b], permissions |-> Modes]]
        /\ block_bitmap' = [block_bitmap EXCEPT ![b] = 1]
        /\ root_directory' =
              [e \in Slot |-> IF IsLeast(e, FreeEntries)
                              THEN [filename |-> name, inode_number |-> i + 1]
                              ELSE root_directory[e]]
        /\ last' = Result("create", 0, IF FreeEntries = {} THEN -1 ELSE i)
        /\ UNCHANGED storage

(* A call that names a file the directory does not hold.                   *)
NotFound(call, asked, name) ==
    /\ Matches(name) = {}
    /\ last' = Result(call, asked, -1)
    /\ UNCHANGED disk

(* A call check_permissions refuses.                                       *)
Denied(call, asked, mode, name) ==
    \E i \in Slot :
        /\ Finds(name, i)
        /\ mode \notin inode_table[InodeOf(i)].permissions
        /\ last' = Result(call, asked, -1)
        /\ UNCHANGED disk

GrantedToAll(name, i, mode) == Finds(name, i)

Granted(name, i, mode) ==
    /\ Finds(name, i)
    /\ mode \in inode_table[InodeOf(i)].permissions

(* What delete_file leaves of a file: the bitmap without its blocks, the   *)
(* counters, its inode and its directory entry.                            *)
ReleasedButMarked(blocks) == block_bitmap

Released(blocks) ==
    LET held == {blocks[j] : j \in Ptr \ EmptyPtrs(blocks)}
    IN  [b \in Block |-> IF b \in held THEN 0 ELSE block_bitmap[b]]

CountBackBlocksOnly(blocks) ==
    [sb EXCEPT !.free_blocks =
        (@ + Cardinality(Ptr \ EmptyPtrs(blocks))) % COUNT_MOD]

CountBack(blocks) ==
    [free_inodes |-> (sb.free_inodes + 1) % COUNT_MOD,
     free_blocks |-> (sb.free_blocks
                         + Cardinality(Ptr \ EmptyPtrs(blocks))) % COUNT_MOD]

InodeSetToOnes(inode) ==
    [inode EXCEPT !.inode_number = -1, !.size = 0, !.blocks = [j \in Ptr |-> NONE]]

ClearedInode(inode) ==
    [inode_number |-> 0, size |-> 0, blocks |-> [j \in Ptr |-> NONE],
     permissions |-> inode.permissions]

EntryWithoutName(entry) == [entry EXCEPT !.filename = NoName]

ClearedEntry(entry) == [filename |-> NoName, inode_number |-> 0]

(* delete_file.                                                            *)
Delete(name) ==
    \E i \in Slot :
        LET blocks == inode_table[InodeOf(i)].blocks
        IN  /\ Granted(name, i, "write")
            /\ block_bitmap' = Released(blocks)
            /\ sb' = CountBack(blocks)
            /\ inode_table' = [inode_table EXCEPT ![InodeOf(i)] = ClearedInode(@)]
            /\ root_directory' = [root_directory EXCEPT ![i] = ClearedEntry(@)]
            /\ last' = Result("delete", 0, 0)
            /\ UNCHANGED storage

(* chmod_file.                                                             *)
Chmod(name, permissions) ==
    \E i \in Slot :
        /\ Finds(name, i)
        /\ inode_table' =
              [inode_table EXCEPT ![InodeOf(i)].permissions = permissions]
        /\ last' = Result("chmod", 0, 0)
        /\ UNCHANGED <<sb, root_directory, storage, block_bitmap>>

(* read_file(name, buffer, size).                                          *)
Read(name, size) ==
    \E i \in Slot :
        LET inode == inode_table[InodeOf(i)]
            read == Transferred(inode.blocks, 0, Min2(size, inode.size))
        IN  /\ Granted(name, i, "read")
            /\ last' = [call |-> "read", asked |-> size, ret |-> read,
                        data |-> Contents(inode.blocks, read)]
            /\ UNCHANGED disk

SizeAsked(from, buffer, written) == from + Len(buffer)

SizeWritten(from, buffer, written) == from + written

(* The end of write_file and append_to_file: the new blocks are recorded,  *)
(* want bytes of buffer are copied to position from until a hole, and the  *)
(* file ends behind the last of them.                                      *)
Store(call, i, nb, from, buffer, want) ==
    LET inode_index == InodeOf(i)
        blocks == WithBlocks(inode_table[inode_index].blocks, nb)
        written == Transferred(blocks, from, want)
    IN  /\ sb' = [sb EXCEPT !.free_blocks = (@ - Cardinality(DOMAIN nb)) % COUNT_MOD]
        /\ block_bitmap' = MarkUsed(nb)
        /\ inode_table' = [inode_table EXCEPT ![inode_index] =
              [@ EXCEPT !.blocks = blocks,
                        !.size = SizeWritten(from, buffer, written)]]
        /\ storage' = Copied(blocks, from, buffer, written)
        /\ last' = Result(call, Len(buffer), written)
        /\ UNCHANGED root_directory

(* write_file(name, buffer, size).  The blocks in use are counted from the *)
(* size, not from the pointers a longer file left behind.                  *)
Write(name, buffer) ==
    \E i \in Slot :
        LET inode == inode_table[InodeOf(i)]
            write_size == Min2(Len(buffer), max_size)
            current_blocks == Max2(CeilBlocks(inode.size), 1)
            needed_blocks == Max2(CeilBlocks(write_size) - current_blocks, 0)
        IN  /\ Granted(name, i, "write")
            /\ \E nb \in Allocations(inode.blocks, needed_blocks) :
                  LET allocated == Cardinality(DOMAIN nb)
                  IN  Store("write", i, nb, 0, buffer,
                            IF allocated < needed_blocks
                            THEN (current_blocks + allocated) * BLOCK_SIZE
                            ELSE write_size)

(* append_to_file, the file being as long as a file can be.                *)
AppendFull(name, buffer) ==
    \E i \in Slot :
        /\ Granted(name, i, "write")
        /\ inode_table[InodeOf(i)].size >= max_size
        /\ last' = Result("append", Len(buffer), -1)
        /\ UNCHANGED disk

(* append_to_file(name, buffer, size).                                     *)
Append_(name, buffer) ==
    \E i \in Slot :
        LET inode == inode_table[InodeOf(i)]
            current_size == inode.size
            append_size == Min2(Len(buffer), max_size - current_size)
            used_in_last_block == OffAt(current_size)
            space_left_in_last ==
                IF used_in_last_block = 0 /\ current_size > 0
                THEN 0 ELSE BLOCK_SIZE - used_in_last_block
            needed_blocks == CeilBlocks(Max2(append_size - space_left_in_last, 0))
        IN  /\ Granted(name, i, "write")
            /\ current_size < max_size
            /\ \E nb \in Allocations(inode.blocks, needed_blocks) :
                  LET allocated == Cardinality(DOMAIN nb)
                  IN  Store("append", i, nb, current_size, buffer,
                            IF allocated < needed_blocks
                            THEN space_left_in_last + allocated * BLOCK_SIZE
                            ELSE append_size)

Next ==
    \E name \in Names :
        \/ CreateNoInode(name)
        \/ CreateNoBlock(name)
        \/ Create(name)
        \/ Delete(name)
        \/ NotFound("delete", 0, name)
        \/ Denied("delete", 0, "write", name)
        \/ \E permissions \in Permissions :
              \/ Chmod(name, permissions)
              \/ NotFound("chmod", 0, name)
        \/ \E size \in ReadSizes :
              \/ Read(name, size)
              \/ NotFound("read", size, name)
              \/ Denied("read", size, "read", name)
        \/ \E buffer \in Buffers :
              \/ Write(name, buffer)
              \/ NotFound("write", Len(buffer), name)
              \/ Denied("write", Len(buffer), "write", name)
              \/ Append_(name, buffer)
              \/ AppendFull(name, buffer)
              \/ NotFound("append", Len(buffer), name)
              \/ Denied("append", Len(buffer), "write", name)

Spec == Init /\ [][Next]_vars
-----------------------------------------------------------------------------
(* Properties.                                                             *)

Inodes == [inode_number : 0 .. MAX_FILES, size : Nat,
           blocks : [Ptr -> Block \cup {NONE}], permissions : SUBSET Modes]
Entries == [filename : Names \cup {NoName}, inode_number : 0 .. MAX_FILES]

(* The tables hold values of their declared types and the block pointers,  *)
(* inode numbers and counters stay in range.                               *)
TypeOK ==
    /\ sb \in [free_inodes : 0 .. COUNT_MOD - 1, free_blocks : 0 .. COUNT_MOD - 1]
    /\ inode_table \in [Slot -> Inodes]
    /\ root_directory \in [Slot -> Entries]
    /\ storage \in [Block -> [Offset -> Bytes]]
    /\ block_bitmap \in [Block -> {0, 1}]

(* The directory entry in slot i names inode i and no other, and is used   *)
(* exactly when that inode is: both tables are searched for the first      *)
(* free slot, and are filled and emptied together.  So no two entries      *)
(* share an inode, no inode is without a name, and the "Root directory     *)
(* full" exit of create_file, which would lose an inode, is never taken.   *)
EntriesMatchInodes ==
    \A i \in Slot :
        /\ root_directory[i].inode_number = inode_table[i].inode_number
        /\ inode_table[i].inode_number \in {0, i + 1}

(* The bitmap says what the inodes say: a block is marked exactly when     *)
(* some inode in use points to it, an unused inode points to none, and no  *)
(* block hangs on two pointers.  A leak or a double allocation in          *)
(* delete_file or allocate_blocks would show only much later, as a full    *)
(* disk or as one file's bytes in another.                                 *)
BlocksAccounted ==
    /\ \A b \in Block : block_bitmap[b] = 1 <=>
          \E i \in Slot, j \in Ptr : inode_table[i].blocks[j] = b
    /\ \A i \in Slot : inode_table[i].inode_number = 0 =>
          \A j \in Ptr : inode_table[i].blocks[j] = NONE
    /\ \A i, k \in Slot, j, l \in Ptr :
          /\ inode_table[i].blocks[j] = inode_table[k].blocks[l]
          /\ inode_table[i].blocks[j] # NONE
          => i = k /\ j = l

(* A file's size never passes the blocks that hold it: every byte below    *)
(* size lies in an allocated block, and the allocated pointers are the     *)
(* first ones.  The break of read_file on an empty pointer is never taken. *)
NoHoles ==
    \A i \in Slot :
        LET inode == inode_table[i]
        IN  /\ inode.size <= max_size
            /\ \A j \in Ptr : j * BLOCK_SIZE < inode.size => inode.blocks[j] # NONE
            /\ \A j, l \in Ptr :
                  l < j /\ inode.blocks[j] # NONE => inode.blocks[l] # NONE

(* The counters of the superblock agree with the inode table and the       *)
(* bitmap, whatever mixture of calls has failed or stopped halfway.        *)
FreeCounts ==
    /\ sb.free_inodes = Cardinality(FreeInodes)
    /\ sb.free_blocks = Cardinality(FreeBlocks)

(* With as many blocks as all files together may use (1024 = 256 * 4), a   *)
(* free inode never meets a full disk, so the exit of create_file that     *)
(* forgets to count the inode back is never taken.                         *)
RoomForEveryFile == FreeInodes # {} => FreeBlocks # {}

(* The file system implements the store of files: calls on one file never  *)
(* show in another, a read returns what was written, and short writes keep *)
(* a prefix.                                                               *)
Store_ == INSTANCE FileStore WITH
    Slots <- Slot, AllModes <- Modes, MaxSize <- max_size, NoFile <- NoName,
    files <- [i \in Slot |->
                 IF root_directory[i].inode_number = 0 THEN NoName
                 ELSE LET inode == inode_table[InodeOf(i)]
                      IN  [name    |-> root_directory[i].filename,
                           content |-> Contents(inode.blocks, inode.size),
                           modes   |-> inode.permissions]]

ImplementsFileStore == Store_!Spec

(* What the comments on the sizes in filesystem.h say: a file may use      *)
(* MAX_BLOCKS_PER_FILE blocks, and there are as many for each of MAX_FILES *)
(* files.  So write_file stores all it is given, up to that size.          *)
StoredInFull ==
    [][last'.call = "write" /\ last'.ret # -1
          => last'.ret = Min2(last'.asked, max_size)]_vars
=============================================================================
