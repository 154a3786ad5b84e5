-------------------------- MODULE FileSystem_proofs --------------------------
(***************************************************************************)
(* Proofs that the file system keeps its directory, its inodes, its block   *)
(* bitmap and its counters consistent and implements the store of files,    *)
(* for every number and size of files and blocks.                           *)
(***************************************************************************)
EXTENDS FileSystem, Least_proofs, FiniteSetTheorems, SequenceTheorems, TLAPS

-----------------------------------------------------------------------------
(* Arithmetic and finite sets.                                             *)

(* k whole blocks are fewer bytes than n if n bytes need more than k       *)
(* blocks.                                                                 *)
LEMMA CeilBelow ==
    ASSUME NEW n \in Nat, NEW k \in Nat, k < CeilBlocks(n)
    PROVE  k * BLOCK_SIZE < n
<1>. DEFINE B == BLOCK_SIZE
            q == (n + B - 1) \div B
<1>1. B \in Nat /\ B > 0
    BY FileSystemAssumption
<1>2. q \in Nat /\ q * B <= n + B - 1
    BY <1>1
<1>3. k + 1 <= q
    BY <1>2 DEF CeilBlocks
<1>. HIDE DEF q, B
<1>4. (k + 1) * B <= q * B
    BY <1>1, <1>2, <1>3
<1>5. (k + 1) * B = k * B + B
    BY <1>1
<1>6. k * B \in Int /\ q * B \in Int
    BY <1>1, <1>2
<1>. QED  BY <1>1, <1>2, <1>4, <1>5, <1>6 DEF B

(* The blocks needed for n bytes are a natural number.                     *)
LEMMA CeilType ==
    ASSUME NEW n \in Nat
    PROVE  CeilBlocks(n) \in Nat
BY FileSystemAssumption DEF CeilBlocks

(* More blocks are more bytes.                                             *)
LEMMA BlocksMonotone ==
    ASSUME NEW a \in Nat, NEW b \in Nat, a <= b
    PROVE  /\ a * BLOCK_SIZE \in Nat
           /\ b * BLOCK_SIZE \in Nat
           /\ a * BLOCK_SIZE <= b * BLOCK_SIZE
           /\ (a + 1) * BLOCK_SIZE = a * BLOCK_SIZE + BLOCK_SIZE
BY FileSystemAssumption

-----------------------------------------------------------------------------
(* What the helpers of the calls return.                                   *)

BlockPtrs == [Ptr -> Block \cup {NONE}]

(* allocate_blocks fills the first empty pointers, with free blocks that   *)
(* differ from each other, and at most as many as it was asked for.        *)
LEMMA AllocationFacts ==
    ASSUME NEW blocks \in BlockPtrs, NEW required \in Nat,
           NEW nb \in Allocations(blocks, required)
    PROVE  /\ DOMAIN nb \subseteq EmptyPtrs(blocks)
           /\ nb \in [DOMAIN nb -> FreeBlocks]
           /\ \A s, t \in DOMAIN nb : nb[s] = nb[t] => s = t
           /\ \A s \in DOMAIN nb, t \in EmptyPtrs(blocks) :
                 t < s => t \in DOMAIN nb
           /\ Cardinality(DOMAIN nb) \in Nat
<1>. DEFINE count == Min2(required, Min2(Cardinality(EmptyPtrs(blocks)),
                                         Cardinality(FreeBlocks)))
<1>1. PICK D \in SUBSET EmptyPtrs(blocks) :
          /\ Cardinality(D) = count
          /\ \A s \in D, t \in EmptyPtrs(blocks) : t < s => t \in D
          /\ nb \in [D -> FreeBlocks]
          /\ \A s, t \in D : s < t => nb[s] < nb[t]
    BY DEF Allocations
<1>2. DOMAIN nb = D
    BY <1>1
<1>3. IsFiniteSet(Ptr) /\ D \in SUBSET Ptr
    BY FS_Interval, FileSystemAssumption DEF Ptr, EmptyPtrs
<1>4. Cardinality(D) \in Nat
    BY <1>3, FS_Subset, FS_CardinalityType
<1>5. ASSUME NEW s \in D, NEW t \in D, nb[s] = nb[t]
      PROVE  s = t
    <2>1. s \in Int /\ t \in Int
        BY <1>3 DEF Ptr
    <2>2. nb[s] \in Int /\ nb[t] \in Int
        BY <1>1 DEF FreeBlocks, Block
    <2>3. ~(s < t) /\ ~(t < s)
        BY <1>1, <1>5, <2>2
    <2>. QED  BY <2>1, <2>3
<1>. QED  BY <1>1, <1>2, <1>4, <1>5

(* The copy loops transfer at most the bytes wanted, and every block that  *)
(* the bytes transferred reach has a pointer.                              *)
LEMMA TransferFacts ==
    ASSUME NEW blocks \in BlockPtrs, NEW from \in Nat, NEW want \in Nat
    PROVE  LET n == Transferred(blocks, from, want)
           IN  /\ n \in Nat
               /\ n <= want
               /\ \A b \in Ptr :
                     /\ blocks[b] = NONE
                     /\ from < (b + 1) * BLOCK_SIZE
                     /\ b * BLOCK_SIZE < from + n
                     => n = 0
<1>. DEFINE holes == {b \in Ptr : /\ from < (b + 1) * BLOCK_SIZE
                                  /\ b * BLOCK_SIZE < from + want
                                  /\ blocks[b] = NONE}
            n == Transferred(blocks, from, want)
<1>1. CASE holes = {}
    <2>1. n = want
        BY <1>1 DEF Transferred
    <2>. QED  BY <1>1, <2>1
<1>2. CASE holes # {}
    <2>1. holes \in SUBSET Nat
        BY DEF Ptr
    <2>. DEFINE c == CHOOSE x \in holes : IsLeast(x, holes)
    <2>2. c \in holes /\ IsLeast(c, holes)
        BY <1>2, <2>1, LeastExists
    <2>3. n = Max2(0, c * BLOCK_SIZE - from)
        BY <1>2 DEF Transferred
    <2>. HIDE DEF n, c
    <2>4. c \in Nat /\ c * BLOCK_SIZE \in Nat /\ c * BLOCK_SIZE < from + want
        BY <2>1, <2>2, BlocksMonotone
    <2>5. n \in Nat /\ n <= want
        BY <2>3, <2>4 DEF Max2
    <2>6. ASSUME NEW b \in Ptr, blocks[b] = NONE,
                 from < (b + 1) * BLOCK_SIZE, b * BLOCK_SIZE < from + n
          PROVE  n = 0
        <3>1. b \in Nat /\ b * BLOCK_SIZE \in Nat
            BY BlocksMonotone DEF Ptr
        <3>2. b \in holes
            BY <2>5, <2>6, <3>1
        <3>3. c <= b
            BY <2>2, <3>2 DEF IsLeast
        <3>4. c * BLOCK_SIZE <= b * BLOCK_SIZE
            BY <2>4, <3>1, <3>3, BlocksMonotone
        <3>. QED  BY <2>3, <2>4, <2>6, <3>1, <3>4 DEF Max2
    <2>. QED  BY <2>5, <2>6 DEF n
<1>. QED  BY <1>1, <1>2

(* The bytes copied into the blocks are bytes of the buffer.               *)
LEMMA CopiedType ==
    ASSUME storage \in [Block -> [Offset -> Bytes]],
           NEW blocks \in BlockPtrs, NEW from \in Nat, NEW buffer \in Buffers,
           NEW n \in Nat, n <= Len(buffer)
    PROVE  Copied(blocks, from, buffer, n) \in [Block -> [Offset -> Bytes]]
<1>. DEFINE at(b, o) == {p \in from .. from + n - 1 :
                            blocks[PtrAt(p)] = b /\ OffAt(p) = o}
            byte(b, o) == IF at(b, o) = {} THEN storage[b][o]
                          ELSE buffer[(CHOOSE p \in at(b, o) : TRUE) - from + 1]
<1>1. ASSUME NEW b \in Block, NEW o \in Offset
      PROVE  byte(b, o) \in Bytes
    <2>1. CASE at(b, o) = {}
        BY <2>1
    <2>2. CASE at(b, o) # {}
        <3>. DEFINE p == CHOOSE x \in at(b, o) : TRUE
        <3>1. p \in at(b, o)
            BY <2>2
        <3>. HIDE DEF p
        <3>2. p \in from .. from + n - 1
            BY <3>1
        <3>3. buffer \in Seq(Bytes)
            BY FileSystemAssumption
        <3>4. p - from + 1 \in 1 .. Len(buffer)
            BY <3>2, <3>3
        <3>5. buffer[p - from + 1] \in Bytes
            BY <3>3, <3>4
        <3>. QED  BY <2>2, <3>5 DEF p
    <2>. QED  BY <2>1, <2>2
<1>2. Copied(blocks, from, buffer, n) =
          [b \in Block |-> [o \in Offset |-> byte(b, o)]]
    BY DEF Copied
<1>. HIDE DEF byte
<1>. QED  BY <1>1, <1>2

-----------------------------------------------------------------------------
(* The inductive invariant.                                                *)

(* The four invariants support each other: an allocation is sound because  *)
(* an unmarked block has no owner, a deletion because an entry names its   *)
(* own inode and a block has one owner, and a file keeps its size within   *)
(* its blocks because pointers are filled from the first on.               *)
Consistent == TypeOK /\ EntriesMatchInodes /\ BlocksAccounted /\ NoHoles

(* format_disk leaves a consistent disk.                                   *)
LEMMA InitConsistent == Init => Consistent
<1>. SUFFICES ASSUME Init
              PROVE  Consistent
    OBVIOUS
<1>. USE FileSystemAssumption DEF Init
<1>1. TypeOK
    BY DEF TypeOK, Inodes, Entries, Modes, Slot, Block, Ptr, Offset, NONE
<1>2. EntriesMatchInodes
    BY DEF EntriesMatchInodes
<1>3. BlocksAccounted
    BY DEF BlocksAccounted, Block, NONE
<1>4. NoHoles
    BY DEF NoHoles, max_size, Ptr
<1>. QED  BY <1>1, <1>2, <1>3, <1>4 DEF Consistent

(* A call that fails, or only reads, leaves the disk as it is.             *)
LEMMA UnchangedConsistent == Consistent /\ UNCHANGED disk => Consistent'
BY DEF disk, Consistent, TypeOK, EntriesMatchInodes, BlocksAccounted, NoHoles

(* The entry found for a name is in use and names the inode in its slot.   *)
LEMMA FoundEntry ==
    ASSUME Consistent, NEW name, NEW i \in Slot, Finds(name, i)
    PROVE  /\ inode_table[i].inode_number = i + 1
           /\ root_directory[i].inode_number = i + 1
           /\ InodeOf(i) = i
BY DEF Consistent, EntriesMatchInodes, Finds, IsLeast, Matches, InodeOf, Slot

(* The counters of the superblock wrap within their type.                  *)
LEMMA CountType ==
    ASSUME NEW x \in Int
    PROVE  x % COUNT_MOD \in 0 .. COUNT_MOD - 1
BY FileSystemAssumption

(* create_file without a block changes a counter only.                     *)
LEMMA CreateNoBlockConsistent ==
    ASSUME Consistent, NEW name, CreateNoBlock(name)
    PROVE  Consistent'
<1>1. sb'.free_inodes \in 0 .. COUNT_MOD - 1
    BY CountType DEF CreateNoBlock, Consistent, TypeOK
<1>2. TypeOK'
    BY <1>1 DEF CreateNoBlock, Consistent, TypeOK
<1>. QED
    BY <1>2 DEF CreateNoBlock, Consistent, EntriesMatchInodes, BlocksAccounted,
                NoHoles

(* create_file.                                                            *)
LEMMA CreateConsistent ==
    ASSUME Consistent, NEW name \in Names, Create(name)
    PROVE  Consistent'
<1>. USE DEF Consistent
<1>1. PICK i \in FreeInodes, b \in FreeBlocks :
        /\ IsLeast(i, FreeInodes) /\ IsLeast(b, FreeBlocks)
        /\ sb' = [sb EXCEPT !.free_inodes = (@ - 1) % COUNT_MOD,
                            !.free_blocks = (@ - 1) % COUNT_MOD]
        /\ inode_table' = [inode_table EXCEPT ![i] =
              [inode_number |-> i + 1, size |-> 0,
               blocks |-> [@.blocks EXCEPT ![0] = b], permissions |-> Modes]]
        /\ block_bitmap' = [block_bitmap EXCEPT ![b] = 1]
        /\ root_directory' =
              [e \in Slot |-> IF IsLeast(e, FreeEntries)
                              THEN [filename |-> name, inode_number |-> i + 1]
                              ELSE root_directory[e]]
        /\ UNCHANGED storage
    BY DEF Create
<1>2. /\ i \in Slot /\ inode_table[i].inode_number = 0
      /\ b \in Block /\ block_bitmap[b] = 0
    BY DEF FreeInodes, FreeBlocks
<1>3. 0 \in Ptr
    BY FileSystemAssumption DEF Ptr
<1>. DEFINE new == [inode_number |-> i + 1, size |-> 0,
                    blocks |-> [inode_table[i].blocks EXCEPT ![0] = b],
                    permissions |-> Modes]
<1>4. inode_table' = [inode_table EXCEPT ![i] = new]
    BY <1>1
<1>5. FreeEntries = FreeInodes
    BY DEF EntriesMatchInodes, FreeEntries, FreeInodes
<1>6. \A e \in Slot : IsLeast(e, FreeEntries) <=> e = i
    BY <1>1, <1>5 DEF IsLeast, FreeInodes, Slot
<1>7. \A j \in Ptr : inode_table[i].blocks[j] = NONE
    BY <1>2 DEF BlocksAccounted
<1>8. TypeOK'
    <2>1. sb' \in [free_inodes : 0 .. COUNT_MOD - 1,
                   free_blocks : 0 .. COUNT_MOD - 1]
        <3>1. /\ (sb.free_inodes - 1) % COUNT_MOD \in 0 .. COUNT_MOD - 1
              /\ (sb.free_blocks - 1) % COUNT_MOD \in 0 .. COUNT_MOD - 1
            BY CountType DEF TypeOK
        <3>. QED  BY <1>1, <3>1 DEF TypeOK
    <2>2. new \in Inodes
        <3>1. i + 1 \in 0 .. MAX_FILES
            BY <1>2, FileSystemAssumption DEF Slot
        <3>2. inode_table[i].blocks \in [Ptr -> Block \cup {NONE}]
            BY <1>2 DEF TypeOK, Inodes
        <3>3. [inode_table[i].blocks EXCEPT ![0] = b] \in [Ptr -> Block \cup {NONE}]
            BY <1>2, <1>3, <3>2
        <3>. QED  BY <3>1, <3>3 DEF Inodes
    <2>3. root_directory' \in [Slot -> Entries]
        BY <1>1, <1>2, FileSystemAssumption DEF TypeOK, Entries, Slot
    <2>. HIDE DEF new
    <2>. QED  BY <1>1, <1>4, <2>1, <2>2, <2>3 DEF TypeOK
<1>9. EntriesMatchInodes'
    BY <1>1, <1>2, <1>4, <1>6 DEF EntriesMatchInodes, TypeOK
<1>10. BlocksAccounted'
    <2>1. \A k \in Slot, j \in Ptr : inode_table'[k].blocks[j] =
              IF k = i /\ j = 0 THEN b ELSE inode_table[k].blocks[j]
        BY <1>2, <1>3, <1>4 DEF TypeOK, Inodes
    <2>2. \A k \in Slot, j \in Ptr : inode_table[k].blocks[j] # b
        BY <1>2 DEF BlocksAccounted
    <2>3. \A k \in Slot : inode_table'[k].inode_number =
              IF k = i THEN i + 1 ELSE inode_table[k].inode_number
        BY <1>2, <1>4 DEF TypeOK
    <2>4. i + 1 # 0
        BY <1>2 DEF Slot
    <2>5. \A c \in Block : block_bitmap'[c] = IF c = b THEN 1 ELSE block_bitmap[c]
        BY <1>1, <1>2 DEF TypeOK
    <2>6. b # NONE
        BY <1>2 DEF Block, NONE
    <2>7. \A c \in Block : block_bitmap'[c] = 1 <=>
              \E k \in Slot, j \in Ptr : inode_table'[k].blocks[j] = c
        BY <1>2, <1>3, <1>7, <2>1, <2>5 DEF BlocksAccounted, Block, NONE
    <2>8. \A k \in Slot : inode_table'[k].inode_number = 0 =>
              \A j \in Ptr : inode_table'[k].blocks[j] = NONE
        BY <2>1, <2>3, <2>4 DEF BlocksAccounted
    <2>9. \A k, m \in Slot, j, l \in Ptr :
              /\ inode_table'[k].blocks[j] = inode_table'[m].blocks[l]
              /\ inode_table'[k].blocks[j] # NONE
              => k = m /\ j = l
        BY <2>1, <2>2 DEF BlocksAccounted
    <2>. QED  BY <2>7, <2>8, <2>9 DEF BlocksAccounted
<1>11. NoHoles'
    <2>1. \A k \in Slot : k # i => inode_table'[k] = inode_table[k]
        BY <1>2, <1>4 DEF TypeOK
    <2>2. inode_table'[i] = new
        BY <1>2, <1>4 DEF TypeOK
    <2>3. /\ 0 <= max_size
          /\ \A j \in Ptr : ~(j * BLOCK_SIZE < 0)
        BY FileSystemAssumption, BlocksMonotone DEF max_size, Ptr
    <2>4. \A j, l \in Ptr : l < j /\ new.blocks[j] # NONE => FALSE
        BY <1>2, <1>3, <1>7 DEF TypeOK, Inodes, Ptr
    <2>5. new.size = 0
        OBVIOUS
    <2>. HIDE DEF new
    <2>. QED  BY <2>1, <2>2, <2>3, <2>4, <2>5 DEF NoHoles
<1>. QED  BY <1>8, <1>9, <1>10, <1>11

(* delete_file.                                                            *)
LEMMA DeleteConsistent ==
    ASSUME Consistent, NEW name, Delete(name)
    PROVE  Consistent'
<1>. USE DEF Consistent
<1>1. PICK i \in Slot :
        LET blocks == inode_table[InodeOf(i)].blocks
        IN  /\ Granted(name, i, "write")
            /\ block_bitmap' = Released(blocks)
            /\ sb' = CountBack(blocks)
            /\ inode_table' = [inode_table EXCEPT ![InodeOf(i)] = ClearedInode(@)]
            /\ root_directory' = [root_directory EXCEPT ![i] = ClearedEntry(@)]
            /\ UNCHANGED storage
    BY DEF Delete
<1>2. InodeOf(i) = i
    BY <1>1, FoundEntry DEF Granted
<1>. DEFINE blocks == inode_table[i].blocks
<1>3. /\ block_bitmap' = Released(blocks)
      /\ sb' = CountBack(blocks)
      /\ inode_table' = [inode_table EXCEPT ![i] = ClearedInode(@)]
      /\ root_directory' = [root_directory EXCEPT ![i] = ClearedEntry(@)]
      /\ UNCHANGED storage
    BY <1>1, <1>2
<1>4. blocks \in [Ptr -> Block \cup {NONE}]
    BY DEF TypeOK, Inodes
<1>5. \A k \in Slot : inode_table'[k] =
          IF k = i THEN ClearedInode(inode_table[i]) ELSE inode_table[k]
    BY <1>3 DEF TypeOK
<1>6. /\ ClearedInode(inode_table[i]).inode_number = 0
      /\ ClearedInode(inode_table[i]).size = 0
      /\ ClearedInode(inode_table[i]).blocks = [j \in Ptr |-> NONE]
      /\ ClearedInode(inode_table[i]) \in Inodes
    BY FileSystemAssumption DEF ClearedInode, TypeOK, Inodes
<1>7. \A b \in Block : block_bitmap'[b] =
          IF \E j \in Ptr : blocks[j] = b THEN 0 ELSE block_bitmap[b]
    BY <1>3, <1>4 DEF Released, EmptyPtrs, Block, NONE
<1>8. TypeOK'
    <2>1. Cardinality(Ptr \ EmptyPtrs(blocks)) \in Nat
        <3>1. IsFiniteSet(Ptr)
            BY FS_Interval, FileSystemAssumption DEF Ptr
        <3>. QED  BY <3>1, FS_Subset, FS_CardinalityType
    <2>2. sb' \in [free_inodes : 0 .. COUNT_MOD - 1,
                   free_blocks : 0 .. COUNT_MOD - 1]
        <3>1. /\ (sb.free_inodes + 1) % COUNT_MOD \in 0 .. COUNT_MOD - 1
              /\ (sb.free_blocks + Cardinality(Ptr \ EmptyPtrs(blocks))) % COUNT_MOD
                    \in 0 .. COUNT_MOD - 1
            BY <2>1, CountType DEF TypeOK
        <3>. QED  BY <1>3, <3>1 DEF CountBack
    <2>3. root_directory' \in [Slot -> Entries]
        BY <1>3, FileSystemAssumption DEF TypeOK, Entries, ClearedEntry
    <2>4. block_bitmap' \in [Block -> {0, 1}]
        BY <1>3 DEF Released, TypeOK
    <2>5. inode_table' \in [Slot -> Inodes]
        BY <1>3, <1>6 DEF TypeOK
    <2>. QED  BY <1>3, <2>2, <2>3, <2>4, <2>5 DEF TypeOK
<1>9. EntriesMatchInodes'
    <2>1. \A k \in Slot : root_directory'[k].inode_number =
              IF k = i THEN 0 ELSE root_directory[k].inode_number
        BY <1>3 DEF TypeOK, Entries, ClearedEntry
    <2>. QED  BY <1>5, <1>6, <2>1 DEF EntriesMatchInodes
<1>10. BlocksAccounted'
    <2>1. \A k \in Slot, j \in Ptr : inode_table'[k].blocks[j] =
              IF k = i THEN NONE ELSE inode_table[k].blocks[j]
        BY <1>5, <1>6
    <2>2. \A b \in Block : block_bitmap'[b] = 1 <=>
              \E k \in Slot, j \in Ptr : inode_table'[k].blocks[j] = b
        <3>. SUFFICES ASSUME NEW b \in Block
                      PROVE  block_bitmap'[b] = 1 <=>
                        \E k \in Slot, j \in Ptr : inode_table'[k].blocks[j] = b
            OBVIOUS
        <3>1. b # NONE
            BY DEF Block, NONE
        <3>2. CASE \E j \in Ptr : blocks[j] = b
            <4>1. \A k \in Slot, j \in Ptr :
                      inode_table[k].blocks[j] = b => k = i
                BY <3>1, <3>2 DEF BlocksAccounted
            <4>. QED  BY <1>7, <2>1, <3>1, <3>2, <4>1
        <3>3. CASE ~\E j \in Ptr : blocks[j] = b
            BY <1>7, <2>1, <3>1, <3>3 DEF BlocksAccounted
        <3>. QED  BY <3>2, <3>3
    <2>3. \A k \in Slot : inode_table'[k].inode_number = 0 =>
              \A j \in Ptr : inode_table'[k].blocks[j] = NONE
        BY <1>5, <2>1 DEF BlocksAccounted
    <2>4. \A k, m \in Slot, j, l \in Ptr :
              /\ inode_table'[k].blocks[j] = inode_table'[m].blocks[l]
              /\ inode_table'[k].blocks[j] # NONE
              => k = m /\ j = l
        BY <2>1 DEF BlocksAccounted
    <2>. QED  BY <2>2, <2>3, <2>4 DEF BlocksAccounted
<1>11. NoHoles'
    <2>1. /\ 0 <= max_size
          /\ \A j \in Ptr : ~(j * BLOCK_SIZE < 0)
        BY FileSystemAssumption, BlocksMonotone DEF max_size, Ptr
    <2>. QED  BY <1>5, <1>6, <2>1 DEF NoHoles
<1>. QED  BY <1>8, <1>9, <1>10, <1>11

(* chmod_file.                                                             *)
LEMMA ChmodConsistent ==
    ASSUME Consistent, NEW name, NEW permissions \in Permissions,
           Chmod(name, permissions)
    PROVE  Consistent'
<1>. USE DEF Consistent
<1>1. PICK i \in Slot :
        /\ Finds(name, i)
        /\ inode_table' =
              [inode_table EXCEPT ![InodeOf(i)].permissions = permissions]
        /\ UNCHANGED <<sb, root_directory, storage, block_bitmap>>
    BY DEF Chmod
<1>2. InodeOf(i) = i
    BY <1>1, FoundEntry
<1>3. inode_table' \in [Slot -> Inodes]
    <2>1. inode_table[i] \in Inodes /\ permissions \in SUBSET Modes
        BY FileSystemAssumption DEF TypeOK
    <2>2. [inode_table[i] EXCEPT !.permissions = permissions] \in Inodes
        BY <2>1 DEF Inodes
    <2>. QED  BY <1>1, <1>2, <2>2 DEF TypeOK
<1>4. \A k \in Slot : /\ inode_table'[k].inode_number = inode_table[k].inode_number
                      /\ inode_table'[k].size = inode_table[k].size
                      /\ inode_table'[k].blocks = inode_table[k].blocks
    BY <1>1, <1>2 DEF TypeOK, Inodes
<1>5. TypeOK'
    BY <1>1, <1>3 DEF TypeOK
<1>6. EntriesMatchInodes'
    BY <1>1, <1>4 DEF EntriesMatchInodes
<1>7. BlocksAccounted'
    BY <1>1, <1>4 DEF BlocksAccounted
<1>8. NoHoles'
    BY <1>4 DEF NoHoles
<1>. QED  BY <1>5, <1>6, <1>7, <1>8

(* The common end of write_file and append_to_file, for bytes that go over *)
(* the file from its start or behind its end and fit the largest file.     *)
LEMMA StoreConsistent ==
    ASSUME Consistent, NEW call, NEW i \in Slot,
           InodeOf(i) = i, inode_table[i].inode_number = i + 1,
           NEW required \in Nat,
           NEW nb \in Allocations(inode_table[i].blocks, required),
           NEW from \in {0, inode_table[i].size},
           NEW buffer \in Buffers,
           NEW want \in Nat, want <= Len(buffer), from + want <= max_size,
           Store(call, i, nb, from, buffer, want)
    PROVE  Consistent'
<1>. USE DEF Consistent
<1>. DEFINE old == inode_table[i].blocks
            blocks == WithBlocks(old, nb)
            written == Transferred(blocks, from, want)
            new == [inode_table[i] EXCEPT !.blocks = blocks, !.size = from + written]
<1>1. old \in BlockPtrs /\ inode_table[i] \in Inodes /\ inode_table[i].size \in Nat
    BY DEF TypeOK, Inodes, BlockPtrs
<1>2. /\ sb' = [sb EXCEPT !.free_blocks = (@ - Cardinality(DOMAIN nb)) % COUNT_MOD]
      /\ block_bitmap' = MarkUsed(nb)
      /\ inode_table' = [inode_table EXCEPT ![i] = new]
      /\ storage' = Copied(blocks, from, buffer, written)
      /\ UNCHANGED root_directory
    BY DEF Store, SizeWritten
<1>3. /\ DOMAIN nb \subseteq EmptyPtrs(old)
      /\ nb \in [DOMAIN nb -> FreeBlocks]
      /\ \A s, t \in DOMAIN nb : nb[s] = nb[t] => s = t
      /\ \A s \in DOMAIN nb, t \in EmptyPtrs(old) : t < s => t \in DOMAIN nb
      /\ Cardinality(DOMAIN nb) \in Nat
    BY <1>1, AllocationFacts
<1>4. blocks \in BlockPtrs
    BY <1>1, <1>3 DEF BlockPtrs, WithBlocks, FreeBlocks
<1>5. from \in Nat
    BY <1>1
<1>6. /\ written \in Nat
      /\ written <= want
      /\ \A b \in Ptr : /\ blocks[b] = NONE
                        /\ from < (b + 1) * BLOCK_SIZE
                        /\ b * BLOCK_SIZE < from + written
                        => written = 0
    <2>. HIDE DEF blocks
    <2>. QED  BY <1>4, <1>5, TransferFacts
<1>. HIDE DEF written
<1>7. /\ new \in Inodes
      /\ new.blocks = blocks
      /\ new.size = from + written
      /\ new.inode_number = i + 1
    <2>. HIDE DEF blocks
    <2>1. from + written \in Nat
        BY <1>5, <1>6
    <2>. QED  BY <1>1, <1>4, <2>1 DEF Inodes, BlockPtrs
<1>. HIDE DEF new
<1>8. \A k \in Slot : inode_table'[k] = IF k = i THEN new ELSE inode_table[k]
    BY <1>2 DEF TypeOK
<1>9. \A j \in Ptr : blocks[j] = IF j \in DOMAIN nb THEN nb[j] ELSE old[j]
    BY DEF WithBlocks
<1>. HIDE DEF blocks
<1>10. TypeOK'
    <2>1. sb' \in [free_inodes : 0 .. COUNT_MOD - 1,
                   free_blocks : 0 .. COUNT_MOD - 1]
        <3>1. (sb.free_blocks - Cardinality(DOMAIN nb)) % COUNT_MOD
                  \in 0 .. COUNT_MOD - 1
            BY <1>3, CountType DEF TypeOK
        <3>. QED  BY <1>2, <3>1 DEF TypeOK
    <2>2. inode_table' \in [Slot -> Inodes]
        BY <1>2, <1>7 DEF TypeOK
    <2>3. block_bitmap' \in [Block -> {0, 1}]
        BY <1>2 DEF MarkUsed, TypeOK
    <2>4. storage' \in [Block -> [Offset -> Bytes]]
        <3>1. Len(buffer) \in Nat
            BY FileSystemAssumption
        <3>2. written <= Len(buffer)
            BY <1>6, <3>1
        <3>. QED  BY <1>2, <1>4, <1>5, <1>6, <3>2, CopiedType DEF TypeOK
    <2>. QED  BY <1>2, <2>1, <2>2, <2>3, <2>4 DEF TypeOK
<1>11. EntriesMatchInodes'
    BY <1>2, <1>7, <1>8 DEF EntriesMatchInodes
<1>12. BlocksAccounted'
    <2>1. \A k \in Slot, j \in Ptr : inode_table'[k].blocks[j] =
              IF k = i /\ j \in DOMAIN nb THEN nb[j] ELSE inode_table[k].blocks[j]
        BY <1>7, <1>8, <1>9
    <2>2. \A b \in Block : block_bitmap'[b] =
              IF \E s \in DOMAIN nb : nb[s] = b THEN 1 ELSE block_bitmap[b]
        BY <1>2 DEF MarkUsed, Taken
    <2>3. \A s \in DOMAIN nb : /\ s \in Ptr /\ old[s] = NONE
                              /\ nb[s] \in Block /\ block_bitmap[nb[s]] = 0
        BY <1>3 DEF EmptyPtrs, FreeBlocks
    <2>4. \A s \in DOMAIN nb, k \in Slot, j \in Ptr :
              inode_table[k].blocks[j] # nb[s]
        BY <2>3 DEF BlocksAccounted
    <2>5. \A b \in Block : b # NONE
        BY DEF Block, NONE
    <2>6. \A b \in Block : block_bitmap'[b] = 1 <=>
              \E k \in Slot, j \in Ptr : inode_table'[k].blocks[j] = b
        <3>. SUFFICES ASSUME NEW b \in Block
                      PROVE  block_bitmap'[b] = 1 <=>
                        \E k \in Slot, j \in Ptr : inode_table'[k].blocks[j] = b
            OBVIOUS
        <3>1. CASE \E s \in DOMAIN nb : nb[s] = b
            BY <2>1, <2>2, <2>3, <3>1
        <3>2. CASE ~\E s \in DOMAIN nb : nb[s] = b
            <4>1. \A k \in Slot, j \in Ptr : inode_table'[k].blocks[j] = b
                      <=> inode_table[k].blocks[j] = b
                BY <2>1, <2>3, <2>5, <3>2
            <4>. QED  BY <2>2, <3>2, <4>1 DEF BlocksAccounted
        <3>. QED  BY <3>1, <3>2
    <2>7. \A k \in Slot : inode_table'[k].inode_number = 0 =>
              \A j \in Ptr : inode_table'[k].blocks[j] = NONE
        <3>1. i + 1 # 0
            BY DEF Slot
        <3>. QED  BY <1>7, <1>8, <3>1 DEF BlocksAccounted
    <2>8. \A k, m \in Slot, j, l \in Ptr :
              /\ inode_table'[k].blocks[j] = inode_table'[m].blocks[l]
              /\ inode_table'[k].blocks[j] # NONE
              => k = m /\ j = l
        BY <1>3, <2>1, <2>4 DEF BlocksAccounted
    <2>. QED  BY <2>6, <2>7, <2>8 DEF BlocksAccounted
<1>13. NoHoles'
    <2>1. new.size <= max_size
        <3>1. max_size \in Nat
            BY FileSystemAssumption DEF max_size
        <3>. QED  BY <1>5, <1>6, <1>7, <3>1
    <2>2. ASSUME NEW j \in Ptr, j * BLOCK_SIZE < new.size
          PROVE  new.blocks[j] # NONE
        <3>1. SUFFICES ASSUME blocks[j] = NONE
                       PROVE  FALSE
            BY <1>7
        <3>2. j \in Nat /\ j * BLOCK_SIZE \in Nat
              /\ (j + 1) * BLOCK_SIZE = j * BLOCK_SIZE + BLOCK_SIZE
            BY BlocksMonotone DEF Ptr
        <3>3. old[j] = NONE
            BY <1>3, <1>9, <3>1 DEF FreeBlocks, Block, NONE
        <3>4. ~(j * BLOCK_SIZE < from)
            BY <3>2, <3>3 DEF NoHoles
        <3>5. from < (j + 1) * BLOCK_SIZE
            BY <1>5, <3>2, <3>4, FileSystemAssumption
        <3>6. written = 0
            BY <1>6, <1>7, <2>2, <3>1, <3>5
        <3>. QED  BY <1>5, <1>7, <2>2, <3>2, <3>4, <3>6
    <2>3. ASSUME NEW j \in Ptr, NEW l \in Ptr, l < j, new.blocks[j] # NONE
          PROVE  new.blocks[l] # NONE
        <3>1. \A s \in DOMAIN nb : nb[s] # NONE
            BY <1>3 DEF FreeBlocks, Block, NONE
        <3>2. CASE j \in DOMAIN nb
            BY <1>3, <1>7, <1>9, <2>3, <3>1, <3>2 DEF EmptyPtrs
        <3>3. CASE j \notin DOMAIN nb
            <4>1. old[l] # NONE
                BY <1>7, <1>9, <2>3, <3>3 DEF NoHoles
            <4>. QED  BY <1>7, <1>9, <3>1, <4>1
        <3>. QED  BY <3>2, <3>3
    <2>. QED  BY <1>8, <2>1, <2>2, <2>3 DEF NoHoles
<1>. QED  BY <1>10, <1>11, <1>12, <1>13

(* A call ends in Store for the file in slot i: the blocks nb come from    *)
(* allocate_blocks, and the want bytes to put at position from fit the     *)
(* buffer and the largest file.                                            *)
Stores(call, name, buffer, i, nb, from, want) ==
    /\ Granted(name, i, "write")
    /\ InodeOf(i) = i /\ inode_table[i].inode_number = i + 1
    /\ \E required \in Nat : nb \in Allocations(inode_table[i].blocks, required)
    /\ want \in Nat /\ want <= Len(buffer) /\ from + want <= max_size
    /\ Store(call, i, nb, from, buffer, want)

(* write_file: what it stores, cut short or not, fits the buffer and the   *)
(* largest file.                                                           *)
LEMMA WriteStores ==
    ASSUME Consistent, NEW name, NEW buffer \in Buffers, Write(name, buffer)
    PROVE  \E i \in Slot : \E nb, want :
               Stores("write", name, buffer, i, nb, 0, want)
<1>1. PICK i \in Slot :
        LET inode == inode_table[InodeOf(i)]
            write_size == Min2(Len(buffer), max_size)
            current_blocks == Max2(CeilBlocks(inode.size), 1)
            needed_blocks == Max2(CeilBlocks(write_size) - current_blocks, 0)
        IN  /\ Granted(name, i, "write")
            /\ \E nb \in Allocations(inode.blocks, needed_blocks) :
                  LET allocated == Cardinality(DOMAIN nb)
                  IN  Store("write", i, nb, 0, buffer,
                            IF allocated < needed_blocks
                            THEN (current_blocks + allocated) * BLOCK_SIZE
                            ELSE write_size)
    BY DEF Write
<1>2. InodeOf(i) = i /\ inode_table[i].inode_number = i + 1
    BY <1>1, FoundEntry DEF Granted
<1>. DEFINE write_size == Min2(Len(buffer), max_size)
            current_blocks == Max2(CeilBlocks(inode_table[i].size), 1)
            needed_blocks == Max2(CeilBlocks(write_size) - current_blocks, 0)
            want(nb) == IF Cardinality(DOMAIN nb) < needed_blocks
                        THEN (current_blocks + Cardinality(DOMAIN nb)) * BLOCK_SIZE
                        ELSE write_size
<1>3. PICK nb \in Allocations(inode_table[i].blocks, needed_blocks) :
          Store("write", i, nb, 0, buffer, want(nb))
    BY <1>1, <1>2
<1>4. Len(buffer) \in Nat /\ max_size \in Nat
    BY FileSystemAssumption DEF max_size
<1>5. write_size \in Nat /\ write_size <= Len(buffer) /\ write_size <= max_size
    BY <1>4 DEF Min2
<1>6. inode_table[i].blocks \in BlockPtrs /\ inode_table[i].size \in Nat
    BY DEF Consistent, TypeOK, Inodes, BlockPtrs
<1>7. current_blocks \in Nat /\ needed_blocks \in Nat
    <2>. HIDE DEF write_size
    <2>. QED  BY <1>5, <1>6, CeilType DEF Max2
<1>8. Cardinality(DOMAIN nb) \in Nat
    <2>. HIDE DEF needed_blocks
    <2>. QED  BY <1>3, <1>6, <1>7, AllocationFacts
<1>9. want(nb) \in Nat /\ want(nb) <= write_size
    <2>1. CASE Cardinality(DOMAIN nb) < needed_blocks
        <3>. DEFINE k == current_blocks + Cardinality(DOMAIN nb)
        <3>1. k \in Nat
            BY <1>7, <1>8
        <3>2. CeilBlocks(write_size) \in Nat
            BY <1>5, CeilType
        <3>. HIDE DEF write_size, current_blocks
        <3>3. k < CeilBlocks(write_size)
            BY <1>7, <1>8, <2>1, <3>2 DEF Max2
        <3>. HIDE DEF k
        <3>4. k * BLOCK_SIZE \in Nat /\ k * BLOCK_SIZE < write_size
            BY <1>5, <3>1, <3>3, CeilBelow, BlocksMonotone
        <3>. QED  BY <1>5, <2>1, <3>4 DEF k
    <2>2. CASE ~(Cardinality(DOMAIN nb) < needed_blocks)
        <3>. HIDE DEF write_size, needed_blocks
        <3>. QED  BY <1>5, <2>2
    <2>. QED  BY <2>1, <2>2
<1>. HIDE DEF write_size, needed_blocks, want
<1>10. want(nb) <= Len(buffer) /\ 0 + want(nb) <= max_size
    BY <1>4, <1>5, <1>9
<1>11. Stores("write", name, buffer, i, nb, 0, want(nb))
    BY <1>1, <1>2, <1>3, <1>7, <1>9, <1>10 DEF Stores
<1>. QED  BY <1>11

(* append_to_file, the same, behind the end of a file that is not full.    *)
LEMMA AppendStores ==
    ASSUME Consistent, NEW name, NEW buffer \in Buffers, Append_(name, buffer)
    PROVE  \E i \in Slot : \E nb, want :
               /\ inode_table[i].size < max_size
               /\ Stores("append", name, buffer, i, nb, inode_table[i].size, want)
<1>1. PICK i \in Slot :
        LET inode == inode_table[InodeOf(i)]
            current_size == inode.size
            append_size == Min2(Len(buffer), max_size - current_size)
            used_in_last_block == OffAt(current_size)
            space_left_in_last ==
                IF used_in_last_block = 0 /\ current_size > 0
                THEN 0 ELSE BLOCK_SIZE - used_in_last_block
            needed_blocks == CeilBlocks(Max2(append_size - space_left_in_last, 0))
        IN  /\ Granted(name, i, "write")
            /\ current_size < max_size
            /\ \E nb \in Allocations(inode.blocks, needed_blocks) :
                  LET allocated == Cardinality(DOMAIN nb)
                  IN  Store("append", i, nb, current_size, buffer,
                            IF allocated < needed_blocks
                            THEN space_left_in_last + allocated * BLOCK_SIZE
                            ELSE append_size)
    BY DEF Append_
<1>2. InodeOf(i) = i /\ inode_table[i].inode_number = i + 1
    BY <1>1, FoundEntry DEF Granted
<1>. DEFINE size == inode_table[i].size
            append_size == Min2(Len(buffer), max_size - size)
            left == IF OffAt(size) = 0 /\ size > 0
                    THEN 0 ELSE BLOCK_SIZE - OffAt(size)
            overflow == Max2(append_size - left, 0)
            needed_blocks == CeilBlocks(overflow)
            want(nb) == IF Cardinality(DOMAIN nb) < needed_blocks
                        THEN left + Cardinality(DOMAIN nb) * BLOCK_SIZE
                        ELSE append_size
<1>3. size < max_size
    BY <1>1, <1>2
<1>4. PICK nb \in Allocations(inode_table[i].blocks, needed_blocks) :
          Store("append", i, nb, size, buffer, want(nb))
    BY <1>1, <1>2
<1>5. Len(buffer) \in Nat /\ max_size \in Nat
    BY FileSystemAssumption DEF max_size
<1>6. inode_table[i].blocks \in BlockPtrs /\ size \in Nat
    BY DEF Consistent, TypeOK, Inodes, BlockPtrs
<1>. HIDE DEF size
<1>7. /\ append_size \in Nat
      /\ append_size <= Len(buffer)
      /\ size + append_size <= max_size
    BY <1>3, <1>5, <1>6 DEF Min2
<1>8. left \in Nat
    BY <1>6, FileSystemAssumption DEF OffAt
<1>. HIDE DEF append_size, left
<1>9. overflow \in Nat
    BY <1>7, <1>8 DEF Max2
<1>10. needed_blocks \in Nat
    <2>. HIDE DEF overflow
    <2>. QED  BY <1>9, CeilType
<1>11. Cardinality(DOMAIN nb) \in Nat
    <2>. HIDE DEF needed_blocks
    <2>. QED  BY <1>4, <1>6, <1>10, AllocationFacts
<1>12. want(nb) \in Nat /\ want(nb) <= append_size
    <2>1. CASE Cardinality(DOMAIN nb) < needed_blocks
        <3>. DEFINE k == Cardinality(DOMAIN nb)
        <3>1. k \in Nat /\ k < CeilBlocks(overflow)
            BY <1>11, <2>1
        <3>. HIDE DEF k, overflow
        <3>2. k * BLOCK_SIZE \in Nat /\ k * BLOCK_SIZE < overflow
            BY <1>9, <3>1, CeilBelow, BlocksMonotone
        <3>3. left + k * BLOCK_SIZE \in Nat /\ left + k * BLOCK_SIZE <= append_size
            BY <1>7, <1>8, <3>2 DEF overflow, Max2
        <3>. QED  BY <2>1, <3>3 DEF k
    <2>2. CASE ~(Cardinality(DOMAIN nb) < needed_blocks)
        <3>. HIDE DEF needed_blocks
        <3>. QED  BY <1>7, <2>2
    <2>. QED  BY <2>1, <2>2
<1>. HIDE DEF needed_blocks, want
<1>13. want(nb) <= Len(buffer) /\ size + want(nb) <= max_size
    BY <1>5, <1>6, <1>7, <1>12
<1>14. Stores("append", name, buffer, i, nb, size, want(nb))
    BY <1>1, <1>2, <1>4, <1>10, <1>12, <1>13 DEF Stores
<1>. QED  BY <1>3, <1>14 DEF size

(* So both leave a consistent disk.                                        *)
LEMMA StoresConsistent ==
    ASSUME Consistent, NEW call, NEW name, NEW buffer \in Buffers,
           NEW i \in Slot, NEW nb, NEW from \in {0, inode_table[i].size}, NEW want,
           Stores(call, name, buffer, i, nb, from, want)
    PROVE  Consistent'
<1>1. PICK required \in Nat : nb \in Allocations(inode_table[i].blocks, required)
    BY DEF Stores
<1>. QED  BY <1>1, StoreConsistent DEF Stores

(* write_file.                                                             *)
LEMMA WriteConsistent ==
    ASSUME Consistent, NEW name, NEW buffer \in Buffers, Write(name, buffer)
    PROVE  Consistent'
BY WriteStores, StoresConsistent

(* append_to_file.                                                         *)
LEMMA AppendConsistent ==
    ASSUME Consistent, NEW name, NEW buffer \in Buffers, Append_(name, buffer)
    PROVE  Consistent'
BY AppendStores, StoresConsistent

-----------------------------------------------------------------------------
(* Every call keeps the disk consistent.                                   *)
LEMMA NextConsistent == Consistent /\ [Next]_vars => Consistent'
<1>. SUFFICES ASSUME Consistent, [Next]_vars
              PROVE  Consistent'
    OBVIOUS
<1>1. CASE UNCHANGED vars
    BY <1>1, UnchangedConsistent DEF vars, disk
<1>2. ASSUME NEW name \in Names, CreateNoInode(name)
      PROVE  Consistent'
    BY <1>2, UnchangedConsistent DEF CreateNoInode
<1>3. ASSUME NEW name \in Names, CreateNoBlock(name)
      PROVE  Consistent'
    BY <1>3, CreateNoBlockConsistent
<1>4. ASSUME NEW name \in Names, Create(name)
      PROVE  Consistent'
    BY <1>4, CreateConsistent
<1>5. ASSUME NEW name \in Names, Delete(name)
      PROVE  Consistent'
    BY <1>5, DeleteConsistent
<1>6. ASSUME NEW name \in Names, NEW call, NEW asked, NotFound(call, asked, name)
      PROVE  Consistent'
    BY <1>6, UnchangedConsistent DEF NotFound
<1>7. ASSUME NEW name \in Names, NEW call, NEW asked, NEW mode,
             Denied(call, asked, mode, name)
      PROVE  Consistent'
    BY <1>7, UnchangedConsistent DEF Denied
<1>8. ASSUME NEW name \in Names, NEW permissions \in Permissions,
             Chmod(name, permissions)
      PROVE  Consistent'
    BY <1>8, ChmodConsistent
<1>9. ASSUME NEW name \in Names, NEW size \in ReadSizes, Read(name, size)
      PROVE  Consistent'
    BY <1>9, UnchangedConsistent DEF Read
<1>10. ASSUME NEW name \in Names, NEW buffer \in Buffers, Write(name, buffer)
       PROVE  Consistent'
    BY <1>10, WriteConsistent
<1>11. ASSUME NEW name \in Names, NEW buffer \in Buffers, Append_(name, buffer)
       PROVE  Consistent'
    BY <1>11, AppendConsistent
<1>12. ASSUME NEW name \in Names, NEW buffer \in Buffers, AppendFull(name, buffer)
       PROVE  Consistent'
    BY <1>12, UnchangedConsistent DEF AppendFull
<1>. QED
    BY <1>1, <1>2, <1>3, <1>4, <1>5, <1>6, <1>7, <1>8, <1>9, <1>10, <1>11,
       <1>12 DEF Next

(* The whole invariant, for every sequence of calls.                       *)
THEOREM AlwaysConsistent == Spec => []Consistent
BY InitConsistent, NextConsistent, PTL DEF Spec

(* The tables of the file system keep their types.                         *)
THEOREM TypeCorrect == Spec => []TypeOK
<1>1. Consistent => TypeOK
    BY DEF Consistent
<1>. QED  BY <1>1, AlwaysConsistent, PTL

(* Directory entries and inodes stay paired, slot by slot: create_file     *)
(* never finds an inode without finding an entry for it.                   *)
THEOREM DirectoryMatchesInodes == Spec => []EntriesMatchInodes
<1>1. Consistent => EntriesMatchInodes
    BY DEF Consistent
<1>. QED  BY <1>1, AlwaysConsistent, PTL

(* No block is leaked, shared or doubly allocated, whatever calls create,  *)
(* grow, cut short and delete files.                                       *)
THEOREM EveryBlockAccounted == Spec => []BlocksAccounted
<1>1. Consistent => BlocksAccounted
    BY DEF Consistent
<1>. QED  BY <1>1, AlwaysConsistent, PTL

(* Every byte below a file's size is in a block of the file.               *)
THEOREM FilesHaveNoHoles == Spec => []NoHoles
<1>1. Consistent => NoHoles
    BY DEF Consistent
<1>. QED  BY <1>1, AlwaysConsistent, PTL

-----------------------------------------------------------------------------
(* The counters of the superblock.                                         *)

(* The inode table, the blocks and the pointers are finite.                *)
LEMMA TablesFinite ==
    /\ IsFiniteSet(Slot) /\ Cardinality(Slot) = MAX_FILES
    /\ IsFiniteSet(Block) /\ Cardinality(Block) = BLOCK_COUNT
    /\ IsFiniteSet(Ptr) /\ Cardinality(Ptr) = MAX_BLOCKS_PER_FILE
<1>1. IsFiniteSet(Slot) /\ Cardinality(Slot) = MAX_FILES
    BY FS_Interval, FileSystemAssumption DEF Slot
<1>2. IsFiniteSet(Block) /\ Cardinality(Block) = BLOCK_COUNT
    BY FS_Interval, FileSystemAssumption DEF Block
<1>3. IsFiniteSet(Ptr) /\ Cardinality(Ptr) = MAX_BLOCKS_PER_FILE
    BY FS_Interval, FileSystemAssumption DEF Ptr
<1>. QED  BY <1>1, <1>2, <1>3

(* Any part of the inodes or of the blocks is counted by a number below    *)
(* the modulus of the counters.                                            *)
LEMMA FreeSubsets ==
    /\ \A S \in SUBSET Slot : /\ IsFiniteSet(S)
                              /\ Cardinality(S) \in 0 .. COUNT_MOD - 1
    /\ \A S \in SUBSET Block : /\ IsFiniteSet(S)
                               /\ Cardinality(S) \in 0 .. COUNT_MOD - 1
<1>1. ASSUME NEW S \in SUBSET Slot
      PROVE  IsFiniteSet(S) /\ Cardinality(S) \in 0 .. COUNT_MOD - 1
    <2>1. IsFiniteSet(S) /\ Cardinality(S) <= MAX_FILES
        BY TablesFinite, FS_Subset
    <2>2. Cardinality(S) \in Nat
        BY <2>1, FS_CardinalityType
    <2>. QED  BY <2>1, <2>2, FileSystemAssumption
<1>2. ASSUME NEW S \in SUBSET Block
      PROVE  IsFiniteSet(S) /\ Cardinality(S) \in 0 .. COUNT_MOD - 1
    <2>1. IsFiniteSet(S) /\ Cardinality(S) <= BLOCK_COUNT
        BY TablesFinite, FS_Subset
    <2>2. Cardinality(S) \in Nat
        BY <2>1, FS_CardinalityType
    <2>. QED  BY <2>1, <2>2, FileSystemAssumption
<1>. QED  BY <1>1, <1>2

(* So are the free inodes and the free blocks.                             *)
LEMMA FreeFinite ==
    /\ IsFiniteSet(FreeInodes) /\ Cardinality(FreeInodes) \in 0 .. COUNT_MOD - 1
    /\ IsFiniteSet(FreeBlocks) /\ Cardinality(FreeBlocks) \in 0 .. COUNT_MOD - 1
<1>1. FreeInodes \in SUBSET Slot /\ FreeBlocks \in SUBSET Block
    BY DEF FreeInodes, FreeBlocks
<1>. QED  BY <1>1, FreeSubsets

(* Different pointers that hold different blocks hold as many blocks.      *)
LEMMA CountImage ==
    ASSUME NEW D, IsFiniteSet(D), NEW f,
           \A s, t \in D : f[s] = f[t] => s = t
    PROVE  /\ IsFiniteSet({f[s] : s \in D})
           /\ Cardinality({f[s] : s \in D}) = Cardinality(D)
<1>. DEFINE g == [s \in D |-> f[s]]
            T == {f[s] : s \in D}
<1>1. g \in Injection(D, T) /\ g \in Surjection(D, T)
    BY DEF Injection, Surjection, IsInjective
<1>. QED  BY <1>1, FS_Surjection

(* A counter of the superblock that goes up or down within its range does  *)
(* not wrap.                                                               *)
LEMMA CountExact ==
    ASSUME NEW x \in 0 .. COUNT_MOD - 1
    PROVE  x % COUNT_MOD = x
BY FileSystemAssumption

(* Enough blocks for every file at its largest: 1024 = 256 * 4 in          *)
(* filesystem.h.                                                           *)
EnoughBlocks == BLOCK_COUNT >= MAX_FILES * MAX_BLOCKS_PER_FILE

(* With enough blocks a free inode leaves a free block: if all were        *)
(* marked, each would hang on a pointer of one of the other inodes, and    *)
(* those are too few.                                                      *)
LEMMA RoomLeft ==
    ASSUME EnoughBlocks, Consistent
    PROVE  RoomForEveryFile
<1>. SUFFICES ASSUME FreeInodes # {}, FreeBlocks = {}
              PROVE  FALSE
    BY DEF RoomForEveryFile
<1>1. PICK i \in Slot : inode_table[i].inode_number = 0
    BY DEF FreeInodes
<1>. DEFINE Others == (Slot \ {i}) \X Ptr
            Holds(p, b) == inode_table[p[1]].blocks[p[2]] = b
            owner == [b \in Block |-> CHOOSE p \in Others : Holds(p, b)]
<1>2. ASSUME NEW b \in Block
      PROVE  \E p \in Others : Holds(p, b)
    <2>1. block_bitmap[b] = 1
        BY DEF FreeBlocks, Consistent, TypeOK
    <2>2. PICK k \in Slot, j \in Ptr : inode_table[k].blocks[j] = b
        BY <2>1 DEF Consistent, BlocksAccounted
    <2>3. b # NONE
        BY DEF Block, NONE
    <2>4. k # i
        BY <1>1, <2>2, <2>3 DEF Consistent, BlocksAccounted
    <2>5. <<k, j>> \in Others /\ Holds(<<k, j>>, b)
        BY <2>2, <2>4
    <2>. QED  BY <2>5
<1>3. ASSUME NEW b \in Block
      PROVE  owner[b] \in Others /\ Holds(owner[b], b)
    <2>1. owner[b] = CHOOSE p \in Others : Holds(p, b)
        OBVIOUS
    <2>. HIDE DEF Holds, Others, owner
    <2>. QED  BY <1>2, <2>1
<1>4. owner \in Injection(Block, Others)
    <2>1. ASSUME NEW b \in Block, NEW c \in Block, owner[b] = owner[c]
          PROVE  b = c
        BY <1>3, <2>1
    <2>2. DOMAIN owner = Block
        OBVIOUS
    <2>3. owner \in [Block -> Others]
        BY <1>3
    <2>. HIDE DEF owner, Others
    <2>. QED  BY <2>1, <2>2, <2>3 DEF Injection, IsInjective
<1>5. /\ IsFiniteSet(Slot \ {i})
      /\ Cardinality(Slot \ {i}) = MAX_FILES - 1
    BY TablesFinite, FS_RemoveElement
<1>6. /\ IsFiniteSet(Others)
      /\ Cardinality(Others) = (MAX_FILES - 1) * MAX_BLOCKS_PER_FILE
    BY <1>5, TablesFinite, FS_Product
<1>7. BLOCK_COUNT <= (MAX_FILES - 1) * MAX_BLOCKS_PER_FILE
    <2>. HIDE DEF Others, owner
    <2>. QED  BY <1>4, <1>6, TablesFinite, FS_Injection
<1>8. (MAX_FILES - 1) * MAX_BLOCKS_PER_FILE
          = MAX_FILES * MAX_BLOCKS_PER_FILE - MAX_BLOCKS_PER_FILE
    BY FileSystemAssumption
<1>9. MAX_FILES * MAX_BLOCKS_PER_FILE \in Nat
    BY FileSystemAssumption
<1>. QED  BY <1>7, <1>8, <1>9, FileSystemAssumption DEF EnoughBlocks

(* The two halves of FreeCounts: the count of blocks is right on every     *)
(* disk, the count of inodes where no free inode meets a full disk.        *)
InodesCounted == sb.free_inodes = Cardinality(FreeInodes)
BlocksCounted == sb.free_blocks = Cardinality(FreeBlocks)

(* create_file takes one inode and one block, and counts each.             *)
LEMMA CreateCounts ==
    ASSUME Consistent, NEW name \in Names, Create(name)
    PROVE  /\ InodesCounted => InodesCounted'
           /\ BlocksCounted => BlocksCounted'
<1>1. PICK i \in FreeInodes, b \in FreeBlocks :
        /\ sb' = [sb EXCEPT !.free_inodes = (@ - 1) % COUNT_MOD,
                            !.free_blocks = (@ - 1) % COUNT_MOD]
        /\ inode_table' = [inode_table EXCEPT ![i] =
              [inode_number |-> i + 1, size |-> 0,
               blocks |-> [@.blocks EXCEPT ![0] = b], permissions |-> Modes]]
        /\ block_bitmap' = [block_bitmap EXCEPT ![b] = 1]
    BY DEF Create
<1>2. /\ inode_table \in [Slot -> Inodes] /\ block_bitmap \in [Block -> {0, 1}]
      /\ sb \in [free_inodes : 0 .. COUNT_MOD - 1, free_blocks : 0 .. COUNT_MOD - 1]
    BY DEF Consistent, TypeOK
<1>3. FreeInodes' = FreeInodes \ {i}
    BY <1>1, <1>2 DEF FreeInodes, Slot
<1>4. FreeBlocks' = FreeBlocks \ {b}
    BY <1>1, <1>2 DEF FreeBlocks
<1>5. /\ Cardinality(FreeInodes') = Cardinality(FreeInodes) - 1
      /\ Cardinality(FreeBlocks') = Cardinality(FreeBlocks) - 1
    BY <1>3, <1>4, FreeFinite, FS_RemoveElement
<1>6. /\ Cardinality(FreeInodes') \in 0 .. COUNT_MOD - 1
      /\ Cardinality(FreeBlocks') \in 0 .. COUNT_MOD - 1
    <2>1. FreeInodes' \in SUBSET Slot /\ FreeBlocks' \in SUBSET Block
        BY DEF FreeInodes, FreeBlocks
    <2>. QED  BY <2>1, FreeSubsets
<1>7. /\ sb'.free_inodes = (sb.free_inodes - 1) % COUNT_MOD
      /\ sb'.free_blocks = (sb.free_blocks - 1) % COUNT_MOD
    BY <1>1, <1>2
<1>. QED  BY <1>5, <1>6, <1>7, CountExact DEF InodesCounted, BlocksCounted

(* delete_file gives back the inode and every block that hung on it: they  *)
(* are different blocks, all of them marked.                               *)
LEMMA DeleteCounts ==
    ASSUME Consistent, Consistent', NEW name, Delete(name)
    PROVE  /\ InodesCounted => InodesCounted'
           /\ BlocksCounted => BlocksCounted'
<1>1. PICK i \in Slot :
        LET blocks == inode_table[InodeOf(i)].blocks
        IN  /\ Granted(name, i, "write")
            /\ block_bitmap' = Released(blocks)
            /\ sb' = CountBack(blocks)
            /\ inode_table' = [inode_table EXCEPT ![InodeOf(i)] = ClearedInode(@)]
    BY DEF Delete
<1>2. InodeOf(i) = i /\ inode_table[i].inode_number = i + 1
    BY <1>1, FoundEntry DEF Granted
<1>. DEFINE blocks == inode_table[i].blocks
            filled == Ptr \ EmptyPtrs(blocks)
            held == {blocks[j] : j \in filled}
<1>3. /\ inode_table \in [Slot -> Inodes] /\ block_bitmap \in [Block -> {0, 1}]
      /\ sb \in [free_inodes : 0 .. COUNT_MOD - 1, free_blocks : 0 .. COUNT_MOD - 1]
      /\ blocks \in [Ptr -> Block \cup {NONE}]
    BY DEF Consistent, TypeOK, Inodes
<1>4. /\ block_bitmap' = [b \in Block |-> IF b \in held THEN 0 ELSE block_bitmap[b]]
      /\ sb'.free_inodes = (sb.free_inodes + 1) % COUNT_MOD
      /\ sb'.free_blocks = (sb.free_blocks + Cardinality(filled)) % COUNT_MOD
      /\ inode_table' = [inode_table EXCEPT ![i] = ClearedInode(@)]
    BY <1>1, <1>2 DEF Released, CountBack
<1>5. FreeInodes' = FreeInodes \cup {i} /\ i \notin FreeInodes
    BY <1>2, <1>3, <1>4 DEF FreeInodes, ClearedInode, Slot
<1>6. ASSUME NEW b \in held
      PROVE  b \in Block /\ block_bitmap[b] = 1
    <2>1. PICK j \in Ptr : blocks[j] = b /\ blocks[j] # NONE
        BY DEF EmptyPtrs
    <2>. QED  BY <1>3, <2>1 DEF Consistent, BlocksAccounted
<1>7. FreeBlocks' = FreeBlocks \cup held /\ FreeBlocks \cap held = {}
    <2>. HIDE DEF held
    <2>. QED  BY <1>3, <1>4, <1>6 DEF FreeBlocks
<1>8. IsFiniteSet(held) /\ Cardinality(held) = Cardinality(filled)
    <2>1. IsFiniteSet(filled)
        BY TablesFinite, FS_Difference
    <2>2. \A s, t \in filled : blocks[s] = blocks[t] => s = t
        BY DEF EmptyPtrs, Consistent, BlocksAccounted
    <2>. HIDE DEF blocks, filled
    <2>. QED  BY <2>1, <2>2, CountImage
<1>9. Cardinality(FreeInodes') = Cardinality(FreeInodes) + 1
    BY <1>5, FreeFinite, FS_AddElement
<1>10. Cardinality(FreeBlocks') = Cardinality(FreeBlocks) + Cardinality(filled)
    <2>. HIDE DEF held, filled
    <2>1. Cardinality(FreeBlocks \cup held)
              = Cardinality(FreeBlocks) + Cardinality(held) - Cardinality({})
        BY <1>7, <1>8, FreeFinite, FS_Union
    <2>2. Cardinality({}) = 0 /\ Cardinality(held) \in Nat
        BY <1>8, FS_EmptySet, FS_CardinalityType
    <2>. QED  BY <1>7, <1>8, <2>1, <2>2, FreeFinite
<1>11. /\ Cardinality(FreeInodes') \in 0 .. COUNT_MOD - 1
       /\ Cardinality(FreeBlocks') \in 0 .. COUNT_MOD - 1
    <2>1. FreeInodes' \in SUBSET Slot /\ FreeBlocks' \in SUBSET Block
        BY DEF FreeInodes, FreeBlocks
    <2>. QED  BY <2>1, FreeSubsets
<1>. HIDE DEF filled
<1>. QED  BY <1>4, <1>9, <1>10, <1>11, CountExact DEF InodesCounted, BlocksCounted

(* write_file and append_to_file take the blocks allocate_blocks found,    *)
(* and count as many.                                                      *)
LEMMA StoreCounts ==
    ASSUME Consistent, NEW call, NEW i \in Slot, InodeOf(i) = i,
           NEW required \in Nat,
           NEW nb \in Allocations(inode_table[i].blocks, required),
           NEW from, NEW buffer, NEW want,
           Store(call, i, nb, from, buffer, want)
    PROVE  /\ InodesCounted => InodesCounted'
           /\ BlocksCounted => BlocksCounted'
<1>1. /\ inode_table \in [Slot -> Inodes] /\ block_bitmap \in [Block -> {0, 1}]
      /\ sb \in [free_inodes : 0 .. COUNT_MOD - 1, free_blocks : 0 .. COUNT_MOD - 1]
      /\ inode_table[i].blocks \in BlockPtrs
    BY DEF Consistent, TypeOK, Inodes, BlockPtrs
<1>2. /\ DOMAIN nb \subseteq Ptr
      /\ nb \in [DOMAIN nb -> FreeBlocks]
      /\ \A s, t \in DOMAIN nb : nb[s] = nb[t] => s = t
    BY <1>1, AllocationFacts DEF EmptyPtrs
<1>3. \A k \in Slot : inode_table'[k].inode_number = inode_table[k].inode_number
    BY <1>1 DEF Store, Inodes
<1>4. FreeInodes' = FreeInodes
    BY <1>3 DEF FreeInodes
<1>5. /\ sb'.free_inodes = sb.free_inodes
      /\ sb'.free_blocks = (sb.free_blocks - Cardinality(DOMAIN nb)) % COUNT_MOD
      /\ block_bitmap' = MarkUsed(nb)
    BY <1>1 DEF Store
<1>6. FreeBlocks' = FreeBlocks \ Taken(nb) /\ Taken(nb) \subseteq FreeBlocks
    BY <1>1, <1>2, <1>5 DEF FreeBlocks, MarkUsed, Taken
<1>7. IsFiniteSet(DOMAIN nb)
    BY <1>2, TablesFinite, FS_Subset
<1>8. Cardinality(Taken(nb)) = Cardinality(DOMAIN nb)
    BY <1>2, <1>7, CountImage DEF Taken
<1>9. FreeBlocks \cap Taken(nb) = Taken(nb)
    BY <1>6
<1>10. Cardinality(FreeBlocks') = Cardinality(FreeBlocks) - Cardinality(DOMAIN nb)
    <2>1. Cardinality(FreeBlocks \ Taken(nb))
              = Cardinality(FreeBlocks) - Cardinality(FreeBlocks \cap Taken(nb))
        BY FreeFinite, FS_Difference
    <2>. QED  BY <1>6, <1>8, <1>9, <2>1
<1>11. Cardinality(FreeBlocks') \in 0 .. COUNT_MOD - 1
    <2>1. FreeBlocks' \in SUBSET Block
        BY DEF FreeBlocks
    <2>. QED  BY <2>1, FreeSubsets
<1>. QED  BY <1>4, <1>5, <1>10, <1>11, CountExact DEF InodesCounted, BlocksCounted

(* Every call keeps the count of blocks, and the count of inodes unless it *)
(* is a create_file that found an inode and no block.                      *)
CountsKept ==
    /\ RoomForEveryFile /\ InodesCounted => InodesCounted'
    /\ BlocksCounted => BlocksCounted'

(* Whatever the call.                                                      *)
LEMMA NextCounts ==
    ASSUME Consistent, [Next]_vars
    PROVE  CountsKept
<1>0. ASSUME UNCHANGED disk
      PROVE  CountsKept
    BY <1>0 DEF disk, InodesCounted, BlocksCounted, FreeInodes, FreeBlocks, CountsKept
<1>1. CASE UNCHANGED vars
    BY <1>0, <1>1 DEF vars, disk
<1>2. ASSUME NEW name \in Names, CreateNoInode(name)
      PROVE  CountsKept
    BY <1>0, <1>2 DEF CreateNoInode
<1>3. ASSUME NEW name \in Names, CreateNoBlock(name)
      PROVE  CountsKept
    <2>1. FreeBlocks' = FreeBlocks /\ sb'.free_blocks = sb.free_blocks
        BY <1>3 DEF CreateNoBlock, FreeBlocks, Consistent, TypeOK
    <2>. QED  BY <1>3, <2>1 DEF CreateNoBlock, RoomForEveryFile, BlocksCounted, CountsKept
<1>4. ASSUME NEW name \in Names, Create(name)
      PROVE  CountsKept
    BY <1>4, CreateCounts DEF CountsKept
<1>5. ASSUME NEW name \in Names, Delete(name)
      PROVE  CountsKept
    BY <1>5, DeleteConsistent, DeleteCounts DEF CountsKept
<1>6. ASSUME NEW name \in Names, NEW call, NEW asked, NotFound(call, asked, name)
      PROVE  CountsKept
    BY <1>0, <1>6 DEF NotFound
<1>7. ASSUME NEW name \in Names, NEW call, NEW asked, NEW mode,
             Denied(call, asked, mode, name)
      PROVE  CountsKept
    BY <1>0, <1>7 DEF Denied
<1>8. ASSUME NEW name \in Names, NEW permissions \in Permissions,
             Chmod(name, permissions)
      PROVE  CountsKept
    <2>1. sb' = sb /\ block_bitmap' = block_bitmap
        BY <1>8 DEF Chmod
    <2>2. \A k \in Slot : inode_table'[k].inode_number = inode_table[k].inode_number
        BY <1>8 DEF Chmod, Consistent, TypeOK, Inodes
    <2>3. FreeInodes' = FreeInodes /\ FreeBlocks' = FreeBlocks
        BY <2>1, <2>2 DEF FreeInodes, FreeBlocks
    <2>. QED  BY <2>1, <2>3 DEF InodesCounted, BlocksCounted, CountsKept
<1>9. ASSUME NEW name \in Names, NEW size \in ReadSizes, Read(name, size)
      PROVE  CountsKept
    BY <1>0, <1>9 DEF Read
<1>10. ASSUME NEW call, NEW name, NEW buffer \in Buffers, NEW i \in Slot, NEW nb,
              NEW from, NEW want, Stores(call, name, buffer, i, nb, from, want)
       PROVE  CountsKept
    <2>1. PICK required \in Nat : nb \in Allocations(inode_table[i].blocks, required)
        BY <1>10 DEF Stores
    <2>. QED  BY <1>10, <2>1, StoreCounts DEF Stores, CountsKept
<1>11. ASSUME NEW name \in Names, NEW buffer \in Buffers,
              Write(name, buffer) \/ Append_(name, buffer)
       PROVE  CountsKept
    <2>1. CASE Write(name, buffer)
        BY <1>10, <2>1, WriteStores
    <2>2. CASE Append_(name, buffer)
        BY <1>10, <2>2, AppendStores
    <2>. QED  BY <1>11, <2>1, <2>2
<1>12. ASSUME NEW name \in Names, NEW buffer \in Buffers, AppendFull(name, buffer)
       PROVE  CountsKept
    BY <1>0, <1>12 DEF AppendFull
<1>. QED
    BY <1>1, <1>2, <1>3, <1>4, <1>5, <1>6, <1>7, <1>8, <1>9, <1>11, <1>12 DEF Next

(* format_disk leaves both counts right.                                   *)
LEMMA InitCounts == Init => InodesCounted /\ BlocksCounted
<1>. SUFFICES ASSUME Init
              PROVE  InodesCounted /\ BlocksCounted
    OBVIOUS
<1>1. FreeInodes = Slot /\ FreeBlocks = Block
    BY DEF Init, FreeInodes, FreeBlocks
<1>. QED  BY <1>1, TablesFinite DEF Init, InodesCounted, BlocksCounted

(* With enough blocks for all files (256 * 4 = 1024), a free inode never   *)
(* meets a full disk: the exit of create_file that forgets to count the    *)
(* inode back is never taken.                                              *)
THEOREM EveryFileHasRoom ==
    ASSUME EnoughBlocks
    PROVE  Spec => []RoomForEveryFile
<1>1. Consistent => RoomForEveryFile
    BY RoomLeft
<1>. QED  BY <1>1, AlwaysConsistent, PTL

(* The count of free blocks is exact on every disk, however full, after    *)
(* every mixture of creations, short writes, appends and deletions.        *)
THEOREM BlockCountExact == Spec => []BlocksCounted
<1>1. Init => BlocksCounted
    BY InitCounts
<1>2. Consistent /\ BlocksCounted /\ [Next]_vars => BlocksCounted'
    BY NextCounts DEF CountsKept
<1>. QED  BY <1>1, <1>2, AlwaysConsistent, PTL DEF Spec

(* With enough blocks both counters of the superblock are exact.           *)
THEOREM CountersExact ==
    ASSUME EnoughBlocks
    PROVE  Spec => []FreeCounts
<1>1. Init => InodesCounted
    BY InitCounts
<1>2. Consistent /\ InodesCounted /\ [Next]_vars => InodesCounted'
    BY NextCounts, RoomLeft DEF CountsKept
<1>3. InodesCounted /\ BlocksCounted => FreeCounts
    BY DEF InodesCounted, BlocksCounted, FreeCounts
<1>. QED  BY <1>1, <1>2, <1>3, AlwaysConsistent, BlockCountExact, PTL DEF Spec

-----------------------------------------------------------------------------
(* The file system implements the store of files, step by step.            *)

(* The files of the store the disk stands for, as ImplementsFileStore      *)
(* maps them.                                                              *)
Files == [i \in Slot |->
             IF root_directory[i].inode_number = 0 THEN NoName
             ELSE LET inode == inode_table[InodeOf(i)]
                  IN  [name    |-> root_directory[i].filename,
                       content |-> Contents(inode.blocks, inode.size),
                       modes   |-> inode.permissions]]

(* A position in a file is a block pointer and an offset in that block.    *)
LEMMA PositionFacts ==
    ASSUME NEW p \in Nat
    PROVE  /\ PtrAt(p) \in Nat /\ OffAt(p) \in Offset
           /\ p = PtrAt(p) * BLOCK_SIZE + OffAt(p)
           /\ PtrAt(p) * BLOCK_SIZE \in Nat
           /\ PtrAt(p) * BLOCK_SIZE <= p
           /\ p < (PtrAt(p) + 1) * BLOCK_SIZE
           /\ p < max_size => PtrAt(p) \in Ptr
<1>. DEFINE q == PtrAt(p)
            B == BLOCK_SIZE
<1>1. B \in Nat /\ B > 0
    BY FileSystemAssumption
<1>2. q \in Nat /\ OffAt(p) \in Offset /\ p = q * B + OffAt(p)
    BY <1>1 DEF PtrAt, OffAt, Offset
<1>3. OffAt(p) \in Nat /\ OffAt(p) < B
    BY <1>1, <1>2 DEF Offset
<1>. HIDE DEF q, B
<1>4. q * B \in Nat /\ (q + 1) * B = q * B + B
    BY <1>1, <1>2
<1>5. q * B <= p /\ p < (q + 1) * B
    BY <1>1, <1>2, <1>3, <1>4
<1>6. ASSUME p < max_size
      PROVE  q \in Ptr
    <2>. DEFINE M == MAX_BLOCKS_PER_FILE
    <2>1. M \in Nat /\ p < M * B
        BY <1>6, FileSystemAssumption DEF max_size, B
    <2>. HIDE DEF M
    <2>2. SUFFICES ASSUME q >= M
                   PROVE  FALSE
        BY <1>2, <2>1 DEF Ptr, M
    <2>3. M * B <= q * B /\ M * B \in Nat
        BY <1>1, <1>2, <2>1, <2>2
    <2>. QED  BY <1>4, <1>5, <2>1, <2>3
<1>. QED  BY <1>2, <1>4, <1>5, <1>6 DEF q, B

(* Every byte below a file's size is in a block of its own.                *)
LEMMA ByteHeld ==
    ASSUME Consistent, NEW i \in Slot, NEW p \in Nat, p < inode_table[i].size
    PROVE  /\ PtrAt(p) \in Ptr
           /\ inode_table[i].blocks[PtrAt(p)] \in Block
           /\ OffAt(p) \in Offset
<1>1. inode_table[i].size \in Nat /\ inode_table[i].blocks \in BlockPtrs
    BY DEF Consistent, TypeOK, Inodes, BlockPtrs
<1>2. inode_table[i].size <= max_size
    BY DEF Consistent, NoHoles
<1>3. max_size \in Nat
    BY FileSystemAssumption DEF max_size
<1>4. /\ PtrAt(p) \in Ptr /\ OffAt(p) \in Offset
      /\ PtrAt(p) * BLOCK_SIZE \in Nat /\ PtrAt(p) * BLOCK_SIZE <= p
    BY <1>1, <1>2, <1>3, PositionFacts
<1>5. PtrAt(p) * BLOCK_SIZE < inode_table[i].size
    BY <1>1, <1>4
<1>6. inode_table[i].blocks[PtrAt(p)] # NONE
    BY <1>4, <1>5 DEF Consistent, NoHoles
<1>. QED  BY <1>1, <1>4, <1>6 DEF BlockPtrs

(* What a file holds is a sequence of bytes, as long as its size.          *)
LEMMA ContentsType ==
    ASSUME Consistent, NEW i \in Slot
    PROVE  LET c == Contents(inode_table[i].blocks, inode_table[i].size)
           IN  c \in Seq(Bytes) /\ Len(c) = inode_table[i].size
<1>. DEFINE n == inode_table[i].size
            blocks == inode_table[i].blocks
            byte(p) == storage[blocks[PtrAt(p - 1)]][OffAt(p - 1)]
<1>1. n \in Nat
    BY DEF Consistent, TypeOK, Inodes
<1>2. ASSUME NEW p \in 1 .. n
      PROVE  byte(p) \in Bytes
    <2>1. p - 1 \in Nat /\ p - 1 < n
        BY <1>1
    <2>2. blocks[PtrAt(p - 1)] \in Block /\ OffAt(p - 1) \in Offset
        BY <2>1, ByteHeld
    <2>. QED  BY <2>2 DEF Consistent, TypeOK
<1>3. Contents(blocks, n) = [p \in 1 .. n |-> byte(p)]
    BY DEF Contents
<1>. HIDE DEF n, blocks, byte
<1>4. [p \in 1 .. n |-> byte(p)] \in Seq(Bytes)
    BY <1>1, <1>2
<1>5. Len([p \in 1 .. n |-> byte(p)]) = n
    BY <1>1
<1>. QED  BY <1>3, <1>4, <1>5 DEF n, blocks

(* The file in a slot whose inode is in use.                               *)
FileAt(i) == [name    |-> root_directory[i].filename,
              content |-> Contents(inode_table[i].blocks, inode_table[i].size),
              modes   |-> inode_table[i].permissions]

(* An entry in use has a name.                                             *)
Named == \A i \in Slot :
    root_directory[i].inode_number # 0 => root_directory[i].filename \in Names

(* What Files maps a consistent disk to.                                   *)
LEMMA FilesFacts ==
    ASSUME Consistent, Named, NEW i \in Slot
    PROVE  /\ inode_table[i].inode_number = 0 => Files[i] = NoName
           /\ inode_table[i].inode_number # 0 =>
                 /\ Files[i] = FileAt(i)
                 /\ Files[i] # NoName
                 /\ Files[i].name = root_directory[i].filename
                 /\ Files[i].content
                       = Contents(inode_table[i].blocks, inode_table[i].size)
                 /\ Files[i].modes = inode_table[i].permissions
<1>1. CASE inode_table[i].inode_number = 0
    BY <1>1 DEF Files, Consistent, EntriesMatchInodes
<1>2. CASE inode_table[i].inode_number # 0
    <2>1. root_directory[i].inode_number = i + 1 /\ InodeOf(i) = i
        BY <1>2 DEF Consistent, EntriesMatchInodes, InodeOf, Slot
    <2>2. i + 1 # 0
        BY DEF Slot
    <2>3. Files[i] = FileAt(i)
        BY <2>1, <2>2 DEF Files, FileAt
    <2>4. Contents(inode_table[i].blocks, inode_table[i].size) \in Seq(Bytes)
        BY ContentsType
    <2>5. root_directory[i].filename \in Names
        BY <2>1, <2>2 DEF Named
    <2>6. inode_table[i].permissions \in SUBSET Modes
        BY DEF Consistent, TypeOK, Inodes
    <2>7. FileAt(i) \in [name : Names, content : Seq(Bytes), modes : SUBSET Modes]
        BY <2>4, <2>5, <2>6 DEF FileAt
    <2>8. FileAt(i) # NoName
        BY <2>7, NoNameAssumption
    <2>. QED  BY <1>2, <2>3, <2>8 DEF FileAt
<1>. QED  BY <1>1, <1>2

(* The disk is consistent and every file has a name.                       *)
StoreInv == Consistent /\ Named

(* Entries get the names callers pass; delete_file clears the name with    *)
(* the number.                                                             *)
LEMMA NextNamed ==
    ASSUME StoreInv, [Next]_vars
    PROVE  Named'
<1>. USE DEF StoreInv
<1>0. ASSUME root_directory' = root_directory
      PROVE  Named'
    BY <1>0 DEF Named
<1>1. ASSUME NEW name \in Names, Create(name)
      PROVE  Named'
    BY <1>1 DEF Create, Named
<1>2. ASSUME NEW name \in Names, Delete(name)
      PROVE  Named'
    <2>1. PICK i \in Slot :
              root_directory' = [root_directory EXCEPT ![i] = ClearedEntry(@)]
        BY <1>2 DEF Delete
    <2>. QED  BY <2>1 DEF Named, ClearedEntry, Consistent, TypeOK
<1>3. ASSUME NEW name \in Names, NEW call, NEW asked, NEW mode,
             \/ CreateNoInode(name) \/ CreateNoBlock(name)
             \/ NotFound(call, asked, name) \/ Denied(call, asked, mode, name)
             \/ \E permissions \in Permissions : Chmod(name, permissions)
             \/ \E size \in ReadSizes : Read(name, size)
             \/ \E buffer \in Buffers : AppendFull(name, buffer)
      PROVE  Named'
    BY <1>0, <1>3 DEF CreateNoInode, CreateNoBlock, NotFound, Denied, Chmod, Read,
                      AppendFull, disk
<1>4. ASSUME NEW name \in Names, NEW buffer \in Buffers,
             Write(name, buffer) \/ Append_(name, buffer)
      PROVE  Named'
    <2>1. root_directory' = root_directory
        BY <1>4, WriteStores, AppendStores DEF Stores, Store
    <2>. QED  BY <1>0, <2>1
<1>5. CASE UNCHANGED vars
    BY <1>0, <1>5 DEF vars
<1>. QED  BY <1>1, <1>2, <1>3, <1>4, <1>5 DEF Next

(* The actions of the store, with Files for its files.                     *)
LEMMA StoreActions ==
    ASSUME NEW name
    PROVE  /\ \A i : Store_!Has(name, i) <=>
                         Files[i] # NoName /\ Files[i].name = name
           /\ Store_!Create(name) <=>
                 \/ \E i \in Slot :
                       /\ Files[i] = NoName
                       /\ Files' = [Files EXCEPT ![i] =
                             [name |-> name, content |-> <<>>, modes |-> Modes]]
                       /\ last' = Result("create", 0, i)
                 \/ Files' = Files /\ last' = Result("create", 0, -1)
           /\ Store_!Delete(name) <=>
                 \E i \in Slot :
                    /\ Store_!First(name, i) /\ "write" \in Files[i].modes
                    /\ Files' = [Files EXCEPT ![i] = NoName]
                    /\ last' = Result("delete", 0, 0)
           /\ \A call, asked, mode : Store_!Refused(call, asked, name, mode) <=>
                 /\ \A i \in Slot : Store_!First(name, i) => mode \notin Files[i].modes
                 /\ Files' = Files
                 /\ last' = Result(call, asked, -1)
           /\ \A modes : Store_!Chmod(name, modes) <=>
                 \/ \E i \in Slot :
                       /\ Store_!First(name, i)
                       /\ Files' = [Files EXCEPT ![i].modes = modes]
                       /\ last' = Result("chmod", 0, 0)
                 \/ /\ \A i \in Slot : ~Store_!Has(name, i)
                    /\ Files' = Files
                    /\ last' = Result("chmod", 0, -1)
<1>1. \A i : Store_!Has(name, i) <=> Files[i] # NoName /\ Files[i].name = name
    BY DEF Store_!Has, Files
<1>2. Store_!Create(name) <=>
          \/ \E i \in Slot :
                /\ Files[i] = NoName
                /\ Files' = [Files EXCEPT ![i] =
                      [name |-> name, content |-> <<>>, modes |-> Modes]]
                /\ last' = Result("create", 0, i)
          \/ Files' = Files /\ last' = Result("create", 0, -1)
    BY DEF Store_!Create, Store_!Answer, Files, Result
<1>3. Store_!Delete(name) <=>
          \E i \in Slot :
             /\ Store_!First(name, i) /\ "write" \in Files[i].modes
             /\ Files' = [Files EXCEPT ![i] = NoName]
             /\ last' = Result("delete", 0, 0)
    BY DEF Store_!Delete, Store_!Answer, Files, Result
<1>4. ASSUME NEW call, NEW asked, NEW mode
      PROVE  Store_!Refused(call, asked, name, mode) <=>
                 /\ \A i \in Slot : Store_!First(name, i) => mode \notin Files[i].modes
                 /\ Files' = Files
                 /\ last' = Result(call, asked, -1)
    BY DEF Store_!Refused, Store_!Answer, Files, Result
<1>5. ASSUME NEW modes
      PROVE  Store_!Chmod(name, modes) <=>
                 \/ \E i \in Slot :
                       /\ Store_!First(name, i)
                       /\ Files' = [Files EXCEPT ![i].modes = modes]
                       /\ last' = Result("chmod", 0, 0)
                 \/ /\ \A i \in Slot : ~Store_!Has(name, i)
                    /\ Files' = Files
                    /\ last' = Result("chmod", 0, -1)
    BY DEF Store_!Chmod, Store_!Answer, Files, Result
<1>. QED  BY <1>1, <1>2, <1>3, <1>4, <1>5

(* A read of the store.                                                    *)
LEMMA StoreRead ==
    ASSUME NEW name, NEW i \in Slot, Store_!First(name, i), NEW size,
           "read" \in Files[i].modes,
           LET n == IF size < Len(Files[i].content) THEN size
                                                    ELSE Len(Files[i].content)
           IN  last' = [call |-> "read", asked |-> size, ret |-> n,
                        data |-> SubSeq(Files[i].content, 1, n)],
           Files' = Files
    PROVE  Store_!Read(name, size)
BY DEF Store_!Read, Store_!Answer, Files

(* A write or an append of the store that keeps n bytes of the buffer.     *)
LEMMA StorePut ==
    ASSUME NEW call, NEW i, NEW kept, NEW buffer, NEW n \in 0 .. Len(buffer),
           Len(kept) + n <= max_size,
           Files' = [Files EXCEPT ![i].content = kept \o SubSeq(buffer, 1, n)],
           last' = Result(call, Len(buffer), n)
    PROVE  Store_!Put(call, i, kept, buffer)
BY DEF Store_!Put, Store_!Answer, Files, Result

(* A write of the store.                                                   *)
LEMMA StoreWrite ==
    ASSUME NEW name, NEW i \in Slot, Store_!First(name, i), NEW buffer,
           "write" \in Files[i].modes,
           Store_!Put("write", i, <<>>, buffer)
    PROVE  Store_!Write(name, buffer)
BY DEF Store_!Write, Files

(* An append of the store.                                                 *)
LEMMA StoreAppend ==
    ASSUME NEW name, NEW i \in Slot, Store_!First(name, i), NEW buffer,
           "write" \in Files[i].modes,
           IF Len(Files[i].content) = max_size
           THEN Files' = Files /\ last' = Result("append", Len(buffer), -1)
           ELSE Store_!Put("append", i, Files[i].content, buffer)
    PROVE  Store_!Append_(name, buffer)
BY DEF Store_!Append_, Store_!Answer, Files, Result

(* The store finds the file the loops over root_directory stop at.         *)
LEMMA FirstFinds ==
    ASSUME StoreInv, NEW name
    PROVE  /\ \A i \in Slot : Store_!Has(name, i) <=> i \in Matches(name)
           /\ \A i \in Slot : Store_!First(name, i) <=> Finds(name, i)
<1>1. ASSUME NEW i \in Slot
      PROVE  Store_!Has(name, i) <=> i \in Matches(name)
    <2>1. root_directory[i].inode_number = inode_table[i].inode_number
        BY DEF StoreInv, Consistent, EntriesMatchInodes
    <2>2. Store_!Has(name, i) <=> Files[i] # NoName /\ Files[i].name = name
        BY StoreActions
    <2>. QED  BY <2>1, <2>2, FilesFacts DEF StoreInv, Matches
<1>2. Matches(name) \subseteq Slot
    BY DEF Matches
<1>. QED  BY <1>1, <1>2 DEF Store_!First, Finds, IsLeast

(* A call that leaves the disk leaves the files.                           *)
LEMMA SameFiles == UNCHANGED disk => Files' = Files
BY DEF disk, Files, InodeOf, Contents

(* FilesFacts, for every slot at once.                                     *)
FilesMapped ==
    \A i \in Slot :
        /\ inode_table[i].inode_number = 0 => Files[i] = NoName
        /\ inode_table[i].inode_number # 0 => Files[i] = FileAt(i)

(* It holds of the disk ...                                                *)
LEMMA NowMapped == StoreInv => FilesMapped
BY FilesFacts DEF StoreInv, FilesMapped

(* ... and of the disk after a call.                                       *)
LEMMA NextMapped == StoreInv' => FilesMapped'
BY NowMapped, PTL

(* The files differ in one slot at most.                                   *)
LEMMA OneFileChanges ==
    ASSUME NEW i \in Slot, NEW f, Files'[i] = f,
           \A k \in Slot \ {i} : Files'[k] = Files[k]
    PROVE  Files' = [Files EXCEPT ![i] = f]
<1>1. Files = [k \in Slot |-> Files[k]] /\ Files' = [k \in Slot |-> Files'[k]]
    BY DEF Files
<1>. QED  BY <1>1

(* A file whose entry, inode and blocks stay is the same file.             *)
LEMMA FileStays ==
    ASSUME StoreInv, StoreInv', NEW k \in Slot,
           root_directory'[k] = root_directory[k],
           inode_table'[k] = inode_table[k],
           Contents(inode_table[k].blocks, inode_table[k].size)'
               = Contents(inode_table[k].blocks, inode_table[k].size)
    PROVE  Files'[k] = Files[k]
<1>1. CASE inode_table[k].inode_number = 0
    BY <1>1, NowMapped, NextMapped DEF FilesMapped
<1>2. CASE inode_table[k].inode_number # 0
    <2>1. FileAt(k)' = FileAt(k)
        BY DEF FileAt
    <2>. QED  BY <1>2, <2>1, NowMapped, NextMapped DEF FilesMapped
<1>. QED  BY <1>1, <1>2

(* create_file.                                                            *)
LEMMA CreateImplements ==
    ASSUME StoreInv, StoreInv', NEW name \in Names, Create(name)
    PROVE  Store_!Create(name)
<1>1. PICK i \in FreeInodes, b \in FreeBlocks :
        /\ IsLeast(i, FreeInodes) /\ IsLeast(b, FreeBlocks)
        /\ inode_table' = [inode_table EXCEPT ![i] =
              [inode_number |-> i + 1, size |-> 0,
               blocks |-> [@.blocks EXCEPT ![0] = b], permissions |-> Modes]]
        /\ root_directory' =
              [e \in Slot |-> IF IsLeast(e, FreeEntries)
                              THEN [filename |-> name, inode_number |-> i + 1]
                              ELSE root_directory[e]]
        /\ last' = Result("create", 0, IF FreeEntries = {} THEN -1 ELSE i)
        /\ UNCHANGED storage
    BY DEF Create
<1>2. i \in Slot /\ inode_table[i].inode_number = 0 /\ i + 1 # 0
    BY DEF FreeInodes, Slot
<1>3. FreeEntries = FreeInodes
    BY DEF StoreInv, Consistent, EntriesMatchInodes, FreeEntries, FreeInodes
<1>4. \A e \in Slot : IsLeast(e, FreeEntries) <=> e = i
    BY <1>1, <1>3 DEF IsLeast, FreeInodes, Slot
<1>5. inode_table \in [Slot -> Inodes]
    BY DEF StoreInv, Consistent, TypeOK
<1>6. \A k \in Slot \ {i} : /\ inode_table'[k] = inode_table[k]
                            /\ root_directory'[k] = root_directory[k]
    BY <1>1, <1>2, <1>4, <1>5
<1>7. ASSUME NEW k \in Slot \ {i}
      PROVE  Files'[k] = Files[k]
    <2>1. Contents(inode_table[k].blocks, inode_table[k].size)'
              = Contents(inode_table[k].blocks, inode_table[k].size)
        BY <1>1, <1>6 DEF Contents
    <2>. QED  BY <1>6, <2>1, FileStays
<1>8. Files'[i] = [name |-> name, content |-> <<>>, modes |-> Modes]
    <2>1. /\ inode_table'[i].inode_number = i + 1
          /\ inode_table'[i].size = 0
          /\ inode_table'[i].permissions = Modes
          /\ root_directory'[i].filename = name
        BY <1>1, <1>2, <1>4, <1>5
    <2>2. Contents(inode_table[i].blocks, inode_table[i].size)' = <<>>
        BY <2>1 DEF Contents
    <2>3. Files'[i] = FileAt(i)'
        BY <1>2, <2>1, NextMapped DEF FilesMapped
    <2>. QED  BY <2>1, <2>2, <2>3 DEF FileAt
<1>9. Files[i] = NoName
    BY <1>2, NowMapped DEF FilesMapped
<1>10. Files' = [Files EXCEPT ![i] = [name |-> name, content |-> <<>>, modes |-> Modes]]
    BY <1>2, <1>7, <1>8, OneFileChanges
<1>11. last' = Result("create", 0, i)
    BY <1>1, <1>3
<1>. QED  BY <1>2, <1>9, <1>10, <1>11, StoreActions

(* delete_file.                                                            *)
LEMMA DeleteImplements ==
    ASSUME StoreInv, StoreInv', NEW name, Delete(name)
    PROVE  Store_!Delete(name)
<1>1. PICK i \in Slot :
            /\ Granted(name, i, "write")
            /\ inode_table' = [inode_table EXCEPT ![InodeOf(i)] = ClearedInode(@)]
            /\ root_directory' = [root_directory EXCEPT ![i] = ClearedEntry(@)]
            /\ last' = Result("delete", 0, 0)
            /\ UNCHANGED storage
    BY DEF Delete
<1>2. InodeOf(i) = i /\ inode_table[i].inode_number = i + 1 /\ i + 1 # 0
    BY <1>1, FoundEntry DEF Granted, StoreInv, Slot
<1>3. inode_table \in [Slot -> Inodes] /\ root_directory \in [Slot -> Entries]
    BY DEF StoreInv, Consistent, TypeOK
<1>4. ASSUME NEW k \in Slot \ {i}
      PROVE  Files'[k] = Files[k]
    <2>1. inode_table'[k] = inode_table[k] /\ root_directory'[k] = root_directory[k]
        BY <1>1, <1>2, <1>3
    <2>2. Contents(inode_table[k].blocks, inode_table[k].size)'
              = Contents(inode_table[k].blocks, inode_table[k].size)
        BY <1>1, <2>1 DEF Contents
    <2>. QED  BY <2>1, <2>2, FileStays
<1>5. Files'[i] = NoName
    <2>1. inode_table'[i].inode_number = 0
        BY <1>1, <1>2, <1>3 DEF ClearedInode
    <2>. QED  BY <2>1, NextMapped DEF FilesMapped
<1>6. Files' = [Files EXCEPT ![i] = NoName]
    BY <1>4, <1>5, OneFileChanges
<1>7. Store_!First(name, i) /\ "write" \in Files[i].modes
    <2>1. Files[i] = FileAt(i)
        BY <1>2, NowMapped DEF FilesMapped
    <2>. QED  BY <1>1, <1>2, <2>1, FirstFinds DEF Granted, FileAt
<1>. QED  BY <1>1, <1>6, <1>7, StoreActions

(* chmod_file.                                                             *)
LEMMA ChmodImplements ==
    ASSUME StoreInv, StoreInv', NEW name, NEW permissions, Chmod(name, permissions)
    PROVE  Store_!Chmod(name, permissions)
<1>1. PICK i \in Slot :
        /\ Finds(name, i)
        /\ inode_table' =
              [inode_table EXCEPT ![InodeOf(i)].permissions = permissions]
        /\ last' = Result("chmod", 0, 0)
        /\ UNCHANGED <<sb, root_directory, storage, block_bitmap>>
    BY DEF Chmod
<1>2. InodeOf(i) = i /\ inode_table[i].inode_number = i + 1 /\ i + 1 # 0
    BY <1>1, FoundEntry DEF StoreInv, Slot
<1>3. inode_table \in [Slot -> Inodes]
    BY DEF StoreInv, Consistent, TypeOK
<1>4. ASSUME NEW k \in Slot \ {i}
      PROVE  Files'[k] = Files[k]
    <2>1. inode_table'[k] = inode_table[k] /\ root_directory'[k] = root_directory[k]
        BY <1>1, <1>2, <1>3
    <2>2. Contents(inode_table[k].blocks, inode_table[k].size)'
              = Contents(inode_table[k].blocks, inode_table[k].size)
        BY <1>1, <2>1 DEF Contents
    <2>. QED  BY <2>1, <2>2, FileStays
<1>5. Files[i] = FileAt(i)
    BY <1>2, NowMapped DEF FilesMapped
<1>6. Files'[i] = [Files[i] EXCEPT !.modes = permissions]
    <2>1. /\ inode_table'[i].inode_number = i + 1
          /\ inode_table'[i].size = inode_table[i].size
          /\ inode_table'[i].blocks = inode_table[i].blocks
          /\ inode_table'[i].permissions = permissions
        BY <1>1, <1>2, <1>3 DEF Inodes
    <2>2. Files'[i] = FileAt(i)'
        BY <1>2, <2>1, NextMapped DEF FilesMapped
    <2>3. Contents(inode_table[i].blocks, inode_table[i].size)'
              = Contents(inode_table[i].blocks, inode_table[i].size)
        BY <1>1, <2>1 DEF Contents
    <2>. QED  BY <1>1, <1>5, <2>1, <2>2, <2>3 DEF FileAt
<1>7. Files' = [Files EXCEPT ![i].modes = permissions]
    <2>1. Files' = [Files EXCEPT ![i] = [Files[i] EXCEPT !.modes = permissions]]
        BY <1>4, <1>6, OneFileChanges
    <2>. QED  BY <2>1
<1>. QED  BY <1>1, <1>7, FirstFinds, StoreActions

(* A call on a name the directory does not hold, or that the permissions   *)
(* of the file forbid, is refused.                                         *)
LEMMA RefusalsImplement ==
    ASSUME StoreInv, NEW call, NEW asked, NEW name, NEW mode,
           NotFound(call, asked, name) \/ Denied(call, asked, mode, name)
    PROVE  Store_!Refused(call, asked, name, mode)
<1>1. UNCHANGED disk /\ last' = Result(call, asked, -1)
    BY DEF NotFound, Denied
<1>2. ASSUME NEW k \in Slot, Store_!First(name, k)
      PROVE  mode \notin Files[k].modes
    <2>1. Finds(name, k)
        BY <1>2, FirstFinds
    <2>2. CASE NotFound(call, asked, name)
        BY <2>1, <2>2 DEF NotFound, Finds, IsLeast
    <2>3. CASE Denied(call, asked, mode, name)
        <3>1. PICK i \in Slot :
                 Finds(name, i) /\ mode \notin inode_table[InodeOf(i)].permissions
            BY <2>3 DEF Denied
        <3>2. i = k
            BY <2>1, <3>1 DEF Finds, IsLeast, Slot
        <3>3. InodeOf(i) = i /\ inode_table[i].inode_number = i + 1 /\ i + 1 # 0
            BY <3>1, FoundEntry DEF StoreInv, Slot
        <3>4. Files[k] = FileAt(k)
            BY <3>2, <3>3, NowMapped DEF FilesMapped
        <3>. QED  BY <3>1, <3>2, <3>3, <3>4 DEF FileAt
    <2>. QED  BY <2>2, <2>3
<1>. QED  BY <1>1, <1>2, SameFiles, StoreActions

(* chmod_file of a name the directory does not hold.                       *)
LEMMA ChmodNotFoundImplements ==
    ASSUME StoreInv, NEW name, NEW permissions, NotFound("chmod", 0, name)
    PROVE  Store_!Chmod(name, permissions)
<1>1. \A i \in Slot : ~Store_!Has(name, i)
    BY FirstFinds DEF NotFound
<1>2. Files' = Files /\ last' = Result("chmod", 0, -1)
    BY SameFiles DEF NotFound
<1>. QED  BY <1>1, <1>2, StoreActions

(* create_file that fails.                                                 *)
LEMMA CreateFailsImplements ==
    ASSUME NEW name, CreateNoInode(name) \/ CreateNoBlock(name)
    PROVE  Store_!Create(name)
<1>1. last' = Result("create", 0, -1)
    BY DEF CreateNoInode, CreateNoBlock
<1>2. Files' = Files
    BY DEF CreateNoInode, CreateNoBlock, disk, Files, InodeOf, Contents
<1>. QED  BY <1>1, <1>2, StoreActions

(* read_file copies the whole beginning of the file it is asked for: no    *)
(* block pointer below the size is empty.                                  *)
LEMMA ReadImplements ==
    ASSUME StoreInv, NEW name, NEW size \in ReadSizes, Read(name, size)
    PROVE  Store_!Read(name, size)
<1>1. PICK i \in Slot :
        LET inode == inode_table[InodeOf(i)]
            read == Transferred(inode.blocks, 0, Min2(size, inode.size))
        IN  /\ Granted(name, i, "read")
            /\ last' = [call |-> "read", asked |-> size, ret |-> read,
                        data |-> Contents(inode.blocks, read)]
            /\ UNCHANGED disk
    BY DEF Read
<1>2. InodeOf(i) = i /\ inode_table[i].inode_number = i + 1 /\ i + 1 # 0
    BY <1>1, FoundEntry DEF Granted, StoreInv, Slot
<1>. DEFINE blocks == inode_table[i].blocks
            n == Min2(size, inode_table[i].size)
<1>3. size \in Nat /\ inode_table[i].size \in Nat
    BY FileSystemAssumption DEF StoreInv, Consistent, TypeOK, Inodes
<1>4. n \in Nat /\ n <= inode_table[i].size
    BY <1>3 DEF Min2
<1>5. Transferred(blocks, 0, n) = n
    <2>1. ASSUME NEW b \in Ptr, b * BLOCK_SIZE < 0 + n
          PROVE  blocks[b] # NONE
        <3>1. b * BLOCK_SIZE \in Nat
            BY BlocksMonotone DEF Ptr
        <3>2. b * BLOCK_SIZE < inode_table[i].size
            BY <1>3, <1>4, <2>1, <3>1
        <3>. QED  BY <3>2 DEF StoreInv, Consistent, NoHoles
    <2>2. {b \in Ptr : /\ 0 < (b + 1) * BLOCK_SIZE
                       /\ b * BLOCK_SIZE < 0 + n
                       /\ blocks[b] = NONE} = {}
        <3>. HIDE DEF n, blocks
        <3>. QED  BY <2>1
    <2>. HIDE DEF n, blocks
    <2>. QED  BY <2>2 DEF Transferred
<1>6. last' = [call |-> "read", asked |-> size, ret |-> n,
               data |-> Contents(blocks, n)]
    BY <1>1, <1>2, <1>5
<1>7. Files[i] = FileAt(i)
    BY <1>2, NowMapped DEF FilesMapped
<1>. DEFINE content == Contents(blocks, inode_table[i].size)
<1>8. /\ Files[i].content = content
      /\ Files[i].modes = inode_table[i].permissions
    BY <1>7 DEF FileAt
<1>9. content \in Seq(Bytes) /\ Len(content) = inode_table[i].size
    BY ContentsType DEF StoreInv
<1>10. Contents(blocks, n) = SubSeq(content, 1, n)
    <2>1. SubSeq(content, 1, n) = [p \in 1 .. n |-> content[p]]
        <3>. HIDE DEF content, n
        <3>1. SubSeq(content, 1, n) = [p \in 1 .. (1 + n - 1) |-> content[p + 1 - 1]]
            BY <1>4, <1>9
        <3>. QED  BY <1>4, <3>1
    <2>2. \A p \in 1 .. n : content[p] = storage[blocks[PtrAt(p - 1)]][OffAt(p - 1)]
        <3>. HIDE DEF n, blocks
        <3>1. \A p \in 1 .. n : p \in 1 .. inode_table[i].size
            BY <1>3, <1>4
        <3>. QED  BY <3>1 DEF Contents, content
    <2>. HIDE DEF content, n, blocks
    <2>. QED  BY <2>1, <2>2 DEF Contents
<1>11. n = IF size < Len(content) THEN size ELSE Len(content)
    BY <1>3, <1>9 DEF Min2
<1>12. Store_!First(name, i) /\ "read" \in Files[i].modes
    BY <1>1, <1>2, <1>8, FirstFinds DEF Granted
<1>13. Files' = Files
    BY <1>1, SameFiles
<1>. HIDE DEF n, content, blocks
<1>. QED  BY <1>6, <1>8, <1>10, <1>11, <1>12, <1>13, StoreRead

(* append_to_file of a file as long as a file can be.                      *)
LEMMA AppendFullImplements ==
    ASSUME StoreInv, NEW name, NEW buffer, AppendFull(name, buffer)
    PROVE  Store_!Append_(name, buffer)
<1>1. PICK i \in Slot :
        /\ Granted(name, i, "write")
        /\ inode_table[InodeOf(i)].size >= max_size
        /\ last' = Result("append", Len(buffer), -1)
        /\ UNCHANGED disk
    BY DEF AppendFull
<1>2. InodeOf(i) = i /\ inode_table[i].inode_number = i + 1 /\ i + 1 # 0
    BY <1>1, FoundEntry DEF Granted, StoreInv, Slot
<1>3. inode_table[i].size = max_size
    <2>1. inode_table[i].size \in Nat /\ max_size \in Nat
        BY FileSystemAssumption DEF StoreInv, Consistent, TypeOK, Inodes, max_size
    <2>2. inode_table[i].size <= max_size
        BY DEF StoreInv, Consistent, NoHoles
    <2>. QED  BY <1>1, <1>2, <2>1, <2>2
<1>4. Files[i] = FileAt(i)
    BY <1>2, NowMapped DEF FilesMapped
<1>5. Len(Files[i].content) = max_size /\ Files[i].modes = inode_table[i].permissions
    BY <1>3, <1>4, ContentsType DEF FileAt, StoreInv
<1>6. Store_!First(name, i) /\ "write" \in Files[i].modes
    BY <1>1, <1>2, <1>5, FirstFinds DEF Granted
<1>. QED  BY <1>1, <1>5, <1>6, SameFiles, StoreAppend

(* The copy loops leave the bytes of the blocks they do not reach ...      *)
LEMMA CopiedElsewhere ==
    ASSUME NEW blocks, NEW from, NEW buffer, NEW n, NEW b \in Block, NEW o \in Offset,
           \A p \in from .. from + n - 1 : ~(blocks[PtrAt(p)] = b /\ OffAt(p) = o)
    PROVE  Copied(blocks, from, buffer, n)[b][o] = storage[b][o]
<1>1. {p \in from .. from + n - 1 : blocks[PtrAt(p)] = b /\ OffAt(p) = o} = {}
    OBVIOUS
<1>. QED  BY <1>1 DEF Copied

(* ... and put the byte of the buffer where a position of the file is.     *)
LEMMA CopiedHere ==
    ASSUME NEW blocks, NEW from, NEW buffer, NEW n, NEW b \in Block, NEW o \in Offset,
           NEW q \in from .. from + n - 1, blocks[PtrAt(q)] = b, OffAt(q) = o,
           \A p \in from .. from + n - 1 :
              blocks[PtrAt(p)] = b /\ OffAt(p) = o => p = q
    PROVE  Copied(blocks, from, buffer, n)[b][o] = buffer[q - from + 1]
<1>. DEFINE at == {p \in from .. from + n - 1 : blocks[PtrAt(p)] = b /\ OffAt(p) = o}
<1>1. at = {q}
    OBVIOUS
<1>2. (CHOOSE p \in at : TRUE) = q
    <2>. HIDE DEF at
    <2>. QED  BY <1>1
<1>3. Copied(blocks, from, buffer, n)[b][o]
          = IF at = {} THEN storage[b][o]
            ELSE buffer[(CHOOSE p \in at : TRUE) - from + 1]
    BY DEF Copied
<1>. HIDE DEF at
<1>. QED  BY <1>1, <1>2, <1>3

(* Every byte of every file has a place, and no two share one.             *)
BytesHeld ==
    \A k \in Slot, p \in Nat : p < inode_table[k].size =>
        /\ PtrAt(p) \in Ptr
        /\ inode_table[k].blocks[PtrAt(p)] \in Block
        /\ OffAt(p) \in Offset

(* On a consistent disk ...                                                *)
LEMMA NowHeld == StoreInv => BytesHeld
BY ByteHeld DEF StoreInv, BytesHeld

(* ... and on the disk after a call.                                       *)
LEMMA NextHeld == StoreInv' => BytesHeld'
BY NowHeld, PTL

(* Two positions with the same block pointer and the same offset are one.  *)
LEMMA SamePosition ==
    ASSUME NEW p \in Nat, NEW q \in Nat, PtrAt(p) = PtrAt(q), OffAt(p) = OffAt(q)
    PROVE  p = q
<1>1. p = PtrAt(p) * BLOCK_SIZE + OffAt(p) /\ q = PtrAt(q) * BLOCK_SIZE + OffAt(q)
    BY PositionFacts
<1>. QED  BY <1>1

(* What Store leaves of the inode it writes: n bytes of the buffer were    *)
(* stored at position from, in the blocks the inode has now.               *)
Stored(call, buffer, i, from, n) ==
    /\ from + n <= max_size
    /\ last' = Result(call, Len(buffer), n)
    /\ storage' = Copied(inode_table'[i].blocks, from, buffer, n)
    /\ inode_table'[i].size = from + n
    /\ inode_table'[i].inode_number = i + 1
    /\ inode_table'[i].permissions = inode_table[i].permissions
    /\ \A j \in Ptr : inode_table[i].blocks[j] # NONE =>
          inode_table'[i].blocks[j] = inode_table[i].blocks[j]
    /\ \A k \in Slot \ {i} : inode_table'[k] = inode_table[k]
    /\ root_directory' = root_directory

(* Store does so.                                                          *)
LEMMA StoresInode ==
    ASSUME StoreInv, NEW call, NEW name, NEW buffer \in Buffers, NEW i \in Slot,
           NEW nb, NEW from \in {0, inode_table[i].size}, NEW want,
           Stores(call, name, buffer, i, nb, from, want)
    PROVE  \E n \in 0 .. Len(buffer) : Stored(call, buffer, i, from, n)
<1>. DEFINE old == inode_table[i].blocks
            blocks == WithBlocks(old, nb)
            n == Transferred(blocks, from, want)
<1>1. /\ inode_table \in [Slot -> Inodes] /\ inode_table[i] \in Inodes
      /\ old \in BlockPtrs /\ inode_table[i].size \in Nat
    BY DEF StoreInv, Consistent, TypeOK, Inodes, BlockPtrs
<1>2. PICK required \in Nat : nb \in Allocations(old, required)
    BY DEF Stores
<1>3. DOMAIN nb \subseteq EmptyPtrs(old) /\ nb \in [DOMAIN nb -> FreeBlocks]
    BY <1>1, <1>2, AllocationFacts
<1>4. blocks \in BlockPtrs
    BY <1>1, <1>3 DEF BlockPtrs, WithBlocks, FreeBlocks
<1>5. from \in Nat /\ want \in Nat /\ want <= Len(buffer) /\ from + want <= max_size
    BY <1>1 DEF Stores
<1>6. n \in Nat /\ n <= want
    <2>. HIDE DEF blocks
    <2>. QED  BY <1>4, <1>5, TransferFacts
<1>7. Len(buffer) \in Nat /\ max_size \in Nat
    BY FileSystemAssumption DEF max_size
<1>8. \A j \in Ptr : old[j] # NONE => blocks[j] = old[j]
    BY <1>3 DEF WithBlocks, EmptyPtrs
<1>9. /\ inode_table' = [inode_table EXCEPT ![i] =
            [inode_table[i] EXCEPT !.blocks = blocks, !.size = from + n]]
      /\ storage' = Copied(blocks, from, buffer, n)
      /\ last' = Result(call, Len(buffer), n)
      /\ root_directory' = root_directory
    BY DEF Stores, Store, SizeWritten
<1>. HIDE DEF blocks, n
<1>10. /\ inode_table'[i] = [inode_table[i] EXCEPT !.blocks = blocks, !.size = from + n]
       /\ \A k \in Slot \ {i} : inode_table'[k] = inode_table[k]
    BY <1>1, <1>9
<1>11. /\ inode_table'[i].blocks = blocks
       /\ inode_table'[i].size = from + n
       /\ inode_table'[i].inode_number = i + 1
       /\ inode_table'[i].permissions = inode_table[i].permissions
    BY <1>1, <1>10 DEF Inodes, Stores
<1>12. n \in 0 .. Len(buffer) /\ from + n <= max_size
    BY <1>5, <1>6, <1>7
<1>. QED  BY <1>8, <1>9, <1>10, <1>11, <1>12 DEF Stored

(* The first from bytes of a content and n bytes of a buffer behind them.  *)
Behind(content, from, buffer, n) ==
    [p \in 1 .. from + n |-> IF p <= from THEN content[p] ELSE buffer[p - from]]

(* n bytes of the buffer are put behind the first from bytes of a file,    *)
(* and every other file is left alone.                                     *)
PutsBehind(call, buffer, i, from, n) ==
    /\ from + n <= max_size
    /\ last' = Result(call, Len(buffer), n)
    /\ Files' = [Files EXCEPT ![i].content =
                    Behind(Files[i].content, from, buffer, n)]

(* That is what Store does.                                                *)
LEMMA StoresFiles ==
    ASSUME StoreInv, StoreInv', NEW call, NEW name, NEW buffer \in Buffers,
           NEW i \in Slot, NEW nb, NEW from \in {0, inode_table[i].size}, NEW want,
           Stores(call, name, buffer, i, nb, from, want)
    PROVE  \E n \in 0 .. Len(buffer) : PutsBehind(call, buffer, i, from, n)
<1>0. PICK n \in 0 .. Len(buffer) : Stored(call, buffer, i, from, n)
    BY StoresInode
<1>1. /\ from + n <= max_size
      /\ last' = Result(call, Len(buffer), n)
      /\ storage' = Copied(inode_table'[i].blocks, from, buffer, n)
      /\ inode_table'[i].size = from + n
      /\ inode_table'[i].inode_number = i + 1
      /\ inode_table'[i].permissions = inode_table[i].permissions
      /\ \A j \in Ptr : inode_table[i].blocks[j] # NONE =>
            inode_table'[i].blocks[j] = inode_table[i].blocks[j]
      /\ \A k \in Slot \ {i} : inode_table'[k] = inode_table[k]
      /\ root_directory' = root_directory
    BY <1>0 DEF Stored
<1>2. inode_table[i].inode_number = i + 1 /\ i + 1 # 0
    BY DEF Stores, Slot
<1>3. from \in Nat /\ from <= inode_table[i].size /\ inode_table[i].size \in Nat
    BY DEF StoreInv, Consistent, TypeOK, Inodes
<1>4. n \in Nat /\ Len(buffer) \in Nat
    BY <1>1, FileSystemAssumption
<1>5. PICK blocks : blocks = inode_table'[i].blocks
    OBVIOUS
<1>6. storage' = Copied(blocks, from, buffer, n)
    BY <1>1, <1>5
<1>7. ASSUME NEW p \in Nat, p < from + n
      PROVE  PtrAt(p) \in Ptr /\ blocks[PtrAt(p)] \in Block /\ OffAt(p) \in Offset
    BY <1>1, <1>5, <1>7, NextHeld DEF BytesHeld
<1>8. ASSUME NEW p \in Nat, NEW q \in Nat, p < from + n, q < from + n,
             blocks[PtrAt(p)] = blocks[PtrAt(q)], OffAt(p) = OffAt(q)
      PROVE  p = q
    <2>1. /\ PtrAt(p) \in Ptr /\ PtrAt(q) \in Ptr
          /\ blocks[PtrAt(p)] # NONE
        BY <1>7, <1>8 DEF Block, NONE
    <2>2. PtrAt(p) = PtrAt(q)
        BY <1>5, <1>8, <2>1 DEF StoreInv, Consistent, BlocksAccounted
    <2>. QED  BY <1>8, <2>2, SamePosition
<1>9. ASSUME NEW k \in Slot \ {i}
      PROVE  Files'[k] = Files[k]
    <2>1. ASSUME NEW p \in Nat, p < inode_table[k].size
          PROVE  storage'[inode_table[k].blocks[PtrAt(p)]][OffAt(p)]
                     = storage[inode_table[k].blocks[PtrAt(p)]][OffAt(p)]
        <3>. DEFINE b == inode_table[k].blocks[PtrAt(p)]
        <3>1. PtrAt(p) \in Ptr /\ b \in Block /\ OffAt(p) \in Offset
            BY <2>1, NowHeld DEF BytesHeld
        <3>2. b = inode_table'[k].blocks[PtrAt(p)] /\ b # NONE
            BY <1>1, <3>1 DEF Block, NONE
        <3>3. ASSUME NEW q \in from .. from + n - 1
              PROVE  blocks[PtrAt(q)] # b
            <4>1. q \in Nat /\ q < from + n
                BY <1>3, <1>4
            <4>2. PtrAt(q) \in Ptr
                BY <1>7, <4>1
            <4>. QED  BY <1>5, <3>1, <3>2, <4>2 DEF StoreInv, Consistent, BlocksAccounted
        <3>. HIDE DEF b
        <3>4. Copied(blocks, from, buffer, n)[b][OffAt(p)] = storage[b][OffAt(p)]
            BY <3>1, <3>3, CopiedElsewhere
        <3>. QED  BY <1>6, <3>4 DEF b
    <2>2. inode_table[k].size \in Nat /\ inode_table'[k] = inode_table[k]
        BY <1>1 DEF StoreInv, Consistent, TypeOK, Inodes
    <2>3. \A p \in 1 .. inode_table[k].size : p - 1 \in Nat /\ p - 1 < inode_table[k].size
        BY <2>2
    <2>4. Contents(inode_table[k].blocks, inode_table[k].size)'
              = Contents(inode_table[k].blocks, inode_table[k].size)
        BY <2>1, <2>2, <2>3 DEF Contents
    <2>. QED  BY <1>1, <2>2, <2>4, FileStays
<1>. DEFINE content == Contents(inode_table[i].blocks, inode_table[i].size)
            result == [p \in 1 .. from + n |->
                          IF p <= from THEN content[p] ELSE buffer[p - from]]
<1>10. ASSUME NEW p \in 1 .. from + n
       PROVE  storage'[blocks[PtrAt(p - 1)]][OffAt(p - 1)] = result[p]
    <2>. DEFINE q == p - 1
                b == blocks[PtrAt(q)]
    <2>1. q \in Nat /\ q < from + n /\ q + 1 = p
        BY <1>3, <1>4
    <2>. HIDE DEF q
    <2>2. PtrAt(q) \in Ptr /\ b \in Block /\ OffAt(q) \in Offset
        BY <1>7, <2>1
    <2>3. ASSUME NEW r \in from .. from + n - 1,
                 blocks[PtrAt(r)] = b, OffAt(r) = OffAt(q)
          PROVE  r = q
        <3>1. r \in Nat /\ r < from + n
            BY <1>3, <1>4
        <3>. QED  BY <1>8, <2>1, <2>3, <3>1
    <2>4. CASE p <= from
        <3>1. q < from /\ q < inode_table[i].size /\ p \in 1 .. inode_table[i].size
            BY <1>3, <1>4, <2>1, <2>4
        <3>2. ASSUME NEW r \in from .. from + n - 1
              PROVE  ~(blocks[PtrAt(r)] = b /\ OffAt(r) = OffAt(q))
            <4>1. r # q
                BY <1>3, <1>4, <2>1, <3>1
            <4>. QED  BY <2>3, <4>1
        <3>3. storage'[b][OffAt(q)] = storage[b][OffAt(q)]
            <4>. HIDE DEF b
            <4>. QED  BY <1>6, <2>2, <3>2, CopiedElsewhere
        <3>4. inode_table[i].blocks[PtrAt(q)] \in Block
            BY <2>1, <3>1, NowHeld DEF BytesHeld
        <3>5. b = inode_table[i].blocks[PtrAt(q)]
            BY <1>1, <1>5, <2>2, <3>4 DEF Block, NONE
        <3>6. content[p] = storage[inode_table[i].blocks[PtrAt(q)]][OffAt(q)]
            BY <3>1 DEF Contents, q
        <3>7. result[p] = content[p]
            BY <2>4
        <3>. HIDE DEF content, result
        <3>. QED  BY <3>3, <3>5, <3>6, <3>7 DEF q
    <2>5. CASE ~(p <= from)
        <3>1. q \in from .. from + n - 1 /\ q - from + 1 = p - from
            BY <1>3, <1>4, <2>1, <2>5
        <3>2. storage'[b][OffAt(q)] = buffer[q - from + 1]
            <4>. HIDE DEF b
            <4>1. blocks[PtrAt(q)] = b
                BY DEF b
            <4>. QED  BY <1>6, <2>2, <2>3, <3>1, <4>1, CopiedHere
        <3>3. result[p] = buffer[p - from]
            BY <2>5
        <3>. HIDE DEF result
        <3>. QED  BY <3>1, <3>2, <3>3 DEF q
    <2>. QED  BY <2>4, <2>5
<1>11. Contents(inode_table[i].blocks, inode_table[i].size)' = result
    <2>1. Contents(inode_table[i].blocks, inode_table[i].size)'
              = [p \in 1 .. from + n |->
                    storage'[blocks[PtrAt(p - 1)]][OffAt(p - 1)]]
        BY <1>1, <1>5 DEF Contents
    <2>2. result = [p \in 1 .. from + n |-> result[p]]
        OBVIOUS
    <2>. HIDE DEF result
    <2>. QED  BY <1>10, <2>1, <2>2
<1>12. Files[i] = FileAt(i) /\ Files'[i] = FileAt(i)'
    BY <1>1, <1>2, NowMapped, NextMapped DEF FilesMapped
<1>13. Files[i].content = content
    BY <1>12 DEF FileAt
<1>. HIDE DEF result, content
<1>14. Files'[i] = [Files[i] EXCEPT !.content = result]
    BY <1>1, <1>11, <1>12 DEF FileAt
<1>15. Files' = [Files EXCEPT ![i] = [Files[i] EXCEPT !.content = result]]
    BY <1>9, <1>14, OneFileChanges
<1>16. Files' = [Files EXCEPT ![i].content = result]
    BY <1>15
<1>17. result = Behind(Files[i].content, from, buffer, n)
    BY <1>13 DEF result, Behind
<1>. QED  BY <1>1, <1>16, <1>17 DEF PutsBehind

(* The file Store writes, as the store sees it.                            *)
LEMMA StoresFound ==
    ASSUME StoreInv, NEW call, NEW name, NEW buffer, NEW i \in Slot, NEW nb, NEW from,
           NEW want, Stores(call, name, buffer, i, nb, from, want)
    PROVE  /\ Store_!First(name, i) /\ "write" \in Files[i].modes
           /\ Files[i].content \in Seq(Bytes)
           /\ Len(Files[i].content) = inode_table[i].size
<1>1. /\ Granted(name, i, "write") /\ InodeOf(i) = i
      /\ inode_table[i].inode_number = i + 1 /\ i + 1 # 0
    BY DEF Stores, Slot
<1>2. Files[i] = FileAt(i)
    BY <1>1, NowMapped DEF FilesMapped
<1>3. /\ Files[i].content = Contents(inode_table[i].blocks, inode_table[i].size)
      /\ Files[i].modes = inode_table[i].permissions
    BY <1>2 DEF FileAt
<1>. QED  BY <1>1, <1>3, FirstFinds, ContentsType DEF StoreInv, Granted

(* Sequences joined, element by element.                                   *)
LEMMA Joined ==
    ASSUME NEW S, NEW kept \in Seq(S), NEW buffer \in Seq(S), NEW n \in 0 .. Len(buffer)
    PROVE  Behind(kept, Len(kept), buffer, n) = kept \o SubSeq(buffer, 1, n)
<1>1. /\ Len(kept) \in Nat /\ Len(buffer) \in Nat /\ n \in Nat
    OBVIOUS
<1>2. /\ SubSeq(buffer, 1, n) \in Seq(S) /\ Len(SubSeq(buffer, 1, n)) = n
      /\ \A p \in 1 .. n : SubSeq(buffer, 1, n)[p] = buffer[p]
    BY <1>1
<1>3. PICK t : t = SubSeq(buffer, 1, n)
    OBVIOUS
<1>4. t \in Seq(S) /\ Len(t) = n /\ \A p \in 1 .. n : t[p] = buffer[p]
    BY <1>2, <1>3
<1>. DEFINE both == [p \in 1 .. Len(kept) + n |->
                        IF p <= Len(kept) THEN kept[p] ELSE buffer[p - Len(kept)]]
<1>5. \A p \in 1 .. Len(kept) + n :
          IF p <= Len(kept) THEN kept[p] \in S
          ELSE buffer[p - Len(kept)] = t[p - Len(kept)] /\ t[p - Len(kept)] \in S
    BY <1>1, <1>4
<1>6. both \in Seq(S) /\ Len(both) = Len(kept) + n
    BY <1>1, <1>5
<1>7. /\ kept \o t \in Seq(S)
      /\ Len(kept \o t) = Len(kept) + n
      /\ \A p \in 1 .. Len(kept) + n : (kept \o t)[p] =
            IF p <= Len(kept) THEN kept[p] ELSE t[p - Len(kept)]
    BY <1>4, ConcatProperties
<1>8. \A p \in 1 .. Len(both) : both[p] = (kept \o t)[p]
    BY <1>5, <1>6, <1>7
<1>9. both = kept \o t
    <2>. HIDE DEF both
    <2>. QED  BY <1>6, <1>7, <1>8, SeqEqual
<1>. QED  BY <1>3, <1>9 DEF Behind

(* write_file replaces the file by a prefix of the buffer.                 *)
LEMMA WriteImplements ==
    ASSUME StoreInv, StoreInv', NEW name, NEW buffer \in Buffers, Write(name, buffer)
    PROVE  Store_!Write(name, buffer)
<1>1. PICK i \in Slot : \E nb, want : Stores("write", name, buffer, i, nb, 0, want)
    BY WriteStores DEF StoreInv
<1>2. PICK nb, want : Stores("write", name, buffer, i, nb, 0, want)
    BY <1>1
<1>put. PICK n \in 0 .. Len(buffer) : PutsBehind("write", buffer, i, 0, n)
    BY <1>2, StoresFiles
<1>3. /\ 0 + n <= max_size
      /\ last' = Result("write", Len(buffer), n)
      /\ Files' = [Files EXCEPT ![i].content =
                      Behind(Files[i].content, 0, buffer, n)]
    BY <1>put DEF PutsBehind
<1>4. buffer \in Seq(Bytes)
    BY FileSystemAssumption
<1>5. Behind(Files[i].content, 0, buffer, n) = <<>> \o SubSeq(buffer, 1, n)
    <2>1. Behind(Files[i].content, 0, buffer, n) = Behind(<<>>, 0, buffer, n)
        BY <1>4 DEF Behind
    <2>2. <<>> \in Seq(Bytes) /\ Len(<<>>) = 0
        OBVIOUS
    <2>3. Behind(<<>>, Len(<<>>), buffer, n) = <<>> \o SubSeq(buffer, 1, n)
        BY <1>4, <2>2, Joined
    <2>. QED  BY <2>1, <2>2, <2>3
<1>6. Len(<<>>) + n <= max_size
    BY <1>3
<1>7. Store_!Put("write", i, <<>>, buffer)
    BY <1>3, <1>5, <1>6, StorePut
<1>8. Store_!First(name, i) /\ "write" \in Files[i].modes
    BY <1>2, StoresFound
<1>. QED  BY <1>7, <1>8, StoreWrite

(* append_to_file puts a prefix of the buffer behind the file.             *)
LEMMA AppendImplements ==
    ASSUME StoreInv, StoreInv', NEW name, NEW buffer \in Buffers, Append_(name, buffer)
    PROVE  Store_!Append_(name, buffer)
<1>1. PICK i \in Slot : \E nb, want :
          /\ inode_table[i].size < max_size
          /\ Stores("append", name, buffer, i, nb, inode_table[i].size, want)
    BY AppendStores DEF StoreInv
<1>2. PICK nb, want :
          /\ inode_table[i].size < max_size
          /\ Stores("append", name, buffer, i, nb, inode_table[i].size, want)
    BY <1>1
<1>3. PICK size : size = inode_table[i].size
    OBVIOUS
<1>put. PICK n \in 0 .. Len(buffer) : PutsBehind("append", buffer, i, size, n)
    BY <1>2, <1>3, StoresFiles
<1>4. /\ size + n <= max_size
      /\ last' = Result("append", Len(buffer), n)
      /\ Files' = [Files EXCEPT ![i].content =
                      Behind(Files[i].content, size, buffer, n)]
    BY <1>put DEF PutsBehind
<1>5. buffer \in Seq(Bytes)
    BY FileSystemAssumption
<1>6. /\ Store_!First(name, i) /\ "write" \in Files[i].modes
      /\ Files[i].content \in Seq(Bytes) /\ Len(Files[i].content) = size
    BY <1>2, <1>3, StoresFound
<1>7. PICK kept : kept = Files[i].content
    OBVIOUS
<1>8. Behind(kept, size, buffer, n) = kept \o SubSeq(buffer, 1, n)
    <2>1. kept \in Seq(Bytes) /\ Len(kept) = size
        BY <1>6, <1>7
    <2>2. Behind(kept, Len(kept), buffer, n) = kept \o SubSeq(buffer, 1, n)
        BY <1>5, <2>1, Joined
    <2>. QED  BY <2>1, <2>2
<1>9. Store_!Put("append", i, kept, buffer)
    BY <1>4, <1>6, <1>7, <1>8, StorePut
<1>10. Len(Files[i].content) # max_size
    <2>1. size \in Nat /\ max_size \in Nat
        BY <1>3, FileSystemAssumption
           DEF StoreInv, Consistent, TypeOK, Inodes, max_size
    <2>. QED  BY <1>2, <1>3, <1>6, <2>1
<1>. QED  BY <1>6, <1>7, <1>9, <1>10, StoreAppend

-----------------------------------------------------------------------------
(* format_disk leaves an empty store.                                      *)
LEMMA InitStore == Init => Store_!Init /\ Named
<1>1. Init => Store_!Init
    BY FileSystemAssumption DEF Init, Store_!Init, Result
<1>2. Init => Named
    BY DEF Init, Named
<1>. QED  BY <1>1, <1>2

(* Every call on the disk is a call of the store.                          *)
LEMMA NextStore ==
    ASSUME StoreInv, StoreInv', [Next]_vars
    PROVE  [Store_!Next]_<<Files, last>>
<1>1. CASE UNCHANGED vars
    <2>1. Files' = Files /\ last' = last
        BY <1>1, SameFiles DEF vars, disk
    <2>. QED  BY <2>1
<1>2. CASE Next
    <2>. SUFFICES Store_!Next
        OBVIOUS
    <2>1. PICK name \in Names :
            \/ CreateNoInode(name) \/ CreateNoBlock(name) \/ Create(name)
            \/ Delete(name)
            \/ NotFound("delete", 0, name) \/ Denied("delete", 0, "write", name)
            \/ \E permissions \in Permissions :
                  Chmod(name, permissions) \/ NotFound("chmod", 0, name)
            \/ \E size \in ReadSizes :
                  \/ Read(name, size)
                  \/ NotFound("read", size, name) \/ Denied("read", size, "read", name)
            \/ \E buffer \in Buffers :
                  \/ Write(name, buffer)
                  \/ NotFound("write", Len(buffer), name)
                  \/ Denied("write", Len(buffer), "write", name)
                  \/ Append_(name, buffer) \/ AppendFull(name, buffer)
                  \/ NotFound("append", Len(buffer), name)
                  \/ Denied("append", Len(buffer), "write", name)
        BY <1>2 DEF Next
    <2>2. CASE CreateNoInode(name) \/ CreateNoBlock(name) \/ Create(name)
        <3>1. Store_!Create(name)
            BY <2>2, CreateImplements, CreateFailsImplements
        <3>. QED  BY <3>1 DEF Store_!Next
    <2>3. CASE Delete(name)
        <3>1. Store_!Delete(name)
            BY <2>3, DeleteImplements
        <3>. QED  BY <3>1 DEF Store_!Next
    <2>4. CASE NotFound("delete", 0, name) \/ Denied("delete", 0, "write", name)
        <3>1. Store_!Refused("delete", 0, name, "write")
            BY <2>4, RefusalsImplement
        <3>. QED  BY <3>1 DEF Store_!Next
    <2>5. ASSUME NEW permissions \in Permissions,
                 Chmod(name, permissions) \/ NotFound("chmod", 0, name)
          PROVE  Store_!Next
        <3>1. Store_!Chmod(name, permissions)
            BY <2>5, ChmodImplements, ChmodNotFoundImplements
        <3>. QED  BY <3>1 DEF Store_!Next
    <2>6. ASSUME NEW size \in ReadSizes,
                 \/ Read(name, size)
                 \/ NotFound("read", size, name) \/ Denied("read", size, "read", name)
          PROVE  Store_!Next
        <3>1. Store_!Read(name, size) \/ Store_!Refused("read", size, name, "read")
            BY <2>6, ReadImplements, RefusalsImplement
        <3>. QED  BY <3>1 DEF Store_!Next
    <2>7. ASSUME NEW buffer \in Buffers,
                 \/ Write(name, buffer)
                 \/ NotFound("write", Len(buffer), name)
                 \/ Denied("write", Len(buffer), "write", name)
          PROVE  Store_!Next
        <3>1. \/ Store_!Write(name, buffer)
              \/ Store_!Refused("write", Len(buffer), name, "write")
            BY <2>7, WriteImplements, RefusalsImplement
        <3>. QED  BY <3>1 DEF Store_!Next
    <2>8. ASSUME NEW buffer \in Buffers,
                 \/ Append_(name, buffer) \/ AppendFull(name, buffer)
                 \/ NotFound("append", Len(buffer), name)
                 \/ Denied("append", Len(buffer), "write", name)
          PROVE  Store_!Next
        <3>1. \/ Store_!Append_(name, buffer)
              \/ Store_!Refused("append", Len(buffer), name, "write")
            BY <2>8, AppendImplements, AppendFullImplements, RefusalsImplement
        <3>. QED  BY <3>1 DEF Store_!Next
    <2>. QED  BY <2>1, <2>2, <2>3, <2>4, <2>5, <2>6, <2>7, <2>8
<1>. QED  BY <1>1, <1>2

(* The file system of inodes, bitmap and blocks implements the store of    *)
(* files: a read returns what was written, calls on one file never show in *)
(* another, whatever sizes, buffers and mixtures of failing calls.         *)
THEOREM StoreImplemented == Spec => ImplementsFileStore
<1>1. Init => Store_!Init /\ Named
    BY InitStore
<1>2. StoreInv /\ [Next]_vars => Named'
    BY NextNamed
<1>3. Consistent /\ Named <=> StoreInv
    BY DEF StoreInv
<1>4. Spec => []StoreInv
    BY <1>1, <1>2, <1>3, AlwaysConsistent, PTL DEF Spec
<1>5. StoreInv /\ StoreInv' /\ [Next]_vars => [Store_!Next]_<<Files, last>>
    BY NextStore
<1>. QED
    BY <1>1, <1>4, <1>5, PTL DEF Spec, ImplementsFileStore, Store_!Spec, Files
=============================================================================
