------------------------------ MODULE ReadData ------------------------------
(***************************************************************************)
(* Reading a regular file (filesys.c): calls of read on one descriptor     *)
(* (file_read) and the loading of the file as a program (fs_copy), each a  *)
(* walk over the file's data blocks (read_data).  The file system image is *)
(* read-only, so nothing another process does matters.  A byte of it is    *)
(* named by its place in the data area.                                    *)
(***************************************************************************)
EXTENDS Integers, Sequences

CONSTANTS
  FS_BLOCK_SIZE,
  DATABLOCKS_PER_INODE,
  n_datablocks,  \* data blocks in the image
  TWO_TO_32,     \* 2^32: how many values a uint32_t has
  ReadSizes      \* programs pass these to read as nbytes, and their negatives

VARIABLES
  length, datablocks,               \* the inode
  position,                         \* of the descriptor
  rd_pc,                            \* "idle", or "loop" in read_data
  caller,                           \* "file_read" or "fs_copy"
  offset, rd_nbytes, bytes_read,    \* arguments and result of read_data
  file_data_block, block_offset,    \* where read_data is in the file
  curr_data_loc,                    \* and in the image
  rd_buf,                           \* what this call has copied
  mem_location,                     \* what fs_copy has loaded, or NotLoaded
  got                               \* history: what all calls returned

inode == <<length, datablocks>>
rd_vars ==
  <<inode, position, rd_pc, caller, offset, rd_nbytes, bytes_read,
    file_data_block, block_offset, curr_data_loc, rd_buf, mem_location, got>>

NotLoaded == "not loaded"

Blocks == 0 .. DATABLOCKS_PER_INODE - 1
MaxLength == FS_BLOCK_SIZE * DATABLOCKS_PER_INODE
Image == 0 .. FS_BLOCK_SIZE * n_datablocks - 1

(* The largest file's length is a uint32_t.                                *)
ASSUME ReadDataAssumption ==
  /\ FS_BLOCK_SIZE \in Nat \ {0}
  /\ DATABLOCKS_PER_INODE \in Nat
  /\ n_datablocks \in Nat
  /\ TWO_TO_32 \in Nat
  /\ MaxLength < TWO_TO_32
  /\ ReadSizes \subseteq Nat

(* Any inode; a block number may be out of range.                          *)
ReadInit ==
  /\ length \in 0 .. MaxLength
  /\ datablocks \in [Blocks -> 0 .. n_datablocks]
  /\ position = 0
  /\ rd_pc = "idle"
  /\ caller = "file_read"
  /\ offset = 0
  /\ rd_nbytes = 0
  /\ bytes_read = 0
  /\ file_data_block = 0
  /\ block_offset = 0
  /\ curr_data_loc = 0
  /\ rd_buf = <<>>
  /\ mem_location = NotLoaded
  /\ got = <<>>

-----------------------------------------------------------------------------
(* A block number is in range.                                             *)
in_range(b) == datablocks[b] < n_datablocks

block_start(b) == datablocks[b] * FS_BLOCK_SIZE

(* read_data up to its loop; n becomes unsigned.  At the end of the file,  *)
(* or if the block is out of range, it returns at once.                    *)
read_data(from, off, n) ==
  /\ rd_pc = "idle"
  /\ off < length
  /\ in_range(off \div FS_BLOCK_SIZE)
  /\ rd_pc' = "loop"
  /\ caller' = from
  /\ offset' = off
  /\ rd_nbytes' = n % TWO_TO_32
  /\ bytes_read' = 0
  /\ file_data_block' = off \div FS_BLOCK_SIZE
  /\ block_offset' = off % FS_BLOCK_SIZE
  /\ curr_data_loc' =
       block_start(off \div FS_BLOCK_SIZE) + (off % FS_BLOCK_SIZE)
  /\ rd_buf' = <<>>
  /\ UNCHANGED <<inode, position, mem_location, got>>

file_read(n) == read_data("file_read", position, n)

(* Faulty variant: the file is loaded from where the descriptor is.        *)
fs_copy_from_position == read_data("fs_copy", position, length)

fs_copy == read_data("fs_copy", 0, length)

(* fs_copy of an empty file loads nothing and succeeds.                    *)
fs_copy_empty ==
  /\ rd_pc = "idle"
  /\ length = 0
  /\ mem_location' = <<>>
  /\ UNCHANGED <<inode, position, rd_pc, caller, offset, rd_nbytes, bytes_read,
                 file_data_block, block_offset, curr_data_loc, rd_buf, got>>

(* The end of the file.  Faulty variant: the end of the block is taken for *)
(* the end of the file.                                                    *)
at_end_of_block ==
  offset + bytes_read >= length \/ block_offset >= FS_BLOCK_SIZE

at_end == offset + bytes_read >= length

(* The end of the block.  Faulty variant: one byte late.                   *)
block_done_late == block_offset > FS_BLOCK_SIZE

block_done == block_offset >= FS_BLOCK_SIZE

copy_byte(block, off, loc) ==
  /\ rd_buf' = Append(rd_buf, loc)
  /\ bytes_read' = bytes_read + 1
  /\ file_data_block' = block
  /\ block_offset' = off + 1
  /\ curr_data_loc' = loc + 1
  /\ UNCHANGED <<inode, position, rd_pc, caller, offset, rd_nbytes, mem_location, got>>

read_more ==
  /\ rd_pc = "loop"
  /\ bytes_read < rd_nbytes
  /\ ~at_end
  /\ ~block_done
  /\ copy_byte(file_data_block, block_offset, curr_data_loc)

read_next_block ==
  /\ rd_pc = "loop"
  /\ bytes_read < rd_nbytes
  /\ ~at_end
  /\ block_done
  /\ in_range(file_data_block + 1)
  /\ copy_byte(file_data_block + 1, 0, block_start(file_data_block + 1))

(* read_data has come to a block out of range: -1, and position is kept.   *)
read_fails ==
  /\ rd_pc = "loop"
  /\ bytes_read < rd_nbytes
  /\ ~at_end
  /\ block_done
  /\ ~in_range(file_data_block + 1)
  /\ rd_pc' = "idle"
  /\ UNCHANGED <<inode, position, caller, offset, rd_nbytes, bytes_read,
                 file_data_block, block_offset, curr_data_loc, rd_buf,
                 mem_location, got>>

position_after == position + bytes_read

read_returns ==
  /\ rd_pc = "loop"
  /\ bytes_read >= rd_nbytes \/ at_end
  /\ rd_pc' = "idle"
  /\ \/ /\ caller = "file_read"
        /\ position' = position_after
        /\ got' = got \o rd_buf
        /\ UNCHANGED mem_location
     \/ /\ caller = "fs_copy"
        /\ mem_location' = rd_buf
        /\ UNCHANGED <<position, got>>
  /\ UNCHANGED <<inode, caller, offset, rd_nbytes, bytes_read, file_data_block,
                 block_offset, curr_data_loc, rd_buf>>

ReadNext ==
  \/ \E n \in ReadSizes : file_read(n) \/ file_read(-n)
  \/ fs_copy
  \/ fs_copy_empty
  \/ read_more
  \/ read_next_block
  \/ read_fails
  \/ read_returns

ReadSpec == ReadInit /\ [][ReadNext]_rd_vars

-----------------------------------------------------------------------------
(* Where byte k of the file is in the image.                               *)
place(k) ==
  datablocks[k \div FS_BLOCK_SIZE] * FS_BLOCK_SIZE + (k % FS_BLOCK_SIZE)

(* Whatever the sizes of the reads, and whatever failed in between, what   *)
(* they returned together is the file from its start to position, each     *)
(* byte once and in order; and no byte outside the image's data blocks is  *)
(* ever read, even if the inode names a block that does not exist.         *)
ReadsInOrder ==
  /\ got = [k \in 1 .. position |-> place(k - 1)]
  /\ \A k \in 1 .. Len(rd_buf) : rd_buf[k] \in Image

(* A read returns fewer bytes than it was asked for only at the end of the *)
(* file, which is how programs such as cat find the end.                   *)
ShortReadAtEnd ==
  read_returns /\ caller = "file_read" /\ bytes_read < rd_nbytes =>
    position' = length

ShortOnlyAtEnd == [][ShortReadAtEnd]_rd_vars

(* What fs_copy loads is the whole file, whatever was read before; if a    *)
(* block of it is out of range nothing is loaded.                          *)
LoadsWholeFile ==
  mem_location # NotLoaded => mem_location = [k \in 1 .. length |-> place(k - 1)]
=============================================================================
