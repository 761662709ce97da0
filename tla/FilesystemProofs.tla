-------------------------- MODULE FilesystemProofs --------------------------
(***************************************************************************)
(* Proofs about the file system: read_data of a regular file (module       *)
(* ReadData), for any size of the blocks, of the inode and of the image;   *)
(* and the tables of open files and the directory's position (module       *)
(* Files), for any number of processes, of their descriptors and of        *)
(* entries.                                                                *)
(***************************************************************************)
EXTENDS ReadData, Files, TLAPS

-----------------------------------------------------------------------------
(* Reading a regular file.                                                 *)
BS == FS_BLOCK_SIZE

(* What the calls that returned have left.                                 *)
CallsInv ==
  /\ length \in 0 .. MaxLength
  /\ datablocks \in [Blocks -> 0 .. n_datablocks]
  /\ position \in 0 .. length
  /\ got \in Seq(Image)
  /\ Len(got) = position
  /\ \A k \in 1 .. position : got[k] = place(k - 1)
  /\ mem_location = NotLoaded \/ mem_location = [k \in 1 .. length |-> place(k - 1)]
  /\ rd_buf \in Seq(Image)
  /\ rd_pc \in {"idle", "loop"}

(* read_data has copied the bytes from offset on, and is at the byte of    *)
(* the block it thinks it is at.                                           *)
LoopInv ==
  /\ caller \in {"file_read", "fs_copy"}
  /\ offset = IF caller = "file_read" THEN position ELSE 0
  /\ caller = "fs_copy" => rd_nbytes = length
  /\ rd_nbytes \in Nat /\ bytes_read \in Nat
  /\ offset + bytes_read <= length
  /\ Len(rd_buf) = bytes_read
  /\ \A k \in 1 .. bytes_read : rd_buf[k] = place(offset + k - 1)
  /\ file_data_block \in Blocks
  /\ in_range(file_data_block)
  /\ block_offset \in 0 .. BS
  /\ file_data_block * BS + block_offset = offset + bytes_read
  /\ curr_data_loc = block_start(file_data_block) + block_offset

ReadInv == CallsInv /\ (rd_pc = "loop" => LoopInv)

(* A number with this quotient and remainder.                              *)
LEMMA QuotientIs ==
  ASSUME NEW q \in Nat, NEW m \in Nat, NEW r \in Nat, r < m
  PROVE  (q * m + r) \div m = q /\ (q * m + r) % m = r
BY SMTT(60)

(* A number is its quotient times the divisor and the remainder.           *)
LEMMA QuotientExists ==
  ASSUME NEW a \in Nat, NEW m \in Nat \ {0}
  PROVE  /\ a \div m \in Nat
         /\ a % m \in 0 .. m - 1
         /\ a = (a \div m) * m + (a % m)
OBVIOUS

(* Byte r of block b of the file, and where it is in the image.            *)
LEMMA PlaceIn ==
  ASSUME CallsInv, NEW b \in Blocks, NEW r \in 0 .. BS - 1, in_range(b)
  PROVE  /\ place(b * BS + r) = block_start(b) + r
         /\ place(b * BS + r) \in Image
<1>1. /\ BS \in Nat /\ BS > 0 /\ b \in Nat /\ r \in Nat /\ r < BS
      /\ datablocks[b] \in Nat /\ datablocks[b] < n_datablocks
      /\ n_datablocks \in Nat
  BY ReadDataAssumption DEF BS, CallsInv, Blocks, in_range
<1>2. (b * BS + r) \div BS = b /\ (b * BS + r) % BS = r
  BY <1>1, QuotientIs, Zenon
<1>3. place(b * BS + r) = datablocks[b] * BS + r
  BY <1>2 DEF place, BS
<1>4. ASSUME NEW d \in Nat, NEW n \in Nat, d < n
      PROVE  d * BS + r < BS * n /\ d * BS + r \in Nat
  <2>1. (n - d - 1) \in Nat
    BY <1>4
  <2>2. (n - d - 1) * BS >= 0
    BY <1>1, <2>1
  <2> QED
    BY <1>1, <1>4, <2>2
<1>5. datablocks[b] * BS + r \in 0 .. BS * n_datablocks - 1
  BY <1>1, <1>4
<1> QED
  BY <1>3, <1>5 DEF block_start, Image, BS

(* A byte before the end of the file is in one of the inode's blocks.      *)
LEMMA BlockOf ==
  ASSUME CallsInv, NEW b \in Nat, NEW r \in Nat, b * BS + r < length
  PROVE  b \in Blocks
<1>1. /\ BS \in Nat /\ BS > 0 /\ DATABLOCKS_PER_INODE \in Nat
      /\ length \in Nat /\ length <= BS * DATABLOCKS_PER_INODE
  BY ReadDataAssumption DEF CallsInv, MaxLength, BS
<1>2. b * BS < BS * DATABLOCKS_PER_INODE
  BY <1>1
<1>3. b < DATABLOCKS_PER_INODE
  BY <1>1, <1>2
<1> QED
  BY <1>1, <1>3 DEF Blocks

(* The calls and the loading are as before while read_data runs.           *)
LEMMA SameCalls ==
  ASSUME CallsInv,
         UNCHANGED <<inode, position, mem_location, got>>,
         rd_buf' \in Seq(Image), rd_pc' \in {"idle", "loop"}
  PROVE  CallsInv' /\ \A k : place(k)' = place(k)
BY DEF CallsInv, inode, place

(* read_data begins.                                                       *)
LEMMA StartStep ==
  ASSUME ReadInv, NEW from \in {"file_read", "fs_copy"}, NEW off, NEW n \in Int,
         off = IF from = "file_read" THEN position ELSE 0,
         from = "fs_copy" => n = length,
         read_data(from, off, n)
  PROVE  ReadInv'
<1> DEFINE b == off \div BS
           r == off % BS
<1>0. /\ BS \in Nat \ {0} /\ BS \in Nat /\ off \in Nat /\ off < length
      /\ length \in Nat /\ CallsInv /\ position \in Nat /\ MaxLength \in Nat
      /\ length <= MaxLength
  BY ReadDataAssumption
     DEF ReadInv, CallsInv, read_data, BS, MaxLength
<1>1. b \in Nat /\ r \in 0 .. BS - 1 /\ off = b * BS + r
  BY <1>0, QuotientExists, Zenon
<1>2. b \in Blocks
  BY <1>0, <1>1, BlockOf
<1>3. TWO_TO_32 \in Nat /\ TWO_TO_32 > MaxLength
  BY ReadDataAssumption
<1>4. n % TWO_TO_32 \in Nat
  BY <1>0, <1>3
<1>5. from = "fs_copy" => n % TWO_TO_32 = length
  <2>1. (0 * TWO_TO_32 + length) % TWO_TO_32 = length
    <3>1. length < TWO_TO_32
      BY <1>0, <1>3
    <3> QED
      BY <1>0, <1>3, <3>1, QuotientIs
  <2>2. 0 * TWO_TO_32 + length = length
    BY <1>0, <1>3
  <2> QED
    BY <2>1, <2>2
<1>6. <<>> \in Seq(Image) /\ Len(<<>>) = 0
  OBVIOUS
<1>7. /\ in_range(b) /\ rd_pc' = "loop" /\ caller' = from /\ offset' = off
      /\ rd_nbytes' = n % TWO_TO_32 /\ bytes_read' = 0
      /\ file_data_block' = b /\ block_offset' = r
      /\ curr_data_loc' = block_start(b) + r
      /\ rd_buf' = <<>>
      /\ UNCHANGED <<inode, position, mem_location, got>>
  BY DEF read_data, BS
<1>8. in_range(b)' /\ block_start(b)' = block_start(b)
  BY <1>7 DEF inode, in_range, block_start, BS
<1> HIDE DEF b, r
<1>9. LoopInv'
  BY <1>0, <1>1, <1>2, <1>4, <1>5, <1>6, <1>7, <1>8
     DEF LoopInv, in_range, block_start, inode
<1> QED
  BY <1>0, <1>6, <1>7, <1>9, SameCalls DEF ReadInv

(* read_data copies one byte.                                              *)
LEMMA CopyStep ==
  ASSUME ReadInv, rd_pc = "loop", bytes_read < rd_nbytes, ~at_end,
         NEW b \in Blocks, in_range(b), NEW r \in 0 .. BS - 1,
         b * BS + r = offset + bytes_read,
         copy_byte(b, r, block_start(b) + r)
  PROVE  ReadInv'
<1> DEFINE x == block_start(b) + r
<1>0. /\ CallsInv /\ LoopInv
      /\ BS \in Nat /\ b \in Nat /\ r \in Nat /\ r < BS
      /\ offset \in Nat /\ bytes_read \in Nat /\ length \in Nat
      /\ offset + bytes_read < length
      /\ rd_buf \in Seq(Image) /\ Len(rd_buf) = bytes_read
  <2>1. BS \in Nat /\ MaxLength \in Nat /\ b \in Nat /\ r \in Nat /\ r < BS
    BY ReadDataAssumption DEF BS, MaxLength, Blocks
  <2>2. CallsInv /\ LoopInv
    BY DEF ReadInv
  <2>3. length \in Nat /\ position \in Nat
    BY <2>1, <2>2 DEF CallsInv
  <2>4. /\ offset = (IF caller = "file_read" THEN position ELSE 0)
        /\ bytes_read \in Nat /\ ~(offset + bytes_read >= length)
        /\ rd_buf \in Seq(Image) /\ Len(rd_buf) = bytes_read
    BY <2>2, Zenon DEF CallsInv, LoopInv, at_end
  <2>5. offset \in Nat
    BY <2>3, <2>4
  <2>6. offset + bytes_read < length
    BY <2>3, <2>4, <2>5
  <2> QED
    BY <2>1, <2>2, <2>3, <2>4, <2>5, <2>6, Zenon
<1>1. x \in Image /\ place(offset + bytes_read) = x
  BY <1>0, PlaceIn, Zenon
<1>2. /\ rd_buf' = Append(rd_buf, x) /\ bytes_read' = bytes_read + 1
      /\ file_data_block' = b /\ block_offset' = r + 1
      /\ curr_data_loc' = x + 1
      /\ UNCHANGED <<length, datablocks, position, rd_pc, caller, offset, rd_nbytes,
                     mem_location, got>>
  BY DEF copy_byte, inode
<1>3. /\ rd_buf' \in Seq(Image) /\ Len(rd_buf') = bytes_read + 1
      /\ rd_buf'[bytes_read + 1] = x
      /\ \A k \in 1 .. bytes_read : rd_buf'[k] = rd_buf[k]
  <2> HIDE DEF x
  <2> QED
    BY <1>0, <1>1, <1>2
<1>4. /\ CallsInv' /\ \A k : place(k)' = place(k)
  BY <1>0, <1>2, <1>3, SameCalls DEF inode, CallsInv
<1>5. \A k \in 1 .. bytes_read + 1 : rd_buf'[k] = place(offset + k - 1)
  <2> SUFFICES ASSUME NEW k \in 1 .. bytes_read + 1
               PROVE  rd_buf'[k] = place(offset + k - 1)
    OBVIOUS
  <2>1. CASE k \in 1 .. bytes_read
    BY <1>0, <1>3, <2>1 DEF LoopInv
  <2>2. CASE k = bytes_read + 1
    <3>1. offset + k - 1 = offset + bytes_read
      BY <1>0, <2>2
    <3> QED
      BY <1>1, <1>3, <2>2, <3>1
  <2> QED
    BY <1>0, <2>1, <2>2
<1>6. in_range(b)' /\ block_start(b)' = block_start(b) /\ block_start(b) \in Int
  <2>1. datablocks[b] \in Int /\ FS_BLOCK_SIZE \in Int
    BY <1>0, ReadDataAssumption DEF CallsInv
  <2>2. block_start(b) \in Int
    BY <2>1 DEF block_start
  <2> QED
    BY <1>2, <2>2, Zenon DEF in_range, block_start
<1>7. \A k \in 1 .. bytes_read' : rd_buf'[k] = place(offset + k - 1)'
  BY <1>2, <1>5, Zenon DEF place
<1>8. /\ b * BS + (r + 1) = offset + (bytes_read + 1)
      /\ offset + (bytes_read + 1) <= length
      /\ r + 1 \in 0 .. BS
      /\ x + 1 = block_start(b) + (r + 1)
  BY <1>0, <1>6
<1> HIDE DEF x
<1>9. LoopInv'
  <2>1. /\ caller' \in {"file_read", "fs_copy"}
        /\ offset' = IF caller' = "file_read" THEN position' ELSE 0
        /\ caller' = "fs_copy" => rd_nbytes' = length'
        /\ rd_nbytes' \in Nat /\ file_data_block' \in Blocks
    BY <1>0, <1>2 DEF LoopInv
  <2>2. bytes_read' \in Nat /\ Len(rd_buf') = bytes_read'
    BY <1>0, <1>2, <1>3
  <2>3. /\ offset' + bytes_read' <= length'
        /\ block_offset' \in 0 .. BS
        /\ file_data_block' * BS + block_offset' = offset' + bytes_read'
    BY <1>2, <1>8
  <2>4. in_range(file_data_block)'
    BY <1>2, <1>6 DEF in_range
  <2>5. curr_data_loc' = block_start(file_data_block)' + block_offset'
    BY <1>2, <1>6, <1>8 DEF block_start
  <2> QED
    BY <1>7, <2>1, <2>2, <2>3, <2>4, <2>5 DEF LoopInv
<1> QED
  BY <1>4, <1>9 DEF ReadInv

(* read_data returns to file_read or fs_copy.                              *)
LEMMA ReturnStep ==
  ASSUME ReadInv, read_returns
  PROVE  ReadInv' /\ ShortReadAtEnd
<1>0. /\ CallsInv /\ LoopInv
      /\ rd_pc' = "idle" /\ rd_buf' = rd_buf
      /\ UNCHANGED <<length, datablocks>>
      /\ bytes_read >= rd_nbytes \/ offset + bytes_read >= length
  BY DEF ReadInv, read_returns, inode, at_end
<1>a. /\ length \in Nat /\ position \in Nat /\ position <= length
      /\ offset = (IF caller = "file_read" THEN position ELSE 0)
      /\ bytes_read \in Nat /\ rd_nbytes \in Nat
      /\ offset + bytes_read <= length
      /\ bytes_read >= rd_nbytes \/ offset + bytes_read >= length
  <2>1. MaxLength \in Nat
    BY ReadDataAssumption DEF MaxLength
  <2>2. length \in Nat /\ position \in Nat /\ position <= length
    BY <1>0, <2>1 DEF CallsInv
  <2> QED
    BY <1>0, <2>2, Zenon DEF LoopInv
<1>1. /\ rd_buf \in Seq(Image) /\ Len(rd_buf) = bytes_read
      /\ got \in Seq(Image) /\ Len(got) = position
      /\ \A k \in 1 .. bytes_read : rd_buf[k] = place(offset + k - 1)
      /\ \A k \in 1 .. position : got[k] = place(k - 1)
  BY <1>0, Zenon DEF CallsInv, LoopInv
<1>2. CASE caller = "file_read"
  <2>1. /\ position' = position + bytes_read /\ got' = got \o rd_buf
        /\ mem_location' = mem_location /\ offset = position
    BY <1>0, <1>2 DEF read_returns, position_after, LoopInv
  <2>2. /\ got' \in Seq(Image) /\ Len(got') = position + bytes_read
        /\ \A k \in 1 .. position + bytes_read :
             got'[k] = IF k <= position THEN got[k] ELSE rd_buf[k - position]
    <3>1. \A s, u \in Seq(Image) :
            /\ s \o u \in Seq(Image) /\ Len(s \o u) = Len(s) + Len(u)
            /\ \A k \in 1 .. Len(s) + Len(u) :
                 (s \o u)[k] = IF k <= Len(s) THEN s[k] ELSE u[k - Len(s)]
      OBVIOUS
    <3> QED
      BY <1>1, <2>1, <3>1, Zenon
  <2>3. \A k \in 1 .. position + bytes_read : got'[k] = place(k - 1)
    <3> SUFFICES ASSUME NEW k \in 1 .. position + bytes_read
                 PROVE  got'[k] = place(k - 1)
      OBVIOUS
    <3>1. CASE k <= position
      <4>1. k \in 1 .. position
        BY <1>a, <3>1
      <4> QED
        BY <1>1, <2>2, <3>1, <4>1, Zenon
    <3>2. CASE k > position
      <4>1. /\ k - position \in 1 .. bytes_read
            /\ offset + (k - position) - 1 = k - 1
        BY <1>a, <2>1, <3>2
      <4>2. rd_buf[k - position] = place(offset + (k - position) - 1)
        BY <1>1, <4>1, Zenon
      <4>3. place(offset + (k - position) - 1) = place(k - 1)
        BY <4>1 DEF place
      <4>4. got'[k] = rd_buf[k - position]
        <5>1. ~(k <= position)
          BY <1>a, <3>2
        <5> QED
          BY <2>2, <5>1, Zenon
      <4> QED
        BY <4>2, <4>3, <4>4
    <3> QED
      BY <1>a, <3>1, <3>2
  <2>4. \A k \in 1 .. position' : got'[k] = place(k - 1)'
    BY <1>0, <2>1, <2>3, Zenon DEF place
  <2>5. position' \in 0 .. length
    BY <1>a, <2>1
  <2>6. CallsInv'
    <3>1. Len(got') = position' /\ got' \in Seq(Image)
      BY <2>1, <2>2
    <3> QED
      BY <1>0, <2>1, <2>4, <2>5, <3>1, Zenon DEF CallsInv, place
  <2>7. bytes_read < rd_nbytes => position' = length
    BY <1>a, <2>1
  <2> QED
    BY <1>0, <2>6, <2>7 DEF ReadInv, ShortReadAtEnd
<1>3. CASE caller = "fs_copy"
  <2>1. /\ mem_location' = rd_buf /\ UNCHANGED <<position, got>>
        /\ offset = 0 /\ rd_nbytes = length
    BY <1>0, <1>3 DEF read_returns, LoopInv
  <2>2. bytes_read = length
    BY <1>a, <2>1
  <2>3. \A k \in 1 .. length : rd_buf[k] = place(k - 1)
    <3> SUFFICES ASSUME NEW k \in 1 .. length PROVE rd_buf[k] = place(k - 1)
      OBVIOUS
    <3>1. offset + k - 1 = k - 1
      BY <1>a, <2>1
    <3> QED
      BY <1>1, <2>2, <3>1
  <2>4. rd_buf = [k \in 1 .. length |-> place(k - 1)]
    BY <1>1, <2>2, <2>3
  <2>5. CallsInv'
    BY <1>0, <2>1, <2>4 DEF CallsInv, place
  <2> QED
    BY <1>0, <1>3, <2>5 DEF ReadInv, ShortReadAtEnd
<1> QED
  BY <1>0, <1>2, <1>3 DEF LoopInv

(* Every step keeps the invariant, and only the end of the file cuts a     *)
(* read short.                                                             *)
LEMMA ReadStep ==
  ASSUME ReadInv, ReadNext
  PROVE  ReadInv' /\ ShortReadAtEnd
<1>0. /\ CallsInv
      /\ rd_pc \in {"idle", "loop"} /\ rd_buf \in Seq(Image)
  BY DEF ReadInv, CallsInv
<1>a. read_returns => rd_pc = "loop" /\ (bytes_read >= rd_nbytes \/ at_end)
                      /\ rd_pc' = "idle"
  BY DEF read_returns
<1>b. rd_pc' = "loop" => ShortReadAtEnd
  BY <1>a DEF ShortReadAtEnd
<1>1. ASSUME NEW n \in ReadSizes, file_read(n) \/ file_read(-n)
      PROVE  ReadInv' /\ ShortReadAtEnd
  <2>1. n \in Int /\ -n \in Int
    BY ReadDataAssumption
  <2> QED
    BY <1>1, <1>b, <2>1, StartStep DEF file_read, read_data
<1>2. CASE fs_copy
  <2>1. length \in Int
    BY <1>0, ReadDataAssumption DEF CallsInv, MaxLength
  <2> QED
    BY <1>2, <1>b, <2>1, StartStep DEF fs_copy, read_data
<1>3. CASE fs_copy_empty
  <2>1. <<>> = [k \in 1 .. 0 |-> place(k - 1)]
    OBVIOUS
  <2>2. CallsInv'
    BY <1>0, <1>3, <2>1 DEF fs_copy_empty, inode, CallsInv, place
  <2> QED
    BY <1>3, <1>a, <2>2 DEF fs_copy_empty, ReadInv, ShortReadAtEnd
<1>4. CASE read_more
  <2>0. LoopInv /\ rd_pc = "loop" /\ bytes_read < rd_nbytes /\ ~at_end /\ ~block_done
    BY <1>4 DEF read_more, ReadInv
  <2>1. /\ file_data_block \in Blocks /\ in_range(file_data_block)
        /\ block_offset \in 0 .. BS - 1
        /\ file_data_block * BS + block_offset = offset + bytes_read
        /\ curr_data_loc = block_start(file_data_block) + block_offset
    BY <2>0, ReadDataAssumption DEF LoopInv, block_done, BS
  <2>2. rd_pc' = "loop"
    BY <1>4 DEF read_more, copy_byte
  <2> QED
    BY <1>4, <1>b, <2>0, <2>1, <2>2, CopyStep DEF read_more
<1>5. CASE read_next_block
  <2>0. LoopInv /\ rd_pc = "loop" /\ bytes_read < rd_nbytes /\ ~at_end /\ block_done
        /\ in_range(file_data_block + 1)
    BY <1>5 DEF read_next_block, ReadInv
  <2>1. /\ BS \in Nat /\ BS > 0 /\ file_data_block \in Nat /\ block_offset = BS
        /\ file_data_block * BS + block_offset = offset + bytes_read
        /\ offset + bytes_read < length
    <3>1. BS \in Nat /\ BS > 0 /\ Blocks \subseteq Nat /\ MaxLength \in Nat
      BY ReadDataAssumption DEF BS, Blocks, MaxLength
    <3>2. length \in Nat /\ position \in Nat
      BY <1>0, <3>1 DEF CallsInv
    <3> QED
      BY <2>0, <3>1, <3>2 DEF LoopInv, block_done, at_end, BS
  <2>2. /\ (file_data_block + 1) * BS + 0 = offset + bytes_read
        /\ 0 \in 0 .. BS - 1
    BY <2>1
  <2>3. file_data_block + 1 \in Blocks
    <3>1. file_data_block + 1 \in Nat /\ (file_data_block + 1) * BS + 0 < length
      BY <2>1, <2>2
    <3> QED
      BY <1>0, <3>1, BlockOf
  <2>4. block_start(file_data_block + 1) + 0 = block_start(file_data_block + 1)
    BY <1>0, <2>3, ReadDataAssumption DEF block_start, CallsInv
  <2>5. rd_pc' = "loop"
    BY <1>5 DEF read_next_block, copy_byte
  <2>6. copy_byte(file_data_block + 1, 0, block_start(file_data_block + 1) + 0)
    BY <1>5, <2>4 DEF read_next_block
  <2> QED
    BY <1>b, <2>0, <2>2, <2>3, <2>5, <2>6, CopyStep
<1>6. CASE read_fails
  <2>1. CallsInv' /\ rd_pc' = "idle"
    BY <1>0, <1>6, SameCalls DEF read_fails
  <2>2. ~read_returns
    <3>1. bytes_read \in Nat /\ rd_nbytes \in Nat
      BY <1>6 DEF read_fails, ReadInv, LoopInv
    <3> QED
      BY <1>6, <3>1 DEF read_fails, read_returns
  <2> QED
    BY <2>1, <2>2 DEF ReadInv, ShortReadAtEnd
<1>7. CASE read_returns
  BY <1>7, ReturnStep
<1> QED
  BY <1>1, <1>2, <1>3, <1>4, <1>5, <1>6, <1>7 DEF ReadNext

(* What the theorems below rest on.                                        *)
THEOREM ReadInvariant == ReadSpec => []ReadInv /\ [][ShortReadAtEnd]_rd_vars
<1>1. ReadInit => ReadInv
  <2>1. MaxLength \in Nat
    BY ReadDataAssumption DEF MaxLength
  <2> QED
    BY <2>1 DEF ReadInit, ReadInv, CallsInv
<1>2. ReadInv /\ [ReadNext]_rd_vars => ReadInv' /\ [ShortReadAtEnd]_rd_vars
  <2>1. ASSUME ReadInv, UNCHANGED rd_vars
        PROVE  ReadInv'
    BY <2>1 DEF rd_vars, inode, ReadInv, CallsInv, LoopInv, place, in_range,
                block_start
  <2> QED
    BY <2>1, ReadStep, Zenon
<1> QED
  BY <1>1, <1>2, PTL DEF ReadSpec

(* Whatever the sizes of the reads, they return the bytes of the file in   *)
(* order, each once, and read_data touches no byte outside the image.      *)
THEOREM ReadsCorrect == ReadSpec => []ReadsInOrder
<1>1. ASSUME ReadInv PROVE ReadsInOrder
  <2>1. /\ got \in Seq(Image) /\ Len(got) = position
        /\ \A k \in 1 .. position : got[k] = place(k - 1)
        /\ rd_buf \in Seq(Image)
    BY <1>1 DEF ReadInv, CallsInv
  <2>2. got = [k \in 1 .. position |-> place(k - 1)]
    BY <2>1
  <2> QED
    BY <2>1, <2>2 DEF ReadsInOrder
<1> QED
  BY <1>1, ReadInvariant, PTL

(* fs_copy loads the whole file or nothing.                                *)
THEOREM LoadsCorrect == ReadSpec => []LoadsWholeFile
<1>1. ReadInv => LoadsWholeFile
  BY DEF ReadInv, CallsInv, LoadsWholeFile
<1> QED
  BY <1>1, ReadInvariant, PTL

(* A read returns less than it was asked for at the end of the file only.  *)
THEOREM ShortReads == ReadSpec => ShortOnlyAtEnd
BY ReadInvariant, PTL DEF ShortOnlyAtEnd

-----------------------------------------------------------------------------
Stages == {"user", "len", "name", "inc", "store", "fs_close"}

FilesTypes ==
  /\ in_use \in [Slots -> SUBSET FDs]
  /\ dirs \in [Slots -> SUBSET FDs]
  /\ dirs_read \in Nat
  /\ pc \in [Slots -> Stages]
  /\ fd \in [Slots -> FDs]
  /\ len_of \in [Slots -> SUBSET Nat]
  /\ name_of \in [Slots -> Nat]
  /\ loaded \in [Slots -> Nat]
  /\ listed \in [Slots -> [FDs -> Nat]]

(* p has found an entry left and not counted it yet.                       *)
Reading(p) == pc[p] \in {"len", "name", "inc", "store"}

(* A process inside dir_read has the directory open; outside, it has taken *)
(* no length.                                                              *)
Holds(p) ==
  /\ Reading(p) => fd[p] \in dirs[p]
  /\ ~Reading(p) => len_of[p] = {}
  /\ dirs[p] \subseteq in_use[p]
  /\ \A f \in FDs : f \notin dirs[p] => listed[p][f] = 0

(* What ListsInOrder says of one listing, for every stage of dir_read.     *)
InOrder(p, f) ==
  /\ listed[p][f] = dirs_read
  /\ dirs_read <= n_dentries
  /\ fd[p] = f =>
       /\ Reading(p) => dirs_read < n_dentries
       /\ pc[p] = "len" => len_of[p] \subseteq {dirs_read}
       /\ pc[p] \in {"name", "inc", "store"} => len_of[p] = {dirs_read}
       /\ pc[p] \in {"inc", "store"} => name_of[p] = dirs_read
       /\ pc[p] = "store" => loaded[p] = dirs_read

Ordered == \A p \in Slots : \A f \in dirs[p] :
             <<p, f>> \notin mixed => InOrder(p, f)

(* The invariant: a listing that nobody moved agrees with dirs_read at     *)
(* every stage of a read, so that the store of a loaded value is right.    *)
FilesInv ==
  /\ FilesTypes
  /\ \A p \in Slots : Holds(p)
  /\ Ordered
  /\ NextListingFromStart

(* A process that a step leaves alone holds what it held.                  *)
LEMMA HoldsStill ==
  ASSUME NEW q \in Slots, Holds(q),
         in_use'[q] = in_use[q], dirs'[q] = dirs[q], pc'[q] = pc[q],
         fd'[q] = fd[q], len_of'[q] = len_of[q], listed'[q] = listed[q]
  PROVE  Holds(q)'
BY DEF Holds, Reading

(* A listing stays in order through a step that neither moves it nor reads *)
(* for it.                                                                 *)
LEMMA OrderStill ==
  ASSUME NEW q \in Slots, NEW g, InOrder(q, g),
         dirs_read' = dirs_read, listed'[q][g] = listed[q][g],
         \/ pc'[q] \in {"user", "fs_close"}
         \/ fd'[q] # g
         \/ /\ pc'[q] = pc[q] /\ fd'[q] = fd[q] /\ len_of'[q] = len_of[q]
            /\ name_of'[q] = name_of[q] /\ loaded'[q] = loaded[q]
  PROVE  InOrder(q, g)'
BY DEF InOrder, Reading

(* open: the new listing is in order if it begins at the first entry.      *)
LEMMA OpenStep ==
  ASSUME FilesInv, NEW p \in Slots, NEW is_dir \in BOOLEAN, open(p, is_dir)
  PROVE  FilesInv'
<1>1. PICK f \in FDs :
        /\ f \notin in_use[p] /\ pc[p] = "user"
        /\ in_use' = [in_use EXCEPT ![p] = @ \cup {f}]
        /\ dirs' = [dirs EXCEPT ![p] = IF is_dir THEN @ \cup {f} ELSE @]
        /\ mixed' = IF is_dir /\ dirs_read # 0 THEN mixed \cup {<<p, f>>}
                    ELSE mixed
        /\ UNCHANGED <<dirs_read, pc, fd, len_of, name_of, loaded, listed, torn>>
  BY DEF open, first_unused
<1>2. FilesTypes /\ Ordered /\ NextListingFromStart /\ \A q \in Slots : Holds(q)
  BY DEF FilesInv
<1>3. FilesTypes'
  BY <1>1, <1>2 DEF FilesTypes
<1>4. /\ dirs'[p] = IF is_dir THEN dirs[p] \cup {f} ELSE dirs[p]
      /\ in_use'[p] = in_use[p] \cup {f}
      /\ \A q \in Slots \ {p} : dirs'[q] = dirs[q] /\ in_use'[q] = in_use[q]
  BY <1>1, <1>2 DEF FilesTypes
<1>5. ASSUME NEW q \in Slots PROVE Holds(q)'
  <2>1. CASE q = p
    <3>1. Holds(p) /\ pc' = pc /\ len_of' = len_of /\ listed' = listed
      BY <1>1, <1>2
    <3> QED
      BY <1>1, <1>4, <2>1, <3>1 DEF Holds, Reading
  <2>2. CASE q # p
    BY <1>1, <1>2, <1>4, <2>2, HoldsStill
  <2> QED
    BY <2>1, <2>2
<1>6. ASSUME NEW q \in Slots, NEW g \in dirs'[q], <<q, g>> \notin mixed'
      PROVE  InOrder(q, g)'
  <2>1. CASE g \in dirs[q]
    <3>1. <<q, g>> \notin mixed
      BY <1>1, <1>6
    <3>2. InOrder(q, g)
      BY <1>2, <2>1, <3>1 DEF Ordered
    <3> QED
      BY <1>1, <3>2, OrderStill
  <2>2. CASE g \notin dirs[q]
    <3>1. q = p /\ g = f /\ is_dir
      BY <1>4, <1>6, <2>2
    <3>2. dirs_read = 0
      BY <1>1, <1>6, <3>1
    <3>3. listed[p][f] = 0
      BY <1>2, <2>2, <3>1 DEF Holds
    <3> QED
      BY <1>1, <3>1, <3>2, <3>3, FilesAssumption DEF InOrder, Reading
  <2> QED
    BY <2>1, <2>2
<1>7. NextListingFromStart'
  <2>1. \A q \in Slots : dirs[q] \subseteq dirs'[q]
    BY <1>4
  <2> QED
    BY <1>1, <1>2, <2>1 DEF NextListingFromStart
<1> QED
  BY <1>3, <1>5, <1>6, <1>7 DEF FilesInv, Ordered

(* close frees the descriptor, before fs_close.                            *)
LEMMA CloseStep ==
  ASSUME FilesInv, NEW p \in Slots, NEW f \in FDs, close(p, f)
  PROVE  FilesInv'
<1>1. /\ pc[p] = "user"
      /\ in_use' = [in_use EXCEPT ![p] = @ \ {f}]
      /\ dirs' = [dirs EXCEPT ![p] = @ \ {f}]
      /\ listed' = [listed EXCEPT ![p][f] = 0]
      /\ mixed' = mixed \ {<<p, f>>}
      /\ pc' = IF f \in dirs[p] THEN [pc EXCEPT ![p] = "fs_close"] ELSE pc
      /\ UNCHANGED <<dirs_read, fd, len_of, name_of, loaded, torn>>
  BY DEF close, goes
<1>2. FilesTypes /\ Ordered /\ NextListingFromStart /\ \A q \in Slots : Holds(q)
  BY DEF FilesInv
<1>3. /\ dirs'[p] = dirs[p] \ {f} /\ in_use'[p] = in_use[p] \ {f}
      /\ pc'[p] = IF f \in dirs[p] THEN "fs_close" ELSE "user"
      /\ listed'[p][f] = 0
      /\ \A g \in FDs \ {f} : listed'[p][g] = listed[p][g]
      /\ \A q \in Slots \ {p} :
           /\ dirs'[q] = dirs[q] /\ in_use'[q] = in_use[q]
           /\ pc'[q] = pc[q] /\ listed'[q] = listed[q]
  BY <1>1, <1>2 DEF FilesTypes
<1>4. FilesTypes'
  <2>1. listed' \in [Slots -> [FDs -> Nat]]
    BY <1>1, <1>2 DEF FilesTypes
  <2>2. pc' \in [Slots -> Stages]
    BY <1>1, <1>2 DEF FilesTypes, Stages
  <2> QED
    BY <1>1, <1>2, <2>1, <2>2 DEF FilesTypes
<1>5. ASSUME NEW q \in Slots PROVE Holds(q)'
  <2>1. CASE q = p
    BY <1>1, <1>2, <1>3, <2>1 DEF Holds, Reading
  <2>2. CASE q # p
    BY <1>1, <1>2, <1>3, <2>2, HoldsStill
  <2> QED
    BY <2>1, <2>2
<1>6. ASSUME NEW q \in Slots, NEW g \in dirs'[q], <<q, g>> \notin mixed'
      PROVE  InOrder(q, g)'
  <2>1. g \in dirs[q] /\ g \in FDs /\ (q = p => g # f)
    BY <1>2, <1>3 DEF FilesTypes
  <2>2. InOrder(q, g)
    BY <1>1, <1>2, <1>6, <2>1 DEF Ordered
  <2>3. listed'[q][g] = listed[q][g]
    BY <1>3, <2>1
  <2> QED
    BY <1>1, <1>3, <2>2, <2>3, OrderStill
<1>7. NextListingFromStart'
  BY <1>1, <1>2, <1>3 DEF NextListingFromStart
<1> QED
  BY <1>4, <1>5, <1>6, <1>7 DEF FilesInv, Ordered

(* A reset of dirs_read moves every listing that has begun.                *)
LEMMA ResetOrder ==
  ASSUME FilesTypes, Ordered, dirs_read' = 0, mixed' = mixed \cup moved(0),
         dirs' = dirs, listed' = listed, NEW q \in Slots, NEW g \in dirs'[q],
         <<q, g>> \notin mixed'
  PROVE  InOrder(q, g) /\ dirs_read' = dirs_read
<1>1. <<q, g>> \in Listings
  BY DEF Listings, FilesTypes
<1>2. dirs_read = 0 /\ <<q, g>> \notin mixed
  BY <1>1 DEF moved
<1> QED
  BY <1>2 DEF Ordered

(* fs_close, and execute of the directory.                                 *)
LEMMA EndStep ==
  ASSUME FilesInv, NEW p \in Slots, fs_close(p) \/ execute_dir(p)
  PROVE  FilesInv'
<1>1. /\ dirs_read' = 0 /\ mixed' = mixed \cup moved(0)
      /\ pc' = pc \/ (pc[p] = "fs_close" /\ pc' = [pc EXCEPT ![p] = "user"])
      /\ UNCHANGED <<in_use, dirs, fd, len_of, name_of, loaded, listed>>
  BY DEF fs_close, execute_dir, goes
<1>2. FilesTypes /\ Ordered /\ \A q \in Slots : Holds(q)
  BY DEF FilesInv
<1>3. FilesTypes'
  BY <1>1, <1>2 DEF FilesTypes, Stages
<1>4. \A q \in Slots : pc'[q] = pc[q] \/ (pc[q] = "fs_close" /\ pc'[q] = "user")
  BY <1>1, <1>2 DEF FilesTypes
<1>5. ASSUME NEW q \in Slots PROVE Holds(q)'
  <2>1. Holds(q)
    BY <1>2
  <2> QED
    BY <1>1, <1>4, <2>1 DEF Holds, Reading
<1>6. ASSUME NEW q \in Slots, NEW g \in dirs'[q], <<q, g>> \notin mixed'
      PROVE  InOrder(q, g)'
  <2>1. InOrder(q, g) /\ dirs_read' = dirs_read
    BY <1>1, <1>2, <1>6, ResetOrder
  <2> QED
    BY <1>1, <1>4, <2>1, OrderStill
<1>7. NextListingFromStart'
  BY <1>1 DEF NextListingFromStart
<1> QED
  BY <1>3, <1>5, <1>6, <1>7 DEF FilesInv, Ordered

(* dir_read finds an entry left.                                           *)
LEMMA DirReadStep ==
  ASSUME FilesInv, NEW p \in Slots, NEW f \in FDs, dir_read(p, f)
  PROVE  FilesInv'
<1>1. /\ pc[p] = "user" /\ f \in dirs[p] /\ dirs_read < n_dentries
      /\ fd' = [fd EXCEPT ![p] = f]
      /\ pc' = [pc EXCEPT ![p] = "len"]
      /\ UNCHANGED <<in_use, dirs, dirs_read, len_of, name_of, loaded, listed,
                     mixed, torn>>
  BY DEF dir_read, goes, entries_left
<1>2. FilesTypes /\ Ordered /\ \A q \in Slots : Holds(q)
  BY DEF FilesInv
<1>3. FilesTypes'
  BY <1>1, <1>2 DEF FilesTypes, Stages
<1>4. /\ pc'[p] = "len" /\ fd'[p] = f
      /\ \A q \in Slots \ {p} : pc'[q] = pc[q] /\ fd'[q] = fd[q]
  BY <1>1, <1>2 DEF FilesTypes
<1>5. ASSUME NEW q \in Slots PROVE Holds(q)'
  <2>1. CASE q = p
    BY <1>1, <1>2, <1>4, <2>1 DEF Holds, Reading
  <2>2. CASE q # p
    BY <1>1, <1>2, <1>4, <2>2, HoldsStill
  <2> QED
    BY <2>1, <2>2
<1>6. ASSUME NEW q \in Slots, NEW g \in dirs'[q], <<q, g>> \notin mixed'
      PROVE  InOrder(q, g)'
  <2>1. InOrder(q, g)
    BY <1>1, <1>2, <1>6 DEF Ordered
  <2>2. CASE q = p /\ g = f
    <3>1. len_of[p] = {}
      BY <1>1, <1>2 DEF Holds, Reading
    <3> QED
      BY <1>1, <1>4, <2>1, <2>2, <3>1 DEF InOrder, Reading
  <2>3. CASE ~(q = p /\ g = f)
    BY <1>1, <1>4, <2>1, <2>3, OrderStill
  <2> QED
    BY <2>2, <2>3
<1>7. NextListingFromStart'
  BY <1>1 DEF NextListingFromStart
<1> QED
  BY <1>3, <1>5, <1>6, <1>7 DEF FilesInv, Ordered

(* The stages of dir_read that only look: the length, the name and the     *)
(* load of dirs_read.                                                      *)
LEMMA LookStep ==
  ASSUME FilesInv, NEW p \in Slots,
         dir_read_len(p) \/ dir_read_name(p) \/ dir_read_load(p)
  PROVE  FilesInv'
<1>0. /\ Reading(p) /\ Reading(p)'
      /\ FilesTypes'
      /\ UNCHANGED <<in_use, dirs, dirs_read, fd, listed, mixed, torn>>
      /\ \A q \in Slots \ {p} :
           /\ pc'[q] = pc[q] /\ len_of'[q] = len_of[q]
           /\ name_of'[q] = name_of[q] /\ loaded'[q] = loaded[q]
      /\ InOrder(p, fd[p]) => InOrder(p, fd[p])'
  <2>0. FilesTypes
    BY DEF FilesInv
  <2>1. CASE dir_read_len(p)
    <3>1. /\ pc[p] = "len" /\ pc' \in [Slots -> Stages]
          /\ pc'[p] \in {"len", "name"}
          /\ len_of'[p] = len_of[p] \cup {dirs_read}
          /\ len_of' \in [Slots -> SUBSET Nat]
          /\ \A q \in Slots \ {p} : pc'[q] = pc[q] /\ len_of'[q] = len_of[q]
      BY <2>0, <2>1 DEF dir_read_len, goes, FilesTypes, Stages
    <3>2. UNCHANGED <<in_use, dirs, dirs_read, fd, name_of, loaded, listed,
                      mixed, torn>>
      BY <2>1 DEF dir_read_len
    <3>3. FilesTypes'
      BY <2>0, <3>1, <3>2 DEF FilesTypes
    <3> QED
      BY <3>1, <3>2, <3>3 DEF InOrder, Reading
  <2>2. CASE dir_read_name(p)
    <3>1. /\ pc[p] = "name" /\ pc' \in [Slots -> Stages] /\ pc'[p] = "inc"
          /\ name_of'[p] = dirs_read /\ name_of' \in [Slots -> Nat]
          /\ \A q \in Slots \ {p} : pc'[q] = pc[q] /\ name_of'[q] = name_of[q]
      BY <2>0, <2>2 DEF dir_read_name, goes, FilesTypes, Stages
    <3>2. UNCHANGED <<in_use, dirs, dirs_read, fd, len_of, loaded, listed,
                      mixed, torn>>
      BY <2>2 DEF dir_read_name
    <3>3. FilesTypes'
      BY <2>0, <3>1, <3>2 DEF FilesTypes
    <3> QED
      BY <3>1, <3>2, <3>3 DEF InOrder, Reading
  <2>3. CASE dir_read_load(p)
    <3>1. /\ pc[p] = "inc" /\ pc' \in [Slots -> Stages] /\ pc'[p] = "store"
          /\ loaded'[p] = dirs_read /\ loaded' \in [Slots -> Nat]
          /\ \A q \in Slots \ {p} : pc'[q] = pc[q] /\ loaded'[q] = loaded[q]
      BY <2>0, <2>3 DEF dir_read_load, goes, FilesTypes, Stages
    <3>2. UNCHANGED <<in_use, dirs, dirs_read, fd, len_of, name_of, listed,
                      mixed, torn>>
      BY <2>3 DEF dir_read_load
    <3>3. FilesTypes'
      BY <2>0, <3>1, <3>2 DEF FilesTypes
    <3> QED
      BY <3>1, <3>2, <3>3 DEF InOrder, Reading
  <2> QED
    BY <2>1, <2>2, <2>3
<1>1. Ordered /\ \A q \in Slots : Holds(q)
  BY DEF FilesInv
<1>2. ASSUME NEW q \in Slots PROVE Holds(q)'
  <2>1. CASE q = p
    BY <1>0, <1>1, <2>1 DEF Holds
  <2>2. CASE q # p
    BY <1>0, <1>1, <2>2, HoldsStill
  <2> QED
    BY <2>1, <2>2
<1>3. ASSUME NEW q \in Slots, NEW g \in dirs'[q], <<q, g>> \notin mixed'
      PROVE  InOrder(q, g)'
  <2>1. InOrder(q, g)
    BY <1>0, <1>1, <1>3 DEF Ordered
  <2>2. CASE q = p /\ g = fd[p]
    <3>1. InOrder(p, fd[p])'
      BY <1>0, <2>1, <2>2
    <3> QED
      BY <1>0, <2>2, <3>1 DEF InOrder
  <2>3. CASE ~(q = p /\ g = fd[p])
    BY <1>0, <2>1, <2>3, OrderStill
  <2> QED
    BY <2>2, <2>3
<1>4. NextListingFromStart'
  <2>1. fd[p] \in dirs'[p]
    BY <1>0, <1>1 DEF Holds
  <2> QED
    BY <2>1 DEF NextListingFromStart
<1> QED
  BY <1>0, <1>2, <1>3, <1>4 DEF FilesInv, Ordered

(* The store of dirs_read++: for a listing that nobody moved, the value    *)
(* loaded is still that of dirs_read.                                      *)
LEMMA StoreStep ==
  ASSUME FilesInv, NEW p \in Slots, dir_read_store(p)
  PROVE  FilesInv'
<1> DEFINE f == fd[p]
           n == loaded[p] + 1
           k == IF listed[p][f] > n_dentries THEN listed[p][f]
                ELSE listed[p][f] + 1
<1>1. FilesTypes /\ Ordered /\ \A q \in Slots : Holds(q)
  BY DEF FilesInv
<1>2. /\ pc[p] = "store"
      /\ dirs_read' = n
      /\ mixed' = mixed \cup (moved(n) \ {<<p, f>>})
      /\ listed' = [listed EXCEPT ![p][f] = k]
      /\ pc' = [pc EXCEPT ![p] = "user"]
      /\ fd' = [fd EXCEPT ![p] = 2]
      /\ len_of' = [len_of EXCEPT ![p] = {}]
      /\ name_of' = [name_of EXCEPT ![p] = 0]
      /\ loaded' = [loaded EXCEPT ![p] = 0]
      /\ in_use' = in_use /\ dirs' = dirs
  BY <1>1 DEF dir_read_store, returns, goes, FilesTypes
<1>3. /\ f \in dirs[p] /\ f \in FDs /\ n \in Nat /\ k \in Nat /\ 2 \in FDs
      /\ listed[p][f] \in Nat
  <2>1. f \in dirs[p]
    BY <1>1, <1>2 DEF Holds, Reading
  <2>2. f \in FDs /\ listed[p][f] \in Nat /\ loaded[p] \in Nat
    BY <1>1 DEF FilesTypes
  <2>3. 2 \in FDs
    BY FilesAssumption DEF FDs
  <2>4. n \in Nat
    BY <2>2
  <2>5. k \in Nat
    BY <2>2
  <2> HIDE DEF n, k, f
  <2> QED
    BY <2>1, <2>2, <2>3, <2>4, <2>5, Zenon DEF f
<1> HIDE DEF n, k, f
<1>4. /\ pc'[p] = "user" /\ len_of'[p] = {} /\ listed'[p][f] = k
      /\ \A g \in FDs \ {f} : listed'[p][g] = listed[p][g]
      /\ \A q \in Slots \ {p} :
           /\ pc'[q] = pc[q] /\ fd'[q] = fd[q] /\ len_of'[q] = len_of[q]
           /\ name_of'[q] = name_of[q] /\ loaded'[q] = loaded[q]
           /\ listed'[q] = listed[q]
  BY <1>1, <1>2, <1>3 DEF FilesTypes
<1>5. FilesTypes'
  <2>1. listed' \in [Slots -> [FDs -> Nat]]
    BY <1>1, <1>2, <1>3 DEF FilesTypes
  <2> QED
    BY <1>1, <1>2, <1>3, <2>1 DEF FilesTypes, Stages
<1>6. ASSUME NEW q \in Slots PROVE Holds(q)'
  <2>1. CASE q = p
    BY <1>1, <1>2, <1>3, <1>4, <2>1 DEF Holds, Reading
  <2>2. CASE q # p
    BY <1>1, <1>2, <1>4, <2>2, HoldsStill
  <2> QED
    BY <2>1, <2>2
<1>7. ASSUME NEW q \in Slots, NEW g \in dirs'[q], <<q, g>> \notin mixed'
      PROVE  InOrder(q, g)'
  <2>1. g \in dirs[q] /\ g \in FDs /\ <<q, g>> \notin mixed
    BY <1>1, <1>2, <1>7 DEF FilesTypes
  <2>2. InOrder(q, g)
    BY <1>1, <2>1 DEF Ordered
  <2>3. CASE q = p /\ g = f
    <3>1. /\ loaded[p] = dirs_read /\ dirs_read < n_dentries
          /\ listed[p][f] = dirs_read
      BY <1>2, <2>2, <2>3 DEF InOrder, Reading, f
    <3>2. dirs_read \in Nat
      BY <1>1 DEF FilesTypes
    <3>3. k = n /\ n <= n_dentries
      BY <3>1, <3>2, FilesAssumption DEF n, k
    <3> QED
      BY <1>2, <1>4, <2>3, <3>3 DEF InOrder, Reading
  <2>4. CASE ~(q = p /\ g = f)
    <3>1. <<q, g>> \in Listings /\ <<q, g>> # <<p, f>>
      BY <2>1, <2>4 DEF Listings
    <3>2. dirs_read' = dirs_read
      BY <1>2, <1>7, <3>1 DEF moved
    <3>3. listed'[q][g] = listed[q][g]
      BY <1>4, <2>1, <2>4
    <3> QED
      BY <1>4, <2>2, <3>2, <3>3, OrderStill
  <2> QED
    BY <2>3, <2>4
<1>8. NextListingFromStart'
  BY <1>2, <1>3 DEF NextListingFromStart
<1> QED
  BY <1>5, <1>6, <1>7, <1>8 DEF FilesInv, Ordered

(* halt closes the descriptors, and resets dirs_read if one of them is a   *)
(* directory.                                                              *)
LEMMA HaltStep ==
  ASSUME FilesInv, NEW p \in Slots, halt(p)
  PROVE  FilesInv'
<1> DEFINE n == dirs_read_after_halt(p)
<1>1. /\ FilesTypes /\ Ordered /\ NextListingFromStart
      /\ \A q \in Slots : Holds(q)
  BY DEF FilesInv
<1>2. /\ dirs_read' = n
      /\ mixed' = (mixed \cup moved(n)) \ ({p} \X FDs)
      /\ in_use' = [in_use EXCEPT ![p] = {}]
      /\ dirs' = [dirs EXCEPT ![p] = {}]
      /\ listed' = [listed EXCEPT ![p] = [g \in FDs |-> 0]]
      /\ torn' = (dirs[p] = {} /\ (torn \/ pc[p] = "fs_close"))
      /\ pc' = [pc EXCEPT ![p] = "user"]
      /\ fd' = [fd EXCEPT ![p] = 2]
      /\ len_of' = [len_of EXCEPT ![p] = {}]
      /\ name_of' = [name_of EXCEPT ![p] = 0]
      /\ loaded' = [loaded EXCEPT ![p] = 0]
  BY DEF halt, returns, goes
<1>3. n \in Nat /\ n = (IF dirs[p] # {} THEN 0 ELSE dirs_read) /\ 2 \in FDs
  BY <1>1, FilesAssumption DEF dirs_read_after_halt, FilesTypes, FDs
<1> HIDE DEF n
<1>4. /\ pc'[p] = "user" /\ len_of'[p] = {} /\ dirs'[p] = {} /\ in_use'[p] = {}
      /\ \A g \in FDs : listed'[p][g] = 0
      /\ \A q \in Slots \ {p} :
           /\ pc'[q] = pc[q] /\ fd'[q] = fd[q] /\ len_of'[q] = len_of[q]
           /\ name_of'[q] = name_of[q] /\ loaded'[q] = loaded[q]
           /\ listed'[q] = listed[q] /\ dirs'[q] = dirs[q]
           /\ in_use'[q] = in_use[q]
  BY <1>1, <1>2 DEF FilesTypes
<1>5. FilesTypes'
  BY <1>1, <1>2, <1>3 DEF FilesTypes, Stages
<1>6. ASSUME NEW q \in Slots PROVE Holds(q)'
  <2>1. CASE q = p
    BY <1>4, <2>1 DEF Holds, Reading
  <2>2. CASE q # p
    BY <1>1, <1>4, <2>2, HoldsStill
  <2> QED
    BY <2>1, <2>2
<1>7. ASSUME NEW q \in Slots, NEW g \in dirs'[q], <<q, g>> \notin mixed'
      PROVE  InOrder(q, g)'
  <2>1. q # p /\ g \in dirs[q] /\ g \in FDs
    BY <1>1, <1>4 DEF FilesTypes
  <2>2. <<q, g>> \in Listings /\ <<q, g>> \notin {p} \X FDs
    BY <2>1 DEF Listings
  <2>3. dirs_read' = dirs_read /\ <<q, g>> \notin mixed
    BY <1>2, <1>7, <2>2 DEF moved
  <2>4. InOrder(q, g)
    BY <1>1, <2>1, <2>3 DEF Ordered
  <2> QED
    BY <1>4, <2>1, <2>3, <2>4, OrderStill
<1>8. NextListingFromStart'
  <2>1. CASE dirs[p] # {}
    BY <1>2, <1>3, <2>1 DEF NextListingFromStart
  <2>2. CASE dirs[p] = {}
    BY <1>1, <1>2, <1>3, <1>4, <2>2 DEF NextListingFromStart
  <2> QED
    BY <2>1, <2>2
<1> QED
  BY <1>5, <1>6, <1>7, <1>8 DEF FilesInv, Ordered

(* Every interleaving of opens, reads, closes and halts keeps the          *)
(* invariant.                                                              *)
THEOREM FilesInvariant == Spec => []FilesInv
<1>1. Init => FilesInv
  <2> SUFFICES ASSUME Init PROVE FilesInv
    OBVIOUS
  <2>1. FilesTypes
    BY FilesAssumption DEF Init, FilesTypes, FDs, Stages
  <2>2. \A p \in Slots : Holds(p) /\ dirs[p] = {}
    BY DEF Init, Holds, Reading
  <2>3. NextListingFromStart
    BY DEF Init, NextListingFromStart
  <2> QED
    BY <2>1, <2>2, <2>3 DEF FilesInv, Ordered
<1>2. FilesInv /\ [Next]_vars => FilesInv'
  <2> SUFFICES ASSUME FilesInv, [Next]_vars PROVE FilesInv'
    OBVIOUS
  <2>1. CASE Next
    <3>1. PICK p \in Slots :
            \/ \E is_dir \in BOOLEAN : open(p, is_dir)
            \/ \E f \in FDs : close(p, f)
            \/ fs_close(p)
            \/ \E f \in FDs : dir_read(p, f)
            \/ dir_read_len(p)
            \/ dir_read_name(p)
            \/ dir_read_load(p)
            \/ dir_read_store(p)
            \/ execute_dir(p)
            \/ halt(p)
      BY <2>1, Zenon DEF Next
    <3> QED
      BY <3>1, OpenStep, CloseStep, EndStep, DirReadStep, LookStep, StoreStep,
         HaltStep, Zenon
  <2>2. CASE UNCHANGED vars
    BY <2>2
       DEF vars, FilesInv, FilesTypes, Holds, Reading, Ordered, InOrder,
           NextListingFromStart
  <2> QED
    BY <2>1, <2>2
<1> QED
  BY <1>1, <1>2, PTL DEF Spec

(* A listing that nobody else moves returns the entries in order, and      *)
(* stops at the end of the directory.                                      *)
THEOREM ListingsInOrder == Spec => []ListsInOrder
<1>1. FilesInv => ListsInOrder
  <2> SUFFICES ASSUME FilesInv PROVE ListsInOrder
    OBVIOUS
  <2>1. Ordered
    BY DEF FilesInv
  <2> QED
    BY <2>1 DEF Ordered, InOrder, ListsInOrder
<1> QED
  BY <1>1, FilesInvariant, PTL

(* When the last directory has been closed, the next listing starts with   *)
(* the first entry.                                                        *)
THEOREM ListingsStart == Spec => []NextListingFromStart
<1>1. FilesInv => NextListingFromStart
  BY DEF FilesInv
<1> QED
  BY <1>1, FilesInvariant, PTL
=============================================================================
