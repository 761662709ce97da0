----------------------------- MODULE PageTables -----------------------------
(***************************************************************************)
(* The page directories and tables of paging.c and the operations on them; *)
(* module KernelPaging has the kernel call these.                          *)
(*                                                                         *)
(* A directory or table is a function on its entries that are present.     *)
(* The CPU keeps the directory and the tables as they were when cr3 was    *)
(* last loaded, the worst that a TLB can do.                               *)
(***************************************************************************)
EXTENDS Integers

CONSTANTS
  Directories,  \* process slots with a directory; slot 0 is the kernel's
  NumPtes       \* bound: entries of a page table

VARIABLES
  pageDir, first_4MB, video_page_tables,  \* for every slot
  loaded,  \* cr3: the slot whose directory is loaded
  tlb      \* what the CPU remembers of its directory and tables

tables == <<pageDir, first_4MB, video_page_tables>>
paging_vars == <<tables, loaded, tlb>>

Ptes == 0 .. NumPtes - 1

(* The directory entries that are used.                                    *)
LOW == 0
KERNEL_LOC == 1
PROGRAM_IMAGE == 2
USER_PAGE_BOTTOM == 3

(* A directory entry names a table of the slot or a 4 MB region, a table   *)
(* entry a page of the first 4 MB.                                         *)
to_table(table, user) == [table |-> table, user |-> user]
page_4MB(region, user) == [table |-> "none", user |-> user, region |-> region]
page_4KB(page, user) == [page |-> page, user |-> user]

absent == [i \in {} |-> 0]

(* A directory or table once entry i is e and present.                     *)
with_entry(table, i, e) ==
  [j \in DOMAIN table \cup {i} |-> IF j = i THEN e ELSE table[j]]

(* cr3 is loaded with p's directory, the tables being those of the next    *)
(* state.                                                                  *)
loadPageDir(p) ==
  /\ loaded' = p
  /\ tlb' = [dir |-> pageDir'[p], first_4MB |-> first_4MB'[p],
             video_page_tables |-> video_page_tables'[p]]

-----------------------------------------------------------------------------
(* The first 4 MB mapped to themselves for the kernel, without page 0.     *)
(* Faulty variant: with it.                                                *)
identity_from_0 == [i \in Ptes |-> page_4KB(i, FALSE)]

identity == [i \in Ptes \ {0} |-> page_4KB(i, FALSE)]

kernel_part(dir) ==
  with_entry(with_entry(dir, LOW, to_table("first_4MB", FALSE)),
             KERNEL_LOC, page_4MB(KERNEL_LOC, FALSE))

paging_init ==
  /\ pageDir = [p \in Directories |-> IF p = 0 THEN kernel_part(absent) ELSE absent]
  /\ first_4MB = [p \in Directories |-> IF p = 0 THEN identity ELSE absent]
  /\ video_page_tables = [p \in Directories |-> absent]
  /\ loaded = 0
  /\ tlb = [dir |-> kernel_part(absent), first_4MB |-> identity,
            video_page_tables |-> absent]

(* The directory of a process.  Faulty variant: what the last process of   *)
(* the slot left stays.                                                    *)
process_directory_kept(p, old) ==
  with_entry(kernel_part(old), PROGRAM_IMAGE, page_4MB(p + 1, TRUE))

process_directory(p, old) ==
  with_entry(kernel_part(absent), PROGRAM_IMAGE, page_4MB(p + 1, TRUE))

new_page_directory(p) ==
  /\ pageDir' = [pageDir EXCEPT ![p] = process_directory(p, pageDir[p])]
  /\ first_4MB' = [first_4MB EXCEPT ![p] = identity]
  /\ UNCHANGED video_page_tables
  /\ loadPageDir(p)

(* new_page_directory_entry for a 4 KB page of the user's at the bottom of *)
(* the user's video pages, for every slot in S: the callers ask for no     *)
(* other.  page[p] is the page slot p gets.  Each call loads cr3; what it  *)
(* is afterwards is left to the caller.                                    *)
new_page_directory_entries(S, page) ==
  /\ pageDir' = [p \in Directories |->
       IF p \in S
         THEN with_entry(pageDir[p], USER_PAGE_BOTTOM,
                         to_table("video_page_tables", TRUE))
         ELSE pageDir[p]]
  /\ video_page_tables' = [p \in Directories |->
       IF p \in S THEN with_entry(video_page_tables[p], 0, page_4KB(page[p], TRUE))
                  ELSE video_page_tables[p]]
  /\ UNCHANGED first_4MB

swap_pages(p) == UNCHANGED tables /\ loadPageDir(p)

-----------------------------------------------------------------------------
(* The hardware: what the CPU makes of virtual page <<d, i>>, a physical   *)
(* page <<4 MB region, page>> and whether user programs may use it.        *)
Mapped(d, i) ==
  /\ d \in DOMAIN tlb.dir
  /\ tlb.dir[d].table # "none" => i \in DOMAIN tlb[tlb.dir[d].table]

Translation(d, i) ==
  LET e == tlb.dir[d] IN
  IF e.table = "none" THEN [user |-> e.user, frame |-> <<e.region, i>>]
  ELSE LET t == tlb[e.table][i]
       IN [user |-> e.user /\ t.user, frame |-> <<0, t.page>>]
=============================================================================
