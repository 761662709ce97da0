---------------------------- MODULE KernelPaging ----------------------------
(***************************************************************************)
(* Module Kernel with the page tables behind it: every action of Kernel    *)
(* together with the calls of paging.c that its code makes.  Kernel says   *)
(* which video page a process should see, PageTables what the CPU makes of *)
(* the addresses it uses.                                                  *)
(***************************************************************************)
EXTENDS KernelProperties, PageTables

CONSTANT
  VIDEO_PAGE  \* the page of VIDEO; VIDEO_0, VIDEO_1, ... are the next ones

ASSUME PagingAssumption ==
  /\ Directories = PIDs
  /\ VIDEO_PAGE \in Nat \ {0}
  /\ NumPtes \in Nat
  /\ VIDEO_PAGE + NUM_TERMINALS < NumPtes

all_vars == <<vars, paging_vars>>

(* VIDEO, or the page of a terminal.                                       *)
page_number(page) ==
  IF page = ACTIVE_CONTEXT THEN VIDEO_PAGE ELSE VIDEO_PAGE + 1 + page

-----------------------------------------------------------------------------
AllInit == Init /\ paging_init

(* execute, entry and terminal_switch give a process a new directory.      *)
starts ==
  /\ \/ Boot
     \/ \E file \in Programs, a \in Args \cup {NoArgs} : execute(file, a)
     \/ Booted /\ \E t \in Terminals :
                    switch_allowed(t) /\ terminal_switch_new(t)
  /\ new_page_directory(CPID')

(* halt and exception_halt, whoever calls them: directory 0 is loaded only *)
(* until the new shell's.                                                  *)
ends ==
  /\ \/ halt
     \/ exception
     \/ pitHandler /\ halt_pending
     \/ Booted /\ key_ctrl_c /\ CPID = active_processes[cur_terminal]
  /\ IF PPID[CPID] # 0 THEN swap_pages(CPID') ELSE new_page_directory(CPID')

(* task_switch maps the windows, then loads the new process's directory.   *)
switches ==
  /\ pitHandler
  /\ ~halt_pending
  /\ new_page_directory_entries(
       windows(CPID, CPID'),
       [p \in Directories |-> page_number(right_page(p, cur_terminal))])
  /\ loadPageDir(CPID')

maps ==
  /\ vidmap_map
  /\ new_page_directory_entries({CPID},
       [p \in {CPID} |-> page_number(vidmap_page[CPID])])
  /\ loadPageDir(CPID)

(* What leaves the tables alone.                                           *)
others ==
  /\ \/ vidmap_choose
     \/ Booted /\ key_ctrl_c /\ CPID # active_processes[cur_terminal]
     \/ Booted /\ key_other
     \/ Booted /\ \E t \in Terminals :
                    /\ switch_allowed(t)
                    /\ terminal_switch_same(t) \/ terminal_switch_live(t)
  /\ UNCHANGED paging_vars

AllNext == starts \/ ends \/ switches \/ maps \/ others

(* As in Kernel: the PIT fires for ever.                                   *)
AllSpec ==
  /\ AllInit
  /\ [][AllNext]_all_vars
  /\ WF_all_vars(starts /\ Boot)
  /\ WF_all_vars(switches \/ (ends /\ pitHandler))

(* A video page table that its directory does not name cannot be read, and *)
(* is written again before it is named: states that differ in such a table *)
(* only are explored once.                                                 *)
reachable(dir, table) == IF USER_PAGE_BOTTOM \in DOMAIN dir THEN table ELSE absent

StateView ==
  <<vars, pageDir, first_4MB, loaded, tlb.dir, tlb.first_4MB,
    reachable(tlb.dir, tlb.video_page_tables),
    [p \in Directories |-> reachable(pageDir[p], video_page_tables[p])]>>

-----------------------------------------------------------------------------
(* The virtual pages <<d, i>> a user program may use.                      *)
UserPages ==
  {v \in (DOMAIN tlb.dir) \X Ptes :
     Mapped(v[1], v[2]) /\ Translation(v[1], v[2]).user}

(* A user program sees its own image and, if it or task_switch mapped one  *)
(* since it was started, the video page that is its own; nothing else,     *)
(* whatever processes its slot had before and whatever the CPU remembers.  *)
UserSpace ==
  Booted =>
    {<<v, Translation(v[1], v[2]).frame>> : v \in UserPages} =
      {<<<<PROGRAM_IMAGE, i>>, <<CPID + 1, i>>>> : i \in Ptes}
      \cup IF user_video[CPID] = NOT_MAPPED THEN {}
           ELSE {<<<<USER_PAGE_BOTTOM, 0>>, <<0, page_number(user_video[CPID])>>>>}

(* Whatever directory is loaded, the kernel finds its own 4 MB, with its   *)
(* stacks and handlers, and the video pages where they are, and page 0     *)
(* nowhere; and it is the directory of the current process.                *)
KernelSpace ==
  /\ loaded = cr3
  /\ \A i \in Ptes \ {0} :
       /\ Mapped(KERNEL_LOC, i) /\ Mapped(LOW, i)
       /\ Translation(KERNEL_LOC, i) = [user |-> FALSE, frame |-> <<KERNEL_LOC, i>>]
       /\ Translation(LOW, i) = [user |-> FALSE, frame |-> <<0, i>>]
  /\ ~Mapped(LOW, 0)
=============================================================================
