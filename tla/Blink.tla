------------------------------- MODULE Blink --------------------------------
(***************************************************************************)
(* The blinking characters of the program fish (blink.S, and mp1_malloc    *)
(* and mp1_free of fish.c): structures in a fixed array, those in use on a *)
(* list, which the requests of mp1_ioctl change and mp1_rtc_tasklet walks  *)
(* at every RTC interrupt the program has read.  mp1_ioctl_find changes    *)
(* nothing.                                                                *)
(***************************************************************************)
EXTENDS PowersOfTwo, Chains

CONSTANTS
  MAX_BLINKS,    \* structures in blink_array
  SCREEN,        \* characters on the screen
  Locations,     \* the locations programs pass to mp1_ioctl
  OnLengths,     \* on_length of the structures added
  OffLengths,    \* off_length of the structures added
  WIDTH          \* bits of an unsigned short

(* fish passes locations from 40 on: a structure added at location 0 would *)
(* be taken for a free one.                                                *)
ASSUME BlinkAssumption ==
  /\ MAX_BLINKS \in Nat \ {0}
  /\ SCREEN \in Nat
  /\ Locations \subseteq Nat \ {0}
  /\ WIDTH \in Nat \ {0}
  /\ OnLengths \cup OffLengths \subseteq 0 .. two_to[WIDTH] - 1

Structs == 1 .. MAX_BLINKS
NULL == 0
Nothing == [by |-> NULL, status |-> 0]

VARIABLES
  blink_array,    \* the structures
  mp1_list_head,  \* the first one in use, or NULL
  screen,         \* the structure whose character each location shows, and
                  \* whether it is its on_char or its off_char
  shown_for,      \* history: the ticks since each structure's character
                  \* changed, or was to change by a synchronisation
  synced          \* history: structures synchronised since they last changed

blink_vars == <<blink_array, mp1_list_head, screen, shown_for, synced>>

free == [location |-> 0, on_length |-> 0, off_length |-> 0,
         countdown |-> 0, status |-> 0, next |-> NULL]

BlinkInit ==
  /\ blink_array = [s \in Structs |-> free]
  /\ mp1_list_head = NULL
  /\ screen = [l \in 1 .. SCREEN - 1 |-> Nothing]
  /\ shown_for = [s \in Structs |-> 0]
  /\ synced = {}

(* The structures on the list, the first one last.                         *)
links ==
  [s \in Structs \cup {NULL} |-> IF s = NULL THEN NULL ELSE blink_array[s].next]

list == chain(links)[MAX_BLINKS + 1][mp1_list_head]

Elements(c) == {c[i] : i \in 1 .. Len(c)}

(* The structure of set S that a walk along list c comes to first, and the *)
(* one it comes to last.                                                   *)
first_of(c, S) ==
  c[CHOOSE i \in 1 .. Len(c) :
      c[i] \in S /\ \A j \in i + 1 .. Len(c) : c[j] \notin S]

last_of(c, S) ==
  c[CHOOSE i \in 1 .. Len(c) :
      c[i] \in S /\ \A j \in 1 .. i - 1 : c[j] \notin S]

(* The first structure on the list with location l, or NULL.               *)
mp1_find_helper(l) ==
  LET c == list
      found == {s \in Elements(c) : blink_array[s].location = l}
  IN IF found = {} THEN NULL ELSE first_of(c, found)

(* The screen sc once s has shown its on_char (1) or its off_char (0).     *)
mp1_poke(sc, s, location, status) ==
  [sc EXCEPT ![location] = [by |-> s, status |-> status]]

-----------------------------------------------------------------------------
(* mp1_malloc's structure.                                                 *)
mp1_malloc(s) ==
  /\ blink_array[s].location = 0
  /\ \A t \in 1 .. s - 1 : blink_array[t].location # 0

added(l, on, off) ==
  [location |-> l, on_length |-> on, off_length |-> off,
   countdown |-> on, status |-> 1, next |-> mp1_list_head]

mp1_ioctl_add(l, on, off) ==
  /\ l < SCREEN
  /\ \E s \in Structs :
       /\ mp1_malloc(s)
       /\ blink_array' = [blink_array EXCEPT ![s] = added(l, on, off)]
       /\ mp1_list_head' = s
       /\ screen' = mp1_poke(screen, s, l, 1)
       /\ shown_for' = [shown_for EXCEPT ![s] = 0]
       /\ synced' = synced \ {s}

(* The array after mp1_free(s).                                            *)
(* Faulty variant: only the link is cleared.                               *)
mp1_free_link(array, s) == [array EXCEPT ![s].next = NULL]

mp1_free(array, s) == [array EXCEPT ![s] = free]

(* The array once structure s has been taken off the list.                 *)
unlinked(s) ==
  [t \in Structs |-> IF blink_array[t].next = s
                     THEN [blink_array[t] EXCEPT !.next = blink_array[s].next]
                     ELSE blink_array[t]]

mp1_ioctl_remove(l) ==
  \E s \in {mp1_find_helper(l)} \ {NULL} :
    /\ mp1_list_head' = IF mp1_list_head = s THEN blink_array[s].next
                         ELSE mp1_list_head
    /\ blink_array' = mp1_free(unlinked(s), s)
    /\ shown_for' = [shown_for EXCEPT ![s] = 0]
    /\ synced' = synced \ {s}
    /\ UNCHANGED screen

(* Structure to after a synchronisation with structure from.               *)
(* Faulty variant: the countdown is not copied.                            *)
in_step_no_countdown(from, to) ==
  [to EXCEPT !.on_length = from.on_length, !.off_length = from.off_length,
             !.status = from.status]

in_step(from, to) ==
  [to EXCEPT !.on_length = from.on_length, !.off_length = from.off_length,
             !.countdown = from.countdown, !.status = from.status]

(* The cmovl after testb looks at the sign, so off_char is shown always.   *)
mp1_ioctl_sync(l1, l2) ==
  \E s1 \in {mp1_find_helper(l1)} \ {NULL} :
  \E s2 \in {mp1_find_helper(l2)} \ {NULL} :
    /\ blink_array' = [blink_array EXCEPT
                         ![s2] = in_step(blink_array[s1], blink_array[s2])]
    /\ screen' = mp1_poke(screen, s2, l2, 0)
    /\ shown_for' = [shown_for EXCEPT ![s2] = shown_for[s1]]
    /\ synced' = synced \cup {s2}
    /\ UNCHANGED mp1_list_head

-----------------------------------------------------------------------------
(* The countdown, as a signed number, has come to its end.                 *)
expired(countdown) == countdown = 0 \/ countdown >= two_to[WIDTH - 1]

(* A structure b that changes; one that is counted down.                   *)
toggled(b) ==
  [b EXCEPT !.countdown = IF b.status = 1 THEN b.off_length ELSE b.on_length,
            !.status = 1 - b.status]

(* The character a change shows.                                           *)
(* Faulty variant: the one of the status it leaves.                        *)
char_shown_old(b) == b.status

char_shown(b) == 1 - b.status

decremented(b) == [b EXCEPT !.countdown = (b.countdown - 1) % two_to[WIDTH]]

counted(s) == decremented(blink_array[s])

due == {s \in Elements(list) : expired(counted(s).countdown)}

(* The screen after a walk along list c that changes the structures in D:  *)
(* of those at the same location, the one it comes to last stays.          *)
screen_after(c, D) ==
  LET due_at(l) == {s \in D : blink_array[s].location = l} IN
  [l \in DOMAIN screen |->
     IF due_at(l) = {} THEN screen[l]
     ELSE LET s == last_of(c, due_at(l))
          IN [by |-> s, status |-> char_shown(counted(s))]]

mp1_rtc_tasklet ==
  /\ mp1_list_head # NULL
  /\ \E c \in {list}, D \in {due} :
       /\ blink_array' = [s \in Structs |->
                            CASE s \in D               -> toggled(counted(s))
                              [] s \in Elements(c) \ D -> counted(s)
                              [] OTHER                 -> blink_array[s]]
       /\ screen' = screen_after(c, D)
       /\ shown_for' = [s \in Structs |->
                          IF s \in Elements(c) \ D THEN shown_for[s] + 1 ELSE 0]
       /\ synced' = synced \ D
  /\ UNCHANGED mp1_list_head

mp1_ioctl ==
  \/ \E l \in Locations, on \in OnLengths, off \in OffLengths :
       mp1_ioctl_add(l, on, off)
  \/ \E l \in Locations : mp1_ioctl_remove(l)
  \/ \E l1, l2 \in Locations : mp1_ioctl_sync(l1, l2)

BlinkNext == mp1_ioctl \/ mp1_rtc_tasklet

BlinkSpec == BlinkInit /\ [][BlinkNext]_blink_vars

-----------------------------------------------------------------------------
Allocated == {s \in Structs : blink_array[s].location # 0}

(* The list, which the tasklet and every request walk without a bound, is  *)
(* not cyclic and holds exactly the structures mp1_malloc takes to be in   *)
(* use, after any order of additions and removals.                         *)
ListHoldsAllocated ==
  LET c == list IN
  /\ \A i, j \in 1 .. Len(c) : c[i] = c[j] => i = j
  /\ Elements(c) = Allocated

length(b) == IF b.status = 1 THEN b.on_length ELSE b.off_length

(* The ticks b keeps its status: as many as the length says, and one if    *)
(* the length is zero or above two_to[WIDTH - 1], where the countdown      *)
(* looks negative.                                                         *)
lasts(b) == IF length(b) \in 1 .. two_to[WIDTH - 1] THEN length(b) ELSE 1

NeverLate == \A s \in Allocated : shown_for[s] < lasts(blink_array[s])

NeverEarly ==
  \A s \in (Allocated \cap Allocated') \ synced' :
    blink_array'[s].status # blink_array[s].status =>
      shown_for[s] + 1 = lasts(blink_array[s])

(* A structure keeps a status for exactly the ticks it lasts: no change    *)
(* comes too late or too early, whatever the requests before it.  A        *)
(* structure that was synchronised changes with the other, which was shown *)
(* for shown_for ticks.                                                    *)
CountsTicks == [][NeverLate /\ NeverEarly]_blink_vars

(* A location shows the on_char or the off_char of the structure that      *)
(* wrote it last, whichever its status says; only after a synchronisation, *)
(* which always shows the off_char, may it differ until the next change.   *)
ShowsStatus ==
  \A s \in Allocated \ synced :
    LET at == screen[blink_array[s].location] IN
    at.by = s => at.status = blink_array[s].status
=============================================================================
