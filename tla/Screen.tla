------------------------------- MODULE Screen -------------------------------
(***************************************************************************)
(* The text screens of lib.c and terminal.c: the visible page of video     *)
(* memory, the hidden page of each terminal, the cursors, and the three    *)
(* kinds of code that write them: putc called by a program's write, which  *)
(* runs with interrupts on; the keyboard handler, which echoes, clears and *)
(* switches terminals; and the timer's task_switch.                        *)
(*                                                                         *)
(* putc is two steps per statement, the reading of video_mem and the rest, *)
(* and scroll's loops are a step per place, so a key may come between any  *)
(* two.                                                                    *)
(* Each terminal has one process that can run, the leaf of its chain.  A   *)
(* character is named by the place in the terminal's text that it takes,   *)
(* so any character in a wrong place shows.  Colours are left out.         *)
(***************************************************************************)
EXTENDS Integers

CONSTANTS
  NUM_ROWS, NUM_COLS,
  NUM_TERMINALS,
  BUFFER_SIZE,    \* bytes in a terminal's line buffer
  MaxText,        \* bounds on the cells of text given between clears: to
  MaxOther        \* terminal 0, and to each of the others

ASSUME ScreenAssumption ==
  {NUM_ROWS, NUM_COLS, NUM_TERMINALS, BUFFER_SIZE, MaxText, MaxOther}
    \subseteq Nat \ {0}

Terminals == 0 .. NUM_TERMINALS - 1
Addresses == 0 .. NUM_ROWS * NUM_COLS - 1

(* The visible page; a hidden page is named by its terminal.               *)
ACTIVE_CONTEXT == -1

(* What putc is given: a space, a newline, or the character for place k of *)
(* terminal t's text, <<t, k>>.                                            *)
Space == <<-1, 0>>
Newline == <<-2, 0>>

VARIABLES
  cur_terminal,        \* the terminal shown
  video_mem,           \* the page putc writes to
  cpu,                 \* the terminal of the current process
  launched,            \* terminals that have been given a shell
  needs_to_be_halted,  \* terminals with a pending CTRL-C
  visible, hidden,     \* the pages, by address
  screen_x, screen_y,  \* the cursor of each terminal
  buf_pos,             \* characters in each terminal's line buffer
  kbd_is_read,         \* terminals with a line that ENTER has ended
  pc, out, target,     \* the putc of each terminal's process: its next
                       \* statement, its character, the place it is at
  seen,                \* the page that statement has read video_mem to be
  roll,                \* history: each terminal's text as an endless roll
  disturbed            \* history: a key came inside a putc and changed its
                       \* terminal's text, or made it use the cursor or
                       \* the page of another

page_vars == <<visible, hidden>>
pos_vars == <<screen_x, screen_y>>
line_vars == <<buf_pos, kbd_is_read>>
putc_vars == <<pc, out, target, seen>>
history_vars == <<roll, disturbed>>
vars == <<cur_terminal, video_mem, cpu, launched, needs_to_be_halted,
          page_vars, pos_vars, line_vars, putc_vars, history_vars>>

NoTarget == [page |-> ACTIVE_CONTEXT, a |-> 0]
NotRead == -2

-----------------------------------------------------------------------------
(* History.  The text of a terminal since it was last cleared: the places  *)
(* with a character, where the next one goes, and the first row still on   *)
(* the screen.  Rows have NUM_COLS places and never run out.               *)
EmptyRoll == [written |-> {}, pos |-> 0, top |-> 0]

fed(r, c) ==
  LET next == IF c = Newline THEN (r.pos \div NUM_COLS + 1) * NUM_COLS
                             ELSE r.pos + 1
      last == next \div NUM_COLS - NUM_ROWS + 1
  IN [written |-> IF c = Newline THEN r.written ELSE r.written \cup {r.pos},
      pos     |-> next,
      top     |-> IF r.top < last THEN last ELSE r.top]

rubbed(r) ==
  [written |-> r.written \ {r.pos - 1}, pos |-> r.pos - 1, top |-> r.top]

(* The character terminal t is given next, and the bound on its text.      *)
glyph(t) == <<t, roll[t].pos>>
HasRoom(t) == roll[t].pos < (IF t = 0 THEN MaxText ELSE MaxOther)

-----------------------------------------------------------------------------
(* lib.c without interrupts, on a page and its cursor.                     *)
page_at(mem, x, y) == [mem |-> mem, x |-> x, y |-> y]

BlankPage == [a \in Addresses |-> Space]

(* C's remainder, whose sign is that of the dividend.                      *)
rem(a, n) == IF a >= 0 THEN a % n ELSE -((-a) % n)

address(s) == NUM_COLS * s.y + s.x
off_page(s) == address(s) \notin Addresses

moved_up(mem) ==
  [a \in Addresses |-> IF a + NUM_COLS \in Addresses THEN mem[a + NUM_COLS]
                                                     ELSE mem[a]]
last_row_blank(mem) ==
  [a \in Addresses |-> IF a + NUM_COLS \in Addresses THEN mem[a] ELSE Space]

(* Faulty variant: the last row is left as it was.                         *)
scroll_unblanked(s) ==
  IF s.y >= NUM_ROWS THEN page_at(moved_up(s.mem), s.x, s.y - 1) ELSE s

scroll(s) ==
  IF s.y >= NUM_ROWS
    THEN page_at(last_row_blank(moved_up(s.mem)), s.x, s.y - 1)
    ELSE s

stored(s, c) ==
  IF off_page(s) THEN s
                 ELSE page_at([s.mem EXCEPT ![address(s)] = c], s.x, s.y)

wrapped(s) ==
  IF s.x = NUM_COLS THEN scroll(page_at(s.mem, s.x, s.y + 1)) ELSE s

putc(s, c) ==
  IF c = Newline
    THEN scroll(page_at(s.mem, 0, s.y + 1))
    ELSE LET w == wrapped(page_at(stored(s, c).mem, s.x + 1, s.y))
         IN page_at(w.mem, w.x % NUM_COLS, rem(w.y, NUM_ROWS))

(* clear, set_pos(0, 0) and the shell's prompt, as one character.          *)
cleared(c) == putc(page_at(BlankPage, 0, 0), c)

(* Backspace: the place before, blanked, and the cursor put on it.         *)
before(s) ==
  IF s.x = 0 THEN page_at(s.mem, NUM_COLS - 1, s.y - 1)
             ELSE page_at(s.mem, s.x - 1, s.y)

(* set_pos for an x and a y at most one past their range.                  *)
set_pos(s, x, y) ==
  page_at(s.mem, x, IF y >= NUM_ROWS THEN NUM_ROWS - 1 ELSE y)

backspaced(s) ==
  LET b == set_pos(s, before(s).x, before(s).y)
  IN set_pos(putc(b, Space), b.x, b.y)

-----------------------------------------------------------------------------
(* The pages and cursors, as video_mem selects them.                       *)
right_page(t, cur) == IF t = cur THEN ACTIVE_CONTEXT ELSE t

idx(v) == IF v = ACTIVE_CONTEXT THEN cur_terminal ELSE v
get_screen_xy_idx == idx(video_mem)

Page(v) == IF v = ACTIVE_CONTEXT THEN visible ELSE hidden[v]

set_page(v, mem) ==
  IF v = ACTIVE_CONTEXT
    THEN visible' = mem /\ hidden' = hidden
    ELSE visible' = visible /\ hidden' = [hidden EXCEPT ![v] = mem]

screen(v) == page_at(Page(v), screen_x[idx(v)], screen_y[idx(v)])

set_screen(v, s) ==
  /\ set_page(v, s.mem)
  /\ screen_x' = [screen_x EXCEPT ![idx(v)] = s.x]
  /\ screen_y' = [screen_y EXCEPT ![idx(v)] = s.y]

Init ==
  /\ cur_terminal = 0
  /\ video_mem = ACTIVE_CONTEXT
  /\ cpu = 0
  /\ launched = {0}
  /\ needs_to_be_halted = {}
  /\ visible = BlankPage
  /\ hidden = [t \in Terminals |-> BlankPage]
  /\ screen_x = [t \in Terminals |-> 0]
  /\ screen_y = [t \in Terminals |-> 0]
  /\ buf_pos = [t \in Terminals |-> 0]
  /\ kbd_is_read = {}
  /\ pc = [t \in Terminals |-> "user"]
  /\ out = [t \in Terminals |-> Space]
  /\ target = [t \in Terminals |-> NoTarget]
  /\ seen = [t \in Terminals |-> NotRead]
  /\ roll = [t \in Terminals |-> EmptyRoll]
  /\ disturbed = FALSE

-----------------------------------------------------------------------------
(* A program's write: one putc after the other, statement by statement.    *)
(* A statement first reads video_mem, for the page to store to or in       *)
(* get_screen_xy_idx, and reads cur_terminal and acts after that, so that  *)
(* ALT-Fn may come in between.  The calls of get_screen_xy_idx in one      *)
(* statement are taken as one: each returns the process's own terminal     *)
(* unless an ALT-Fn comes between its two reads.                           *)
at(label) == pc[cpu] = label
looked(label) == at(label) /\ seen[cpu] # NotRead
goto(label) == pc' = [pc EXCEPT ![cpu] = label]
go_to_place(a) ==
  target' = [target EXCEPT ![cpu] = [page |-> ACTIVE_CONTEXT, a |-> a]]
statement_ends == seen' = [seen EXCEPT ![cpu] = NotRead]

terminal_write ==
  /\ at("user")
  /\ HasRoom(cpu)
  /\ \E c \in {glyph(cpu), Newline} :
       /\ out' = [out EXCEPT ![cpu] = c]
       /\ goto(IF c = Newline THEN "y_inc" ELSE "address")
  /\ UNCHANGED <<cur_terminal, video_mem, cpu, launched, needs_to_be_halted,
                 page_vars, pos_vars, line_vars, target, seen, history_vars>>

(* All statements but the store to an address computed before it, and the  *)
(* test that ends the loop over the last row.                              *)
reads_video_mem ==
  /\ pc[cpu] \notin {"user", "store"}
  /\ at("blank") => target[cpu].a \in Addresses

putc_looks ==
  /\ reads_video_mem
  /\ seen[cpu] = NotRead
  /\ seen' = [seen EXCEPT ![cpu] = video_mem]
  /\ UNCHANGED <<cur_terminal, video_mem, cpu, launched, needs_to_be_halted,
                 page_vars, pos_vars, line_vars, pc, out, target, history_vars>>

(* get_screen_xy_idx returns, and the cursor it selects.                   *)
index == idx(seen[cpu])
x_now == screen_x[index]
y_now == screen_y[index]

uses_cursor ==
  /\ statement_ends
  /\ disturbed' = (disturbed \/ index # cpu)

(* The address is computed, then the store uses it.                        *)
putc_address ==
  /\ looked("address")
  /\ uses_cursor
  /\ target' = [target EXCEPT ![cpu] =
                  [page |-> seen[cpu], a |-> NUM_COLS * y_now + x_now]]
  /\ goto("store")
  /\ UNCHANGED <<cur_terminal, video_mem, cpu, launched, needs_to_be_halted,
                 page_vars, pos_vars, line_vars, out, roll>>

(* A store to place a of page p.  The page may have left the screen, or    *)
(* come to it, since it was read; a store beside the page falls on a       *)
(* neighbouring one or on nothing.                                         *)
putc_writes(p, a, c) ==
  /\ set_page(p, IF a \in Addresses THEN [Page(p) EXCEPT ![a] = c] ELSE Page(p))
  /\ disturbed' = (disturbed \/ a \notin Addresses
                              \/ p # right_page(cpu, cur_terminal))

putc_store ==
  /\ at("store")
  /\ putc_writes(target[cpu].page, target[cpu].a, out[cpu])
  /\ target' = [target EXCEPT ![cpu] = NoTarget]
  /\ goto("x_inc")
  /\ UNCHANGED <<cur_terminal, video_mem, cpu, launched, needs_to_be_halted,
                 pos_vars, line_vars, out, seen, roll>>

(* The statements that read the cursor and put it at x, y.                 *)
sets_cursor(x, y) ==
  /\ uses_cursor
  /\ screen_x' = [screen_x EXCEPT ![index] = x]
  /\ screen_y' = [screen_y EXCEPT ![index] = y]
  /\ UNCHANGED <<cur_terminal, video_mem, cpu, launched, needs_to_be_halted,
                 page_vars, line_vars>>

putc_moves(x, y) == sets_cursor(x, y) /\ UNCHANGED <<out, target, roll>>

is_newline == out[cpu] = Newline

putc_x_inc == looked("x_inc") /\ goto("wrap") /\ putc_moves(x_now + 1, y_now)

putc_wrap ==
  /\ looked("wrap")
  /\ goto(IF x_now = NUM_COLS THEN "y_inc" ELSE "x_mod")
  /\ putc_moves(x_now, y_now)

putc_y_inc ==
  /\ looked("y_inc")
  /\ goto(IF is_newline THEN "x_zero" ELSE "scroll")
  /\ putc_moves(x_now, y_now + 1)

putc_x_zero == looked("x_zero") /\ goto("scroll") /\ putc_moves(0, y_now)

(* The end of putc: the newline's is that of scroll.                       *)
finish ==
  /\ goto("user")
  /\ out' = [out EXCEPT ![cpu] = Space]
  /\ roll' = [roll EXCEPT ![cpu] = fed(@, out[cpu])]

scroll_test ==
  /\ looked("scroll")
  /\ sets_cursor(x_now, y_now)
  /\ \/ /\ y_now >= NUM_ROWS
        /\ goto("move") /\ go_to_place(0)
        /\ UNCHANGED <<out, roll>>
     \/ /\ y_now < NUM_ROWS /\ is_newline
        /\ finish
        /\ UNCHANGED target
     \/ /\ y_now < NUM_ROWS /\ ~is_newline
        /\ goto("x_mod")
        /\ UNCHANGED <<out, target, roll>>

(* memmove has been given the page, and copies place after place.          *)
scroll_move ==
  LET p == seen[cpu]
      a == target[cpu].a
      below == a + NUM_COLS
  IN
  /\ looked("move")
  /\ \/ /\ below \in Addresses
        /\ putc_writes(p, a, Page(p)[below])
        /\ go_to_place(a + 1)
        /\ UNCHANGED <<pc, seen>>
     \/ /\ below \notin Addresses
        /\ target' = [target EXCEPT ![cpu] = NoTarget]
        /\ goto("y_dec")
        /\ statement_ends
        /\ UNCHANGED <<page_vars, disturbed>>
  /\ UNCHANGED <<cur_terminal, video_mem, cpu, launched, needs_to_be_halted,
                 pos_vars, line_vars, out, roll>>

scroll_y_dec ==
  /\ looked("y_dec")
  /\ goto("blank")
  /\ go_to_place((NUM_ROWS - 1) * NUM_COLS)
  /\ sets_cursor(x_now, y_now - 1)
  /\ UNCHANGED <<out, roll>>

(* The loop over the last row reads video_mem for every place.             *)
scroll_blank ==
  LET a == target[cpu].a IN
  /\ \/ /\ looked("blank")
        /\ putc_writes(seen[cpu], a, Space)
        /\ go_to_place(a + 1)
        /\ statement_ends
        /\ UNCHANGED <<pc, out, roll>>
     \/ /\ at("blank") /\ a \notin Addresses
        /\ target' = [target EXCEPT ![cpu] = NoTarget]
        /\ \/ is_newline /\ finish
           \/ ~is_newline /\ goto("x_mod") /\ UNCHANGED <<out, roll>>
        /\ UNCHANGED <<page_vars, seen, disturbed>>
  /\ UNCHANGED <<cur_terminal, video_mem, cpu, launched, needs_to_be_halted,
                 pos_vars, line_vars>>

putc_x_mod ==
  looked("x_mod") /\ goto("y_mod") /\ putc_moves(x_now % NUM_COLS, y_now)

putc_y_mod ==
  /\ looked("y_mod")
  /\ finish
  /\ sets_cursor(x_now, rem(y_now + x_now \div NUM_COLS, NUM_ROWS))
  /\ UNCHANGED target

putc_step ==
  \/ putc_looks \/ putc_address \/ putc_store \/ putc_x_inc \/ putc_wrap
  \/ putc_y_inc \/ putc_x_zero \/ scroll_test \/ scroll_move \/ scroll_y_dec
  \/ scroll_blank \/ putc_x_mod \/ putc_y_mod

(* An empty line, for a new shell and after a read.                        *)
terminal_init(t) ==
  /\ buf_pos' = [buf_pos EXCEPT ![t] = 0]
  /\ kbd_is_read' = kbd_is_read \ {t}

(* A line is read and the buffer emptied.                                  *)
terminal_read ==
  /\ at("user")
  /\ cpu \in kbd_is_read
  /\ terminal_init(cpu)
  /\ UNCHANGED <<cur_terminal, video_mem, cpu, launched, needs_to_be_halted,
                 page_vars, pos_vars, putc_vars, history_vars>>

-----------------------------------------------------------------------------
(* A process ends.  The base shell of a terminal starts again and says so, *)
(* in a line that is taken for one character and a newline.                *)
notice(s, t, k) == putc(putc(s, <<t, k>>), Newline)
notice_fed(r, t) == fed(fed(r, <<t, r.pos>>), Newline)

halt ==
  LET t == get_screen_xy_idx
      now == screen(video_mem)
      s == notice(now, t, roll[t].pos)
  IN
  /\ at("user")
  /\ HasRoom(t)
  /\ set_screen(video_mem, s)
  /\ terminal_init(cpu)
  /\ roll' = [roll EXCEPT ![t] = notice_fed(@, t)]
  /\ disturbed' = (disturbed \/ off_page(now))
  /\ UNCHANGED <<cur_terminal, video_mem, cpu, launched, needs_to_be_halted,
                 putc_vars>>

(* A CTRL-C is acted upon: the page v is cleared for the prompt, and the   *)
(* process that has the CPU is gone, a base shell to come back.            *)
killed(v, base) ==
  LET t == idx(v)
      s == cleared(<<t, 0>>)
      r == fed(EmptyRoll, <<t, 0>>)
      s2 == IF base THEN notice(s, t, 1) ELSE s
  IN
  /\ set_screen(v, s2)
  /\ pc' = [pc EXCEPT ![cpu] = "user"]
  /\ out' = [out EXCEPT ![cpu] = Space]
  /\ target' = [target EXCEPT ![cpu] = NoTarget]
  /\ statement_ends
  /\ roll' = [roll EXCEPT ![t] = IF base THEN notice_fed(r, t) ELSE r]
  /\ disturbed' = (disturbed \/ pc'[t] # "user")

(* The timer: a pending CTRL-C, or the CPU for another terminal's process. *)
task_switch_halts ==
  /\ cpu \in needs_to_be_halted
  /\ needs_to_be_halted' = needs_to_be_halted \ {cpu}
  /\ \E base \in BOOLEAN :
       /\ killed(video_mem, base)
       /\ IF base THEN terminal_init(cpu) ELSE UNCHANGED line_vars
  /\ UNCHANGED <<cur_terminal, video_mem, cpu, launched>>

task_switch_switches ==
  /\ cpu \notin needs_to_be_halted
  /\ \E t \in launched \ {cpu} :
       /\ cpu' = t
       /\ video_mem' = right_page(t, cur_terminal)
  /\ UNCHANGED <<cur_terminal, launched, needs_to_be_halted, page_vars,
                 pos_vars, line_vars, putc_vars, history_vars>>

-----------------------------------------------------------------------------
(* The keyboard handler writes to the visible page and then selects the    *)
(* interrupted process's page again.                                       *)
key_shows(s) ==
  /\ set_screen(ACTIVE_CONTEXT, s)
  /\ video_mem' = right_page(cpu, cur_terminal)
  /\ UNCHANGED <<cur_terminal, cpu, launched, putc_vars>>

shown == screen(ACTIVE_CONTEXT)

(* A key that makes r of the text, coming inside a putc or off the page.   *)
key_feeds(r, stray) ==
  /\ roll' = [roll EXCEPT ![cur_terminal] = r]
  /\ disturbed' = (disturbed \/ stray \/ pc[cur_terminal] # "user")

(* The line buffer keeps a place for the newline.                          *)
line_has_room(t) == buf_pos[t] < BUFFER_SIZE - 1

do_reg ==
  LET c == glyph(cur_terminal) IN
  /\ line_has_room(cur_terminal)
  /\ HasRoom(cur_terminal)
  /\ key_shows(putc(shown, c))
  /\ buf_pos' = [buf_pos EXCEPT ![cur_terminal] = @ + 1]
  /\ key_feeds(fed(roll[cur_terminal], c), off_page(shown))
  /\ UNCHANGED <<kbd_is_read, needs_to_be_halted>>

do_spec_enter ==
  /\ HasRoom(cur_terminal)
  /\ key_shows(putc(shown, Newline))
  /\ key_feeds(fed(roll[cur_terminal], Newline), FALSE)
  /\ kbd_is_read' = kbd_is_read \cup {cur_terminal}
  /\ UNCHANGED <<buf_pos, needs_to_be_halted>>

do_spec_backspace ==
  /\ buf_pos[cur_terminal] > 0
  /\ key_shows(backspaced(shown))
  /\ buf_pos' = [buf_pos EXCEPT ![cur_terminal] = @ - 1]
  /\ key_feeds(rubbed(roll[cur_terminal]), off_page(before(shown)))
  /\ UNCHANGED <<kbd_is_read, needs_to_be_halted>>

(* The prompt on a blank page and an empty line.                           *)
key_clears ==
  LET t == cur_terminal IN
  /\ key_shows(cleared(<<t, 0>>))
  /\ buf_pos' = [buf_pos EXCEPT ![t] = 0]
  /\ key_feeds(fed(EmptyRoll, <<t, 0>>), FALSE)
  /\ UNCHANGED kbd_is_read

key_ctrl_l == key_clears /\ UNCHANGED needs_to_be_halted

key_ctrl_c ==
  \/ /\ cpu = cur_terminal
     /\ \E base \in BOOLEAN :
          /\ killed(ACTIVE_CONTEXT, base)
          /\ kbd_is_read' = IF base THEN kbd_is_read \ {cpu} ELSE kbd_is_read
     /\ buf_pos' = [buf_pos EXCEPT ![cur_terminal] = 0]
     /\ video_mem' = ACTIVE_CONTEXT
     /\ UNCHANGED <<cur_terminal, cpu, launched, needs_to_be_halted>>
  \/ /\ cpu # cur_terminal
     /\ key_clears
     /\ needs_to_be_halted' = needs_to_be_halted \cup {cur_terminal}

(* ALT-Fn.                                                                 *)
save_video_context(old) == [hidden EXCEPT ![old] = visible]

terminal_switch(t) ==
  /\ t # cur_terminal
  /\ cur_terminal' = t
  /\ hidden' = save_video_context(cur_terminal)
  /\ \/ /\ t \in launched
        /\ visible' = hidden[t]
        /\ video_mem' = right_page(cpu, t)
        /\ UNCHANGED <<cpu, launched, line_vars>>
     \/ /\ t \notin launched
        /\ visible' = BlankPage
        /\ video_mem' = ACTIVE_CONTEXT
        /\ cpu' = t
        /\ launched' = launched \cup {t}
        /\ terminal_init(t)
  /\ UNCHANGED <<needs_to_be_halted, pos_vars, putc_vars, history_vars>>

(* ALT-Fn for the terminal shown leaves the visible page selected.         *)
terminal_switch_same ==
  /\ video_mem' = ACTIVE_CONTEXT
  /\ disturbed' = (disturbed \/ cpu # cur_terminal)
  /\ UNCHANGED <<cur_terminal, cpu, launched, needs_to_be_halted, page_vars,
                 pos_vars, line_vars, putc_vars, roll>>

keyboardHandler ==
  \/ do_reg
  \/ do_spec_enter
  \/ do_spec_backspace
  \/ key_ctrl_l
  \/ key_ctrl_c
  \/ \E t \in Terminals : terminal_switch(t)
  \/ terminal_switch_same

Next ==
  \/ terminal_write
  \/ putc_step
  \/ terminal_read
  \/ halt
  \/ task_switch_halts
  \/ task_switch_switches
  \/ keyboardHandler

Spec == Init /\ [][Next]_vars

-----------------------------------------------------------------------------
(* Whenever no putc is under way on terminal t, its page - the visible one *)
(* or its hidden one - shows the last NUM_ROWS rows of what its programs   *)
(* wrote and what was echoed, every character in its place and blanks      *)
(* elsewhere, and its cursor is where the next character belongs: through  *)
(* wrapping, scrolling, backspaces, and terminals and processes switched   *)
(* in the middle of a putc (putc, scroll, save_video_context,              *)
(* load_video_context).  Not so after a key whose handler ran inside a     *)
(* putc and wrote to the same terminal, or an ALT-Fn that came between the *)
(* reading of video_mem and what the statement, memmove or the store did   *)
(* with it; the code takes no care of these.                               *)
PageShowsText ==
  \A t \in launched :
    ~disturbed /\ pc[t] = "user" =>
      /\ \A a \in Addresses :
           LET k == roll[t].top * NUM_COLS + a IN
           Page(right_page(t, cur_terminal))[a] =
             IF k \in roll[t].written THEN <<t, k>> ELSE Space
      /\ roll[t].pos = (roll[t].top + screen_y[t]) * NUM_COLS + screen_x[t]

(* What the future depends on: not the hidden page of the terminal shown,  *)
(* which is overwritten before it is shown again.  States that agree on it *)
(* need exploring once.                                                    *)
Relevant ==
  <<cur_terminal, video_mem, cpu, launched, needs_to_be_halted, visible,
    [hidden EXCEPT ![cur_terminal] = BlankPage], pos_vars, line_vars,
    putc_vars, history_vars>>

(* State constraint: up to the first putc that a key has disturbed.        *)
Undisturbed == ~disturbed
=============================================================================
