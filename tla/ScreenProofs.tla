---------------------------- MODULE ScreenProofs ----------------------------
(***************************************************************************)
(* Proofs about the text screens, for any number of rows, columns and      *)
(* terminals.                                                              *)
(***************************************************************************)
EXTENDS Screen, TLAPS

Glyphs == Int \X Int
Pages == [Addresses -> Glyphs]
Screens == [mem : Pages, x : Int, y : Int]
Rolls == [written : SUBSET Nat, pos : Nat, top : Nat]
Indexed(f) == f = [t \in Terminals |-> f[t]]

(* The statements of putc that a newline does not come to, and all.        *)
CharLabels == {"address", "store", "x_inc", "wrap", "x_mod", "y_mod"}
Labels == {"user", "y_inc", "x_zero", "scroll", "move", "y_dec", "blank"}
            \cup CharLabels

(* The page mem has the cells of the roll from row top on.                 *)
PageShows(mem, written, top, t) ==
  \A a \in Addresses :
    mem[a] = IF top * NUM_COLS + a \in written THEN <<t, top * NUM_COLS + a>>
                                               ELSE Space

(* The screen s shows the roll r of terminal t.                            *)
Shows(s, r, t) ==
  /\ s \in Screens
  /\ s.x \in 0 .. NUM_COLS - 1
  /\ s.y \in 0 .. NUM_ROWS - 1
  /\ r \in Rolls
  /\ \A k \in r.written : k < r.pos
  /\ r.pos = (r.top + s.y) * NUM_COLS + s.x
  /\ PageShows(s.mem, r.written, r.top, t)

(* The end of putc after the scrolling.                                    *)
ended(s, c) ==
  IF c = Newline THEN s
                 ELSE page_at(s.mem, s.x % NUM_COLS, rem(s.y, NUM_ROWS))

(* The page moved up, and blanked, from place a on.                        *)
moved_from(mem, a) ==
  [b \in Addresses |->
     IF b >= a /\ b + NUM_COLS \in Addresses THEN mem[b + NUM_COLS] ELSE mem[b]]
blank_from(mem, a) ==
  [b \in Addresses |-> IF b >= a THEN Space ELSE mem[b]]

(* What is left of putc at a label, run to its end on s; its loops are at  *)
(* place a.                                                                *)
rest(label, s, c, a) ==
  CASE label \in {"address", "store"} -> putc(s, c)
    [] label = "x_inc" -> ended(wrapped(page_at(s.mem, s.x + 1, s.y)), c)
    [] label = "wrap" -> ended(wrapped(s), c)
    [] label = "y_inc" ->
         IF c = Newline THEN scroll(page_at(s.mem, 0, s.y + 1))
                        ELSE ended(scroll(page_at(s.mem, s.x, s.y + 1)), c)
    [] label = "x_zero" -> scroll(page_at(s.mem, 0, s.y))
    [] label = "scroll" -> ended(scroll(s), c)
    [] label = "move" ->
         ended(page_at(last_row_blank(moved_from(s.mem, a)), s.x, s.y - 1), c)
    [] label = "y_dec" ->
         ended(page_at(last_row_blank(s.mem), s.x, s.y - 1), c)
    [] label = "blank" ->
         ended(page_at(blank_from(s.mem, a), s.x, s.y), c)
    [] label = "x_mod" -> ended(s, c)
    [] OTHER -> page_at(s.mem, s.x, rem(s.y, NUM_ROWS))

(* The screen of terminal t, shown or hidden.                              *)
own(t) == page_at(Page(right_page(t, cur_terminal)), screen_x[t], screen_y[t])
now == own(cpu)

(* A terminal shows its roll, or will when the putc under way has ended.   *)
WillShow(t) ==
  IF pc[t] = "user"
    THEN Shows(own(t), roll[t], t)
    ELSE /\ Shows(rest(pc[t], own(t), out[t], target[t].a),
                  fed(roll[t], out[t]), t)
         /\ pc[t] \in CharLabels => out[t] # Newline
         /\ pc[t] = "x_zero" => out[t] = Newline
         /\ pc[t] = "store" => target[t].a = address(own(t))
         /\ pc[t] \in {"move", "blank"} => target[t].a \in Nat
         /\ pc[t] = "y_mod" => screen_x[t] \in 0 .. NUM_COLS - 1

Types ==
  /\ launched \subseteq Terminals
  /\ cur_terminal \in launched /\ cpu \in launched
  /\ visible \in Pages /\ hidden \in [Terminals -> Pages]
  /\ screen_x \in [Terminals -> Int] /\ screen_y \in [Terminals -> Int]
  /\ pc \in [Terminals -> Labels]
  /\ out \in [Terminals -> Glyphs]
  /\ Indexed(target)
  /\ roll \in [Terminals -> Rolls]

(* A terminal that no shell was started on.                                *)
Fresh(t) ==
  /\ screen_x[t] = 0 /\ screen_y[t] = 0
  /\ roll[t] = EmptyRoll
  /\ pc[t] = "user"

(* While no key has disturbed a putc.                                      *)
Settled ==
  /\ Types
  /\ video_mem = right_page(cpu, cur_terminal)
  /\ \A t \in Terminals \ launched : Fresh(t)
  /\ \A t \in launched : WillShow(t)

ScreenInv == disturbed \/ Settled

-----------------------------------------------------------------------------
(* The sizes are positive, and the visible page is no terminal's name.     *)
LEMMA SizeFacts ==
  /\ NUM_ROWS \in Nat /\ NUM_ROWS > 0
  /\ NUM_COLS \in Nat /\ NUM_COLS > 0
  /\ Terminals \subseteq Nat /\ 0 \in Terminals /\ ACTIVE_CONTEXT \notin Terminals
BY ScreenAssumption DEF Terminals, ACTIVE_CONTEXT

(* A screen and its parts.                                                 *)
LEMMA ScreenOf ==
  ASSUME NEW m \in Pages, NEW x \in Int, NEW y \in Int
  PROVE  /\ page_at(m, x, y) \in Screens
         /\ page_at(m, x, y).mem = m
         /\ page_at(m, x, y).x = x
         /\ page_at(m, x, y).y = y
BY DEF Screens, page_at

(* A page and a cursor make a screen.                                      *)
LEMMA ScreenIn ==
  ASSUME NEW m \in Pages, NEW x \in Int, NEW y \in Int
  PROVE  page_at(m, x, y) \in Screens
BY ScreenOf

(* A number with this quotient and remainder.                              *)
LEMMA QuotientIs ==
  ASSUME NEW q \in Nat, NEW m \in Nat, NEW r \in Nat, r < m
  PROVE  (q * m + r) \div m = q /\ (q * m + r) % m = r
BY SMTT(60)

(* A place on the page has an address of the page.                         *)
LEMMA PlaceOnPage ==
  ASSUME NEW x \in 0 .. NUM_COLS - 1, NEW y \in 0 .. NUM_ROWS - 1
  PROVE  NUM_COLS * y + x \in Addresses
<1>1. NUM_COLS * y <= NUM_COLS * (NUM_ROWS - 1)
  BY SizeFacts
<1>2. NUM_COLS * (NUM_ROWS - 1) = NUM_ROWS * NUM_COLS - NUM_COLS
  BY SizeFacts
<1>3. NUM_COLS * y \in Nat /\ NUM_ROWS * NUM_COLS \in Nat
  BY SizeFacts
<1> QED
  BY <1>1, <1>2, <1>3, SizeFacts DEF Addresses

(* Addresses and the rows above and below.                                 *)
LEMMA RowBelow ==
  ASSUME NEW a \in Addresses, NEW top \in Nat
  PROVE  /\ a \in Nat /\ top * NUM_COLS \in Nat
         /\ top * NUM_COLS + (a + NUM_COLS) = (top + 1) * NUM_COLS + a
         /\ a + NUM_COLS \notin Addresses =>
              (top + 1) * NUM_COLS + a >= (top + NUM_ROWS) * NUM_COLS
<1>1. a \in Nat /\ top * NUM_COLS \in Nat /\ NUM_ROWS * NUM_COLS \in Int
  BY SizeFacts DEF Addresses
<1>2. (top + 1) * NUM_COLS = top * NUM_COLS + NUM_COLS
  BY SizeFacts
<1>3. (top + NUM_ROWS) * NUM_COLS = top * NUM_COLS + NUM_ROWS * NUM_COLS
  BY SizeFacts
<1>4. a + NUM_COLS \notin Addresses => a + NUM_COLS >= NUM_ROWS * NUM_COLS
  BY <1>1, SizeFacts DEF Addresses
<1> QED
  BY <1>1, <1>2, <1>3, <1>4, SizeFacts

(* Scrolling moves the page down the roll by a row.                        *)
LEMMA ScrollShows ==
  ASSUME NEW mem \in Pages, NEW W, NEW top \in Nat, NEW t,
         PageShows(mem, W, top, t),
         \A k \in W : k < (top + NUM_ROWS) * NUM_COLS
  PROVE  /\ last_row_blank(moved_up(mem)) \in Pages
         /\ PageShows(last_row_blank(moved_up(mem)), W, top + 1, t)
<1> DEFINE new == last_row_blank(moved_up(mem))
<1>1. \A a \in Addresses :
        new[a] = IF a + NUM_COLS \in Addresses THEN mem[a + NUM_COLS] ELSE Space
  BY DEF last_row_blank, moved_up
<1>2. Space \in Glyphs
  BY DEF Space, Glyphs
<1>3. new \in Pages
  BY <1>2 DEF last_row_blank, moved_up, Pages
<1> HIDE DEF new
<1>4. ASSUME NEW a \in Addresses
      PROVE  new[a] = IF (top + 1) * NUM_COLS + a \in W
                        THEN <<t, (top + 1) * NUM_COLS + a>> ELSE Space
  <2>1. CASE a + NUM_COLS \in Addresses
    <3>1. new[a] = mem[a + NUM_COLS]
      BY <1>1, <2>1, Zenon
    <3>2. mem[a + NUM_COLS] =
            IF top * NUM_COLS + (a + NUM_COLS) \in W
              THEN <<t, top * NUM_COLS + (a + NUM_COLS)>> ELSE Space
      BY <2>1, Zenon DEF PageShows
    <3>3. top * NUM_COLS + (a + NUM_COLS) = (top + 1) * NUM_COLS + a
      BY RowBelow, Zenon
    <3> QED
      BY <3>1, <3>2, <3>3, Zenon
  <2>2. CASE a + NUM_COLS \notin Addresses
    <3>1. new[a] = Space
      BY <1>1, <2>2, Zenon
    <3>2. (top + 1) * NUM_COLS + a >= (top + NUM_ROWS) * NUM_COLS
      BY <2>2, RowBelow, Zenon
    <3>3. (top + 1) * NUM_COLS + a \in Int /\ (top + NUM_ROWS) * NUM_COLS \in Int
      BY RowBelow, SizeFacts
    <3>4. (top + 1) * NUM_COLS + a \notin W
      BY <3>2, <3>3
    <3> QED
      BY <3>1, <3>4, Zenon
  <2> QED
    BY <2>1, <2>2, Zenon
<1> QED
  BY <1>3, <1>4, Zenon DEF PageShows, new

(* A character stored in its place, and a place blanked.                   *)
LEMMA StoreShows ==
  ASSUME NEW mem \in Pages, NEW W, NEW top \in Nat, NEW t \in Terminals,
         NEW A \in Addresses, NEW k, k = top * NUM_COLS + A,
         PageShows(mem, W, top, t)
  PROVE  /\ [mem EXCEPT ![A] = <<t, k>>] \in Pages
         /\ PageShows([mem EXCEPT ![A] = <<t, k>>], W \cup {k}, top, t)
         /\ [mem EXCEPT ![A] = Space] \in Pages
         /\ PageShows([mem EXCEPT ![A] = Space], W \ {k}, top, t)
<1>1. Space \in Glyphs /\ <<t, k>> \in Glyphs
  <2>1. t \in Int /\ k \in Int
    BY SizeFacts, RowBelow
  <2> QED
    BY <2>1 DEF Space, Glyphs
<1>2. /\ [mem EXCEPT ![A] = <<t, k>>] \in Pages
      /\ [mem EXCEPT ![A] = Space] \in Pages
  BY <1>1 DEF Pages
<1>3. ASSUME NEW a \in Addresses
      PROVE  top * NUM_COLS + a = k <=> a = A
  <2> DEFINE b == top * NUM_COLS
  <2>1. a \in Nat /\ A \in Nat /\ b \in Nat
    BY RowBelow, Zenon
  <2>2. k = b + A
    OBVIOUS
  <2> HIDE DEF b
  <2>3. b + a = k <=> a = A
    BY <2>1, <2>2
  <2> QED
    BY <2>3 DEF b
<1>4. \A g : \A a \in Addresses :
        [mem EXCEPT ![A] = g][a] = IF a = A THEN g ELSE mem[a]
  BY DEF Pages
<1>5. ASSUME NEW a \in Addresses
      PROVE  /\ [mem EXCEPT ![A] = <<t, k>>][a] =
                  IF top * NUM_COLS + a \in W \cup {k}
                    THEN <<t, top * NUM_COLS + a>> ELSE Space
             /\ [mem EXCEPT ![A] = Space][a] =
                  IF top * NUM_COLS + a \in W \ {k}
                    THEN <<t, top * NUM_COLS + a>> ELSE Space
  <2>1. CASE a = A
    <3>1. top * NUM_COLS + a = k
      BY <1>3, <2>1, Zenon
    <3>2. /\ [mem EXCEPT ![A] = <<t, k>>][a] = <<t, k>>
          /\ [mem EXCEPT ![A] = Space][a] = Space
      BY <1>4, <2>1, Zenon
    <3> QED
      BY <3>1, <3>2
  <2>2. CASE a # A
    <3>1. top * NUM_COLS + a # k
      BY <1>3, <2>2, Zenon
    <3>2. mem[a] = IF top * NUM_COLS + a \in W
                     THEN <<t, top * NUM_COLS + a>> ELSE Space
      BY Zenon DEF PageShows
    <3>3. /\ [mem EXCEPT ![A] = <<t, k>>][a] = mem[a]
          /\ [mem EXCEPT ![A] = Space][a] = mem[a]
      BY <1>4, <2>2, Zenon
    <3> QED
      BY <3>1, <3>2, <3>3, Zenon
  <2> QED
    BY <2>1, <2>2, Zenon
<1> QED
  BY <1>2, <1>5, Zenon DEF PageShows

(* The first row on the screen when the next place is in row n.            *)
TopFor(top, n) == IF top < n - NUM_ROWS + 1 THEN n - NUM_ROWS + 1 ELSE top

(* The cursor has gone to a new row, perhaps one below the page.           *)
LEMMA NewRowShows ==
  ASSUME NEW s \in Screens, NEW W, NEW top \in Nat, NEW t,
         s.y \in 1 .. NUM_ROWS,
         PageShows(s.mem, W, top, t),
         \A k \in W : k < (top + s.y) * NUM_COLS
  PROVE  /\ scroll(s) \in Screens
         /\ scroll(s).x = s.x
         /\ scroll(s).y \in 0 .. NUM_ROWS - 1
         /\ TopFor(top, top + s.y) \in Nat
         /\ TopFor(top, top + s.y) + scroll(s).y = top + s.y
         /\ PageShows(scroll(s).mem, W, TopFor(top, top + s.y), t)
<1>0. s.mem \in Pages /\ s.x \in Int /\ s.y \in Int
  BY DEF Screens
<1>1. CASE s.y < NUM_ROWS
  <2>1. scroll(s) = s
    BY <1>0, <1>1, SizeFacts DEF scroll
  <2>2. TopFor(top, top + s.y) = top
    BY <1>0, <1>1, SizeFacts DEF TopFor
  <2>3. s.y \in 0 .. NUM_ROWS - 1
    BY <1>0, <1>1, SizeFacts
  <2> QED
    BY <2>1, <2>2, <2>3, Zenon
<1>2. CASE s.y = NUM_ROWS
  <2>1. scroll(s) = page_at(last_row_blank(moved_up(s.mem)), s.x, s.y - 1)
    <3>1. s.y >= NUM_ROWS
      BY <1>2, SizeFacts
    <3> QED
      BY <3>1, Zenon DEF scroll
  <2>2. TopFor(top, top + s.y) = top + 1
    BY <1>2, SizeFacts DEF TopFor
  <2>3. /\ last_row_blank(moved_up(s.mem)) \in Pages
        /\ PageShows(last_row_blank(moved_up(s.mem)), W, top + 1, t)
    BY <1>0, <1>2, ScrollShows, Zenon
  <2>4. /\ scroll(s).mem = last_row_blank(moved_up(s.mem))
        /\ scroll(s).x = s.x /\ scroll(s).y = s.y - 1
        /\ scroll(s) \in Screens
    <3>1. s.y - 1 \in Int
      BY <1>0
    <3> QED
      BY <1>0, <2>1, <2>3, <3>1, ScreenOf
  <2>6. /\ scroll(s).y \in 0 .. NUM_ROWS - 1
        /\ top + 1 \in Nat /\ top + 1 + scroll(s).y = top + s.y
    BY <1>0, <1>2, <2>4, SizeFacts
  <2> QED
    BY <2>2, <2>3, <2>4, <2>6, Zenon
<1> QED
  BY <1>0, <1>1, <1>2, SizeFacts

(* What Shows says of the screen and the roll.                             *)
LEMMA ShowsFacts ==
  ASSUME NEW s, NEW r, NEW t, Shows(s, r, t)
  PROVE  /\ s.mem \in Pages
         /\ s.x \in Nat /\ s.x < NUM_COLS /\ s.x \in 0 .. NUM_COLS - 1
         /\ s.y \in Nat /\ s.y < NUM_ROWS /\ s.y \in 0 .. NUM_ROWS - 1
         /\ r.top \in Nat /\ r.pos \in Nat /\ r.written \in SUBSET Nat
         /\ r.pos = (r.top + s.y) * NUM_COLS + s.x
         /\ \A k \in r.written : k < r.pos
         /\ PageShows(s.mem, r.written, r.top, t)
         /\ s \in Screens
<1>1. /\ s \in Screens /\ r \in Rolls
      /\ s.x \in 0 .. NUM_COLS - 1 /\ s.y \in 0 .. NUM_ROWS - 1
      /\ r.pos = (r.top + s.y) * NUM_COLS + s.x
      /\ \A k \in r.written : k < r.pos
      /\ PageShows(s.mem, r.written, r.top, t)
  BY Zenon DEF Shows
<1>2. s.mem \in Pages
  BY <1>1 DEF Screens
<1>3. r.top \in Nat /\ r.pos \in Nat /\ r.written \in SUBSET Nat
  BY <1>1 DEF Rolls
<1>4. /\ s.x \in Nat /\ s.x < NUM_COLS
      /\ s.y \in Nat /\ s.y < NUM_ROWS
  BY <1>1, SizeFacts
<1> QED
  BY <1>1, <1>2, <1>3, <1>4, Zenon

(* A screen and a roll put together.                                       *)
LEMMA ShowsWhen ==
  ASSUME NEW s \in Screens, NEW W \in SUBSET Nat, NEW pos \in Nat, NEW top \in Nat,
         NEW t, NEW r, r = [written |-> W, pos |-> pos, top |-> top],
         s.x \in 0 .. NUM_COLS - 1, s.y \in 0 .. NUM_ROWS - 1,
         \A k \in W : k < pos,
         pos = (top + s.y) * NUM_COLS + s.x,
         PageShows(s.mem, W, top, t)
  PROVE  Shows(s, r, t)
<1>1. r.written = W /\ r.pos = pos /\ r.top = top
  OBVIOUS
<1>2. r \in Rolls
  BY DEF Rolls
<1> QED
  BY <1>1, <1>2, Zenon DEF Shows

(* The place after the text, in row n.                                     *)
LEMMA RowStart ==
  ASSUME NEW n \in Nat
  PROVE  /\ n * NUM_COLS \in Nat
         /\ (n * NUM_COLS) \div NUM_COLS = n
         /\ (n + 1) * NUM_COLS = n * NUM_COLS + NUM_COLS
<1>1. (n * NUM_COLS + 0) \div NUM_COLS = n
  BY QuotientIs, SizeFacts
<1>2. n * NUM_COLS \in Nat /\ (n + 1) * NUM_COLS = n * NUM_COLS + NUM_COLS
  BY SizeFacts
<1> QED
  BY <1>1, <1>2

(* The row of a place.                                                     *)
LEMMA RowOf ==
  ASSUME NEW n \in Nat, NEW x \in 0 .. NUM_COLS - 1, NEW k,
         k = n * NUM_COLS + x
  PROVE  k \div NUM_COLS = n
BY QuotientIs, SizeFacts

(* A newline.                                                              *)
LEMMA NewlineShows ==
  ASSUME NEW s, NEW r, NEW t, Shows(s, r, t)
  PROVE  Shows(putc(s, Newline), fed(r, Newline), t)
<1> DEFINE n == r.top + s.y + 1
           s1 == page_at(s.mem, 0, s.y + 1)
<1>0. /\ s.mem \in Pages /\ s.x \in Nat /\ s.x < NUM_COLS
      /\ s.y \in Nat /\ s.y < NUM_ROWS /\ s.x \in 0 .. NUM_COLS - 1
      /\ r.top \in Nat /\ r.pos \in Nat /\ r.written \in SUBSET Nat
      /\ r.pos = (r.top + s.y) * NUM_COLS + s.x
      /\ \A k \in r.written : k < r.pos
      /\ PageShows(s.mem, r.written, r.top, t)
      /\ s \in Screens
  BY ShowsFacts, Zenon
<1>1. putc(s, Newline) = scroll(s1)
  BY Zenon DEF putc
<1>2. r.pos \div NUM_COLS = r.top + s.y
  <2>1. r.top + s.y \in Nat
    BY <1>0
  <2> QED
    BY <1>0, <2>1, RowOf, Zenon
<1>3. n \in Nat /\ n * NUM_COLS \in Nat /\ (n * NUM_COLS) \div NUM_COLS = n
  BY <1>0, RowStart
<1>4. fed(r, Newline) = [written |-> r.written, pos |-> n * NUM_COLS,
                         top |-> TopFor(r.top, n)]
  <2>1. (r.pos \div NUM_COLS + 1) * NUM_COLS = n * NUM_COLS
    BY <1>2
  <2> QED
    BY <1>3, <2>1 DEF fed, TopFor
<1>5. \A k \in r.written : k < n * NUM_COLS
  <2>1. n * NUM_COLS = (r.top + s.y) * NUM_COLS + NUM_COLS
    BY <1>0, RowStart
  <2>2. (r.top + s.y) * NUM_COLS \in Nat
    BY <1>0, RowStart
  <2>3. r.pos < n * NUM_COLS
    BY <1>0, <2>1, <2>2, SizeFacts
  <2> QED
    BY <1>0, <1>3, <2>3
<1>6. /\ s1 \in Screens /\ s1.mem = s.mem /\ s1.x = 0
      /\ s1.y \in 1 .. NUM_ROWS /\ r.top + s1.y = n
  <2>1. s.y + 1 \in Int /\ 0 \in Int /\ s.y + 1 \in 1 .. NUM_ROWS
    BY <1>0, SizeFacts
  <2>2. s1 \in Screens /\ s1.mem = s.mem /\ s1.x = 0 /\ s1.y = s.y + 1
    BY <1>0, <2>1, ScreenOf
  <2> QED
    BY <1>0, <2>1, <2>2
<1> HIDE DEF s1, n
<1>7. /\ scroll(s1) \in Screens
      /\ scroll(s1).x = 0
      /\ scroll(s1).y \in 0 .. NUM_ROWS - 1
      /\ TopFor(r.top, n) \in Nat
      /\ TopFor(r.top, n) + scroll(s1).y = n
      /\ PageShows(scroll(s1).mem, r.written, TopFor(r.top, n), t)
  BY <1>0, <1>5, <1>6, NewRowShows, Zenon
<1>8. /\ 0 \in 0 .. NUM_COLS - 1
      /\ n * NUM_COLS = (TopFor(r.top, n) + scroll(s1).y) * NUM_COLS + scroll(s1).x
  BY <1>3, <1>7, SizeFacts
<1> QED
  BY <1>0, <1>1, <1>3, <1>4, <1>5, <1>7, <1>8, ShowsWhen, Zenon

(* Remainders of numbers in range, and of the number of columns.           *)
LEMMA Remainders ==
  ASSUME NEW m \in Nat, NEW v \in 0 .. m - 1
  PROVE  v % m = v /\ m % m = 0 /\ rem(v, m) = v
<1>1. (0 * m + v) % m = v /\ (1 * m + 0) % m = 0
  BY QuotientIs
<1>2. 0 * m + v = v /\ 1 * m + 0 = m
  OBVIOUS
<1>3. v % m = v /\ m % m = 0
  BY <1>1, <1>2
<1> QED
  BY <1>3 DEF rem

(* A character of the text.                                                *)
LEMMA GlyphShows ==
  ASSUME NEW s, NEW r, NEW t \in Terminals, Shows(s, r, t)
  PROVE  Shows(putc(s, <<t, r.pos>>), fed(r, <<t, r.pos>>), t)
<1> DEFINE c == <<t, r.pos>>
           A == address(s)
           m == [s.mem EXCEPT ![A] = c]
           W == r.written \cup {r.pos}
           s1 == page_at(m, s.x + 1, s.y)
           w == wrapped(s1)
           n == r.top + s.y
<1>0. /\ s.mem \in Pages /\ s.x \in Nat /\ s.x < NUM_COLS
      /\ s.x \in 0 .. NUM_COLS - 1 /\ s.y \in 0 .. NUM_ROWS - 1
      /\ s.y \in Nat /\ s.y < NUM_ROWS
      /\ r.top \in Nat /\ r.pos \in Nat /\ r.written \in SUBSET Nat
      /\ r.pos = (r.top + s.y) * NUM_COLS + s.x
      /\ \A k \in r.written : k < r.pos
      /\ PageShows(s.mem, r.written, r.top, t)
      /\ s \in Screens
  BY ShowsFacts, Zenon
<1>1. c # Newline
  BY SizeFacts DEF Newline
<1>2. A \in Addresses /\ r.pos = r.top * NUM_COLS + A
  <2>1. NUM_COLS * s.y + s.x \in Addresses
    BY <1>0, PlaceOnPage, Zenon
  <2>2. r.pos = r.top * NUM_COLS + (NUM_COLS * s.y + s.x)
    BY <1>0, SizeFacts
  <2> QED
    BY <2>1, <2>2, Zenon DEF address
<1>3. m \in Pages /\ PageShows(m, W, r.top, t)
  BY <1>0, <1>2, StoreShows, Zenon
<1>4. W \in SUBSET Nat /\ r.pos + 1 \in Nat /\ \A k \in W : k < r.pos + 1
  BY <1>0
<1>5. fed(r, c) = [written |-> W, pos |-> r.pos + 1,
                   top |-> TopFor(r.top, (r.pos + 1) \div NUM_COLS)]
  BY <1>1, Zenon DEF fed, TopFor
<1>6. putc(s, c) = page_at(w.mem, w.x % NUM_COLS, rem(w.y, NUM_ROWS))
  <2>1. stored(s, c) = page_at(m, s.x, s.y)
    BY <1>2, Zenon DEF stored, off_page
  <2>2. stored(s, c).mem = m
    BY <1>0, <1>3, <2>1, ScreenOf
  <2> QED
    BY <1>1, <2>2, Zenon DEF putc
<1>7. /\ s1 \in Screens /\ s1.mem = m /\ s1.x = s.x + 1 /\ s1.y = s.y
      /\ n \in Nat
  <2>1. s.x + 1 \in Int /\ s.y \in Int /\ n \in Nat
    BY <1>0
  <2> HIDE DEF m
  <2> QED
    BY <1>3, <2>1, ScreenOf
<1> HIDE DEF c, m, W, s1, w, n
<1>8. CASE s.x + 1 < NUM_COLS
  <2>1. w = s1
    BY <1>7, <1>8, SizeFacts DEF wrapped, w
  <2>2. putc(s, c) = page_at(m, s.x + 1, s.y)
    <3>1. (s.x + 1) % NUM_COLS = s.x + 1 /\ rem(s.y, NUM_ROWS) = s.y
      BY <1>0, <1>8, Remainders, SizeFacts
    <3> QED
      BY <1>6, <1>7, <2>1, <3>1, Zenon
  <2>3. r.pos + 1 = n * NUM_COLS + (s.x + 1)
    BY <1>0, SizeFacts DEF n
  <2>4. (r.pos + 1) \div NUM_COLS = n
    <3>1. s.x + 1 \in 0 .. NUM_COLS - 1
      BY <1>0, <1>8, SizeFacts
    <3> QED
      BY <1>7, <2>3, <3>1, RowOf, Zenon
  <2>5. TopFor(r.top, n) = r.top
    BY <1>0, SizeFacts DEF TopFor, n
  <2>6. /\ s.x + 1 \in Int /\ s.y \in Int
        /\ s.x + 1 \in 0 .. NUM_COLS - 1
    BY <1>0, <1>8, SizeFacts
  <2>7. /\ putc(s, c) \in Screens /\ putc(s, c).mem = m
        /\ putc(s, c).x = s.x + 1 /\ putc(s, c).y = s.y
    BY <1>3, <2>2, <2>6, ScreenOf
  <2>8. fed(r, c) = [written |-> W, pos |-> r.pos + 1, top |-> r.top]
    BY <1>5, <2>4, <2>5, Zenon
  <2>9. r.pos + 1 = (r.top + s.y) * NUM_COLS + (s.x + 1)
    BY <2>3, Zenon DEF n
  <2>10. Shows(putc(s, c), fed(r, c), t)
    BY <1>0, <1>3, <1>4, <2>6, <2>7, <2>8, <2>9, ShowsWhen, Zenon
  <2> QED
    BY <2>10 DEF c
<1>9. CASE s.x + 1 = NUM_COLS
  <2> DEFINE s2 == page_at(m, s.x + 1, s.y + 1)
             top == TopFor(r.top, n + 1)
  <2>1. w = scroll(s2)
    BY <1>7, <1>9, Zenon DEF wrapped, w
  <2>2. /\ s2 \in Screens /\ s2.mem = m /\ s2.x = NUM_COLS
        /\ s2.y \in 1 .. NUM_ROWS /\ r.top + s2.y = n + 1
    <3>1. s.x + 1 \in Int /\ s.y + 1 \in Int /\ s.y + 1 \in 1 .. NUM_ROWS
      BY <1>0, SizeFacts
    <3>2. s2 \in Screens /\ s2.mem = m /\ s2.x = s.x + 1 /\ s2.y = s.y + 1
      BY <1>3, <3>1, ScreenOf
    <3> HIDE DEF s2
    <3>3. r.top + (s.y + 1) = n + 1
      BY <1>0 DEF n
    <3> QED
      BY <1>9, <3>1, <3>2, <3>3, Zenon
  <2> HIDE DEF s2
  <2>3. r.pos + 1 = (n + 1) * NUM_COLS
    BY <1>0, <1>9, SizeFacts DEF n
  <2>4. (r.pos + 1) \div NUM_COLS = n + 1
    <3>1. n + 1 \in Nat
      BY <1>7
    <3> QED
      BY <2>3, <3>1, RowStart, Zenon
  <2>5. /\ w \in Screens /\ w.x = NUM_COLS /\ w.y \in 0 .. NUM_ROWS - 1
        /\ top \in Nat /\ top + w.y = n + 1
        /\ PageShows(w.mem, W, top, t)
    <3>1. \A k \in W : k < (r.top + s2.y) * NUM_COLS
      BY <1>4, <2>2, <2>3, Zenon
    <3>2. PageShows(s2.mem, W, r.top, t)
      BY <1>3, <2>2, Zenon
    <3>3. /\ scroll(s2) \in Screens /\ scroll(s2).x = s2.x
          /\ scroll(s2).y \in 0 .. NUM_ROWS - 1
          /\ TopFor(r.top, r.top + s2.y) \in Nat
          /\ TopFor(r.top, r.top + s2.y) + scroll(s2).y = r.top + s2.y
          /\ PageShows(scroll(s2).mem, W, TopFor(r.top, r.top + s2.y), t)
      BY <1>0, <2>2, <3>1, <3>2, NewRowShows, Zenon
    <3> QED
      BY <2>1, <2>2, <3>3, Zenon
  <2> HIDE DEF top
  <2>6. putc(s, c) = page_at(w.mem, 0, w.y)
    <3>1. NUM_COLS % NUM_COLS = 0 /\ rem(w.y, NUM_ROWS) = w.y
      <4>1. 0 \in 0 .. NUM_COLS - 1
        BY SizeFacts
      <4> QED
        BY <2>5, <4>1, Remainders, SizeFacts, Zenon
    <3> QED
      BY <1>6, <2>5, <3>1, Zenon
  <2>7. /\ putc(s, c) \in Screens /\ putc(s, c).mem = w.mem
        /\ putc(s, c).x = 0 /\ putc(s, c).y = w.y
    <3>1. w.mem \in Pages /\ w.y \in Int
      BY <2>5 DEF Screens
    <3> QED
      BY <2>6, <3>1, ScreenOf
  <2>8. fed(r, c) = [written |-> W, pos |-> r.pos + 1, top |-> top]
    BY <1>5, <2>4, Zenon DEF top
  <2>9. 0 \in 0 .. NUM_COLS - 1 /\ r.pos + 1 = (top + w.y) * NUM_COLS + 0
    BY <1>0, <1>7, <2>3, <2>5, SizeFacts
  <2>10. Shows(putc(s, c), fed(r, c), t)
    BY <1>4, <2>5, <2>7, <2>8, <2>9, ShowsWhen, Zenon
  <2> QED
    BY <2>10 DEF c
<1> QED
  BY <1>0, <1>8, <1>9, SizeFacts

(* A backspace that stays on the page.                                     *)
LEMMA BackspaceShows ==
  ASSUME NEW s, NEW r, NEW t \in Terminals, Shows(s, r, t),
         ~off_page(before(s))
  PROVE  Shows(backspaced(s), rubbed(r), t)
<1> DEFINE x == IF s.x = 0 THEN NUM_COLS - 1 ELSE s.x - 1
           y == IF s.x = 0 THEN s.y - 1 ELSE s.y
           b == page_at(s.mem, x, y)
           A == address(b)
           m == [s.mem EXCEPT ![A] = Space]
           k == r.pos - 1
<1>0. /\ s.mem \in Pages /\ s.x \in Nat /\ s.x < NUM_COLS
      /\ s.y \in Nat /\ s.y < NUM_ROWS
      /\ r.top \in Nat /\ r.pos \in Nat /\ r.written \in SUBSET Nat
      /\ r.pos = (r.top + s.y) * NUM_COLS + s.x
      /\ \A j \in r.written : j < r.pos
      /\ PageShows(s.mem, r.written, r.top, t)
      /\ s \in Screens
  BY ShowsFacts, Zenon
<1>1. x \in Int /\ y \in Int /\ x \in 0 .. NUM_COLS - 1 /\ y < NUM_ROWS
  BY <1>0, SizeFacts
<1>2. b \in Screens /\ b.mem = s.mem /\ b.x = x /\ b.y = y
  BY <1>0, <1>1, ScreenOf
<1>3. before(s) = b
  BY Zenon DEF before
<1>4. k = (r.top + y) * NUM_COLS + x
  BY <1>0, SizeFacts
<1> HIDE DEF x, y
<1>5. set_pos(s, before(s).x, before(s).y) = b
  <2>1. ~(y >= NUM_ROWS)
    BY <1>1, SizeFacts
  <2> QED
    BY <1>2, <1>3, <2>1, Zenon DEF set_pos
<1>6. A \in Addresses
  BY <1>3, Zenon DEF off_page
<1>7. A = NUM_COLS * y + x /\ y \in 0 .. NUM_ROWS - 1
  <2>1. A = NUM_COLS * y + x
    BY <1>2, Zenon DEF address
  <2>2. A >= 0
    BY <1>6, SizeFacts DEF Addresses
  <2>3. y < 0 => NUM_COLS * y <= -NUM_COLS
    BY <1>1, SizeFacts
  <2>4. NUM_COLS * y \in Int
    BY <1>1, SizeFacts
  <2>5. y >= 0
    BY <1>1, <2>1, <2>2, <2>3, <2>4, SizeFacts
  <2> QED
    BY <1>1, <2>1, <2>5, SizeFacts
<1>8. k = r.top * NUM_COLS + A /\ k \in Nat
  BY <1>0, <1>1, <1>4, <1>7, SizeFacts
<1> HIDE DEF A, b
<1>9. m \in Pages /\ PageShows(m, r.written \ {k}, r.top, t)
  BY <1>0, <1>6, <1>8, StoreShows, Zenon
<1> HIDE DEF m, k
<1>10. putc(b, Space).mem = m
  <2> DEFINE s1 == page_at(m, x + 1, y)
             w == wrapped(s1)
  <2>1. stored(b, Space) = page_at(m, x, y)
    BY <1>2, <1>6, Zenon DEF stored, off_page, A, m
  <2>2. stored(b, Space).mem = m
    BY <1>1, <1>9, <2>1, ScreenOf
  <2>3. Space # Newline
    BY DEF Space, Newline
  <2>4. putc(b, Space) = page_at(w.mem, w.x % NUM_COLS, rem(w.y, NUM_ROWS))
    BY <1>2, <2>2, <2>3, Zenon DEF putc
  <2>5. s1 \in Screens /\ s1.mem = m /\ s1.x = x + 1 /\ s1.y = y
    <3>1. x + 1 \in Int
      BY <1>1
    <3> QED
      BY <1>1, <1>9, <3>1, ScreenOf
  <2>6. w.mem = m
    <3>1. CASE x + 1 # NUM_COLS
      BY <2>5, <3>1, Zenon DEF wrapped
    <3>2. CASE x + 1 = NUM_COLS
      <4> DEFINE s2 == page_at(m, x + 1, y + 1)
      <4>1. w = scroll(s2)
        BY <2>5, <3>2, Zenon DEF wrapped
      <4>2. x + 1 \in Int /\ y + 1 \in Int /\ ~(y + 1 >= NUM_ROWS)
        BY <1>0, <1>1, <3>2, SizeFacts DEF x, y
      <4>3. s2.mem = m /\ s2.y = y + 1
        BY <1>9, <4>2, ScreenOf
      <4> HIDE DEF s2
      <4>4. scroll(s2) = s2
        BY <4>2, <4>3, Zenon DEF scroll
      <4> QED
        BY <4>1, <4>3, <4>4, Zenon
    <3> QED
      BY <3>1, <3>2, Zenon
  <2> HIDE DEF w, s1
  <2> QED
    BY <2>4, <2>6 DEF page_at
<1>11. backspaced(s) = page_at(m, x, y)
  <2>1. ~(y >= NUM_ROWS)
    BY <1>1, SizeFacts
  <2>2. backspaced(s) = set_pos(putc(b, Space), b.x, b.y)
    BY <1>5, Zenon DEF backspaced
  <2> QED
    BY <1>2, <1>10, <2>1, <2>2, Zenon DEF set_pos
<1>12. rubbed(r) = [written |-> r.written \ {k}, pos |-> k, top |-> r.top]
  BY Zenon DEF rubbed, k
<1>13. r.written \ {k} \in SUBSET Nat /\ \A j \in r.written \ {k} : j < k
  <2>1. k = r.pos - 1
    BY DEF k
  <2> QED
    BY <1>0, <1>8, <2>1
<1> DEFINE s2 == page_at(m, x, y)
<1>14. s2 \in Screens /\ s2.mem = m /\ s2.x = x /\ s2.y = y
  BY <1>1, <1>9, ScreenOf
<1>15. backspaced(s) = s2
  BY <1>11, Zenon
<1> HIDE DEF s2
<1>16. /\ s2.x \in 0 .. NUM_COLS - 1 /\ s2.y \in 0 .. NUM_ROWS - 1
       /\ k = (r.top + s2.y) * NUM_COLS + s2.x
       /\ PageShows(s2.mem, r.written \ {k}, r.top, t)
  BY <1>1, <1>4, <1>7, <1>9, <1>14, Zenon
<1>17. Shows(s2, rubbed(r), t)
  BY <1>0, <1>8, <1>12, <1>13, <1>14, <1>16, ShowsWhen, Zenon
<1> QED
  BY <1>15, <1>17, Zenon

(* A blank page.                                                           *)
LEMMA BlankShows ==
  ASSUME NEW t
  PROVE  Shows(page_at(BlankPage, 0, 0), EmptyRoll, t)
<1>1. BlankPage \in Pages
  BY DEF BlankPage, Pages, Space, Glyphs
<1> DEFINE s == page_at(BlankPage, 0, 0)
<1>2. s \in Screens /\ s.mem = BlankPage /\ s.x = 0 /\ s.y = 0
  BY <1>1, ScreenOf
<1>3. PageShows(BlankPage, {}, 0, t)
  BY DEF PageShows, BlankPage
<1> HIDE DEF s
<1>4. /\ 0 \in 0 .. NUM_COLS - 1 /\ 0 \in 0 .. NUM_ROWS - 1
      /\ 0 = (0 + 0) * NUM_COLS + 0 /\ 0 \in Nat /\ {} \in SUBSET Nat
  BY SizeFacts
<1>5. Shows(s, EmptyRoll, t)
  BY <1>2, <1>3, <1>4, ShowsWhen, Zenon DEF EmptyRoll
<1> QED
  BY <1>5 DEF s

(* A cleared page with its prompt, and the notice of a base shell.         *)
LEMMA ClearedShows ==
  ASSUME NEW t \in Terminals
  PROVE  /\ Shows(cleared(<<t, 0>>), fed(EmptyRoll, <<t, 0>>), t)
         /\ fed(EmptyRoll, <<t, 0>>).pos = 1
<1>1. EmptyRoll.pos = 0
  BY DEF EmptyRoll
<1>2. Shows(cleared(<<t, 0>>), fed(EmptyRoll, <<t, 0>>), t)
  BY <1>1, BlankShows, GlyphShows, Zenon DEF cleared
<1>3. <<t, 0>> # Newline
  BY SizeFacts DEF Newline
<1>4. fed(EmptyRoll, <<t, 0>>).pos = EmptyRoll.pos + 1
  BY <1>3 DEF fed
<1> QED
  BY <1>1, <1>2, <1>4

(* The notice of a base shell that starts again.                           *)
LEMMA NoticeShows ==
  ASSUME NEW s, NEW r, NEW t \in Terminals, NEW k, k = r.pos, Shows(s, r, t)
  PROVE  Shows(notice(s, t, k), notice_fed(r, t), t)
BY GlyphShows, NewlineShows, Zenon DEF notice, notice_fed

-----------------------------------------------------------------------------
(* The pages and cursors of the terminals.                                 *)

(* What a screen is made of.                                               *)
LEMMA Fields ==
  ASSUME NEW m, NEW x, NEW y
  PROVE  /\ page_at(m, x, y).mem = m
         /\ page_at(m, x, y).x = x
         /\ page_at(m, x, y).y = y
BY DEF page_at

(* A screen is made of its page and its cursor.                            *)
LEMMA MadeOf ==
  ASSUME NEW s \in Screens
  PROVE  s = page_at(s.mem, s.x, s.y) /\ s.mem \in Pages /\ s.x \in Int /\ s.y \in Int
BY DEF Screens, page_at

(* The page of a terminal names the terminal.                              *)
LEMMA PageNames ==
  ASSUME Types, NEW t \in Terminals
  PROVE  /\ idx(right_page(t, cur_terminal)) = t
         /\ Page(right_page(t, cur_terminal)) \in Pages
         /\ own(t) = screen(right_page(t, cur_terminal))
         /\ own(t) \in Screens
         /\ own(t).mem = Page(right_page(t, cur_terminal))
         /\ own(t).x = screen_x[t] /\ own(t).y = screen_y[t]
         /\ screen_x[t] \in Int /\ screen_y[t] \in Int
<1>1. t # ACTIVE_CONTEXT
  BY SizeFacts
<1>2. idx(right_page(t, cur_terminal)) = t
  BY <1>1, Zenon DEF idx, right_page
<1>3. Page(right_page(t, cur_terminal)) \in Pages
  BY <1>1 DEF Types, Page, right_page
<1>4. screen_x[t] \in Int /\ screen_y[t] \in Int
  BY DEF Types
<1>5. own(t) = screen(right_page(t, cur_terminal))
  BY <1>2, Zenon DEF own, screen
<1> QED
  BY <1>2, <1>3, <1>4, <1>5, ScreenOf DEF own

(* A page is written: that of one terminal, and no other's.                *)
LEMMA SetPage ==
  ASSUME Types, NEW u \in Terminals, NEW m \in Pages,
         set_page(right_page(u, cur_terminal), m), cur_terminal' = cur_terminal
  PROVE  /\ visible' \in Pages /\ hidden' \in [Terminals -> Pages]
         /\ Page(right_page(u, cur_terminal))' = m
         /\ \A t \in Terminals \ {u} :
              Page(right_page(t, cur_terminal))' = Page(right_page(t, cur_terminal))
<1>0. /\ visible \in Pages /\ hidden \in [Terminals -> Pages]
      /\ ACTIVE_CONTEXT \notin Terminals
  BY SizeFacts DEF Types
<1>1. CASE u = cur_terminal
  <2>1. visible' = m /\ hidden' = hidden
    BY <1>1, Zenon DEF set_page, right_page
  <2> QED
    BY <1>0, <1>1, <2>1, Zenon DEF Page, right_page
<1>2. CASE u # cur_terminal
  <2>1. visible' = visible /\ hidden' = [hidden EXCEPT ![u] = m]
    BY <1>0, <1>2, Zenon DEF set_page, right_page
  <2>2. /\ hidden' \in [Terminals -> Pages] /\ hidden'[u] = m
        /\ \A t \in Terminals \ {u} : hidden'[t] = hidden[t]
    BY <1>0, <2>1
  <2> QED
    BY <1>0, <1>2, <2>1, <2>2, Zenon DEF Page, right_page
<1> QED
  BY <1>1, <1>2, Zenon

(* What belongs to terminal t, but for its page.                           *)
KeepsRest(t) ==
  /\ pc'[t] = pc[t] /\ out'[t] = out[t] /\ target'[t] = target[t]
  /\ roll'[t] = roll[t]

Keeps(t) ==
  /\ own(t)' = own(t)
  /\ screen_x'[t] = screen_x[t] /\ screen_y'[t] = screen_y[t]
  /\ KeepsRest(t)

(* A screen is written: that of one terminal, and no other's.              *)
LEMMA SetScreen ==
  ASSUME Types, NEW u \in Terminals, NEW s \in Screens,
         set_screen(right_page(u, cur_terminal), s), cur_terminal' = cur_terminal
  PROVE  /\ visible' \in Pages /\ hidden' \in [Terminals -> Pages]
         /\ screen_x' \in [Terminals -> Int] /\ screen_y' \in [Terminals -> Int]
         /\ own(u)' = s
         /\ screen_x'[u] = s.x
         /\ \A t \in Terminals \ {u} :
              /\ own(t)' = own(t)
              /\ screen_x'[t] = screen_x[t] /\ screen_y'[t] = screen_y[t]
<1>0. /\ screen_x \in [Terminals -> Int] /\ screen_y \in [Terminals -> Int]
      /\ s = page_at(s.mem, s.x, s.y) /\ s.mem \in Pages
      /\ s.x \in Int /\ s.y \in Int
  <2>1. /\ s = page_at(s.mem, s.x, s.y) /\ s.mem \in Pages
        /\ s.x \in Int /\ s.y \in Int
    BY MadeOf, Zenon
  <2> QED
    BY <2>1, Zenon DEF Types
<1>1. /\ set_page(right_page(u, cur_terminal), s.mem)
      /\ screen_x' = [screen_x EXCEPT ![u] = s.x]
      /\ screen_y' = [screen_y EXCEPT ![u] = s.y]
  <2>1. idx(right_page(u, cur_terminal)) = u
    BY PageNames, Zenon
  <2> QED
    BY <2>1, Zenon DEF set_screen
<1>2. /\ visible' \in Pages /\ hidden' \in [Terminals -> Pages]
      /\ Page(right_page(u, cur_terminal))' = s.mem
      /\ \A t \in Terminals \ {u} :
           Page(right_page(t, cur_terminal))' = Page(right_page(t, cur_terminal))
  BY <1>0, <1>1, SetPage, Zenon
<1>3. /\ screen_x' \in [Terminals -> Int] /\ screen_x'[u] = s.x
      /\ \A t \in Terminals \ {u} : screen_x'[t] = screen_x[t]
  BY <1>0, <1>1
<1>4. /\ screen_y' \in [Terminals -> Int] /\ screen_y'[u] = s.y
      /\ \A t \in Terminals \ {u} : screen_y'[t] = screen_y[t]
  BY <1>0, <1>1
<1>5. own(u)' = s
  BY <1>0, <1>2, <1>3, <1>4, Zenon DEF own
<1>6. \A t \in Terminals \ {u} : own(t)' = own(t)
  BY <1>2, <1>3, <1>4, Zenon DEF own
<1> QED
  BY <1>2, <1>3, <1>4, <1>5, <1>6, Zenon

(* A terminal that keeps all that is its own.                              *)
LEMMA KeepsShowing ==
  ASSUME NEW t, Keeps(t)
  PROVE  /\ WillShow(t) => WillShow(t)'
         /\ Fresh(t) => Fresh(t)'
<1>1. WillShow(t) => WillShow(t)'
  BY Zenon DEF Keeps, KeepsRest, WillShow
<1>2. Fresh(t) => Fresh(t)'
  BY Zenon DEF Keeps, KeepsRest, Fresh
<1> QED
  BY <1>1, <1>2

(* A step that changes one terminal.                                       *)
LEMMA OneTerminal ==
  ASSUME Settled, NEW u \in launched, Types', WillShow(u)',
         launched' = launched,
         video_mem' = right_page(cpu', cur_terminal'),
         \A t \in Terminals \ {u} : Keeps(t)
  PROVE  Settled'
<1>1. \A t \in Terminals \ launched : Fresh(t)'
  BY KeepsShowing, Zenon DEF Settled
<1>2. \A t \in launched : WillShow(t)'
  <2>1. launched \subseteq Terminals
    BY Zenon DEF Settled, Types
  <2>2. ASSUME NEW t \in launched, t # u PROVE WillShow(t)'
    <3>1. Keeps(t) /\ WillShow(t)
      BY <2>1, <2>2, Zenon DEF Settled
    <3> QED
      BY <3>1, KeepsShowing, Zenon
  <2> QED
    BY <2>2, Zenon
<1> QED
  BY <1>1, <1>2, Zenon DEF Settled
(* A step after which terminal u shows s, and r is its text.               *)
LEMMA ShowsNow ==
  ASSUME Settled, NEW u \in launched, NEW s, NEW r, Shows(s, r, u),
         set_screen(right_page(u, cur_terminal), s),
         roll' = [roll EXCEPT ![u] = r],
         cur_terminal' = cur_terminal, launched' = launched, cpu' = cpu,
         video_mem' = right_page(cpu, cur_terminal),
         pc' \in [Terminals -> Labels], out' \in [Terminals -> Glyphs],
         Indexed(target'),
         pc'[u] = "user",
         \A t \in Terminals \ {u} :
           pc'[t] = pc[t] /\ out'[t] = out[t] /\ target'[t] = target[t]
  PROVE  Settled'
<1>1. /\ Types /\ u \in Terminals /\ s \in Screens /\ r \in Rolls
      /\ roll \in [Terminals -> Rolls]
  BY Zenon DEF Settled, Types, Shows
<1>2. /\ visible' \in Pages /\ hidden' \in [Terminals -> Pages]
      /\ screen_x' \in [Terminals -> Int] /\ screen_y' \in [Terminals -> Int]
      /\ own(u)' = s
      /\ \A t \in Terminals \ {u} :
           /\ own(t)' = own(t)
           /\ screen_x'[t] = screen_x[t] /\ screen_y'[t] = screen_y[t]
  BY <1>1, SetScreen, Zenon
<1>3. /\ roll' \in [Terminals -> Rolls] /\ roll'[u] = r
      /\ \A t \in Terminals \ {u} : roll'[t] = roll[t]
  BY <1>1
<1>4. Types'
  BY <1>1, <1>2, <1>3, Zenon DEF Types
<1>5. WillShow(u)'
  BY <1>2, <1>3, Zenon DEF WillShow
<1>6. \A t \in Terminals \ {u} : Keeps(t)
  BY <1>2, <1>3, Zenon DEF Keeps, KeepsRest
<1> QED
  BY <1>4, <1>5, <1>6, OneTerminal, Zenon

(* What is known inside a putc of the current process.                     *)
LEMMA InPutc ==
  ASSUME Settled, NEW label, at(label), label # "user"
  PROVE  /\ now \in Screens /\ now.mem \in Pages
         /\ now.x = screen_x[cpu] /\ now.y = screen_y[cpu]
         /\ now.mem = Page(right_page(cpu, cur_terminal))
         /\ now.x \in Int /\ now.y \in Int
         /\ Shows(rest(label, now, out[cpu], target[cpu].a),
                  fed(roll[cpu], out[cpu]), cpu)
         /\ label \in CharLabels => out[cpu] # Newline
         /\ label = "x_zero" => out[cpu] = Newline
         /\ label = "store" => target[cpu].a = address(now)
         /\ label \in {"move", "blank"} => target[cpu].a \in Nat
         /\ label = "y_mod" => now.x \in 0 .. NUM_COLS - 1
<1>1. /\ Types /\ cpu \in Terminals /\ WillShow(cpu) /\ pc[cpu] = label
      /\ video_mem = right_page(cpu, cur_terminal)
  BY Zenon DEF Settled, Types, at
<1>2. /\ now \in Screens /\ now.x = screen_x[cpu] /\ now.y = screen_y[cpu]
      /\ now.mem = Page(right_page(cpu, cur_terminal))
  BY <1>1, PageNames, Zenon DEF now
<1>3. now.mem \in Pages /\ now.x \in Int /\ now.y \in Int
  BY <1>2, MadeOf, Zenon
<1>4. /\ Shows(rest(label, now, out[cpu], target[cpu].a),
               fed(roll[cpu], out[cpu]), cpu)
      /\ label \in CharLabels => out[cpu] # Newline
      /\ label = "x_zero" => out[cpu] = Newline
      /\ label = "store" => target[cpu].a = address(now)
      /\ label \in {"move", "blank"} => target[cpu].a \in Nat
      /\ label = "y_mod" => screen_x[cpu] \in 0 .. NUM_COLS - 1
  BY <1>1, Zenon DEF WillShow, now
<1> QED
  BY <1>2, <1>3, <1>4, Zenon

(* What a step of the putc of the current process comes to: it goes to a   *)
(* label, leaves the screen s, and its loops are at place a.               *)
Moves(label, s, a) ==
  /\ set_screen(right_page(cpu, cur_terminal), s)
  /\ pc' = [pc EXCEPT ![cpu] = label]
  /\ Indexed(target') /\ target'[cpu].a = a
  /\ \A t \in Terminals \ {cpu} : target'[t] = target[t]
  /\ UNCHANGED <<cur_terminal, video_mem, cpu, launched, out, roll>>

(* A step to a label from which the rest of putc ends where it did before. *)
LEMMA GoesOn ==
  ASSUME Settled, NEW from, at(from), from # "user",
         NEW s \in Screens, NEW label \in Labels \ {"user"}, NEW a,
         Moves(label, s, a),
         rest(label, s, out[cpu], a) = rest(from, now, out[cpu], target[cpu].a),
         label \in CharLabels => out[cpu] # Newline,
         label = "x_zero" => out[cpu] = Newline,
         label = "store" => a = address(s),
         label \in {"move", "blank"} => a \in Nat,
         label = "y_mod" => s.x \in 0 .. NUM_COLS - 1
  PROVE  Settled'
<1>1. /\ Types /\ cpu \in Terminals /\ cpu \in launched
      /\ video_mem = right_page(cpu, cur_terminal)
      /\ pc \in [Terminals -> Labels]
  BY Zenon DEF Settled, Types
<1>a. /\ set_screen(right_page(cpu, cur_terminal), s)
      /\ Indexed(target') /\ target'[cpu].a = a
      /\ \A t \in Terminals \ {cpu} : target'[t] = target[t]
      /\ UNCHANGED <<cur_terminal, video_mem, cpu, launched, out, roll>>
  BY Zenon DEF Moves
<1>b. Shows(rest(label, s, out[cpu], a), fed(roll[cpu], out[cpu]), cpu)
  BY InPutc, Zenon
<1>2. /\ visible' \in Pages /\ hidden' \in [Terminals -> Pages]
      /\ screen_x' \in [Terminals -> Int] /\ screen_y' \in [Terminals -> Int]
      /\ own(cpu)' = s
      /\ screen_x'[cpu] = s.x
      /\ \A t \in Terminals \ {cpu} :
           /\ own(t)' = own(t)
           /\ screen_x'[t] = screen_x[t] /\ screen_y'[t] = screen_y[t]
  BY <1>1, <1>a, SetScreen, Zenon
<1>3. /\ pc' \in [Terminals -> Labels] /\ pc'[cpu] = label
      /\ \A t \in Terminals \ {cpu} : pc'[t] = pc[t]
  BY <1>1 DEF Moves
<1>4. Types'
  BY <1>1, <1>a, <1>2, <1>3, Zenon DEF Types
<1>5. WillShow(cpu)'
  <2>1. /\ own(cpu)' = s /\ pc[cpu]' = label /\ out[cpu]' = out[cpu]
        /\ (target[cpu].a)' = a /\ screen_x[cpu]' = s.x
    BY <1>a, <1>2, <1>3, Zenon
  <2>2. Shows(rest(label, s, out[cpu], a), fed(roll[cpu]', out[cpu]), cpu')
    BY <1>a, <1>b, Zenon
  <2> QED
    BY <2>1, <2>2, Zenon DEF WillShow
<1>6. \A t \in Terminals \ {cpu} : Keeps(t)
  BY <1>a, <1>2, <1>3, Zenon DEF Keeps, KeepsRest
<1> QED
  BY <1>1, <1>a, <1>4, <1>5, <1>6, OneTerminal, Zenon

(* The rest of putc before and after x is moved on,                        *)
LEMMA RestFromXInc ==
  ASSUME NEW s, NEW c, NEW a
  PROVE  rest("wrap", page_at(s.mem, s.x + 1, s.y), c, a) =
           rest("x_inc", s, c, a)
BY DEF rest

(* the end of the row is looked for,                                       *)
LEMMA RestFromWrap ==
  ASSUME NEW s, NEW c, NEW a, c # Newline
  PROVE  rest(IF s.x = NUM_COLS THEN "y_inc" ELSE "x_mod", s, c, a) =
           rest("wrap", s, c, a)
BY DEF rest, wrapped

(* y is moved on,                                                          *)
LEMMA RestFromYInc ==
  ASSUME NEW s, NEW c, NEW a
  PROVE  rest(IF c = Newline THEN "x_zero" ELSE "scroll",
              page_at(s.mem, s.x, s.y + 1), c, a) = rest("y_inc", s, c, a)
BY Fields DEF rest

(* a newline puts x back,                                                  *)
LEMMA RestFromXZero ==
  ASSUME NEW s, NEW a
  PROVE  rest("scroll", page_at(s.mem, 0, s.y), Newline, a) =
           rest("x_zero", s, Newline, a)
BY DEF rest, ended

(* the last row is tested for,                                             *)
LEMMA RestFromScroll ==
  ASSUME NEW s, NEW c, NEW a, s.mem \in Pages
  PROVE  /\ s.y >= NUM_ROWS => rest("move", s, c, 0) = rest("scroll", s, c, a)
         /\ ~(s.y >= NUM_ROWS) => rest("x_mod", s, c, a) = rest("scroll", s, c, a)
<1>1. moved_from(s.mem, 0) = moved_up(s.mem)
  BY DEF moved_from, moved_up, Addresses
<1> QED
  BY <1>1 DEF rest, scroll

(* a place is copied from the row below,                                   *)
LEMMA RestFromMove ==
  ASSUME NEW s, NEW c, NEW a \in Nat, s.mem \in Pages,
         a + NUM_COLS \in Addresses
  PROVE  rest("move", page_at([s.mem EXCEPT ![a] = s.mem[a + NUM_COLS]],
                              s.x, s.y), c, a + 1) =
           rest("move", s, c, a)
<1> DEFINE m == [s.mem EXCEPT ![a] = s.mem[a + NUM_COLS]]
<1>0. NUM_ROWS * NUM_COLS \in Int
  BY SizeFacts
<1>1. a \in Addresses
  BY <1>0, SizeFacts DEF Addresses
<1>2. ASSUME NEW k \in Addresses
      PROVE  moved_from(m, a + 1)[k] = moved_from(s.mem, a)[k]
  <2>1. k \in Nat
    BY <1>0 DEF Addresses
  <2>2. CASE k = a
    <3>1. ~(k >= a + 1) /\ k >= a
      BY <2>1, <2>2
    <3> QED
      BY <1>1, <2>2, <3>1 DEF moved_from, Pages
  <2>3. CASE k # a
    <3>1. (k >= a + 1 <=> k >= a) /\ (k >= a => k + NUM_COLS # a)
      BY <2>1, <2>3, SizeFacts
    <3>2. m[k] = s.mem[k]
      BY <2>3 DEF Pages
    <3>3. k >= a /\ k + NUM_COLS \in Addresses =>
            m[k + NUM_COLS] = s.mem[k + NUM_COLS]
      BY <3>1 DEF Pages
    <3> HIDE DEF m
    <3> QED
      BY <3>1, <3>2, <3>3 DEF moved_from
  <2> QED
    BY <2>2, <2>3
<1> HIDE DEF m
<1>3. moved_from(m, a + 1) = moved_from(s.mem, a)
  BY <1>2 DEF moved_from
<1> QED
  BY <1>3, Fields DEF rest, m

(* the copying ends,                                                       *)
LEMMA RestFromMoved ==
  ASSUME NEW s, NEW c, NEW a \in Nat, NEW b, s.mem \in Pages,
         a + NUM_COLS \notin Addresses
  PROVE  rest("y_dec", s, c, b) = rest("move", s, c, a)
<1>0. NUM_ROWS * NUM_COLS \in Int
  BY SizeFacts
<1>1. ASSUME NEW k \in Addresses, k >= a, k + NUM_COLS \in Addresses
      PROVE  FALSE
  BY <1>0, <1>1, SizeFacts DEF Addresses
<1>2. moved_from(s.mem, a) = s.mem
  BY <1>1 DEF moved_from, Pages
<1> QED
  BY <1>2 DEF rest

(* y is moved back,                                                        *)
LEMMA RestFromYDec ==
  ASSUME NEW s, NEW c, NEW a, s.mem \in Pages
  PROVE  rest("blank", page_at(s.mem, s.x, s.y - 1), c, (NUM_ROWS - 1) * NUM_COLS) =
           rest("y_dec", s, c, a)
<1> DEFINE e == (NUM_ROWS - 1) * NUM_COLS
<1>1. e \in Int /\ NUM_ROWS * NUM_COLS = e + NUM_COLS
  BY SizeFacts
<1>2. \A b \in Addresses : b >= e <=> b + NUM_COLS \notin Addresses
  <2> HIDE DEF e
  <2> QED
    BY <1>1, SizeFacts DEF Addresses
<1>3. blank_from(s.mem, e) = last_row_blank(s.mem)
  <2> HIDE DEF e
  <2> QED
    BY <1>2 DEF blank_from, last_row_blank
<1> QED
  BY <1>3, Fields DEF rest

(* a place is blanked, or the blanking ends,                               *)
LEMMA RestFromBlank ==
  ASSUME NEW s, NEW c, NEW a \in Nat, s.mem \in Pages
  PROVE  /\ a \in Addresses =>
              rest("blank", page_at([s.mem EXCEPT ![a] = Space], s.x, s.y), c, a + 1) =
                rest("blank", s, c, a)
         /\ a \notin Addresses =>
              rest("blank", s, c, a) = ended(page_at(s.mem, s.x, s.y), c)
<1>0. NUM_ROWS * NUM_COLS \in Int
  BY SizeFacts
<1>1. CASE a \in Addresses
  <2> DEFINE m == [s.mem EXCEPT ![a] = Space]
  <2>1. ASSUME NEW b \in Addresses
        PROVE  blank_from(m, a + 1)[b] = blank_from(s.mem, a)[b]
    <3>1. b >= a + 1 <=> b >= a /\ b # a
      BY <1>0 DEF Addresses
    <3>2. m[b] = IF b = a THEN Space ELSE s.mem[b]
      BY DEF Pages
    <3>3. b = a => b >= a
      OBVIOUS
    <3> HIDE DEF m
    <3> QED
      BY <3>1, <3>2, <3>3 DEF blank_from
  <2> HIDE DEF m
  <2>2. blank_from(m, a + 1) = blank_from(s.mem, a)
    BY <2>1 DEF blank_from
  <2> QED
    BY <1>1, <2>2, Fields DEF rest, m
<1>2. CASE a \notin Addresses
  <2>1. \A b \in Addresses : ~(b >= a)
    BY <1>0, <1>2 DEF Addresses
  <2>2. blank_from(s.mem, a) = s.mem
    BY <2>1 DEF blank_from, Pages
  <2> QED
    BY <1>2, <2>2 DEF rest
<1> QED
  BY <1>1, <1>2

(* x is brought into range, and                                            *)
LEMMA RestFromXMod ==
  ASSUME NEW s, NEW c, NEW a, c # Newline
  PROVE  rest("y_mod", page_at(s.mem, s.x % NUM_COLS, s.y), c, a) =
           rest("x_mod", s, c, a)
BY Fields DEF rest, ended

(* the character is stored.                                                *)
LEMMA RestFromStore ==
  ASSUME NEW s, NEW c, NEW a, NEW b, c # Newline, address(s) \in Addresses
  PROVE  rest("x_inc", page_at([s.mem EXCEPT ![address(s)] = c], s.x, s.y), c, b) =
           rest("store", s, c, a)
<1>1. stored(s, c).mem = [s.mem EXCEPT ![address(s)] = c]
  BY Fields DEF stored, off_page
<1>2. rest("store", s, c, a) = putc(s, c)
  BY DEF rest
<1>3. putc(s, c) =
        ended(wrapped(page_at([s.mem EXCEPT ![address(s)] = c], s.x + 1, s.y)), c)
  BY <1>1, Zenon DEF putc, ended
<1> QED
  BY <1>2, <1>3, Fields DEF rest

(* A cursor used with no ALT-Fn in between is that of the process.         *)
LEMMA OwnCursor ==
  ASSUME Settled, uses_cursor, ~disturbed'
  PROVE  index = cpu /\ x_now = now.x /\ y_now = now.y
<1>1. Types /\ cpu \in Terminals
  BY Zenon DEF Settled, Types
<1>2. index = cpu
  BY Zenon DEF uses_cursor
<1>3. now.x = screen_x[cpu] /\ now.y = screen_y[cpu]
  BY <1>1, PageNames, Zenon DEF now
<1> QED
  BY <1>2, <1>3, Zenon DEF x_now, y_now

(* Pages left alone.                                                       *)
LEMMA SamePage ==
  ASSUME Settled, UNCHANGED page_vars
  PROVE  set_page(right_page(cpu, cur_terminal), now.mem)
<1> DEFINE v == right_page(cpu, cur_terminal)
<1>1. Types /\ cpu \in Terminals /\ hidden \in [Terminals -> Pages]
  BY Zenon DEF Settled, Types
<1>2. now.mem = Page(v)
  BY <1>1, PageNames, Zenon DEF now
<1>3. hidden = [hidden EXCEPT ![v] = hidden[v]]
  BY <1>1
<1> HIDE DEF v
<1>4. set_page(v, Page(v))
  BY <1>3, Zenon DEF set_page, Page, page_vars
<1> QED
  BY <1>2, <1>4, Zenon DEF v

(* The cursor is put at x, y.                                              *)
LEMMA CursorSet ==
  ASSUME Settled, NEW x, NEW y, sets_cursor(x, y), ~disturbed'
  PROVE  /\ set_screen(right_page(cpu, cur_terminal), page_at(now.mem, x, y))
         /\ UNCHANGED <<cur_terminal, video_mem, cpu, launched>>
<1> DEFINE s == page_at(now.mem, x, y)
<1>1. Types /\ cpu \in Terminals
  BY Zenon DEF Settled, Types
<1>2. idx(right_page(cpu, cur_terminal)) = cpu
  BY <1>1, PageNames, Zenon
<1>3. index = cpu
  BY OwnCursor, Zenon DEF sets_cursor
<1>4. /\ screen_x' = [screen_x EXCEPT ![cpu] = x]
      /\ screen_y' = [screen_y EXCEPT ![cpu] = y]
      /\ UNCHANGED page_vars
      /\ UNCHANGED <<cur_terminal, video_mem, cpu, launched>>
  BY <1>3, Zenon DEF sets_cursor
<1>5. s.mem = now.mem /\ s.x = x /\ s.y = y
  BY Fields
<1>6. set_page(right_page(cpu, cur_terminal), now.mem)
  BY <1>4, SamePage, Zenon
<1> HIDE DEF s
<1>7. set_screen(right_page(cpu, cur_terminal), s)
  BY <1>2, <1>4, <1>5, <1>6, Zenon DEF set_screen
<1> QED
  BY <1>4, <1>7, Zenon DEF s

(* A place of the page is written.                                         *)
LEMMA PageWritten ==
  ASSUME Settled, NEW p, NEW a, NEW g, putc_writes(p, a, g), UNCHANGED pos_vars,
         ~disturbed'
  PROVE  /\ a \in Addresses /\ p = right_page(cpu, cur_terminal)
         /\ now.mem = Page(p) /\ now.mem \in Pages
         /\ g \in Glyphs =>
              /\ [now.mem EXCEPT ![a] = g] \in Pages
              /\ set_screen(right_page(cpu, cur_terminal),
                            page_at([now.mem EXCEPT ![a] = g], now.x, now.y))
<1> DEFINE m == [now.mem EXCEPT ![a] = g]
           s == page_at(m, now.x, now.y)
<1>1. /\ Types /\ cpu \in Terminals
      /\ screen_x \in [Terminals -> Int] /\ screen_y \in [Terminals -> Int]
  BY Zenon DEF Settled, Types
<1>2. a \in Addresses /\ p = right_page(cpu, cur_terminal)
  BY Zenon DEF putc_writes
<1>3. /\ now.mem = Page(p) /\ now.mem \in Pages
      /\ now.x = screen_x[cpu] /\ now.y = screen_y[cpu]
      /\ idx(p) = cpu
  BY <1>1, <1>2, PageNames, Zenon DEF now
<1>4. set_page(p, m)
  BY <1>2, <1>3, Zenon DEF putc_writes
<1>5. s.mem = m /\ s.x = now.x /\ s.y = now.y
  BY Fields
<1>6. /\ screen_x' = [screen_x EXCEPT ![cpu] = now.x]
      /\ screen_y' = [screen_y EXCEPT ![cpu] = now.y]
  BY <1>1, <1>3 DEF pos_vars
<1>7. g \in Glyphs => m \in Pages
  BY <1>2, <1>3 DEF Pages
<1> HIDE DEF m, s
<1>8. set_screen(p, s)
  BY <1>3, <1>4, <1>5, <1>6, Zenon DEF set_screen
<1> QED
  BY <1>2, <1>3, <1>7, <1>8, Zenon DEF m, s

(* The place the current process is at is set, or left alone.              *)
LEMMA PlaceSet ==
  ASSUME Settled
  PROVE  /\ UNCHANGED target =>
              /\ Indexed(target') /\ target'[cpu].a = target[cpu].a
              /\ \A t \in Terminals \ {cpu} : target'[t] = target[t]
         /\ \A p, a : target' = [target EXCEPT ![cpu] = [page |-> p, a |-> a]] =>
              /\ Indexed(target') /\ target'[cpu].a = a
              /\ \A t \in Terminals \ {cpu} : target'[t] = target[t]
<1>1. cpu \in Terminals /\ Indexed(target)
  BY Zenon DEF Settled, Types
<1>2. ASSUME NEW p, NEW a, target' = [target EXCEPT ![cpu] = [page |-> p, a |-> a]]
      PROVE  /\ Indexed(target') /\ target'[cpu].a = a
             /\ \A t \in Terminals \ {cpu} : target'[t] = target[t]
  <2>1. DOMAIN target = Terminals
    BY <1>1 DEF Indexed
  <2>2. /\ target'[cpu] = [page |-> p, a |-> a]
        /\ \A t \in Terminals \ {cpu} : target'[t] = target[t]
    BY <1>1, <1>2, <2>1
  <2>3. Indexed(target')
    BY <1>2, <2>1 DEF Indexed
  <2> QED
    BY <2>2, <2>3
<1> QED
  BY <1>1, <1>2, Zenon

(* A statement that puts the cursor at x, y and leaves the rest.           *)
LEMMA Moved ==
  ASSUME Settled, NEW x, NEW y, NEW label, goto(label), putc_moves(x, y),
         ~disturbed'
  PROVE  Moves(label, page_at(now.mem, x, y), target[cpu].a)
<1>1. sets_cursor(x, y) /\ UNCHANGED <<out, target, roll>>
  BY Zenon DEF putc_moves
<1>2. /\ set_screen(right_page(cpu, cur_terminal), page_at(now.mem, x, y))
      /\ UNCHANGED <<cur_terminal, video_mem, cpu, launched>>
  BY <1>1, CursorSet, Zenon
<1>3. /\ Indexed(target') /\ target'[cpu].a = target[cpu].a
      /\ \A t \in Terminals \ {cpu} : target'[t] = target[t]
  BY <1>1, PlaceSet, Zenon
<1> QED
  BY <1>1, <1>2, <1>3, Zenon DEF Moves, goto

(* The statements of putc that move to the next one on the same screen.    *)
LEMMA CursorSteps ==
  ASSUME Settled, putc_x_inc \/ putc_wrap \/ putc_y_inc \/ putc_x_zero,
         ~disturbed'
  PROVE  Settled'
<1> DEFINE c == out[cpu]
           b == target[cpu].a
<1>0. uses_cursor
  BY Zenon DEF putc_x_inc, putc_wrap, putc_y_inc, putc_x_zero, putc_moves,
     sets_cursor
<1>a. x_now = now.x /\ y_now = now.y
  BY <1>0, OwnCursor, Zenon
<1>1. CASE putc_x_inc
  <2> DEFINE s == page_at(now.mem, now.x + 1, now.y)
  <2>1. at("x_inc") /\ goto("wrap") /\ putc_moves(now.x + 1, now.y)
    BY <1>a, <1>1, Zenon DEF putc_x_inc, looked
  <2>2. /\ now.mem \in Pages /\ now.x \in Int /\ now.y \in Int
        /\ "x_inc" \in CharLabels => c # Newline
    BY <2>1, InPutc, Zenon
  <2>3. /\ now.x + 1 \in Int /\ c # Newline /\ "x_inc" # "user"
        /\ "wrap" \in Labels \ {"user"} /\ "wrap" \notin {"move", "blank"}
        /\ "wrap" # "x_zero" /\ "wrap" # "y_mod" /\ "wrap" # "store"
    BY <2>2 DEF Labels, CharLabels
  <2>4. s \in Screens
    BY <2>2, <2>3, ScreenIn, Zenon
  <2>5. Moves("wrap", s, b)
    BY <2>1, Moved, Zenon
  <2>6. rest("wrap", s, c, b) = rest("x_inc", now, c, b)
    BY RestFromXInc, Zenon
  <2> HIDE DEF s
  <2> QED
    BY <2>1, <2>3, <2>4, <2>5, <2>6, GoesOn, Zenon
<1>2. CASE putc_wrap
  <2> DEFINE label == IF now.x = NUM_COLS THEN "y_inc" ELSE "x_mod"
             s == page_at(now.mem, now.x, now.y)
  <2>1. at("wrap") /\ goto(label) /\ putc_moves(now.x, now.y)
    BY <1>a, <1>2, Zenon DEF putc_wrap, looked
  <2>2. now \in Screens /\ ("wrap" \in CharLabels => c # Newline)
    BY <2>1, InPutc, Zenon
  <2>3. /\ c # Newline /\ "wrap" # "user"
        /\ label \in Labels \ {"user"} /\ label \notin {"move", "blank"}
        /\ label # "x_zero" /\ label # "y_mod" /\ label # "store"
    BY <2>2 DEF Labels, CharLabels
  <2>4. rest(label, now, c, b) = rest("wrap", now, c, b)
    BY <2>3, RestFromWrap, Zenon
  <2>5. Moves(label, s, b)
    BY <2>1, Moved, Zenon
  <2>6. s = now
    BY <2>2, MadeOf, Zenon
  <2> HIDE DEF label, s
  <2> QED
    BY <2>1, <2>2, <2>3, <2>4, <2>5, <2>6, GoesOn, Zenon
<1>3. CASE putc_y_inc
  <2> DEFINE label == IF c = Newline THEN "x_zero" ELSE "scroll"
             s == page_at(now.mem, now.x, now.y + 1)
  <2>1. at("y_inc") /\ goto(label) /\ putc_moves(now.x, now.y + 1)
    BY <1>a, <1>3, Zenon DEF putc_y_inc, is_newline, looked
  <2>2. now.mem \in Pages /\ now.x \in Int /\ now.y \in Int
    BY <2>1, InPutc, Zenon
  <2>3. /\ now.y + 1 \in Int /\ "y_inc" # "user"
        /\ label \in Labels \ {"user"} /\ label \notin CharLabels
        /\ label \notin {"move", "blank"} /\ label # "store"
        /\ label = "x_zero" => c = Newline
        /\ label # "y_mod"
    BY <2>2 DEF Labels, CharLabels
  <2>4. s \in Screens
    BY <2>2, <2>3, ScreenIn, Zenon
  <2>5. rest(label, s, c, b) = rest("y_inc", now, c, b)
    BY RestFromYInc, Zenon
  <2>6. Moves(label, s, b)
    BY <2>1, Moved, Zenon
  <2> HIDE DEF label, s
  <2> QED
    BY <2>1, <2>3, <2>4, <2>5, <2>6, GoesOn, Zenon
<1>4. CASE putc_x_zero
  <2> DEFINE s == page_at(now.mem, 0, now.y)
  <2>1. at("x_zero") /\ goto("scroll") /\ putc_moves(0, now.y)
    BY <1>a, <1>4, Zenon DEF putc_x_zero, looked
  <2>2. /\ now.mem \in Pages /\ now.y \in Int /\ c = Newline
    BY <2>1, InPutc, Zenon
  <2>3. /\ 0 \in Int /\ "x_zero" # "user"
        /\ "scroll" \in Labels \ {"user"} /\ "scroll" \notin CharLabels
        /\ "scroll" # "x_zero" /\ "scroll" # "y_mod" /\ "scroll" # "store"
        /\ "scroll" \notin {"move", "blank"}
    BY DEF Labels, CharLabels
  <2>4. s \in Screens
    BY <2>2, <2>3, ScreenIn, Zenon
  <2>5. rest("scroll", s, c, b) = rest("x_zero", now, c, b)
    BY <2>2, RestFromXZero, Zenon
  <2>6. Moves("scroll", s, b)
    BY <2>1, Moved, Zenon
  <2> HIDE DEF s
  <2> QED
    BY <2>1, <2>3, <2>4, <2>5, <2>6, GoesOn, Zenon
<1> QED
  BY <1>1, <1>2, <1>3, <1>4

(* A putc that ends with the screen that was to come of it.                *)
LEMMA Ends ==
  ASSUME Settled, NEW from, at(from), from # "user",
         NEW s, s = rest(from, now, out[cpu], target[cpu].a),
         finish, set_screen(right_page(cpu, cur_terminal), s),
         Indexed(target'), \A t \in Terminals \ {cpu} : target'[t] = target[t],
         UNCHANGED <<cur_terminal, video_mem, cpu, launched>>
  PROVE  Settled'
<1>1. /\ cpu \in Terminals /\ cpu \in launched
      /\ video_mem = right_page(cpu, cur_terminal)
      /\ pc \in [Terminals -> Labels] /\ out \in [Terminals -> Glyphs]
  BY Zenon DEF Settled, Types
<1>2. Shows(s, fed(roll[cpu], out[cpu]), cpu)
  BY InPutc, Zenon
<1>3. /\ pc' = [pc EXCEPT ![cpu] = "user"]
      /\ out' = [out EXCEPT ![cpu] = Space]
      /\ roll' = [roll EXCEPT ![cpu] = fed(roll[cpu], out[cpu])]
  BY DEF finish, goto
<1>4. "user" \in Labels /\ Space \in Glyphs
  BY DEF Labels, Space, Glyphs
<1>5. /\ pc' \in [Terminals -> Labels] /\ pc'[cpu] = "user"
      /\ \A t \in Terminals \ {cpu} : pc'[t] = pc[t]
  BY <1>1, <1>3, <1>4
<1>6. /\ out' \in [Terminals -> Glyphs]
      /\ \A t \in Terminals \ {cpu} : out'[t] = out[t]
  BY <1>1, <1>3, <1>4
<1>7. /\ cur_terminal' = cur_terminal /\ launched' = launched /\ cpu' = cpu
      /\ video_mem' = right_page(cpu, cur_terminal)
      /\ \A t \in Terminals \ {cpu} :
           pc'[t] = pc[t] /\ out'[t] = out[t] /\ target'[t] = target[t]
  BY <1>1, <1>5, <1>6, Zenon
<1> QED
  BY <1>1, <1>2, <1>3, <1>5, <1>6, <1>7, ShowsNow, Zenon

(* scroll's test for the last row.                                         *)
LEMMA TestStep ==
  ASSUME Settled, scroll_test, ~disturbed'
  PROVE  Settled'
<1> DEFINE c == out[cpu]
           b == target[cpu].a
           s == page_at(now.mem, now.x, now.y)
<1>1. at("scroll") /\ "scroll" # "user" /\ uses_cursor
  BY DEF scroll_test, looked, sets_cursor
<1>2. x_now = now.x /\ y_now = now.y
  BY <1>1, OwnCursor, Zenon
<1>3. now \in Screens /\ now.mem \in Pages /\ now.y \in Int
  BY <1>1, InPutc, Zenon
<1>4. sets_cursor(now.x, now.y)
  BY <1>2, Zenon DEF scroll_test
<1>5. s = now
  BY <1>3, MadeOf, Zenon
<1>6. /\ set_screen(right_page(cpu, cur_terminal), now)
      /\ UNCHANGED <<cur_terminal, video_mem, cpu, launched>>
  BY <1>4, <1>5, CursorSet, Zenon
<1>7. CASE /\ now.y >= NUM_ROWS /\ goto("move") /\ go_to_place(0)
           /\ UNCHANGED <<out, roll>>
  <2>1. rest("move", now, c, 0) = rest("scroll", now, c, b)
    BY <1>3, <1>7, RestFromScroll, Zenon
  <2>2. /\ "move" \in Labels \ {"user"} /\ "move" \notin CharLabels /\ 0 \in Nat
        /\ "move" # "x_zero" /\ "move" # "y_mod" /\ "move" # "store"
    BY DEF Labels, CharLabels
  <2>3. /\ Indexed(target') /\ target'[cpu].a = 0
        /\ \A t \in Terminals \ {cpu} : target'[t] = target[t]
    BY <1>7, PlaceSet, Zenon DEF go_to_place
  <2>4. Moves("move", now, 0)
    BY <1>6, <1>7, <2>3, Zenon DEF Moves, goto
  <2> QED
    BY <1>1, <1>3, <2>1, <2>2, <2>4, GoesOn, Zenon
<1>8. CASE /\ now.y < NUM_ROWS /\ is_newline /\ finish /\ UNCHANGED target
  <2>1. rest("scroll", now, c, b) = now
    <3>1. scroll(now) = now
      BY <1>3, <1>8, SizeFacts DEF scroll
    <3>2. c = Newline
      BY <1>8, Zenon DEF is_newline
    <3>3. rest("scroll", now, c, b) = ended(scroll(now), c)
      BY DEF rest
    <3> QED
      BY <3>1, <3>2, <3>3, Zenon DEF ended
  <2>2. Indexed(target') /\ \A t \in Terminals \ {cpu} : target'[t] = target[t]
    BY <1>8, PlaceSet, Zenon
  <2> QED
    BY <1>1, <1>6, <1>8, <2>1, <2>2, Ends, Zenon
<1>9. CASE /\ now.y < NUM_ROWS /\ ~is_newline /\ goto("x_mod")
           /\ UNCHANGED <<out, target, roll>>
  <2>1. rest("x_mod", now, c, b) = rest("scroll", now, c, b)
    <3>1. ~(now.y >= NUM_ROWS)
      BY <1>3, <1>9, SizeFacts
    <3> QED
      BY <1>3, <3>1, RestFromScroll, Zenon
  <2>2. /\ "x_mod" \in Labels \ {"user"} /\ "x_mod" \notin {"move", "blank"}
        /\ "x_mod" # "x_zero" /\ "x_mod" # "y_mod" /\ "x_mod" # "store"
    BY DEF Labels, CharLabels
  <2>3. c # Newline
    BY <1>9, Zenon DEF is_newline
  <2>4. /\ Indexed(target') /\ target'[cpu].a = b
        /\ \A t \in Terminals \ {cpu} : target'[t] = target[t]
    BY <1>9, PlaceSet, Zenon
  <2>5. Moves("x_mod", now, b)
    BY <1>6, <1>9, <2>4, Zenon DEF Moves, goto
  <2> QED
    BY <1>1, <1>3, <2>1, <2>2, <2>3, <2>5, GoesOn, Zenon
<1> QED
  BY <1>2, <1>7, <1>8, <1>9, Zenon DEF scroll_test

(* Nothing written is the screen written again.                            *)
LEMMA SameScreen ==
  ASSUME Settled, UNCHANGED <<page_vars, pos_vars>>
  PROVE  set_screen(right_page(cpu, cur_terminal), now)
<1>1. /\ Types /\ cpu \in Terminals
      /\ screen_x \in [Terminals -> Int] /\ screen_y \in [Terminals -> Int]
  BY Zenon DEF Settled, Types
<1>2. /\ idx(right_page(cpu, cur_terminal)) = cpu
      /\ now.x = screen_x[cpu] /\ now.y = screen_y[cpu]
  BY <1>1, PageNames, Zenon DEF now
<1>3. set_page(right_page(cpu, cur_terminal), now.mem)
  BY SamePage, Zenon
<1>4. /\ screen_x' = [screen_x EXCEPT ![cpu] = screen_x[cpu]]
      /\ screen_y' = [screen_y EXCEPT ![cpu] = screen_y[cpu]]
  BY <1>1 DEF pos_vars
<1> QED
  BY <1>2, <1>3, <1>4, Zenon DEF set_screen

(* memmove's loop.                                                         *)
LEMMA MoveStep ==
  ASSUME Settled, scroll_move, ~disturbed'
  PROVE  Settled'
<1> DEFINE c == out[cpu]
           a == target[cpu].a
           p == seen[cpu]
           m == [now.mem EXCEPT ![a] = now.mem[a + NUM_COLS]]
           s == page_at(m, now.x, now.y)
<1>1. /\ at("move") /\ "move" # "user" /\ "move" \in {"move", "blank"}
      /\ UNCHANGED <<cur_terminal, video_mem, cpu, launched, pos_vars, out, roll>>
  BY DEF scroll_move, looked
<1>2. /\ now \in Screens /\ now.mem \in Pages /\ now.x \in Int /\ now.y \in Int
      /\ a \in Nat
  BY <1>1, InPutc, Zenon
<1>3. pc \in [Terminals -> Labels] /\ cpu \in Terminals /\ pc[cpu] = "move"
  BY <1>1, Zenon DEF Settled, Types, at
<1>4. CASE /\ a + NUM_COLS \in Addresses
           /\ putc_writes(p, a, Page(p)[a + NUM_COLS])
           /\ go_to_place(a + 1)
           /\ UNCHANGED pc
  <2>1. now.mem = Page(p)
    BY <1>1, <1>4, PageWritten, Zenon
  <2>2. now.mem[a + NUM_COLS] \in Glyphs
    BY <1>2, <1>4 DEF Pages
  <2>3. /\ m \in Pages
        /\ set_screen(right_page(cpu, cur_terminal), s)
    BY <1>1, <1>4, <2>1, <2>2, PageWritten, Zenon
  <2>4. rest("move", s, c, a + 1) = rest("move", now, c, a)
    BY <1>2, <1>4, RestFromMove, Zenon
  <2> HIDE DEF m
  <2>5. s \in Screens
    BY <1>2, <2>3, ScreenIn, Zenon
  <2> HIDE DEF s
  <2>6. /\ Indexed(target') /\ target'[cpu].a = a + 1
        /\ \A t \in Terminals \ {cpu} : target'[t] = target[t]
    BY <1>4, PlaceSet, Zenon DEF go_to_place
  <2>7. pc' = [pc EXCEPT ![cpu] = "move"]
    BY <1>3, <1>4
  <2>8. Moves("move", s, a + 1)
    BY <1>1, <2>3, <2>6, <2>7, Zenon DEF Moves
  <2>9. /\ "move" \in Labels \ {"user"} /\ "move" \notin CharLabels
        /\ a + 1 \in Nat
        /\ "move" # "x_zero" /\ "move" # "y_mod" /\ "move" # "store"
    BY <1>2 DEF Labels, CharLabels
  <2> QED
    BY <1>1, <2>4, <2>5, <2>8, <2>9, GoesOn, Zenon
<1>5. CASE /\ a + NUM_COLS \notin Addresses
           /\ target' = [target EXCEPT ![cpu] = NoTarget]
           /\ goto("y_dec")
           /\ UNCHANGED page_vars
  <2>1. rest("y_dec", now, c, 0) = rest("move", now, c, a)
    BY <1>2, <1>5, RestFromMoved, Zenon
  <2>2. /\ Indexed(target') /\ target'[cpu].a = 0
        /\ \A t \in Terminals \ {cpu} : target'[t] = target[t]
    BY <1>5, PlaceSet, Zenon DEF NoTarget
  <2>3. set_screen(right_page(cpu, cur_terminal), now)
    BY <1>1, <1>5, SameScreen, Zenon
  <2>4. Moves("y_dec", now, 0)
    BY <1>1, <1>5, <2>2, <2>3, Zenon DEF Moves, goto
  <2>5. /\ "y_dec" \in Labels \ {"user"} /\ "y_dec" \notin CharLabels
        /\ "y_dec" \notin {"move", "blank"}
        /\ "y_dec" # "x_zero" /\ "y_dec" # "y_mod" /\ "y_dec" # "store"
    BY DEF Labels, CharLabels
  <2> QED
    BY <1>1, <1>2, <2>1, <2>4, <2>5, GoesOn, Zenon
<1> QED
  BY <1>4, <1>5, Zenon DEF scroll_move

(* The cursor goes back to the last row.                                   *)
LEMMA BackStep ==
  ASSUME Settled, scroll_y_dec, ~disturbed'
  PROVE  Settled'
<1> DEFINE c == out[cpu]
           b == target[cpu].a
           e == (NUM_ROWS - 1) * NUM_COLS
           s == page_at(now.mem, now.x, now.y - 1)
<1>1. at("y_dec") /\ "y_dec" # "user" /\ uses_cursor
  BY DEF scroll_y_dec, looked, sets_cursor
<1>2. x_now = now.x /\ y_now = now.y
  BY <1>1, OwnCursor, Zenon
<1>3. /\ sets_cursor(now.x, now.y - 1) /\ goto("blank") /\ go_to_place(e)
      /\ UNCHANGED <<out, roll>>
  BY <1>2, Zenon DEF scroll_y_dec
<1>4. now.mem \in Pages /\ now.x \in Int /\ now.y \in Int
  BY <1>1, InPutc, Zenon
<1>5. now.y - 1 \in Int /\ e \in Nat
  BY <1>4, SizeFacts
<1>6. s \in Screens
  BY <1>4, <1>5, ScreenIn, Zenon
<1>7. rest("blank", s, c, e) = rest("y_dec", now, c, b)
  BY <1>4, RestFromYDec, Zenon
<1> HIDE DEF e
<1>8. /\ Indexed(target') /\ target'[cpu].a = e
      /\ \A t \in Terminals \ {cpu} : target'[t] = target[t]
  BY <1>3, PlaceSet, Zenon DEF go_to_place
<1>9. /\ set_screen(right_page(cpu, cur_terminal), s)
      /\ UNCHANGED <<cur_terminal, video_mem, cpu, launched>>
  BY <1>3, CursorSet, Zenon
<1> HIDE DEF s
<1>10. Moves("blank", s, e)
  BY <1>3, <1>8, <1>9, Zenon DEF Moves, goto
<1>11. /\ "blank" \in Labels \ {"user"} /\ "blank" \notin CharLabels
       /\ "blank" # "x_zero" /\ "blank" # "y_mod" /\ "blank" # "store"
  BY DEF Labels, CharLabels
<1> QED
  BY <1>1, <1>5, <1>6, <1>7, <1>10, <1>11, GoesOn, Zenon

(* The loop over the last row.                                             *)
LEMMA BlankStep ==
  ASSUME Settled, scroll_blank, ~disturbed'
  PROVE  Settled'
<1> DEFINE c == out[cpu]
           a == target[cpu].a
           m == [now.mem EXCEPT ![a] = Space]
           s == page_at(m, now.x, now.y)
<1>1. /\ at("blank") /\ "blank" # "user" /\ "blank" \in {"move", "blank"}
      /\ UNCHANGED <<cur_terminal, video_mem, cpu, launched, pos_vars>>
  BY DEF scroll_blank, looked
<1>2. /\ now \in Screens /\ now.mem \in Pages /\ now.x \in Int /\ now.y \in Int
      /\ a \in Nat
  BY <1>1, InPutc, Zenon
<1>3. pc \in [Terminals -> Labels] /\ cpu \in Terminals /\ pc[cpu] = "blank"
  BY <1>1, Zenon DEF Settled, Types, at
<1>4. CASE /\ putc_writes(seen[cpu], a, Space)
           /\ go_to_place(a + 1)
           /\ UNCHANGED <<pc, out, roll>>
  <2>1. Space \in Glyphs
    BY DEF Space, Glyphs
  <2>2. /\ a \in Addresses /\ m \in Pages
        /\ set_screen(right_page(cpu, cur_terminal), s)
    BY <1>1, <1>4, <2>1, PageWritten, Zenon
  <2>3. rest("blank", s, c, a + 1) = rest("blank", now, c, a)
    BY <1>2, <2>2, RestFromBlank, Zenon
  <2> HIDE DEF m
  <2>4. s \in Screens
    BY <1>2, <2>2, ScreenIn, Zenon
  <2> HIDE DEF s
  <2>5. /\ Indexed(target') /\ target'[cpu].a = a + 1
        /\ \A t \in Terminals \ {cpu} : target'[t] = target[t]
    BY <1>4, PlaceSet, Zenon DEF go_to_place
  <2>6. pc' = [pc EXCEPT ![cpu] = "blank"]
    BY <1>3, <1>4
  <2>7. Moves("blank", s, a + 1)
    BY <1>1, <1>4, <2>2, <2>5, <2>6, Zenon DEF Moves
  <2>8. /\ "blank" \in Labels \ {"user"} /\ "blank" \notin CharLabels
        /\ a + 1 \in Nat
        /\ "blank" # "x_zero" /\ "blank" # "y_mod" /\ "blank" # "store"
    BY <1>2 DEF Labels, CharLabels
  <2> QED
    BY <1>1, <2>3, <2>4, <2>7, <2>8, GoesOn, Zenon
<1>5. CASE /\ a \notin Addresses
           /\ target' = [target EXCEPT ![cpu] = NoTarget]
           /\ \/ is_newline /\ finish
              \/ ~is_newline /\ goto("x_mod") /\ UNCHANGED <<out, roll>>
           /\ UNCHANGED page_vars
  <2>1. rest("blank", now, c, a) = ended(now, c)
    <3>1. now = page_at(now.mem, now.x, now.y)
      BY <1>2, MadeOf, Zenon
    <3>2. rest("blank", now, c, a) = ended(page_at(now.mem, now.x, now.y), c)
      BY <1>2, <1>5, RestFromBlank
    <3> QED
      BY <3>1, <3>2, Zenon
  <2>2. /\ Indexed(target') /\ target'[cpu].a = 0
        /\ \A t \in Terminals \ {cpu} : target'[t] = target[t]
    BY <1>5, PlaceSet, Zenon DEF NoTarget
  <2>3. set_screen(right_page(cpu, cur_terminal), now)
    BY <1>1, <1>5, SameScreen, Zenon
  <2>4. CASE is_newline /\ finish
    <3>1. rest("blank", now, c, a) = now
      BY <2>1, <2>4, Zenon DEF ended, is_newline
    <3> QED
      BY <1>1, <2>2, <2>3, <2>4, <3>1, Ends, Zenon
  <2>5. CASE ~is_newline /\ goto("x_mod") /\ UNCHANGED <<out, roll>>
    <3>1. rest("x_mod", now, c, 0) = rest("blank", now, c, a)
      BY <2>1 DEF rest
    <3>2. Moves("x_mod", now, 0)
      BY <1>1, <2>2, <2>3, <2>5, Zenon DEF Moves, goto
    <3>3. c # Newline
      BY <2>5, Zenon DEF is_newline
    <3>4. /\ "x_mod" \in Labels \ {"user"} /\ "x_mod" \notin {"move", "blank"}
          /\ "x_mod" # "x_zero" /\ "x_mod" # "y_mod" /\ "x_mod" # "store"
      BY DEF Labels, CharLabels
    <3> QED
      BY <1>1, <1>2, <3>1, <3>2, <3>3, <3>4, GoesOn, Zenon
  <2> QED
    BY <1>5, <2>4, <2>5, Zenon
<1> QED
  BY <1>4, <1>5, Zenon DEF scroll_blank

(* The cursor brought back into range.                                     *)
LEMMA ModSteps ==
  ASSUME Settled, putc_x_mod \/ putc_y_mod, ~disturbed'
  PROVE  Settled'
<1> DEFINE c == out[cpu]
           b == target[cpu].a
<1>0. uses_cursor
  BY Zenon DEF putc_x_mod, putc_y_mod, putc_moves, sets_cursor
<1>a. x_now = now.x /\ y_now = now.y
  BY <1>0, OwnCursor, Zenon
<1>1. CASE putc_x_mod
  <2> DEFINE s == page_at(now.mem, now.x % NUM_COLS, now.y)
  <2>1. /\ at("x_mod") /\ goto("y_mod")
        /\ putc_moves(now.x % NUM_COLS, now.y)
    BY <1>a, <1>1, Zenon DEF putc_x_mod, looked
  <2>2. /\ now.mem \in Pages /\ now.x \in Int /\ now.y \in Int
        /\ "x_mod" \in CharLabels => c # Newline
    BY <2>1, InPutc, Zenon
  <2>3. /\ c # Newline /\ "x_mod" # "user"
        /\ "y_mod" \in Labels \ {"user"} /\ "y_mod" # "x_zero"
        /\ "y_mod" # "store" /\ "y_mod" \notin {"move", "blank"}
    BY <2>2 DEF Labels, CharLabels
  <2>4. now.x % NUM_COLS \in 0 .. NUM_COLS - 1
    BY <2>2, SizeFacts
  <2>5. s \in Screens /\ s.x = now.x % NUM_COLS
    BY <2>2, <2>4, ScreenOf, SizeFacts
  <2>6. rest("y_mod", s, c, b) = rest("x_mod", now, c, b)
    BY <2>3, RestFromXMod, Zenon
  <2>7. s.x \in 0 .. NUM_COLS - 1
    BY <2>4, <2>5, Zenon
  <2>8. Moves("y_mod", s, b)
    BY <2>1, Moved, Zenon
  <2> HIDE DEF s
  <2> QED
    BY <2>1, <2>3, <2>5, <2>6, <2>7, <2>8, GoesOn, Zenon
<1>2. CASE putc_y_mod
  <2> DEFINE y2 == rem(now.y + now.x \div NUM_COLS, NUM_ROWS)
             s == page_at(now.mem, now.x, y2)
  <2>1. /\ at("y_mod") /\ finish /\ sets_cursor(now.x, y2)
        /\ UNCHANGED target
    BY <1>a, <1>2, Zenon DEF putc_y_mod, looked
  <2>2. now.x \in 0 .. NUM_COLS - 1 /\ now.y \in Int
    BY <2>1, InPutc
  <2>3. now.x \div NUM_COLS = 0
    <3>1. now.x = 0 * NUM_COLS + now.x
      BY <2>2, SizeFacts
    <3> QED
      BY <2>2, <3>1, RowOf
  <2>4. now.y + now.x \div NUM_COLS = now.y
    BY <2>2, <2>3
  <2>5. s = page_at(now.mem, now.x, rem(now.y, NUM_ROWS))
    BY <2>4, Zenon
  <2>6. s = rest("y_mod", now, c, b)
    BY <2>5 DEF rest
  <2>7. /\ set_screen(right_page(cpu, cur_terminal), s)
        /\ UNCHANGED <<cur_terminal, video_mem, cpu, launched>>
    BY <2>1, CursorSet, Zenon
  <2>8. Indexed(target') /\ \A t \in Terminals \ {cpu} : target'[t] = target[t]
    BY <2>1, PlaceSet, Zenon
  <2>9. "y_mod" # "user"
    OBVIOUS
  <2> HIDE DEF s
  <2> QED
    BY <2>1, <2>6, <2>7, <2>8, <2>9, Ends, Zenon
<1> QED
  BY <1>1, <1>2

(* The address and the store, when the page is still the right one.        *)
LEMMA StoreSteps ==
  ASSUME Settled, putc_address \/ putc_store, ~disturbed'
  PROVE  Settled'
<1> DEFINE c == out[cpu]
           b == target[cpu].a
           a == address(now)
<1>1. CASE putc_address
  <2>1. /\ at("address") /\ "address" # "user" /\ uses_cursor
        /\ goto("store")
        /\ UNCHANGED <<cur_terminal, video_mem, cpu, launched, page_vars,
                       pos_vars, out, roll>>
    BY <1>1 DEF putc_address, looked
  <2>2. now \in Screens /\ ("address" \in CharLabels => c # Newline)
    BY <2>1, InPutc, Zenon
  <2>3. target' = [target EXCEPT ![cpu] = [page |-> seen[cpu], a |-> a]]
    <3>1. x_now = now.x /\ y_now = now.y
      BY <2>1, OwnCursor, Zenon
    <3> QED
      BY <1>1, <3>1, Zenon DEF putc_address, address
  <2> HIDE DEF a
  <2>4. /\ Indexed(target') /\ target'[cpu].a = a
        /\ \A t \in Terminals \ {cpu} : target'[t] = target[t]
    BY <2>3, PlaceSet, Zenon
  <2>5. set_screen(right_page(cpu, cur_terminal), now)
    BY <2>1, SameScreen, Zenon
  <2>6. Moves("store", now, a)
    BY <2>1, <2>4, <2>5, Zenon DEF Moves, goto
  <2>7. rest("store", now, c, a) = rest("address", now, c, b)
    BY DEF rest
  <2>8. /\ c # Newline /\ "store" \in Labels \ {"user"}
        /\ "store" # "x_zero" /\ "store" # "y_mod"
        /\ "store" \notin {"move", "blank"}
    BY <2>2 DEF Labels, CharLabels
  <2>9. a = address(now)
    BY DEF a
  <2> QED
    BY <2>1, <2>2, <2>6, <2>7, <2>8, <2>9, GoesOn, Zenon
<1>2. CASE putc_store
  <2> DEFINE m == [now.mem EXCEPT ![a] = c]
             s == page_at(m, now.x, now.y)
  <2>1. /\ at("store") /\ "store" # "user"
        /\ putc_writes(target[cpu].page, b, c)
        /\ target' = [target EXCEPT ![cpu] = NoTarget]
        /\ goto("x_inc")
        /\ UNCHANGED <<cur_terminal, video_mem, cpu, launched, pos_vars, out, roll>>
    BY <1>2 DEF putc_store
  <2>2. /\ now.x \in Int /\ now.y \in Int
        /\ "store" \in CharLabels => c # Newline
        /\ b = a
    BY <2>1, InPutc, Zenon
  <2>3. c \in Glyphs
    <3>1. out \in [Terminals -> Glyphs] /\ cpu \in Terminals
      BY Zenon DEF Settled, Types
    <3> QED
      BY <3>1
  <2>4. /\ a \in Addresses /\ m \in Pages
        /\ set_screen(right_page(cpu, cur_terminal), s)
    BY <2>1, <2>2, <2>3, PageWritten, Zenon
  <2>5. c # Newline
    BY <2>2 DEF CharLabels
  <2>6. rest("x_inc", s, c, 0) = rest("store", now, c, b)
    BY <2>4, <2>5, RestFromStore, Zenon
  <2> HIDE DEF m
  <2>7. s \in Screens
    BY <2>2, <2>4, ScreenIn, Zenon
  <2> HIDE DEF s
  <2>8. /\ Indexed(target') /\ target'[cpu].a = 0
        /\ \A t \in Terminals \ {cpu} : target'[t] = target[t]
    BY <2>1, PlaceSet, Zenon DEF NoTarget
  <2>9. Moves("x_inc", s, 0)
    BY <2>1, <2>4, <2>8, Zenon DEF Moves, goto
  <2>10. /\ "x_inc" \in Labels \ {"user"} /\ "x_inc" \notin {"move", "blank"}
         /\ "x_inc" # "x_zero" /\ "x_inc" # "y_mod" /\ "x_inc" # "store"
    BY DEF Labels, CharLabels
  <2> QED
    BY <2>1, <2>5, <2>6, <2>7, <2>9, <2>10, GoesOn, Zenon
<1> QED
  BY <1>1, <1>2

(* A program gives its terminal a character.                               *)
LEMMA WriteStep ==
  ASSUME Settled, terminal_write
  PROVE  Settled'
<1>0. /\ Types /\ cpu \in Terminals /\ cpu \in launched /\ WillShow(cpu)
      /\ video_mem = right_page(cpu, cur_terminal)
      /\ pc \in [Terminals -> Labels] /\ out \in [Terminals -> Glyphs]
      /\ roll \in [Terminals -> Rolls]
  BY Zenon DEF Settled, Types
<1> DEFINE next(c) == IF c = Newline THEN "y_inc" ELSE "address"
<1>1. PICK c \in {glyph(cpu), Newline} :
        /\ out' = [out EXCEPT ![cpu] = c]
        /\ pc' = [pc EXCEPT ![cpu] = next(c)]
  BY Zenon DEF terminal_write, goto
<1>2. /\ pc[cpu] = "user"
      /\ UNCHANGED <<cur_terminal, video_mem, cpu, launched, visible, hidden,
                     screen_x, screen_y, target, roll>>
  BY DEF terminal_write, at, page_vars, pos_vars, history_vars
<1>3. Shows(own(cpu), roll[cpu], cpu)
  BY <1>0, <1>2, Zenon DEF WillShow
<1>4. Shows(putc(own(cpu), c), fed(roll[cpu], c), cpu)
  BY <1>0, <1>3, GlyphShows, NewlineShows, Zenon DEF glyph
<1>5. rest(next(c), own(cpu), c, target[cpu].a) = putc(own(cpu), c)
  BY DEF rest, putc
<1>6. /\ next(c) \in Labels /\ next(c) # "user" /\ next(c) # "x_zero"
      /\ next(c) # "store" /\ next(c) # "y_mod"
      /\ next(c) \notin {"move", "blank"}
      /\ next(c) \in CharLabels => c # Newline
  BY DEF Labels, CharLabels
<1> HIDE DEF next
<1>7. c \in Glyphs
  <2>1. cpu \in Int /\ roll[cpu].pos \in Int
    <3>1. roll[cpu] \in Rolls
      BY <1>0
    <3> QED
      BY <1>0, <3>1, SizeFacts DEF Rolls
  <2> QED
    BY <1>1, <2>1 DEF glyph, Newline, Glyphs
<1>8. /\ pc' \in [Terminals -> Labels] /\ pc'[cpu] = next(c)
      /\ \A t \in Terminals \ {cpu} : pc'[t] = pc[t]
  BY <1>0, <1>1, <1>6
<1>9. /\ out' \in [Terminals -> Glyphs] /\ out'[cpu] = c
      /\ \A t \in Terminals \ {cpu} : out'[t] = out[t]
  BY <1>0, <1>1, <1>7
<1>10. \A t \in Terminals : own(t)' = own(t)
  BY <1>2, Zenon DEF own, Page
<1>11. Types'
  BY <1>0, <1>2, <1>8, <1>9, Zenon DEF Types
<1>12. WillShow(cpu)'
  <2>1. /\ own(cpu)' = own(cpu) /\ pc[cpu]' = next(c) /\ out[cpu]' = c
        /\ target[cpu]' = target[cpu]
    BY <1>0, <1>2, <1>8, <1>9, <1>10, Zenon
  <2>2. Shows(rest(next(c), own(cpu), c, target[cpu].a), fed(roll[cpu]', c), cpu')
    BY <1>2, <1>4, <1>5, Zenon
  <2> QED
    BY <1>6, <2>1, <2>2, Zenon DEF WillShow
<1>13. \A t \in Terminals \ {cpu} : Keeps(t)
  BY <1>2, <1>8, <1>9, <1>10, Zenon DEF Keeps, KeepsRest
<1> QED
  BY <1>0, <1>2, <1>11, <1>12, <1>13, OneTerminal, Zenon

(* A step that leaves every terminal as it is.                             *)
LEMMA SameTerminals ==
  ASSUME Settled, cpu' \in launched,
         video_mem' = right_page(cpu', cur_terminal),
         UNCHANGED <<cur_terminal, launched, page_vars, pos_vars, pc, out, target, roll>>
  PROVE  Settled'
<1>1. UNCHANGED <<visible, hidden, screen_x, screen_y, pc, out, target>>
  BY DEF page_vars, pos_vars
<1>2. Types'
  BY <1>1, Zenon DEF Settled, Types
<1>3. \A t \in Terminals : Keeps(t)
  BY <1>1, Zenon DEF Keeps, KeepsRest, own, Page
<1>4. cpu' \in Terminals /\ WillShow(cpu')
  BY Zenon DEF Settled, Types
<1>5. \A t \in Terminals \ launched : Fresh(t)'
  BY <1>3, KeepsShowing, Zenon DEF Settled
<1>6. launched \subseteq Terminals
  BY Zenon DEF Settled, Types
<1>7. \A t \in launched : WillShow(t)'
  BY <1>3, <1>6, KeepsShowing, Zenon DEF Settled
<1> QED
  BY <1>2, <1>5, <1>7, Zenon DEF Settled

(* A base shell ends and starts again.                                     *)
LEMMA HaltStep ==
  ASSUME Settled, halt
  PROVE  Settled'
<1>0. /\ Types /\ cpu \in Terminals /\ cpu \in launched /\ WillShow(cpu)
      /\ video_mem = right_page(cpu, cur_terminal)
      /\ pc \in [Terminals -> Labels] /\ out \in [Terminals -> Glyphs]
      /\ Indexed(target)
  BY Zenon DEF Settled, Types
<1>1. get_screen_xy_idx = cpu /\ screen(video_mem) = now
  BY <1>0, PageNames, Zenon DEF get_screen_xy_idx, now
<1>2. /\ pc[cpu] = "user"
      /\ set_screen(right_page(cpu, cur_terminal), notice(now, cpu, roll[cpu].pos))
      /\ roll' = [roll EXCEPT ![cpu] = notice_fed(roll[cpu], cpu)]
      /\ UNCHANGED <<cur_terminal, video_mem, cpu, launched, pc, out, target>>
  BY <1>0, <1>1 DEF halt, at, putc_vars
<1>3. Shows(notice(now, cpu, roll[cpu].pos), notice_fed(roll[cpu], cpu), cpu)
  BY <1>0, <1>2, NoticeShows, Zenon DEF WillShow, now
<1> QED
  BY <1>0, <1>2, <1>3, ShowsNow, Zenon

(* The process that has the CPU is ended by a CTRL-C.                      *)
LEMMA KilledStep ==
  ASSUME Settled, NEW base, killed(right_page(cpu, cur_terminal), base),
         video_mem' = right_page(cpu, cur_terminal),
         UNCHANGED <<cur_terminal, cpu, launched>>
  PROVE  Settled'
<1> DEFINE t == cpu
           s == cleared(<<t, 0>>)
           r == fed(EmptyRoll, <<t, 0>>)
           s2 == IF base THEN notice(s, t, 1) ELSE s
           r2 == IF base THEN notice_fed(r, t) ELSE r
<1>0. /\ Types /\ cpu \in Terminals /\ cpu \in launched
      /\ pc \in [Terminals -> Labels] /\ out \in [Terminals -> Glyphs]
      /\ Indexed(target)
  BY Zenon DEF Settled, Types
<1>1. idx(right_page(cpu, cur_terminal)) = cpu
  BY <1>0, PageNames, Zenon
<1>2. /\ set_screen(right_page(cpu, cur_terminal), s2)
      /\ pc' = [pc EXCEPT ![cpu] = "user"]
      /\ out' = [out EXCEPT ![cpu] = Space]
      /\ target' = [target EXCEPT ![cpu] = NoTarget]
      /\ roll' = [roll EXCEPT ![cpu] = r2]
  BY <1>1, Zenon DEF killed
<1>3. Shows(s2, r2, cpu)
  <2>1. Shows(s, r, cpu) /\ r.pos = 1
    BY <1>0, ClearedShows, Zenon
  <2> HIDE DEF s, r
  <2>2. Shows(notice(s, cpu, 1), notice_fed(r, cpu), cpu)
    BY <1>0, <2>1, NoticeShows, Zenon
  <2> QED
    BY <2>1, <2>2, Zenon
<1> HIDE DEF s, r, s2, r2
<1>4. "user" \in Labels /\ Space \in Glyphs
  BY DEF Labels, Space, Glyphs
<1>5. /\ pc' \in [Terminals -> Labels] /\ pc'[cpu] = "user"
      /\ \A u \in Terminals \ {cpu} : pc'[u] = pc[u]
  BY <1>0, <1>2, <1>4
<1>6. /\ out' \in [Terminals -> Glyphs]
      /\ \A u \in Terminals \ {cpu} : out'[u] = out[u]
  BY <1>0, <1>2, <1>4
<1>7. /\ Indexed(target')
      /\ \A u \in Terminals \ {cpu} : target'[u] = target[u]
  BY <1>2, PlaceSet, Zenon DEF NoTarget
<1>8. \A u \in Terminals \ {cpu} :
        pc'[u] = pc[u] /\ out'[u] = out[u] /\ target'[u] = target[u]
  BY <1>5, <1>6, <1>7, Zenon
<1> QED
  BY <1>0, <1>2, <1>3, <1>5, <1>6, <1>7, <1>8, ShowsNow, Zenon

(* A key that shows s and makes r of the text of the terminal shown.       *)
LEMMA KeyStep ==
  ASSUME Settled, NEW s, NEW r, NEW stray, key_shows(s), key_feeds(r, stray),
         ~disturbed', pc[cur_terminal] = "user" => Shows(s, r, cur_terminal)
  PROVE  Settled'
<1>0. /\ cur_terminal \in launched
      /\ pc \in [Terminals -> Labels] /\ out \in [Terminals -> Glyphs]
      /\ Indexed(target)
  BY Zenon DEF Settled, Types
<1>1. /\ set_screen(right_page(cur_terminal, cur_terminal), s)
      /\ video_mem' = right_page(cpu, cur_terminal)
      /\ UNCHANGED <<cur_terminal, cpu, launched, pc, out, target>>
  BY DEF key_shows, putc_vars, right_page
<1>2. /\ roll' = [roll EXCEPT ![cur_terminal] = r]
      /\ pc[cur_terminal] = "user"
  BY Zenon DEF key_feeds
<1> QED
  BY <1>0, <1>1, <1>2, ShowsNow, Zenon

(* The keys that write to the page shown.                                  *)
LEMMA KeySteps ==
  ASSUME Settled, ~disturbed',
         do_reg \/ do_spec_enter \/ do_spec_backspace \/ key_clears
  PROVE  Settled'
<1> DEFINE t == cur_terminal
<1>0. Types /\ t \in Terminals /\ WillShow(t)
  BY Zenon DEF Settled, Types
<1>1. shown = own(t)
  <2>1. right_page(t, t) = ACTIVE_CONTEXT
    BY Zenon DEF right_page
  <2> QED
    BY <1>0, <2>1, PageNames, Zenon DEF shown
<1>2. pc[t] = "user" => Shows(shown, roll[t], t)
  BY <1>0, <1>1, Zenon DEF WillShow
<1>3. CASE do_reg
  <2>1. /\ key_shows(putc(shown, glyph(t)))
        /\ key_feeds(fed(roll[t], glyph(t)), off_page(shown))
    BY <1>3, Zenon DEF do_reg
  <2>2. pc[t] = "user" => Shows(putc(shown, glyph(t)), fed(roll[t], glyph(t)), t)
    BY <1>0, <1>2, GlyphShows, Zenon DEF glyph
  <2> QED
    BY <2>1, <2>2, KeyStep, Zenon
<1>4. CASE do_spec_enter
  <2>1. /\ key_shows(putc(shown, Newline))
        /\ key_feeds(fed(roll[t], Newline), FALSE)
    BY <1>4, Zenon DEF do_spec_enter
  <2>2. pc[t] = "user" => Shows(putc(shown, Newline), fed(roll[t], Newline), t)
    BY <1>2, NewlineShows, Zenon
  <2> QED
    BY <2>1, <2>2, KeyStep, Zenon
<1>5. CASE do_spec_backspace
  <2>1. /\ key_shows(backspaced(shown))
        /\ key_feeds(rubbed(roll[t]), off_page(before(shown)))
    BY <1>5, Zenon DEF do_spec_backspace
  <2>2. ~off_page(before(shown))
    BY <2>1, Zenon DEF key_feeds
  <2>3. pc[t] = "user" => Shows(backspaced(shown), rubbed(roll[t]), t)
    BY <1>0, <1>2, <2>2, BackspaceShows, Zenon
  <2> QED
    BY <2>1, <2>3, KeyStep, Zenon
<1>6. CASE key_clears
  <2>1. /\ key_shows(cleared(<<t, 0>>))
        /\ key_feeds(fed(EmptyRoll, <<t, 0>>), FALSE)
    BY <1>6, Zenon DEF key_clears
  <2>2. Shows(cleared(<<t, 0>>), fed(EmptyRoll, <<t, 0>>), t)
    BY <1>0, ClearedShows, Zenon
  <2> QED
    BY <2>1, <2>2, KeyStep, Zenon
<1> QED
  BY <1>3, <1>4, <1>5, <1>6, Zenon

(* ALT-Fn: the pages change places and every terminal keeps its own.       *)
LEMMA SwitchStep ==
  ASSUME Settled, NEW t \in Terminals, terminal_switch(t)
  PROVE  Settled'
<1> DEFINE old == cur_terminal
<1>0. /\ launched \subseteq Terminals /\ old \in launched /\ cpu \in launched
      /\ visible \in Pages /\ hidden \in [Terminals -> Pages]
      /\ ACTIVE_CONTEXT \notin Terminals
      /\ Types
  BY SizeFacts DEF Settled, Types
<1>1. /\ t # old /\ cur_terminal' = t
      /\ hidden' = [hidden EXCEPT ![old] = visible]
      /\ UNCHANGED <<screen_x, screen_y, pc, out, target, roll>>
  BY DEF terminal_switch, save_video_context, pos_vars, putc_vars, history_vars
<1>2. /\ hidden' \in [Terminals -> Pages] /\ hidden'[old] = visible
      /\ \A u \in Terminals \ {old} : hidden'[u] = hidden[u]
  BY <1>0, <1>1
<1>3. \A u \in Terminals \ {t} :
        Page(right_page(u, cur_terminal))' = Page(right_page(u, cur_terminal))
  <2> SUFFICES ASSUME NEW u \in Terminals \ {t}
               PROVE  Page(right_page(u, cur_terminal))' =
                        Page(right_page(u, cur_terminal))
    OBVIOUS
  <2>1. right_page(u, t) = u /\ u # ACTIVE_CONTEXT
    BY <1>0, Zenon DEF right_page
  <2>2. Page(right_page(u, cur_terminal))' = hidden'[u]
    BY <1>1, <2>1, Zenon DEF Page
  <2>3. Page(right_page(u, old)) = IF u = old THEN visible ELSE hidden[u]
    BY <2>1, Zenon DEF Page, right_page
  <2> QED
    BY <1>2, <2>2, <2>3, Zenon
<1>4. Page(right_page(t, cur_terminal))' = visible'
  BY <1>1, Zenon DEF Page, right_page
<1>5. \A u \in Terminals \ {t} : Keeps(u)
  BY <1>1, <1>3, Zenon DEF Keeps, KeepsRest, own
<1>6. CASE t \in launched
  <2>1. /\ visible' = hidden[t] /\ video_mem' = right_page(cpu, t)
        /\ UNCHANGED <<cpu, launched>>
    BY <1>6, Zenon DEF terminal_switch
  <2>2. Page(right_page(t, cur_terminal))' = Page(right_page(t, cur_terminal))
    <3>1. Page(right_page(t, old)) = hidden[t]
      BY <1>0, <1>1, Zenon DEF Page, right_page
    <3> QED
      BY <1>4, <2>1, <3>1, Zenon
  <2>3. Keeps(t)
    BY <1>1, <2>2, Zenon DEF Keeps, KeepsRest, own
  <2>4. WillShow(t)'
    BY <1>6, <2>3, KeepsShowing, Zenon DEF Settled
  <2>5. Types'
    <3>1. visible' \in Pages
      BY <1>0, <2>1
    <3> QED
      BY <1>0, <1>1, <1>2, <1>6, <2>1, <3>1, Zenon DEF Types
  <2>6. video_mem' = right_page(cpu', cur_terminal')
    BY <1>1, <2>1, Zenon
  <2> QED
    BY <1>5, <1>6, <2>1, <2>4, <2>5, <2>6, OneTerminal, Zenon
<1>7. CASE t \notin launched
  <2>1. /\ visible' = BlankPage /\ video_mem' = ACTIVE_CONTEXT
        /\ cpu' = t /\ launched' = launched \cup {t}
    BY <1>7, Zenon DEF terminal_switch
  <2>2. Types'
    <3>1. BlankPage \in Pages
      BY DEF BlankPage, Pages, Space, Glyphs
    <3> QED
      BY <1>0, <1>1, <1>2, <2>1, <3>1, Zenon DEF Types
  <2>3. /\ screen_x[t] = 0 /\ screen_y[t] = 0 /\ roll[t] = EmptyRoll
        /\ pc[t] = "user"
    BY <1>7, Zenon DEF Settled, Fresh
  <2>4. own(t)' = page_at(BlankPage, 0, 0)
    BY <1>1, <1>4, <2>1, <2>3, Zenon DEF own
  <2>5. WillShow(t)'
    BY <1>1, <2>3, <2>4, BlankShows, Zenon DEF WillShow
  <2>6. \A u \in Terminals \ launched' : Fresh(u)'
    BY <1>5, <2>1, KeepsShowing, Zenon DEF Settled
  <2>7. \A u \in launched' : WillShow(u)'
    <3>1. ASSUME NEW u \in launched PROVE WillShow(u)'
      <4>1. u \in Terminals \ {t} /\ WillShow(u)
        BY <1>0, <1>7, Zenon DEF Settled
      <4> QED
        BY <1>5, <4>1, KeepsShowing, Zenon
    <3> QED
      BY <2>1, <2>5, <3>1, Zenon
  <2>8. video_mem' = right_page(cpu', cur_terminal')
    BY <1>1, <2>1, Zenon DEF right_page
  <2> QED
    BY <2>2, <2>6, <2>7, <2>8, Zenon DEF Settled
<1> QED
  BY <1>6, <1>7, Zenon

(* The keyboard handler.                                                   *)
LEMMA KeyboardStep ==
  ASSUME Settled, ~disturbed', keyboardHandler
  PROVE  Settled'
<1>1. CASE do_reg \/ do_spec_enter \/ do_spec_backspace \/ key_ctrl_l
  BY <1>1, KeySteps, Zenon DEF key_ctrl_l
<1>2. CASE key_ctrl_c
  <2>1. CASE cpu # cur_terminal /\ key_clears
    BY <2>1, KeySteps, Zenon
  <2>2. CASE /\ cpu = cur_terminal
             /\ \E base \in BOOLEAN : killed(ACTIVE_CONTEXT, base)
             /\ video_mem' = ACTIVE_CONTEXT
             /\ UNCHANGED <<cur_terminal, cpu, launched>>
    <3>1. right_page(cpu, cur_terminal) = ACTIVE_CONTEXT
      BY <2>2, Zenon DEF right_page
    <3> QED
      BY <2>2, <3>1, KilledStep, Zenon
  <2> QED
    BY <1>2, <2>1, <2>2, Zenon DEF key_ctrl_c
<1>3. CASE terminal_switch_same
  <2>1. /\ cpu = cur_terminal /\ video_mem' = ACTIVE_CONTEXT
        /\ UNCHANGED <<cur_terminal, cpu, launched, page_vars, pos_vars,
                       pc, out, target, roll>>
    BY <1>3, Zenon DEF terminal_switch_same, putc_vars
  <2>2. cpu' \in launched
    BY <2>1, Zenon DEF Settled, Types
  <2>3. video_mem' = right_page(cpu', cur_terminal)
    BY <2>1, Zenon DEF right_page
  <2> QED
    BY <2>1, <2>2, <2>3, SameTerminals, Zenon
<1> QED
  BY <1>1, <1>2, <1>3, SwitchStep, Zenon DEF keyboardHandler

(* The timer.                                                              *)
LEMMA TimerStep ==
  ASSUME Settled, task_switch_halts \/ task_switch_switches
  PROVE  Settled'
<1>0. video_mem = right_page(cpu, cur_terminal)
  BY Zenon DEF Settled
<1>1. CASE task_switch_halts
  <2>1. /\ \E base \in BOOLEAN : killed(right_page(cpu, cur_terminal), base)
        /\ UNCHANGED <<cur_terminal, video_mem, cpu, launched>>
    BY <1>0, <1>1, Zenon DEF task_switch_halts
  <2>2. video_mem' = right_page(cpu, cur_terminal)
    BY <1>0, <2>1, Zenon
  <2> QED
    BY <2>1, <2>2, KilledStep, Zenon
<1>2. CASE task_switch_switches
  <2>1. /\ cpu' \in launched /\ video_mem' = right_page(cpu', cur_terminal)
        /\ UNCHANGED <<cur_terminal, launched, page_vars, pos_vars, pc, out,
                       target, roll>>
    BY <1>2, Zenon DEF task_switch_switches, putc_vars, history_vars
  <2> QED
    BY <2>1, SameTerminals, Zenon
<1> QED
  BY <1>1, <1>2

(* What the theorem below rests on.                                        *)
THEOREM ScreenInvariant == Spec => []ScreenInv
<1>1. Init => ScreenInv
  <2> SUFFICES ASSUME Init PROVE Settled
    BY DEF ScreenInv
  <2>1. 0 \in Terminals /\ BlankPage \in Pages
    BY SizeFacts DEF BlankPage, Pages, Space, Glyphs
  <2>2. "user" \in Labels /\ Space \in Glyphs
    BY DEF Labels, Space, Glyphs
  <2>3. EmptyRoll \in Rolls
    BY DEF EmptyRoll, Rolls
  <2>4. /\ cur_terminal = 0 /\ cpu = 0 /\ launched = {0}
        /\ video_mem = ACTIVE_CONTEXT /\ visible = BlankPage
    BY DEF Init
  <2>5. /\ screen_x \in [Terminals -> Int] /\ screen_y \in [Terminals -> Int]
        /\ pc \in [Terminals -> Labels] /\ out \in [Terminals -> Glyphs]
        /\ Indexed(target) /\ roll \in [Terminals -> Rolls]
        /\ hidden \in [Terminals -> Pages]
    BY <2>1, <2>2, <2>3 DEF Init, Indexed
  <2>6. \A t \in Terminals : Fresh(t)
    BY DEF Init, Fresh
  <2>7. Types
    BY <2>1, <2>4, <2>5, Zenon DEF Types
  <2>8. video_mem = right_page(cpu, cur_terminal)
    BY <2>4, Zenon DEF right_page
  <2>9. own(0) = page_at(BlankPage, 0, 0)
    BY <2>1, <2>4, <2>6, Zenon DEF own, right_page, Page, Fresh
  <2>10. WillShow(0)
    BY <2>1, <2>6, <2>9, BlankShows, Zenon DEF WillShow, Fresh
  <2> QED
    BY <2>4, <2>6, <2>7, <2>8, <2>10, Zenon DEF Settled
<1>2. ScreenInv /\ [Next]_vars => ScreenInv'
  <2> SUFFICES ASSUME ScreenInv, [Next]_vars, ~disturbed'
               PROVE  Settled'
    BY DEF ScreenInv
  <2>1. ~disturbed
    BY Zenon DEF Next, vars, history_vars, terminal_write, putc_step, putc_looks,
       putc_address, putc_store, putc_writes, putc_x_inc, putc_wrap, putc_y_inc,
       putc_x_zero, putc_moves, sets_cursor, uses_cursor, scroll_test,
       scroll_move, scroll_y_dec, scroll_blank, putc_x_mod, putc_y_mod,
       terminal_read, halt, task_switch_halts, killed,
       task_switch_switches, keyboardHandler, do_reg, key_feeds, do_spec_enter,
       do_spec_backspace, key_clears, key_ctrl_l, key_ctrl_c, terminal_switch,
       terminal_switch_same
  <2>2. Settled
    BY <2>1, Zenon DEF ScreenInv
  <2>3. CASE UNCHANGED vars \/ terminal_read \/ putc_looks
    <3>1. UNCHANGED <<cur_terminal, video_mem, cpu, launched, page_vars, pos_vars,
                      pc, out, target, roll>>
      BY <2>3 DEF vars, terminal_read, putc_looks, putc_vars, history_vars
    <3>2. cpu \in launched /\ video_mem = right_page(cpu, cur_terminal)
      BY <2>2, Zenon DEF Settled, Types
    <3> QED
      BY <2>2, <3>1, <3>2, SameTerminals, Zenon
  <2>4. CASE putc_step
    BY <2>2, <2>3, <2>4, CursorSteps, TestStep, MoveStep, BackStep, BlankStep,
       ModSteps, StoreSteps, Zenon DEF putc_step
  <2> QED
    BY <2>2, <2>3, <2>4, WriteStep, HaltStep, TimerStep, KeyboardStep, Zenon
       DEF Next
<1> QED
  BY <1>1, <1>2, PTL DEF Spec

(* Whenever no putc is under way on a terminal, its page, shown or hidden, *)
(* has every character of the last rows of its text in its place and its   *)
(* cursor where the next one belongs, unless a key has disturbed a putc.   *)
THEOREM ScreensCorrect == Spec => []PageShowsText
<1>1. ScreenInv => PageShowsText
  <2>1. ASSUME Settled, NEW t \in launched, pc[t] = "user"
        PROVE  /\ \A a \in Addresses :
                    Page(right_page(t, cur_terminal))[a] =
                      IF roll[t].top * NUM_COLS + a \in roll[t].written
                        THEN <<t, roll[t].top * NUM_COLS + a>> ELSE Space
               /\ roll[t].pos = (roll[t].top + screen_y[t]) * NUM_COLS + screen_x[t]
    <3>1. Types /\ t \in Terminals /\ Shows(own(t), roll[t], t)
      BY <2>1, Zenon DEF Settled, Types, WillShow
    <3>2. /\ own(t).mem = Page(right_page(t, cur_terminal))
          /\ own(t).x = screen_x[t] /\ own(t).y = screen_y[t]
      BY <3>1, PageNames, Zenon
    <3> QED
      BY <3>1, <3>2, Zenon DEF Shows, PageShows
  <2> QED
    BY <2>1, Zenon DEF ScreenInv, PageShowsText
<1> QED
  BY <1>1, ScreenInvariant, PTL
=============================================================================
