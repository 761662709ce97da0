------------------------------- MODULE Frames -------------------------------
(***************************************************************************)
(* add_frames of the user program fish.c: two text files, read a character *)
(* at a time side by side, become the blinking characters of a picture.    *)
(* f[0] and f[1] are the files, out the structures given to mp1_ioctl, of  *)
(* which module Blink makes a list.                                        *)
(***************************************************************************)
EXTENDS Integers, Sequences

LineFeed == 10
Space == 32
Digit0 == 48

(* A file's next character, or a newline again and again once its line or  *)
(* the file has ended.  Faulty variant: a line's end does not last.        *)
next_char_on(f, p, c) ==
  IF p < Len(f) THEN [c |-> f[p + 1], p |-> p + 1, eof |-> FALSE]
  ELSE [c |-> LineFeed, p |-> p, eof |-> c # LineFeed]

next_char(f, p, c) ==
  CASE c = LineFeed -> [c |-> c, p |-> p, eof |-> FALSE]
    [] c # LineFeed /\ p < Len(f) -> [c |-> f[p + 1], p |-> p + 1, eof |-> FALSE]
    [] OTHER -> [c |-> LineFeed, p |-> p, eof |-> TRUE]

shown(c) == IF c = LineFeed THEN Space ELSE c

(* p and c are the place and the last character in each file, eof the      *)
(* files that have ended.                                                  *)
RECURSIVE cells(_, _, _, _, _, _, _)
cells(f, p, c, eof, row, col, out) ==
  LET n == [i \in 0 .. 1 |-> next_char(f[i], p[i], c[i])]
      place == [i \in 0 .. 1 |-> n[i].p]
      char == [i \in 0 .. 1 |-> n[i].c]
      ended == eof \cup {i \in 0 .. 1 : n[i].eof}
      blank == \A i \in 0 .. 1 : shown(char[i]) = Space
      blink == [on_char |-> shown(char[0]), off_char |-> shown(char[1]),
                location |-> row * 80 + col + 40]
  IN IF \E i \in 0 .. 1 : char[i] # LineFeed
       THEN cells(f, place, char, ended, row, col + 1,
                  IF blank THEN out ELSE Append(out, blink))
     ELSE IF ended = {0, 1} THEN out
     ELSE cells(f, place,
                [i \in 0 .. 1 |-> IF i \in ended THEN LineFeed ELSE Digit0],
                ended, row + 1, 0, out)

add_frames(f) ==
  cells(f, [i \in 0 .. 1 |-> 0], [i \in 0 .. 1 |-> Digit0], {}, 0, 0, <<>>)
=============================================================================
