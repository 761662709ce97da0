-------------------------------- MODULE Grep --------------------------------
(***************************************************************************)
(* do_one_file of the user program ece391grep.c: the lines of a file that  *)
(* contain a string, read through a buffer of BUFSIZE bytes.  data is the  *)
(* buffer with one byte more, out the lines printed.  The string routines  *)
(* of ece391support.c are loops that do what those of lib.c do: Lib's.     *)
(***************************************************************************)
EXTENDS Lib

CONSTANT BUFSIZE

ASSUME GrepAssumption == BUFSIZE \in Nat \ {0}

Newline == 10

(* data + k, as a string.                                                  *)
string_at(data, k) ==
  [i \in 0 .. 2 * BUFSIZE |-> IF k + i <= BUFSIZE THEN data[k + i] ELSE NUL]

(* A line is in data from line_start up to a NUL.                          *)
line_contains(data, line_start, line_end, s) ==
  \E check \in line_start .. line_end - 1 :
    strncmp(string_at(data, check), s, strlen(s, 0)) = 0

(* The line ends at a newline or at the end of what was read.              *)
line_end_of(data, last, line_start) ==
  Min({last} \cup {k \in line_start .. last - 1 : data[k] = Newline})

(* The rest of a line is still to be read; the test looks at the byte      *)
(* behind what was read.  Faulty variant: never for the last bytes.        *)
unfinished_never(data, line_start, line_end, cnt) == FALSE

unfinished(data, line_start, line_end, cnt) ==
  data[line_end] # Newline /\ cnt # 0 /\ line_start # 0

(* The lines of the buffer; a line that is unfinished is moved down.       *)
RECURSIVE lines_of_buffer(_, _, _, _, _, _)
lines_of_buffer(data, last, cnt, line_start, s, out) ==
  LET line_end == line_end_of(data, last, line_start)
      d == [data EXCEPT ![line_end] = NUL]
      printed == IF line_contains(d, line_start, line_end, s)
                   THEN Append(out, text(d, line_start)) ELSE out
  IN CASE unfinished(data, line_start, line_end, cnt) ->
            [data |-> strcpy(d, string_at(d, line_start)), last |-> last - line_start,
             out |-> out]
       [] OTHER ->
            IF line_end + 1 >= last THEN [data |-> d, last |-> 0, out |-> printed]
            ELSE lines_of_buffer(d, last, cnt, line_end + 1, s, printed)

(* From position pos on; a read that needs a byte at bad or behind fails.  *)
RECURSIVE read_loop(_, _, _, _, _, _, _)
read_loop(file, bad, pos, data, last, s, out) ==
  LET cnt == Min({BUFSIZE - last, Len(file) - pos})
      filled_data == [k \in 0 .. BUFSIZE |->
                        IF k \in last .. last + cnt - 1 THEN file[pos + k - last + 1]
                                                       ELSE data[k]]
      lines == lines_of_buffer(filled_data, last + cnt, cnt, 0, s, out)
  IN IF pos + cnt > bad THEN [ret |-> -1, out |-> out]
     ELSE IF cnt = 0 THEN [ret |-> 0, out |-> lines.out]
     ELSE read_loop(file, bad, pos + cnt, lines.data, lines.last, s, lines.out)

do_one_file(s, file, bad, data) == read_loop(file, bad, 0, data, 0, s, <<>>)
=============================================================================
