------------------------------- MODULE Calls --------------------------------
(***************************************************************************)
(* Calls of the routines of modules Lib and Names, and runs of the user    *)
(* programs of modules Syserr, Grep and Frames, with every input from      *)
(* small sets, and what their results must be.  call is the routine called *)
(* and its arguments, result what it computed.                             *)
(***************************************************************************)
EXTENDS Syserr, Grep, Frames, FiniteSets

CONSTANTS
  MemSize,      \* bound: bytes of memory, for the memory routines
  MaxString,    \* bound: characters of a string
  MaxFormat,    \* bound: directives in a format
  MaxCommand,   \* bound: characters of a command
  MaxFile,      \* bound: characters of a file grep searches
  MaxFrame      \* bound: characters of a frame of fish

VARIABLES call, result
vars == <<call, result>>

None == [f |-> "none"]

Init == call = None /\ result = None

-----------------------------------------------------------------------------
(* Inputs.                                                                 *)
Letters == {97, 98}

Strings(chars, n) == UNION {[1 .. k -> chars] : k \in 0 .. n}

(* A string in an array of n bytes, NUL-padded.                            *)
array(str, n) ==
  [k \in 0 .. n - 1 |-> IF k < Len(str) THEN str[k + 1] ELSE NUL]

(* The same with its NUL and then what was in the array before.            *)
stored(str, n, old) ==
  [k \in 0 .. n - 1 |-> IF k <= Len(str) THEN array(str, n)[k] ELSE old]

(* Every byte of memory different, so that any byte moved wrongly shows.   *)
memory == [a \in 0 .. MemSize - 1 |-> 100 + a]
Fits(a, n) == a + n <= MemSize
Addresses == DOMAIN memory

Values == 0 .. 2^WordBits - 1
EdgeValues == {0, 9, 2^(WordBits - 1) - 1, 2^(WordBits - 1), 2^WordBits - 1}

(* A directive: its characters in a format, and its argument if it has one.*)
Directives ==
  {[fmt |-> <<97>>, arg |-> <<>>],
   [fmt |-> <<Percent, Percent>>, arg |-> <<>>],
   [fmt |-> <<Percent, 97>>, arg |-> <<>>],
   [fmt |-> <<Percent, ChC>>, arg |-> <<98>>],
   [fmt |-> <<Percent, ChS>>, arg |-> <<array(<<97, 98>>, 3)>>]}
  \cup [fmt : {<<Percent, ChX>>, <<Percent, Hash, ChX>>,
               <<Percent, ChU>>, <<Percent, ChD>>},
        arg : {<<v>> : v \in EdgeValues}]

(* A directory's entries: distinct names, and the lowest byte of each type.*)
(* A name of MAX_FNAME_LEN characters has no NUL.                          *)
entry(str, type) == [k \in 0 .. MAX_FNAME_LEN |->
                       IF k = MAX_FNAME_LEN THEN type
                       ELSE IF k < Len(str) THEN str[k + 1] ELSE NUL]
Names(n) == Strings(Letters, n) \ {<<>>}
Types == 0 .. 2
Dirs(n) == {e \in [0 .. 1 -> [name : Names(n), type : Types]] :
              e[0].name # e[1].name}

Filenames == Strings(Letters, MAX_FNAME_LEN + 1)
Commands == Strings({97, Blank}, MaxCommand)

-----------------------------------------------------------------------------
answers(c, r) == call' = c /\ result' = r

memset_call == call = None /\ \E a \in Addresses, n \in 0 .. MemSize, v \in 0 .. 2 * Byte - 1 :
  Fits(a, n) /\ answers([f |-> "memset", at |-> a, n |-> n, val |-> v],
                        memset(memory, a, v, n))

memset_wide_call == call = None /\ \E a \in Addresses, n \in 0 .. MemSize \div 2, v \in 0 .. Byte^4 - 1 :
  \/ Fits(a, 2 * n) /\ answers([f |-> "memset_word", at |-> a, n |-> n, val |-> v],
                               memset_word(memory, a, v, n))
  \/ Fits(a, 4 * n) /\ answers([f |-> "memset_dword", at |-> a, n |-> n, val |-> v],
                               memset_dword(memory, a, v, n))

copy_call == call = None /\ \E to \in Addresses, from \in Addresses, n \in 0 .. MemSize :
  /\ Fits(to, n) /\ Fits(from, n)
  /\ \/ answers([f |-> "memcpy", to |-> to, from |-> from, n |-> n],
                memcpy(memory, to, from, n))
     \/ answers([f |-> "memmove", to |-> to, from |-> from, n |-> n],
                memmove(memory, to, from, n))

string_call == call = None /\ \E s1 \in Strings(Letters, MaxString) :
  \/ answers([f |-> "strrev", s1 |-> s1], strrev(stored(s1, MaxString + 2, 1), 0))
  \/ answers([f |-> "strcpy", s1 |-> s1],
             strcpy(memory, stored(s1, MaxString + 2, 1)))
  \/ \E n \in 0 .. MaxString + 1 :
       \/ answers([f |-> "strncpy", s1 |-> s1, n |-> n],
                  strncpy(memory, stored(s1, MaxString + 2, 1), n))
       \/ \E s2 \in Strings(Letters, MaxString) :
            answers([f |-> "strncmp", s1 |-> s1, s2 |-> s2, n |-> n],
                    strncmp(stored(s1, MaxString + 2, 1), stored(s2, MaxString + 2, 2), n))

printf_call == call = None /\ \E n \in 0 .. MaxFormat : \E ds \in [1 .. n -> Directives] :
  LET fmt == FlattenSeq([k \in 1 .. n |-> ds[k].fmt])
      as == FlattenSeq([k \in 1 .. n |-> ds[k].arg])
  IN answers([f |-> "printf", ds |-> ds], printf(fmt, as))

itoa_call == call = None /\ \E v \in Values, radix \in {2, 10, 16} :
  answers([f |-> "itoa", val |-> v, radix |-> radix],
          text(itoa(conv_buf, v, 0, radix), 0))

entries(dir) == [i \in DOMAIN dir |-> entry(dir[i].name, dir[i].type)]
FileBuffer == [k \in 0 .. MAX_FNAME_LEN + 1 |-> 1]

lookup_call == call = None /\ \E dir \in Dirs(MAX_FNAME_LEN), n \in 0 .. 2 :
  \/ \E name \in Filenames :
       answers([f |-> "by_name", dir |-> dir, n |-> n, name |-> name],
               read_dentry_by_name(entries(dir), n, stored(name, MAX_FNAME_LEN + 2, 1)))
  \/ \E i \in 0 .. n - 1 :
       answers([f |-> "dir_read", dir |-> dir, n |-> n, i |-> i],
               dir_read(FileBuffer, entries(dir)[i]))

command_call == call = None /\ \E cmd \in Commands, nbytes \in 0 .. MaxCommand + 1,
                                  last_slot \in BOOLEAN :
  LET command == stored(cmd, MaxCommand + 2, 1) IN
  answers([f |-> "command", cmd |-> cmd, nbytes |-> nbytes, last_slot |-> last_slot],
          [refused |-> too_long(command),
           exename |-> exename(command),
           getargs |-> getargs([k \in 0 .. MaxCommand + 2 |-> 1], nbytes,
                               args(command, last_slot))])

(* Every table that the slot's last process may have left.                 *)
left_open(S) == [i \in 0 .. MAX_FD - 1 |->
                   [in_use |-> i \in S, filetype |-> 1, jumptable |-> "fs"]]

syserr_call == call = None /\ \E S \in SUBSET (2 .. MAX_FD - 1), select \in {0} \cup Tests :
  answers([f |-> "syserr", select |-> select], syserr(select, new_table(left_open(S))))

(* The buffer is not initialised; only the byte behind it is ever looked   *)
(* at before it is written.                                                *)
grep_call == call = None /\ \E file \in Strings(Letters \cup {Newline}, MaxFile),
                             s \in {<<97>>, <<97, 98>>, <<97, 97, 98>>},
                             behind \in {NUL, 97, Newline} :
  \E bad \in {0, BUFSIZE, MaxFile + 1} :
    answers([f |-> "grep", file |-> file, s |-> s, behind |-> behind],
            do_one_file(array(s, Len(s) + 1), file, bad,
                        [k \in 0 .. BUFSIZE |-> IF k = BUFSIZE THEN behind ELSE 1]))

frames_call == call = None /\ \E f \in [0 .. 1 -> Strings({97, Space, LineFeed}, MaxFrame)] :
  answers([f |-> "frames", files |-> f], add_frames(f))

returns == call # None /\ call' = None /\ result' = None

Next ==
  \/ memset_call \/ memset_wide_call \/ copy_call
  \/ string_call \/ itoa_call \/ printf_call
  \/ lookup_call \/ command_call
  \/ syserr_call \/ grep_call \/ frames_call
  \/ returns

Spec == Init /\ [][Next]_vars

-----------------------------------------------------------------------------
is(f) == call.f = f

(* The bytes at .. at + n - 1 are val(k) for k = 0, 1, ..., others as before.*)
SetTo(r, at, n, val(_)) ==
  r = [a \in Addresses |-> IF a \in at .. at + n - 1 THEN val(a - at) ELSE memory[a]]

(* memset and its wide forms set their bytes and no other; memmove copies  *)
(* whatever the overlap; memcpy, which copies bytes and dwords upwards,    *)
(* copies unless the destination begins inside the source.                 *)
MemoryRoutines ==
  /\ is("memset") => SetTo(result, call.at, call.n, LAMBDA k : call.val % Byte)
  /\ is("memset_word") =>
       SetTo(result, call.at, 2 * call.n, LAMBDA k : byte(call.val, k % 2))
  /\ is("memset_dword") =>
       SetTo(result, call.at, 4 * call.n, LAMBDA k : byte(call.val, k % 4))
  /\ is("memmove") \/ (is("memcpy") /\ call.to \notin call.from + 1 .. call.from + call.n - 1)
       => SetTo(result, call.to, call.n, LAMBDA k : memory[call.from + k])

(* strrev reverses; strcpy copies the string with its NUL; strncpy fills   *)
(* exactly n bytes; strncmp is zero if the first n characters agree.       *)
Prefix(str, n) == SubSeq(str, 1, Min({n, Len(str)}))

StringRoutines ==
  /\ is("strrev") => text(result, 0) = Reverse(call.s1)
  /\ is("strcpy") =>
       SetTo(result, 0, Len(call.s1) + 1, LAMBDA k : array(call.s1, MemSize)[k])
  /\ is("strncpy") => SetTo(result, 0, call.n, LAMBDA k : array(call.s1, MemSize)[k])
  /\ is("strncmp") => (result = 0 <=> Prefix(call.s1, call.n) = Prefix(call.s2, call.n))

(* itoa writes a number's digits, the highest first and none too many; and *)
(* printf prints what its directives ask for, each with its own argument.  *)
DigitsOf(v, radix) ==
  LET n == CHOOSE k \in 1 .. WordBits : radix^k > v /\ (k = 1 \/ radix^(k - 1) <= v)
  IN [k \in 1 .. n |-> lookup((v \div radix^(n - k)) % radix)]

Asked(dir) ==
  LET kind == Last(dir.fmt)
      v == Head(dir.arg)
      padding == HexDigits - Len(DigitsOf(v, 16))
  IN CASE Len(dir.fmt) = 1           -> dir.fmt
       [] Len(dir.fmt) = 3           -> [k \in 1 .. padding |-> Zero] \o DigitsOf(v, 16)
       [] Len(dir.fmt) = 2 ->
            CASE kind = Percent -> <<Percent>>
              [] kind = ChX     -> DigitsOf(v, 16)
              [] kind = ChU     -> DigitsOf(v, 10)
              [] kind = ChD     -> IF v < 2^(WordBits - 1) THEN DigitsOf(v, 10)
                                   ELSE <<Minus>> \o DigitsOf(2^WordBits - v, 10)
              [] kind = ChC     -> <<v>>
              [] kind = ChS     -> <<97, 98>>
              [] OTHER          -> <<>>

NumbersPrinted ==
  /\ is("itoa") => result = DigitsOf(call.val, call.radix)
  /\ is("printf") => result = FlattenSeq([k \in DOMAIN call.ds |-> Asked(call.ds[k])])

(* The routines of lib.c do what they are for.                             *)
LibRoutines == MemoryRoutines /\ StringRoutines /\ NumbersPrinted

(* In a directory of names shorter than the name field, a name finds the   *)
(* entry that has it and nothing else finds any; what dir_read puts into   *)
(* the buffer is the name and its NUL, and finds that entry again.         *)
InUse == 0 .. call.n - 1
AllShorter == \A i \in InUse : Len(call.dir[i].name) < MAX_FNAME_LEN

NamesFound ==
  /\ is("by_name") /\ AllShorter =>
       LET having == {i \in InUse : call.dir[i].name = call.name}
       IN IF having = {} THEN result = NotFound ELSE result \in having
  /\ is("dir_read") /\ AllShorter =>
       /\ result.ret = Len(call.dir[call.i].name) + 1
       /\ text(result.buf, 0) = call.dir[call.i].name
       /\ read_dentry_by_name(entries(call.dir), call.n, result.buf) = call.i

(* A command is a word, blanks, and arguments.  execute takes the word for *)
(* the file name, or refuses it for its length; getargs delivers the       *)
(* arguments if the whole of them was kept, NUL-padded to nbytes, and never*)
(* writes behind nbytes.  The child of a caller in the last slot gets an   *)
(* empty string, as if there had been no arguments.                        *)
CommandSplit ==
  is("command") =>
    \E w \in 0 .. Len(call.cmd), b \in 0 .. Len(call.cmd) :
      LET word == SubSeq(call.cmd, 1, w)
          rest == SubSeq(call.cmd, w + b + 1, Len(call.cmd))
          sent == IF call.last_slot THEN <<>> ELSE rest
          kept == 2 * (w + b) + Len(sent) <= BUFFER_SIZE
          buf == result.getargs.buf
      IN
      /\ Blank \notin Range(word)
      /\ \A k \in w + 1 .. w + b : k <= Len(call.cmd) /\ call.cmd[k] = Blank
      /\ rest # <<>> => b > 0 /\ Head(rest) # Blank
      /\ result.exename = word
      /\ result.refused <=> w > MAX_FNAME_LEN
      /\ kept /\ call.nbytes > 0 /\ result.getargs.ret = 0 =>
           \A k \in 0 .. call.nbytes - 1 : buf[k] = array(sent, call.nbytes)[k]
      /\ kept /\ call.nbytes > 0 =>
           (result.getargs.ret = 0 <=> Len(sent) + 1 < call.nbytes)
      /\ call.nbytes > 0 => \A k \in DOMAIN buf : k >= call.nbytes => buf[k] = 1

(* Every test of ece391syserr passes, alone and after the others, whatever *)
(* the slot's last process left in the table, and leaves no descriptor     *)
(* open.                                                                   *)
SyserrPasses ==
  is("syserr") =>
    /\ ~result.fail
    /\ {i \in 0 .. MAX_FD - 1 : result.fds[i].in_use} = {0, 1}

(* The lines of a text.                                                    *)
LinesOf(str) ==
  LET ends == {k \in 1 .. Len(str) : str[k] = Newline} \cup {Len(str) + 1}
      starts == {1} \cup {k + 1 : k \in ends \ {Len(str) + 1}}
      start(i) == CHOOSE k \in starts : Cardinality({j \in starts : j < k}) = i - 1
      end(i) == CHOOSE k \in ends : Cardinality({j \in ends : j < k}) = i - 1
  IN [i \in 1 .. Cardinality(ends) |-> SubSeq(str, start(i), end(i) - 1)]

Occurs(line, s) ==
  \E k \in 0 .. Len(line) - Len(s) : SubSeq(line, k + 1, k + Len(s)) = s

(* grep prints the lines that contain the string, each once and in order,  *)
(* wherever the ends of its buffer fall, if no line is longer than the     *)
(* buffer and the byte behind it did not happen to be a newline; if a read *)
(* fails, it has printed only such lines.                                  *)
GrepPrints ==
  is("grep") /\ call.behind # Newline
    /\ (\A i \in DOMAIN LinesOf(call.file) : Len(LinesOf(call.file)[i]) <= BUFSIZE) =>
      LET wanted == SelectSeq(LinesOf(call.file), LAMBDA line : Occurs(line, call.s))
      IN IF result.ret = 0 THEN result.out = wanted ELSE IsPrefix(result.out, wanted)

(* The character of a text at a row and a column, blank where it has none. *)
CharAt(str, row, col) ==
  IF row < Len(LinesOf(str)) /\ col < Len(LinesOf(str)[row + 1])
    THEN LinesOf(str)[row + 1][col + 1] ELSE Space

(* fish blinks, at every place where one of its two pictures is not blank, *)
(* between the characters the pictures have there, and adds each place     *)
(* once, whichever picture has the longer lines or more of them.           *)
FramesAdded ==
  is("frames") =>
    /\ Range(result) =
         {[on_char |-> CharAt(call.files[0], r, c), off_char |-> CharAt(call.files[1], r, c),
           location |-> r * 80 + c + 40] :
            <<r, c>> \in {v \in (0 .. MaxFrame) \X (0 .. MaxFrame) :
                           \E i \in 0 .. 1 : CharAt(call.files[i], v[1], v[2]) # Space}}
    /\ Cardinality(Range(result)) = Len(result)
=============================================================================
