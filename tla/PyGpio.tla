-------------------------------- MODULE PyGpio --------------------------------
(***************************************************************************)
(* The PyGPIO extension module (Python/PyGPIO/pygpio.c): the calls that    *)
(* hand lines between Python and the kernel, and the two that parse a      *)
(* property of the device tree, every allocation and read failing at any   *)
(* point.  Calls hold the interpreter lock, so one runs at a time.         *)
(***************************************************************************)
EXTENDS Integers, Sequences, SequencesExt

CONSTANTS
  W,          \* 2^32: integers become uint32 modulo W
  NLines,     \* lines of the chip
  MaxLines,   \* PYGPIO_MAX_LINES
  MaxAttrs,   \* PYGPIO_MAX_ATTRS
  BufSize,    \* size of the buffer on the stack
  MaxFile     \* bound: length of a file

VARIABLES
  given,                \* file descriptor -> offsets that Python asked for, <<>> if closed
  held, config,         \* file descriptor -> lines and configuration the kernel has
  pc, file, at,         \* a parsing call, its file, how much of it has been read
  broken,               \* the read has failed
  bufsize, heap, open,  \* its buffer, blocks of the heap, FILE
  refs,                 \* objects the call owns
  call, result, outcome \* the last parsing call, its list, and "list" or "raise"

kernel == <<given, held, config>>
parse  == <<pc, file, at, broken, bufsize, heap, open, refs, call, result, outcome>>
vars == <<kernel, parse>>

Fds == 1..2

\* attrs may be None, which is no attribute.
Fillable(attrs) == Len(attrs) <= MaxAttrs /\ "not a triple" \notin ToSet(attrs)
FillLineConfig(flags, attrs) == [flags |-> flags, attrs |-> attrs]

Init ==
  /\ given = [f \in Fds |-> <<>>] /\ held = given /\ config = [f \in Fds |-> FillLineConfig({}, <<>>)]
  /\ pc = "idle" /\ file = <<>> /\ at = 0 /\ broken = FALSE
  /\ bufsize = BufSize /\ heap = 0 /\ open = FALSE /\ refs = 0
  /\ call = "names" /\ result = <<>> /\ outcome = "list"

------------------------------------------------------------------------------
(* Lines. *)

Idle == pc = "idle" /\ UNCHANGED parse
Free(o) == o \in 0..(NLines - 1) /\ \A f \in Fds : o \notin ToSet(held[f])

\* (uint32_t) of a long
Uint(o) == o % W

\* What raises leaves no trace, here or in the kernel.
RequestLine(f, offs, flags, attrs) ==
  LET taken == [i \in DOMAIN offs |-> Uint(offs[i])] IN
  /\ Idle
  /\ given[f] = <<>>
  /\ Len(offs) \in 1..MaxLines
  /\ \A i \in DOMAIN taken : Free(taken[i])
  /\ IsInjective(taken)
  /\ given' = [given EXCEPT ![f] = offs]
  /\ held' = [held EXCEPT ![f] = taken]
  /\ Fillable(attrs)
  /\ config' = [config EXCEPT ![f] = FillLineConfig(flags, attrs)]

\* set_config replaces the whole configuration of a request, not its lines.
SetConfig(f, flags, attrs) ==
  /\ Idle
  /\ held[f] # <<>> /\ Fillable(attrs)
  /\ config' = [config EXCEPT ![f] = FillLineConfig(flags, attrs)]
  /\ UNCHANGED <<given, held>>

\* os.close(line_fd)
Close(f) ==
  /\ Idle
  /\ held[f] # <<>>
  /\ held' = [held EXCEPT ![f] = <<>>] /\ given' = [given EXCEPT ![f] = <<>>]
  /\ config' = [config EXCEPT ![f] = FillLineConfig({}, <<>>)]

------------------------------------------------------------------------------
(* dt_read_gpio_cells.  The file is a sequence of words, three to an entry. *)

Goto(l) == pc' = l
Same(s) == UNCHANGED <<kernel, call>> /\ UNCHANGED s

\* fclose, free, Py_DECREF of the list: what a path gives back before it raises.
Raise(blocks, objects) ==
  /\ heap' = heap - blocks /\ refs' = refs - objects /\ open' = FALSE
  /\ outcome' = "raise" /\ Goto("returned")
  /\ result' = <<>>
  /\ Same(<<file, at, broken, bufsize>>)

\* Bound: an extension call parses, or lines are in use.
Start(name, f) ==
  /\ pc = "idle" /\ \A d \in Fds : held[d] = <<>>
  /\ call' = name
  /\ file' = f /\ at' = 0 /\ broken' = FALSE /\ result' = <<>> /\ bufsize' = BufSize
  /\ \/ open' = TRUE /\ Goto(name) /\ outcome' = outcome
     \/ open' = FALSE /\ Goto("returned") /\ outcome' = "raise"  \* fopen
  /\ UNCHANGED <<kernel, heap, refs>>

\* Python drops what the call returned; the next call starts with a buffer of its own.
Drop ==
  /\ pc = "returned"
  /\ Goto("idle") /\ call' = "names" /\ outcome' = "list"
  /\ file' = <<>> /\ at' = 0 /\ broken' = FALSE /\ result' = <<>> /\ bufsize' = BufSize
  /\ UNCHANGED <<kernel, heap, open, refs>>

CellsBuf ==
  /\ pc = "cells"
  /\ \/ /\ heap' = heap + 1 /\ Goto("cells_list")
        /\ Same(<<file, at, broken, bufsize, open, refs, result, outcome>>)
     \/ Raise(0, 0)

CellsList ==
  /\ pc = "cells_list"
  /\ \/ /\ refs' = refs + 1 /\ Goto("cells_read")
        /\ Same(<<file, at, broken, bufsize, heap, open, result, outcome>>)
     \/ Raise(1, 0)

\* A whole entry is read, or the read fails.
CellsEntry ==
  /\ pc = "cells_read" /\ ~broken /\ Len(file) - at >= 3
  /\ \/ /\ at' = at + 3 /\ Goto("cells_tuple")
        /\ Same(<<file, broken, bufsize, heap, open, refs, result, outcome>>)
     \/ /\ broken' = TRUE
        /\ Same(<<pc, file, at, bufsize, heap, open, refs, result, outcome>>)

CellsTuple ==
  /\ pc = "cells_tuple"
  /\ \/ /\ refs' = refs + 1 /\ Goto("cells_items")
        /\ Same(<<file, at, broken, bufsize, heap, open, result, outcome>>)
     \/ Raise(1, 1)

\* The items become the tuple's; when one cannot be made, the tuple goes with the list.
CellsItems ==
  /\ pc = "cells_items"
  /\ \/ /\ Goto("cells_append")
        /\ Same(<<file, at, broken, bufsize, heap, open, refs, result, outcome>>)
     \/ Raise(1, 2)

\* The list takes a reference of its own.
CellsAppend ==
  /\ pc = "cells_append"
  /\ \/ /\ result' = Append(result, SubSeq(file, at - 2, at))
        /\ refs' = refs - 1 /\ Goto("cells_read")
        /\ Same(<<file, at, broken, bufsize, heap, open, outcome>>)
     \/ Raise(1, 2)

\* Mutant: ferror is not asked.
CellsEndAnyway ==
  /\ pc = "cells_read" /\ (broken \/ Len(file) - at < 3)
  /\ heap' = heap - 1 /\ refs' = refs - 1 /\ open' = FALSE /\ outcome' = "list"
  /\ Goto("returned")
  /\ Same(<<file, at, broken, bufsize, result>>)

CellsEnd ==
  /\ pc = "cells_read" /\ (broken \/ Len(file) - at < 3)
  /\ IF broken THEN Raise(1, 1)
     ELSE /\ heap' = heap - 1 /\ refs' = refs - 1 /\ open' = FALSE /\ outcome' = "list"
          /\ Goto("returned")
          /\ Same(<<file, at, broken, bufsize, result>>)

------------------------------------------------------------------------------
(* dt_read_line_names.  The file is a sequence of characters, 0 between the names. *)

OnHeap == bufsize > BufSize

\* fread fills the buffer but for one character, or stops at the end of the file or at an
\* error, which is not told from the end.
NamesRead ==
  /\ pc = "names"
  /\ \E n \in 0..(bufsize - at - 1) :
       /\ at + n <= Len(file)
       /\ at' = at + n
       /\ broken' = (at + n < bufsize - 1 /\ at + n < Len(file))
       /\ Goto(IF at + n < bufsize - 1 THEN "names_list" ELSE "names_grow")
       /\ open' = (at + n = bufsize - 1)
  /\ Same(<<file, bufsize, heap, refs, result, outcome>>)

NamesGrow ==
  /\ pc = "names_grow"
  /\ \/ /\ heap' = heap + 1 - (IF OnHeap THEN 1 ELSE 0)
        /\ bufsize' = 2 * bufsize /\ Goto("names")
        /\ Same(<<file, at, broken, open, refs, result, outcome>>)
     \/ Raise(IF OnHeap THEN 1 ELSE 0, 0)

\* The characters from &s[p] on that come before the next 0.
strnlen(s, p) ==
  CHOOSE n \in 0..(Len(s) - p) : /\ \A i \in 1..n : s[p + i] # 0
                                 /\ p + n = Len(s) \/ s[p + n + 1] = 0

\* strnlen from each position in turn; empty names are skipped.
NamesIn(s) ==
  LET from[p \in 0..Len(s)] ==
        LET n    == strnlen(s, p)
            rest == IF p + n + 1 <= Len(s) THEN from[p + n + 1] ELSE <<>> IN
        IF n > 0 THEN <<SubSeq(s, p + 1, p + n)>> \o rest ELSE rest
  IN from[0]

NamesList ==
  /\ pc = "names_list"
  /\ \/ /\ refs' = refs + 1 /\ Goto("names_next")
        /\ Same(<<file, at, broken, bufsize, heap, open, result, outcome>>)
     \/ Raise(IF OnHeap THEN 1 ELSE 0, 0)

Names == NamesIn(SubSeq(file, 1, at))

\* The next string is made.
NamesString ==
  /\ pc = "names_next" /\ Len(result) < Len(Names)
  /\ \/ /\ refs' = refs + 1 /\ Goto("names_append")
        /\ Same(<<file, at, broken, bufsize, heap, open, result, outcome>>)
     \/ Raise(IF OnHeap THEN 1 ELSE 0, 1)

\* Mutant: when the list cannot grow, the string is kept.
NamesAppendKeeps ==
  /\ pc = "names_append"
  /\ \/ /\ result' = Append(result, Names[Len(result) + 1])
        /\ refs' = refs - 1 /\ Goto("names_next")
        /\ Same(<<file, at, broken, bufsize, heap, open, outcome>>)
     \/ Raise(IF OnHeap THEN 1 ELSE 0, 1)

\* The list takes a reference of its own; when it cannot grow, the string goes with it.
NamesAppend ==
  /\ pc = "names_append"
  /\ \/ /\ result' = Append(result, Names[Len(result) + 1])
        /\ refs' = refs - 1 /\ Goto("names_next")
        /\ Same(<<file, at, broken, bufsize, heap, open, outcome>>)
     \/ Raise(IF OnHeap THEN 1 ELSE 0, 2)

NamesEnd ==
  /\ pc = "names_next" /\ Len(result) = Len(Names)
  /\ heap' = heap - (IF OnHeap THEN 1 ELSE 0)
  /\ refs' = refs - 1 /\ outcome' = "list" /\ Goto("returned")
  /\ Same(<<file, at, broken, bufsize, open, result>>)

Files(alphabet) == UNION {[1..n -> alphabet] : n \in 0..MaxFile}
Offsets == {<<o>> : o \in -1..W} \cup {<<o, p>> : o, p \in 0..NLines} \cup {<<>>, <<0, 1, 2>>}

Flags == {{}, {"input"}}
Attrs == {<<>>, <<"debounce">>, <<"debounce", "values">>, <<"not a triple">>}

Next ==
  \/ \E f \in Fds, flags \in Flags, attrs \in Attrs :
       SetConfig(f, flags, attrs) \/ \E offs \in Offsets : RequestLine(f, offs, flags, attrs)
  \/ \E f \in Fds : Close(f)
  \/ \E f \in Files({1}) : Start("cells", f)
  \/ \E f \in Files({0, 1}) : Start("names", f)
  \/ Drop \/ CellsBuf \/ CellsList \/ CellsEntry \/ CellsTuple \/ CellsItems \/ CellsAppend
  \/ CellsEnd
  \/ NamesRead \/ NamesGrow \/ NamesList \/ NamesString \/ NamesAppend \/ NamesEnd

Spec == Init /\ [][Next]_vars

------------------------------------------------------------------------------
\* The stretches of a text without a 0 that nothing extends ...
Stretches(s) ==
  {ij \in (1..Len(s)) \X (1..Len(s)) :
     /\ ij[1] <= ij[2]
     /\ \A k \in ij[1]..ij[2] : s[k] # 0
     /\ ij[1] = 1 \/ s[ij[1] - 1] = 0
     /\ ij[2] = Len(s) \/ s[ij[2] + 1] = 0}

\* ... are its names: r has each of them once, in their order.
ListsNames(r, s) ==
  \E b \in [1..Len(r) -> Stretches(s)] :
    /\ \A x \in Stretches(s) : \E i \in 1..Len(r) : b[i] = x
    /\ \A i, j \in 1..Len(r) : i < j => b[i][1] < b[j][1]
    /\ \A i \in 1..Len(r) : r[i] = SubSeq(s, b[i][1], b[i][2])

\* The kernel holds the very lines Python asked for; an offset that does not fit uint32 is
\* not refused (pygpio.c:184) but becomes another line.
LinesAsAsked ==
  \A f \in Fds : held[f] # given[f] => \E i \in DOMAIN given[f] : given[f][i] \notin 0..(W - 1)

\* What a call reads fits its buffer, with one character to spare for the final 0, however
\* often it grows.
FitsBuffer == pc \in {"names_grow", "names_list"} => at < bufsize

\* A list that is returned is that of the whole file, of a length at a boundary of the
\* buffer too.  dt_read_line_names returns a part after a read error, which it does not look
\* for (pygpio.c:414-416).
WholeFile ==
  pc = "returned" /\ outcome = "list" =>
    IF call = "cells" THEN ~broken /\ Len(result) = Len(file) \div 3
                      ELSE ~broken => ListsNames(result, file)

\* Nothing is lost or changed on its way between Python, the kernel and the device tree.
ExactlyAsAsked == LinesAsAsked /\ FitsBuffer /\ WholeFile

\* Wherever a call fails, when it returns it holds no memory, no file and no reference to an
\* object of its own, the tuple or string it was just adding included, but the list it returns.
NothingLeaks == pc \in {"idle", "returned"} => heap = 0 /\ refs = 0 /\ ~open
==============================================================================
