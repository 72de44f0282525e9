------------------------------ MODULE ExboardMap ------------------------------
(***************************************************************************)
(* The table from line names to GPIO lines, as the C programs, the Python  *)
(* programs and the listing tool gpio_map.py make it from the device tree  *)
(* of the board: properties of <phandle, pin, flags> entries in one file   *)
(* each, the names of all of them in another.                              *)
(***************************************************************************)
EXTENDS Integers, Sequences, SequencesExt

CONSTANT MaxLines    \* EXBOARD_MAX_LINES

NoName == ""
Entry(name, pin, low) == [name |-> name, pin |-> pin, low |-> low]

\* What is wired to the board.  The display is left out: no program asks for it.
Board ==
  << <<Entry("sw1", 2, TRUE), Entry("sw2", 3, TRUE)>>,
     <<Entry("led1", 4, FALSE), Entry("led2", 9, FALSE)>> >>

Wired(name) == CHOOSE e \in ToSet(FlattenSeq(Board)) : e.name = name

(* The tree: a property holds its whole entries and perhaps a torn one. *)
Cell(e) == [pin |-> e.pin, low |-> e.low]
Prop(es) == [there |-> TRUE, torn |-> FALSE, cells |-> [i \in DOMAIN es |-> Cell(es[i])]]

\* 14 lines and room for 32.
ASSUME RoomForBoard == MaxLines \in Nat /\ MaxLines >= Len(FlattenSeq(Board))

Names == LET es == FlattenSeq(Board) IN [i \in DOMAIN es |-> es[i].name]

Intact == [props |-> [p \in DOMAIN Board |-> Prop(Board[p])], named |-> TRUE, names |-> Names]

\* The tree as it should be, or with one fault.
Trees ==
  {Intact, [Intact EXCEPT !.named = FALSE, !.names = <<>>]}
  \cup {[Intact EXCEPT !.props[p].there = FALSE] : p \in DOMAIN Board}
  \cup {[Intact EXCEPT !.props[p].torn = TRUE, !.props[p].cells = Front(@)] : p \in DOMAIN Board}
  \cup {[Intact EXCEPT !.names = RemoveAt(@, i)] : i \in DOMAIN Names}
  \cup {[Intact EXCEPT !.names[i] = n] : i \in DOMAIN Names, n \in ToSet(Names) \cup {NoName}}

------------------------------------------------------------------------------
UpTo(s, n) == SubSeq(s, 1, IF Len(s) < n THEN Len(s) ELSE n)

\* Every reader skips empty names.
NonEmpty(names) ==
  LET kept[i \in 0..Len(names)] ==
        IF i = 0 THEN <<>>
        ELSE IF names[i] = NoName THEN kept[i - 1] ELSE Append(kept[i - 1], names[i])
  IN kept[Len(names)]
NamesOf(t) == NonEmpty(t.names)

\* fread and unpack give whole entries only.
Entries(t) ==
  FlattenSeq([p \in DOMAIN t.props |-> IF t.props[p].there THEN t.props[p].cells ELSE <<>>])

Labelled(cells, names) ==
  [i \in DOMAIN cells |->
     Entry(IF i <= Len(names) THEN names[i] ELSE NoName, cells[i].pin, cells[i].low)]

Table(fails, warns, rows) == [fails |-> fails, warns |-> warns, rows |-> rows]

\* A property that is missing is skipped; names beyond the last entry are not read.
CTable(t) ==
  LET cells == UpTo(Entries(t), MaxLines)
      names == UpTo(NamesOf(t), Len(cells)) IN
  Table(~t.named, Len(names) # Len(cells), Labelled(cells, names))

Absent(t) == {p \in DOMAIN t.props : ~t.props[p].there}
CountsDiffer(t) == Len(NamesOf(t)) # Len(Entries(t))
Zipped(t) == LET n == Len(NamesOf(t)) IN Labelled(UpTo(Entries(t), n), NamesOf(t))

\* Mutant: the counts are not compared.
PyTableZips(t) == Table(~t.named \/ Absent(t) # {}, FALSE, Zipped(t))

\* Whatever is missing raises; a torn entry shows in the count.
PyTable(t) == Table(~t.named \/ Absent(t) # {} \/ CountsDiffer(t), FALSE, Zipped(t))

\* gpio_map.py: unpack_from raises on a torn entry, the rest is warned about.
ListTable(t) ==
  Table(~t.named \/ \E p \in DOMAIN t.props : t.props[p].torn,
        Absent(t) # {} \/ CountsDiffer(t), Zipped(t))

\* exboard_find_gpio takes the first row, a dict keeps the last.
FirstNamed(rows, name) ==
  {rows[i] : i \in {j \in DOMAIN rows : /\ rows[j].name = name
                                        /\ \A k \in 1..(j - 1) : rows[k].name # name}}
LastNamed(rows, name) ==
  {rows[i] : i \in {j \in DOMAIN rows : /\ rows[j].name = name
                                        /\ \A k \in (j + 1)..Len(rows) : rows[k].name # name}}
==============================================================================
