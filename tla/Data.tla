-------------------------------- MODULE Data --------------------------------
(***************************************************************************)
(* The data connector (connectors/data): a table a guest holds as columns  *)
(* is written as parquet or as CSV and read back, whole or a range of its  *)
(* rows.  Where the bytes go is the module Stores; here is what they say.  *)
(*                                                                         *)
(* The parquet library is external: it keeps a column as groups of rows,   *)
(* hands back the values that are present with a level for each row, and   *)
(* answers with as many rows as its page has left.  A CSV is its text,     *)
(* character by character, since quoting is what can go wrong; "q" is the  *)
(* quote, "n" the newline.                                                 *)
(***************************************************************************)
EXTENDS Integers, Sequences, FiniteSets, SequencesExt, TLC

CONSTANTS Texts,    \* the texts of a text column: sequences of characters
          MaxCols,  \* bound: columns of a table
          MaxRows,  \* bound: rows of a table
          Formats   \* of {"parquet", "csv"}: what the guest writes

VARIABLE data

\* A cell of a file or of a table: nothing, or the one thing it says.
Null   == <<>>
Is(v)  == <<v>>
NaN    == -1
Numbers == {0, 1}

\* A column as it crosses the boundary: f64 says null with NaN, the others
\* with a mask, which is there only when a row is null; text is codes, from
\* 0, into the distinct strings.
Column(dtype, slots, uniques, valid) == [dtype |-> dtype, slots |-> slots, uniques |-> uniques, valid |-> valid]

\* What a column says, row by row; an f64's numbers and an i64's are apart.
Means(c) ==
    [i \in DOMAIN c.slots |->
        IF c.slots[i] = NaN \/ (c.valid # <<>> /\ c.valid[i] = 0) THEN Null
        ELSE Is(<<c.dtype, IF c.dtype = "str" THEN c.uniques[c.slots[i] + 1] ELSE c.slots[i]>>)]

\* The mask of a column read: none where no row is null, and none for f64.
Mask(dtype, nulls) ==
    IF dtype = "f64" \/ ~(\E i \in DOMAIN nulls : nulls[i] = 1) THEN <<>> ELSE [i \in DOMAIN nulls |-> 1 - nulls[i]]

NullFill(dtype) == IF dtype = "f64" THEN NaN ELSE 0

Code(uniques, text) == (CHOOSE i \in DOMAIN uniques : uniques[i] = text) - 1
Interned(uniques, text) == IF \E i \in DOMAIN uniques : uniques[i] = text THEN uniques ELSE Append(uniques, text)
-----------------------------------------------------------------------------
\* Accumulator: a column, rebuilt from what each batch holds of it.

Accumulator == [values |-> <<>>, nulls |-> <<>>, uniques |-> <<>>]

\* A batch of the library: the values present, and a level for each row.
Dense(cells) == FlattenSeq(cells)
Levels(cells) == [i \in DOMAIN cells |-> IF cells[i] = Null THEN 0 ELSE 1]

\* intern, on every text of a batch.
Codes(acc, texts) ==
    LET uniques == FoldLeft(Interned, acc.uniques, texts) IN
    [acc |-> [acc EXCEPT !.uniques = uniques], values |-> [i \in DOMAIN texts |-> Code(uniques, texts[i])]]

\* expand: one slot per row.
Expand(acc, dtype, nullable, values, levels) ==
    IF ~nullable THEN [acc EXCEPT !.values = @ \o values]
    ELSE LET nth(i) == Len(SelectSeq(SubSeq(levels, 1, i), LAMBDA l : l > 0)) IN
         [acc EXCEPT !.values = @ \o [i \in DOMAIN levels |-> IF levels[i] > 0 THEN values[nth(i)] ELSE NullFill(dtype)],
                     !.nulls = @ \o [i \in DOMAIN levels |-> 1 - levels[i]]]

Consume(acc, dtype, nullable, cells) ==
    IF dtype # "str" THEN Expand(acc, dtype, nullable, Dense(cells), Levels(cells))
    ELSE LET c == Codes(acc, Dense(cells)) IN Expand(c.acc, dtype, nullable, c.values, Levels(cells))

Finished(acc, dtype) == Column(dtype, acc.values, acc.uniques, Mask(dtype, acc.nulls))
-----------------------------------------------------------------------------
\* What a guest hands to a write.

\* The null rows: NaN, or the mask turned round.
Nulls(c) ==
    IF c.dtype = "f64"
    THEN LET mask == [i \in DOMAIN c.slots |-> IF c.slots[i] = NaN THEN 1 ELSE 0] IN
         IF \E i \in DOMAIN mask : mask[i] = 1 THEN mask ELSE <<>>
    ELSE [i \in DOMAIN c.valid |-> 1 - c.valid[i]]

IsNull(c, i) == Nulls(c) # <<>> /\ Nulls(c)[i] = 1

\* writables and the writers: refused when a mask or a column has another
\* length, or a row that is there has a code past the strings.
Writable(columns) ==
    \A k \in DOMAIN columns :
        LET c == columns[k] IN
        /\ c.valid # <<>> => Len(c.valid) = Len(c.slots)
        /\ Len(c.slots) = Len(columns[1].slots)
        /\ c.dtype = "str" => \A i \in DOMAIN c.slots : IsNull(c, i) \/ c.slots[i] + 1 \in DOMAIN c.uniques

Cell(c, i) == IF c.dtype = "str" THEN c.uniques[c.slots[i] + 1] ELSE c.slots[i]

\* write_parquet_bytes: one group of rows, a column optional when it has a null.
Parquet(columns) ==
    [k \in DOMAIN columns |->
        LET c == columns[k] IN
        [dtype |-> c.dtype, nullable |-> Nulls(c) # <<>>,
         cells |-> [i \in DOMAIN c.slots |-> IF IsNull(c, i) THEN Null ELSE Is(Cell(c, i))]]]
-----------------------------------------------------------------------------
\* CSV.

Digits == [n \in Numbers |-> <<ToString(n)>>]
IsInt(t) == t # <<>> /\ \A i \in DOMAIN t : \E n \in Numbers : t[i] = ToString(n)
Digit(ch) == CHOOSE n \in Numbers : ToString(n) = ch
Whole(t) == FoldLeft(LAMBDA v, ch : 10 * v + Digit(ch), 0, t)
IsNum(t) == IsInt(t) \/ (Len(t) > 2 /\ IsInt(SubSeq(t, 1, Len(t) - 2)) /\ SubSeq(t, Len(t) - 1, Len(t)) = <<".", "0">>)
Parsed(t, dtype) == IF dtype = "f64" /\ ~IsInt(t) THEN Whole(SubSeq(t, 1, Len(t) - 2)) ELSE Whole(t)

Special == {",", "q", "n"}
Quote(t) ==
    IF \E i \in DOMAIN t : t[i] \in Special
    THEN <<"q">> \o FlattenSeq([i \in DOMAIN t |-> IF t[i] = "q" THEN <<"q", "q">> ELSE <<t[i]>>]) \o <<"q">>
    ELSE t

\* write_csv_text: a null is an empty field, an f64 has its point.
Field(c, i) ==
    IF IsNull(c, i) THEN <<>>
    ELSE IF c.dtype = "str" THEN Quote(Cell(c, i))
    ELSE IF c.dtype = "i64" THEN Digits[c.slots[i]] ELSE Digits[c.slots[i]] \o <<".", "0">>

Joined(fields) == FoldLeft(LAMBDA line, f : line \o <<",">> \o f, fields[1], Tail(fields)) \o <<"n">>
Names(columns) == [k \in DOMAIN columns |-> <<"c", ToString(k)>>]
Csv(columns, header) ==
    (IF header THEN Joined(Names(columns)) ELSE <<>>) \o
    FlattenSeq([i \in DOMAIN columns[1].slots |-> Joined([k \in DOMAIN columns |-> Field(columns[k], i)])])

\* The lines of a text that are not empty.
Lines(text) ==
    LET step(s, ch) == IF ch = "n" THEN [done |-> Append(s.done, s.cur), cur |-> <<>>] ELSE [s EXCEPT !.cur = Append(@, ch)]
        s == FoldLeft(step, [done |-> <<>>, cur |-> <<>>], text)
    IN  SelectSeq(Append(s.done, s.cur), LAMBDA l : l # <<>>)

\* split_csv: two quotes inside a quoted field are one; the second is passed over.
SplitCsv(line) ==
    LET step(s, i) ==
            IF s.skip THEN [s EXCEPT !.skip = FALSE]
            ELSE CASE line[i] = "q" /\ s.quoted /\ i < Len(line) /\ line[i + 1] = "q" ->
                          [s EXCEPT !.field = Append(@, "q"), !.skip = TRUE]
                   [] line[i] = "q" /\ ~(s.quoted /\ i < Len(line) /\ line[i + 1] = "q") -> [s EXCEPT !.quoted = ~@]
                   [] line[i] = "," /\ ~s.quoted -> [s EXCEPT !.out = Append(@, s.field), !.field = <<>>]
                   [] OTHER -> [s EXCEPT !.field = Append(@, line[i])]
        s == FoldLeft(step, [out |-> <<>>, field |-> <<>>, quoted |-> FALSE, skip |-> FALSE], [i \in DOMAIN line |-> i])
    IN  Append(s.out, s.field)

Infer(cells) ==
    LET seen == {cells[i] : i \in {j \in DOMAIN cells : cells[j] # <<>>}} IN
    IF seen = {} \/ \E t \in seen : ~IsNum(t) THEN "str" ELSE IF \A t \in seen : IsInt(t) THEN "i64" ELSE "f64"

\* csv_column: an empty field is a null; refused when a field is no number.
CsvBad(cells, dtype) ==
    \E i \in DOMAIN cells : cells[i] # <<>> /\ ((dtype = "i64" /\ ~IsInt(cells[i])) \/ (dtype = "f64" /\ ~IsNum(cells[i])))
CsvColumn(cells, dtype) ==
    LET uniques == IF dtype = "str" THEN FoldLeft(Interned, <<>>, SelectSeq(cells, LAMBDA t : t # <<>>)) ELSE <<>> IN
    Column(dtype,
           [i \in DOMAIN cells |-> IF cells[i] = <<>> THEN NullFill(dtype)
                                   ELSE IF dtype = "str" THEN Code(uniques, cells[i]) ELSE Parsed(cells[i], dtype)],
           uniques, Mask(dtype, [i \in DOMAIN cells |-> IF cells[i] = <<>> THEN 1 ELSE 0]))

\* read_csv_text and read_csv_rows: a row short of fields has empty ones,
\* and fields past the names are dropped.  hints is a dtype for each column, or none.
ReadCsvText(text, hints, header) ==
    LET lines == Lines(text)
        rows  == IF header /\ lines # <<>> THEN Tail(lines) ELSE lines
        width == IF lines = <<>> THEN 0 ELSE Len(SplitCsv(lines[1]))
        cells(k) == [i \in DOMAIN rows |-> LET f == SplitCsv(rows[i]) IN IF k \in DOMAIN f THEN f[k] ELSE <<>>]
        dtype(k) == IF k \in DOMAIN hints THEN hints[k] ELSE Infer(cells(k))
    IN  IF \E k \in 1..width : CsvBad(cells(k), dtype(k)) THEN [refused |-> TRUE]
        ELSE [refused |-> FALSE, rows |-> Len(rows), columns |-> [k \in 1..width |-> CsvColumn(cells(k), dtype(k))]]
-----------------------------------------------------------------------------
\* The guest makes up a table, column by column and row by row.

Init == data = [pc |-> "table", columns |-> <<>>]

AddColumn ==
    /\ data.pc = "table" /\ Len(data.columns) < MaxCols
    /\ \A k \in DOMAIN data.columns : data.columns[k].slots = <<>>
    /\ \E dtype \in {"f64", "i64", "str"} : data' = [data EXCEPT !.columns = Append(@, Column(dtype, <<>>, <<>>, <<>>))]

\* A cell at the end of a column; a text's mask covers every row once one is null.
Grown(c, cell) ==
    LET null == cell = Null
        u    == IF c.dtype = "str" /\ ~null THEN Interned(c.uniques, cell[1]) ELSE c.uniques
        slot == IF null THEN NullFill(c.dtype) ELSE IF c.dtype = "str" THEN Code(u, cell[1]) ELSE cell[1]
        mask == IF c.valid = <<>> THEN [i \in DOMAIN c.slots |-> 1] ELSE c.valid
    IN  Column(c.dtype, Append(c.slots, slot), u,
               IF c.dtype = "f64" \/ (~null /\ c.valid = <<>>) THEN <<>> ELSE Append(mask, IF null THEN 0 ELSE 1))

\* Cells go row by row: the next column is the first that is a row short.
Short(columns) == {k \in DOMAIN columns : \A j \in DOMAIN columns : Len(columns[k].slots) <= Len(columns[j].slots)}
AddCell ==
    /\ data.pc = "table" /\ data.columns # <<>>
    /\ LET k == CHOOSE i \in Short(data.columns) : \A j \in Short(data.columns) : i <= j
           c == data.columns[k]
       IN  /\ Len(c.slots) < MaxRows
           /\ \E cell \in {Null} \cup {Is(v) : v \in IF c.dtype = "str" THEN Texts ELSE Numbers} :
                 data' = [data EXCEPT !.columns[k] = Grown(c, cell)]

\* data/write_parquet and data/write_csv; the file of another writer has
\* its rows in groups of any size, some empty (external).
Write ==
    /\ data.pc = "table" /\ data.columns # <<>> /\ Writable(data.columns)
    /\ \/ /\ "parquet" \in Formats
          /\ LET n == Len(data.columns[1].slots) IN
             \E cut \in 0..n : data' = [data EXCEPT !.pc = "parquet"] @@ [file |-> Parquet(data.columns), groups |-> <<cut, 0, n - cut>>]
       \/ /\ "csv" \in Formats
          /\ \E header \in BOOLEAN : data' = [data EXCEPT !.pc = "csv"] @@ [text |-> Csv(data.columns, header), header |-> header]

WriteRefused == data.pc = "table" /\ data.columns # <<>> /\ ~Writable(data.columns) /\ data' = [data EXCEPT !.pc = "refused"]

\* data/read_csv, with the dtypes named or left to be inferred.
Hints == [k \in DOMAIN data.columns |-> data.columns[k].dtype]
ReadCsv ==
    /\ data.pc = "csv"
    /\ \E hints \in {Hints, <<>>} :
          LET r == ReadCsvText(data.text, hints, data.header) IN
          data' = IF r.refused THEN [data EXCEPT !.pc = "refused"]
                  ELSE [data EXCEPT !.pc = "read"] @@ [rows |-> r.rows, out |-> r.columns, hinted |-> hints # <<>>]

\* data/read_parquet: the range clamped to the file's rows, then each column
\* over the groups that the range touches.
Least(a, b) == IF a < b THEN a ELSE b
Most(a, b)  == IF a > b THEN a ELSE b
Total == Len(data.file[1].cells)
Clamped(start, len) == [start |-> Least(start, Total), take |-> Least(len, Total - Least(start, Total))]

ReadParquet ==
    /\ data.pc = "parquet"
    /\ \E start \in 0..Total + 1, len \in 0..Total + 1 :
          data' = [data EXCEPT !.pc = "group"] @@
                  [range |-> Clamped(start, len), col |-> 1, group |-> 1, row |-> 0, at |-> 0, want |-> 0,
                   acc |-> Accumulator, out |-> <<>>]

NextGroup ==
    /\ data.pc = "group" /\ data.group <= Len(data.groups)
    /\ LET r == data.range
           end == data.row + data.groups[data.group]
       IN  IF end <= r.start \/ data.row >= r.start + r.take THEN data' = [data EXCEPT !.group = @ + 1, !.row = end]
           ELSE data' = [data EXCEPT !.pc = "batch", !.at = data.row + Most(0, r.start - data.row),
                                     !.want = Least(r.start + r.take, end) - Most(data.row, r.start)]

\* read_records answers with what the page has left, at least a row of it.
Batch ==
    /\ data.pc = "batch" /\ data.want > 0
    /\ LET c == data.file[data.col] IN
       \E n \in 1..data.want :
          data' = [data EXCEPT !.acc = Consume(@, c.dtype, c.nullable, SubSeq(c.cells, data.at + 1, data.at + n)),
                               !.at = @ + n, !.want = @ - n]
GroupRead ==
    /\ data.pc = "batch" /\ data.want = 0
    /\ data' = [data EXCEPT !.pc = "group", !.row = @ + data.groups[data.group], !.group = @ + 1]

ColumnRead ==
    /\ data.pc = "group" /\ data.group > Len(data.groups)
    /\ LET out == Append(data.out, Finished(data.acc, data.file[data.col].dtype)) IN
       data' = IF data.col = Len(data.file) THEN [data EXCEPT !.pc = "read", !.out = out]
               ELSE [data EXCEPT !.out = out, !.col = @ + 1, !.group = 1, !.row = 0, !.acc = Accumulator]

Next == \/ AddColumn \/ AddCell \/ Write \/ WriteRefused \/ ReadCsv
        \/ ReadParquet \/ NextGroup \/ Batch \/ GroupRead \/ ColumnRead

Spec == Init /\ [][Next]_data
-----------------------------------------------------------------------------
TypeOK == data.pc \in {"table", "parquet", "csv", "group", "batch", "read", "refused"}

IsParquet == "file" \in DOMAIN data

\* A range of a parquet file is those rows of the table that was written,
\* nulls in their places, whatever groups and pages hold them: each column
\* has a slot for every row, and a mask for every row or none
\* (read_parquet_bytes, Accumulator).
RangeExact ==
    data.pc = "read" /\ IsParquet =>
        /\ Len(data.out) = Len(data.columns)
        /\ \A k \in DOMAIN data.out :
              /\ Len(data.out[k].slots) = data.range.take /\ Len(data.out[k].valid) \in {0, data.range.take}
              /\ Means(data.out[k]) = SubSeq(Means(data.columns[k]), data.range.start + 1, data.range.start + data.range.take)

\* A table whose texts are neither empty nor of several lines, and whose
\* rows are not all empty, is read from CSV as it was written, when its
\* dtypes are named (write_csv_text, quote, split_csv, csv_column).
Says(c, i) == ~IsNull(c, i)
Plain(columns) ==
    /\ \A k \in DOMAIN columns : \A u \in ToSet(columns[k].uniques) : u # <<>> /\ "n" \notin ToSet(u)
    /\ \A i \in DOMAIN columns[1].slots : Len(columns) > 1 \/ Says(columns[1], i)
    /\ columns[1].slots # <<>>
CsvExact ==
    data.pc = "read" /\ ~IsParquet /\ Plain(data.columns) =>
        /\ data.rows = Len(data.columns[1].slots) /\ Len(data.out) = Len(data.columns)
        /\ data.hinted => \A k \in DOMAIN data.out : Means(data.out[k]) = Means(data.columns[k])

\* "An empty field: the only thing a CSV can say for a null, and what
\* `read_csv` reads back as one" (write_csv_text): a row of a table of
\* numbers comes back, null or not.
NullReadBack ==
    data.pc = "read" /\ ~IsParquet /\ data.hinted /\ (\A k \in DOMAIN data.columns : data.columns[k].dtype # "str") =>
        data.rows = Len(data.columns[1].slots)
=============================================================================
