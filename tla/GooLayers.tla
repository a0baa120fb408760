------------------------------ MODULE GooLayers ------------------------------
(***************************************************************************)
(* packages/goo/src/layers.ts: where the layers of a print file are, and   *)
(* one layer decoded and scaled down in a single pass over its runs.       *)
(* Bytes are numbers; an image is a function of row and column.            *)
(***************************************************************************)
EXTENDS Integers, Sequences

CONSTANT Refused   \* what is thrown: LayerDecodeError

DefinitionBytes == 66

(* The smallest whole number no less than n / d. *)
Ceil(n, d) == (n + d - 1) \div d

(* Math.round(n / d) *)
Round(n, d) == (2 * n + d) \div (2 * d)

Least(a, b) == IF a < b THEN a ELSE b
Most(a, b) == IF a > b THEN a ELSE b

-----------------------------------------------------------------------------
(* indexLayers, of a file whose layers' data have these sizes and which    *)
(* ends after so many bytes: the offsets of the data.  The definition of a *)
(* layer that is misplaced does not end where it should.                   *)
NextLayer(s, size, placed, length) ==
  LET data == s.offset + DefinitionBytes + 4 IN
  IF ~s.ok \/ data > length \/ ~placed THEN [s EXCEPT !.ok = FALSE]
  ELSE [s EXCEPT !.refs = Append(@, data), !.offset = data + size + 2]

Indexed(sizes, misplaced, offset, length) ==
  LET Layers[n \in 0..Len(sizes)] ==
        IF n = 0 THEN [ok |-> TRUE, offset |-> offset, refs |-> <<>>]
        ELSE NextLayer(Layers[n - 1], sizes[n], n \notin misplaced, length)
      all == Layers[Len(sizes)]
  IN IF all.ok THEN all.refs ELSE Refused

-----------------------------------------------------------------------------
(* Faulty variants, used to check that the properties notice them.         *)
(* OverlapOfCell: a run that ends inside a cell fills it.                  *)
OverlapOfCell(col, last, cx, scale) == (cx + 1) * scale - Most(cx * scale, col)

-----------------------------------------------------------------------------
(* paint: the run, cut at the ends of rows, is added to the cells it       *)
(* overlaps.                                                               *)
Overlap(col, last, cx, scale) == Least((cx + 1) * scale, last) - Most(cx * scale, col)

Touched(cell, row, col, last, scale) ==
  cell[1] = row \div scale /\ cell[2] \in (col \div scale)..(Ceil(last, scale) - 1)

Segment(s, colour, width, scale) ==
  LET row == s.pixel \div width
      col == s.pixel % width
      segment == Least(s.left, width - col)
      last == col + segment
  IN IF s.left = 0 THEN s
     ELSE [acc |-> [cell \in DOMAIN s.acc |->
                      IF Touched(cell, row, col, last, scale)
                      THEN s.acc[cell] + Overlap(col, last, cell[2], scale) * colour
                      ELSE s.acc[cell]],
           pixel |-> s.pixel + segment, left |-> s.left - segment]

Painted(acc, pixel, length, colour, width, scale) ==
  LET Segments[n \in 0..length] ==
        IF n = 0 THEN [acc |-> acc, pixel |-> pixel, left |-> length]
        ELSE Segment(Segments[n - 1], colour, width, scale)
  IN Segments[length].acc

(* One run, read at i: its length, its value, and where the next begins.   *)
Byte(data, i) == IF i <= Len(data) THEN data[i] ELSE 0

RunAt(data, i, value) ==
  LET b == data[i]
      type == b \div 64
      extra == (b \div 16) % 4
      low == b % 16
      first == IF type = 1 THEN i + 1 ELSE i
      High[k \in 0..extra] == IF k = 0 THEN 0 ELSE High[k - 1] * 256 + Byte(data, first + k)
  IN IF type = 2
     THEN [length |-> IF extra % 2 = 1 THEN Byte(data, i + 1) ELSE 1,
           value |-> IF extra < 2 THEN value + low ELSE value - low,
           next |-> i + 1 + (extra % 2)]
     ELSE [length |-> High[extra] * 16 + low,
           value |-> CASE type = 0 -> 0 [] type = 3 -> 255 [] type = 1 -> Byte(data, i + 1),
           next |-> first + extra + 1]

Cells(o) == (0..(Ceil(o.height, o.scale) - 1)) \X (0..(Ceil(o.width, o.scale) - 1))

(* The loop over the runs, which end before the checksum; each takes a     *)
(* byte at least.                                                          *)
NextRun(s, data, o) ==
  LET run == RunAt(data, s.i, s.value)
      colour == Most(0, Least(255, run.value))
      after == s.pixel + run.length
  IN IF ~s.ok \/ s.i >= Len(data) THEN s
     ELSE IF after > o.width * o.height THEN [s EXCEPT !.ok = FALSE]
     ELSE [s EXCEPT !.i = run.next, !.value = run.value, !.pixel = after,
                    !.acc = IF colour = 0 THEN @
                            ELSE Painted(@, s.pixel, run.length, colour, o.width, o.scale)]

Runs(data, o) ==
  LET Turns[n \in 0..Len(data)] ==
        IF n = 0 THEN [ok |-> TRUE, i |-> 2, value |-> 0, pixel |-> 0,
                       acc |-> [cell \in Cells(o) |-> 0]]
        ELSE NextRun(Turns[n - 1], data, o)
  IN Turns[Len(data)]

(* The checksum is of what lies between the first byte and the last.       *)
Checksum(data) ==
  LET Sum[n \in 0..Len(data)] == IF n < 2 THEN 0 ELSE Sum[n - 1] + data[n]
  IN 255 - (Sum[Len(data) - 1] % 256)

(* decodeLayer *)
Source(cell, o) == IF o.mirrorX THEN <<cell[1], Ceil(o.width, o.scale) - 1 - cell[2]>> ELSE cell

Area(cell, o) ==
  Least(o.scale, o.height - cell[1] * o.scale) * Least(o.scale, o.width - cell[2] * o.scale)

DecodeLayer(data, o) ==
  LET end == Runs(data, o) IN
  IF data[1] # 85 \/ Checksum(data) # data[Len(data)] \/ ~end.ok \/ end.pixel # o.width * o.height
  THEN Refused
  ELSE [cell \in Cells(o) |-> Round(end.acc[Source(cell, o)], Area(Source(cell, o), o))]

=============================================================================
