------------------------------- MODULE BmpFile -------------------------------
(***************************************************************************)
(* image_processor/src/io.cpp: the pixels of a BMP file, as the bytes that  *)
(* follow its headers.  Rows and columns are counted from 0 and a pixel is   *)
(* <<red, green, blue>>.  A byte becomes a double between 0 and 1 and the     *)
(* same byte again, which holds for each of the 256.                         *)
(***************************************************************************)
EXTENDS Integers, Sequences, FiniteSetsExt

\* The operators whose names end in Bug are mistakes the code could have made in
\* the definition that follows them; no specification uses them.

NoModuloBug(line_size) == 4 - (line_size % 4)
padding(line_size) == (4 - (line_size % 4)) % 4
Line(width) == 3 * width + padding(3 * width)

TopDownBug(row, height) == row
real_row(row, height) == height - row - 1

\* ifstream throws nothing: a read beyond the end of the file fills a part of
\* the line or none of it, the rest of it being that of the row before, and all
\* later reads do nothing.
ReadPixels(bytes, height, width) ==
  LET RowOf(row, i) == {r \in 0..row : r * Line(width) + i <= Len(bytes)}
      Byte(row, i) == IF RowOf(row, i) = {} THEN 0 ELSE bytes[Max(RowOf(row, i)) * Line(width) + i]
  IN [row \in 0..height - 1 |-> [col \in 0..width - 1 |->
        [k \in 1..3 |-> Byte(real_row(row, height), 3 * col + 4 - k)]]]

WritePixels(pixels, height, width) ==
  [n \in 1..height * Line(width) |->
     LET row == (n - 1) \div Line(width)
         offset == (n - 1) % Line(width)
     IN IF offset < 3 * width
        THEN pixels[real_row(row, height)][offset \div 3][3 - (offset % 3)] ELSE 0]
=============================================================================
