--------------------------- MODULE ImageProcessor ---------------------------
(***************************************************************************)
(* image_processor: the parser makes filters of the arguments, the image is   *)
(* read, every filter is applied to it in turn, and it is written.  Of an    *)
(* image the model keeps the shape: what the headers say and how long every   *)
(* row of pixels and of the shared buffer really is.                         *)
(***************************************************************************)
EXTENDS Integers, Sequences, SequencesExt, BmpFile

CONSTANTS Options,     \* what a user writes for one filter, right or wrong: a
                       \* sequence of words
          MaxOptions,  \* bound: how many of them
          Sizes,       \* the heights and widths of input images
          IntOf,       \* the words IsInteger accepts, with their values
          TenthsOf     \* the words IsFloat accepts, with ten times their values

ASSUME SizesAssumption == Sizes \subseteq Nat \ {0} /\ MaxOptions \in Nat
ASSUME WordsAssumption ==
  /\ \A word \in DOMAIN IntOf : IntOf[word] \in Nat
  /\ \A word \in DOMAIN TenthsOf : TenthsOf[word] \in Nat

VARIABLES
  options,   \* history: the arguments after the two paths, option by option
  original,  \* history: the height and the width of the input
  input,     \* the input file: "missing", "bad", a BMP that is "good", or one
             \* whose pixels are cut "short"; or "no path" or "one path" is given
  cur_arg,   \* how many words the parser has read
  filters,   \* filters_ of the parser
  phase,     \* "help", "parse", "read", "apply", "write", "done" or the exception thrown
  applied,   \* how many filters have been applied
  height, width,  \* fields of InfoHeader
  pixels, buffer, \* the lengths of their rows
  output     \* the bytes of pixels in the output file, or <<>>

shapeVars == <<height, width, pixels, buffer>>
vars == <<options, original, input, cur_arg, filters, phase, applied, shapeVars, output>>

argv == FlattenSeq(options)
Flags == {"-crop", "-gs", "-neg", "-sharp", "-edge", "-blur", "-tunnel", "-other"}
Uniform(rows, length) == [i \in 1..rows |-> length]

\* Without arguments the program shows its help and exits; with one path only,
\* or when the first is none of a file, the parser throws.
Inputs == {"no path", "one path", "missing", "bad", "good", "short"}
Refused == {"one path", "missing"}

Init ==
  /\ input \in Inputs /\ options \in BoundedSeq(Options, MaxOptions)
  /\ input \in {"no path", "one path"} => options = <<>>
  /\ cur_arg = 0 /\ filters = <<>> /\ applied = 0
  /\ phase = CASE input = "no path" -> "help" [] input \in Refused -> "ParserException"
               [] OTHER -> "parse"
  /\ original \in Sizes \X Sizes /\ height = original[1] /\ width = original[2]
  /\ pixels = <<>> /\ buffer = <<>> /\ output = <<>>

Throw(exception) == phase' = exception

-----------------------------------------------------------------------------
\* Parser::Parse and the fabrics.  The operators whose names end in Bug are
\* mistakes the code could have made in the definition that follows them; no
\* specification uses them.

Arity(flag) == CASE flag = "-crop" -> 2
                 [] flag \in {"-edge", "-blur"} -> 1
                 [] flag = "-tunnel" -> 4
                 [] OTHER -> 0

\* An option is a flag, its arguments, and perhaps words that are none and no
\* flag either, since a flag begins the next option.  A number has digits only,
\* so a word that begins with '-' is none.
ASSUME OptionsAssumption ==
  /\ \A option \in Options :
       /\ option \in Seq(STRING) /\ option # <<>> /\ option[1] \in Flags
       /\ \A i \in Arity(option[1]) + 2..Len(option) : option[i] \notin Flags
  /\ Flags \cap (DOMAIN IntOf \cup DOMAIN TenthsOf) = {}

IsInteger(word) == word \in DOMAIN IntOf
IsFloat(word) == word \in DOMAIN TenthsOf
IsNotNull(word) == IntOf[word] # 0

\* What the fabric of a flag accepts.
Accepts(flag, args) ==
  CASE flag = "-crop" -> \A i \in 1..2 : IsInteger(args[i]) /\ IsNotNull(args[i])
    [] flag \in {"-edge", "-blur"} -> IsFloat(args[1])
    [] flag = "-tunnel" -> /\ \A i \in 1..2 : IsInteger(args[i])
                           /\ \A i \in 3..4 : IsFloat(args[i])
    [] OTHER -> TRUE

\* Crop keeps its parameters in an int16_t.
Int32Bug(n) == n
Int16(n) == ((n + 32768) % 65536) - 32768

\* a and b: width_ and height_ of a Crop, center_h_ and center_w_ of a Tunnel;
\* a: sigma_ of a GaussianBlur, in tenths.
Make(flag, args) ==
  LET of(a, b) == [op |-> flag, a |-> a, b |-> b] IN
  CASE flag = "-crop" -> of(Int16(IntOf[args[1]]), Int16(IntOf[args[2]]))
    [] flag = "-blur" -> of(TenthsOf[args[1]], 0)
    [] flag = "-tunnel" -> of(IntOf[args[1]], IntOf[args[2]])
    [] OTHER -> of(0, 0)

\* A flag the parser does not know is skipped.
Skipped(flag) == flag = "-other"

Enough(flag) == cur_arg + 1 + Arity(flag) <= Len(argv)

\* How far the parser goes on: the flag and its arguments.
StepBug(flag) == IF flag = "-tunnel" THEN 4 ELSE 1 + Arity(flag)
Step(flag) == 1 + Arity(flag)

ParseOption ==
  /\ phase = "parse" /\ cur_arg < Len(argv)
  /\ LET flag == argv[cur_arg + 1]
         args == SubSeq(argv, cur_arg + 2, cur_arg + 1 + Arity(flag))
     IN IF flag \in Flags /\ Enough(flag) /\ Accepts(flag, args)
        THEN /\ filters' = IF Skipped(flag) THEN filters
                           ELSE Append(filters, Make(flag, args))
             /\ cur_arg' = cur_arg + Step(flag)
             /\ UNCHANGED phase
        ELSE Throw("ParserException") /\ UNCHANGED <<filters, cur_arg>>
  /\ UNCHANGED <<options, original, input, applied, shapeVars, output>>

EndParse ==
  /\ phase = "parse" /\ cur_arg = Len(argv)
  /\ phase' = "read"
  /\ UNCHANGED <<options, original, input, cur_arg, filters, applied, shapeVars, output>>

-----------------------------------------------------------------------------
\* ImageReader::ReadFile

ReadFile ==
  /\ phase = "read" /\ input \in {"good", "short"}
  /\ pixels' = Uniform(height, width) /\ buffer' = Uniform(height, width)
  /\ phase' = "apply"
  /\ UNCHANGED <<options, original, input, cur_arg, filters, applied, height, width, output>>

ReadFails ==
  /\ phase = "read" /\ input = "bad"
  /\ Throw("ReadImageException")
  /\ UNCHANGED <<options, original, input, cur_arg, filters, applied, shapeVars, output>>

-----------------------------------------------------------------------------
\* The filters

NextIs(op) == phase = "apply" /\ applied < Len(filters) /\ filters[applied + 1].op \in op
Filter == filters[applied + 1]
Applied == /\ applied' = applied + 1
           /\ UNCHANGED <<options, original, input, cur_arg, filters, phase, output>>
FilterThrows == /\ Throw("ApplyFilterException")
                /\ UNCHANGED <<options, original, input, cur_arg, filters, applied, shapeVars, output>>

\* height_ and width_ are compared as unsigned: a negative one is not smaller.
Smaller(n, size) == 0 <= n /\ n < size
Cut(rows, h, w) ==
  LET kept == IF Smaller(h, height) THEN SubSeq(rows, 1, h) ELSE rows
  IN IF Smaller(w, width) THEN Uniform(Len(kept), w) ELSE kept

ApplyCrop ==
  LET w == Filter.a  h == Filter.b IN
  /\ NextIs({"-crop"})
  /\ pixels' = Cut(pixels, h, w)
  /\ buffer' = Cut(buffer, h, w)
  /\ height' = IF Smaller(h, height) THEN h ELSE height
  /\ width' = IF Smaller(w, width) THEN w ELSE width
  /\ Applied

ApplyPixelwise == NextIs({"-gs", "-neg"}) /\ Applied /\ UNCHANGED shapeVars

\* Sharpening and EdgeDetection: one Multiply, which swaps pixels and buffer.
ApplyMatrix ==
  /\ NextIs({"-sharp", "-edge"})
  /\ pixels' = buffer /\ buffer' = pixels
  /\ Applied /\ UNCHANGED <<height, width>>

\* Two Multiplies, with a row and with a column.
ApplyBlur == NextIs({"-blur"}) /\ Filter.a # 0 /\ Applied /\ UNCHANGED shapeVars
BlurThrows == NextIs({"-blur"}) /\ Filter.a = 0 /\ FilterThrows

\* A centre of 0 is the middle of the image.
Centre(c, size) == IF c # 0 THEN c ELSE size \div 2
UncheckedBug == TRUE
CentreInside == Centre(Filter.a, height) < height /\ Centre(Filter.b, width) < width

\* The rotated image is built in a local buffer of the image's size.
ApplyTunnel ==
  /\ NextIs({"-tunnel"}) /\ CentreInside
  /\ pixels' = Uniform(height, width)
  /\ Applied /\ UNCHANGED <<height, width, buffer>>
TunnelThrows == NextIs({"-tunnel"}) /\ ~CentreInside /\ FilterThrows

EndApply ==
  /\ phase = "apply" /\ applied = Len(filters)
  /\ phase' = "write"
  /\ UNCHANGED <<options, original, input, cur_arg, filters, applied, shapeVars, output>>

\* The model does not follow colours through the filters: the three of a pixel
\* written are known by its place.  An ofstream throws nothing: after a write that
\* fails all later ones do nothing, and the program ends as if the file were whole.
Colours == [row \in 0..height - 1 |-> [col \in 0..width - 1 |-> [k \in 1..3 |-> <<row, col, k>>]]]

WriteFile ==
  /\ phase = "write" /\ phase' = "done"
  /\ LET whole == WritePixels(Colours, height, width)
     IN \E n \in 0..Len(whole) : output' = SubSeq(whole, 1, n)
  /\ UNCHANGED <<options, original, input, cur_arg, filters, applied, shapeVars>>

WriteFails ==
  /\ phase = "write"
  /\ Throw("WriteImageException")
  /\ UNCHANGED <<options, original, input, cur_arg, filters, applied, shapeVars, output>>

Next == \/ ParseOption \/ EndParse \/ ReadFile \/ ReadFails
        \/ ApplyCrop \/ ApplyPixelwise \/ ApplyMatrix \/ ApplyBlur \/ BlurThrows
        \/ ApplyTunnel \/ TunnelThrows \/ EndApply \/ WriteFile \/ WriteFails

Spec == Init /\ [][Next]_vars

-----------------------------------------------------------------------------
\* Image::Multiply: the pixel that the matrix meets at distance d_row, d_col

AnywhereBug(c_row, c_col, rows, cols) == TRUE
InSquare(c_row, c_col, rows, cols) == c_row \in 0..rows - 1 /\ c_col \in 0..cols - 1

\* What lies before the first row or column is mirrored; what lies behind the
\* last one gets a negative index, and the pixel itself is taken.
Mirrored(c, size) ==
  LET positive == IF c < 0 THEN -c ELSE c
  IN IF size <= positive THEN size - 1 - positive ELSE positive
Source(row, col, d_row, d_col) ==
  LET c_row == Mirrored(row + d_row, height)
      c_col == Mirrored(col + d_col, width)
  IN IF InSquare(c_row, c_col, height, width) THEN <<c_row, c_col>> ELSE <<row, col>>

\* How far the matrices of a filter reach: half their rows, half their columns.
BlurSize(tenths) == LET size == (tenths * 4) \div 10 IN IF size % 2 = 0 THEN size + 1 ELSE size
Reach(filter) ==
  CASE filter.op \in {"-sharp", "-edge"} -> {<<1, 1>>}
    [] filter.op = "-blur" /\ filter.a # 0 ->
         LET mid == BlurSize(filter.a) \div 2 IN {<<0, mid>>, <<mid, 0>>}
    [] OTHER -> {}

-----------------------------------------------------------------------------
\* Properties

Exceptions == {"ParserException", "ReadImageException", "ApplyFilterException",
               "WriteImageException"}

\* The numbers of an int16_t.
Int16s == {n \in Int : -32768 <= n /\ n <= 32767}

\* Type correctness of the parser's result and of the image.
TypeOK ==
  /\ options \in Seq(Options) /\ original \in Sizes \X Sizes
  /\ input \in Inputs /\ cur_arg \in 0..Len(argv)
  /\ phase \in {"help", "parse", "read", "apply", "write", "done"} \cup Exceptions
  /\ \A i \in 1..Len(filters) :
       /\ filters[i].op \in Flags \ {"-other"} /\ {filters[i].a, filters[i].b} \subseteq Int
       /\ filters[i].op = "-crop" => {filters[i].a, filters[i].b} \subseteq Int16s
  /\ applied \in 0..Len(filters)
  /\ height \in Nat /\ width \in Nat
  /\ pixels \in Seq(Nat) /\ buffer \in Seq(Nat)

\* The parser accepts the arguments exactly if the paths are right and each option
\* alone is, as the stress test of test.cpp expects, and makes their filters in their order,
\* although it reads one flat list of words.
WellFormed(option) ==
  /\ option[1] \in Flags /\ Len(option) = 1 + Arity(option[1])
  /\ Accepts(option[1], Tail(option))
FiltersOf(option) ==
  IF Skipped(option[1]) THEN <<>> ELSE <<Make(option[1], Tail(option))>>
ParseIsExact ==
  phase # "parse" =>
    IF input \notin Refused /\ \A i \in 1..Len(options) : WellFormed(options[i])
    THEN phase # "ParserException" /\ filters = FlattenSeq([i \in 1..Len(options) |-> FiltersOf(options[i])])
    ELSE phase = "ParserException"

\* Whatever was cropped, swapped or rotated before, and at every border, no
\* filter and no writer goes beyond the rows that pixels and buffer really have.
Has(rows, place) == place[1] \in 0..Len(rows) - 1 /\ place[2] \in 0..rows[place[1] + 1] - 1
Met(mid) == {Source(row, col, d_row, d_col) :
               row \in 0..height - 1, col \in 0..width - 1,
               d_row \in -mid[1]..mid[1], d_col \in -mid[2]..mid[2]}
Touched == ((0..height - 1) \X (0..width - 1)) \cup
  IF phase = "write" \/ applied = Len(filters) THEN {} ELSE UNION {Met(mid) : mid \in Reach(Filter)}
AccessesInBounds ==
  phase \in {"apply", "write"} =>
    \A place \in Touched : Has(pixels, place) /\ Has(buffer, place)

\* Filters apply one after the other: each throws or not according to the image
\* that those before it left, and the one written has the least height and width
\* that the input or a crop has.
Crops(k) == {i \in 1..k : filters[i].op = "-crop"}
HeightAfter(k) == Min({original[1]} \cup ({filters[i].b : i \in Crops(k)} \cap Nat))
WidthAfter(k) == Min({original[2]} \cup ({filters[i].a : i \in Crops(k)} \cap Nat))
Throws(k) == LET f == filters[k] IN
  \/ f.op = "-blur" /\ f.a = 0
  \/ f.op = "-tunnel" /\ \/ HeightAfter(k) <= Centre(f.a, HeightAfter(k))
                         \/ WidthAfter(k) <= Centre(f.b, WidthAfter(k))
SequentialFilters ==
  /\ phase \in {"apply", "write", "done"} =>
       /\ height = HeightAfter(applied) /\ width = WidthAfter(applied)
       /\ \A k \in 1..applied : ~Throws(k)
  /\ phase = "ApplyFilterException" => Throws(applied + 1)

\* In the BMP that is read and in the one that is written, whatever size crops
\* have left, every pixel is where the format has it: rows from the lowest up,
\* each beginning at a multiple of four bytes, blue first.  A file cut short
\* gives pixels of lower rows or black ones, in their own column; one whose writing
\* failed half-way holds the beginning of what it should.
Place(row, col, h, w) == (h - 1 - row) * 4 * ((3 * w + 3) \div 4) + 3 * col
InputBytes == LET n == original[1] * Line(original[2])
              IN [i \in 1..(IF input = "short" THEN n \div 2 ELSE n) |-> i]
ReadIsExact ==
  LET h == original[1]  w == original[2]  read == ReadPixels(InputBytes, h, w) IN
  \A row \in 0..h - 1, col \in 0..w - 1, k \in 1..3 :
    read[row][col][k] \in IF input = "good" THEN {Place(row, col, h, w) + 4 - k}
                          ELSE {0} \cup {Place(r, col, h, w) + 4 - k : r \in row..h - 1}
WriteIsExact ==
  /\ Len(output) <= height * 4 * ((3 * width + 3) \div 4)
  /\ \A row \in 0..height - 1, col \in 0..width - 1, k \in 1..3 :
       LET n == Place(row, col, height, width) + 4 - k
       IN n <= Len(output) => output[n] = <<row, col, k>>
PixelsInPlace ==
  /\ phase = "apply" /\ applied = 0 => ReadIsExact
  /\ phase = "done" => WriteIsExact
=============================================================================
