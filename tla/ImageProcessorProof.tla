------------------------ MODULE ImageProcessorProof ------------------------
(***************************************************************************)
(* What ImageProcessor ensures for images of any size, any number of options *)
(* and any words: no filter leaves the rows of the image, each works on what  *)
(* those before it left, every pixel is read from and written to its place,   *)
(* and the parser is exact.                                                   *)
(***************************************************************************)
EXTENDS ImageProcessor, WellFoundedInduction, TLAPS

-----------------------------------------------------------------------------
\* Every pixel that the matrix meets is one of the image, however far the
\* matrix reaches: if the mirrored place is not, the pixel itself is.
LEMMA SourceInImage ==
  ASSUME NEW row \in 0..height - 1, NEW col \in 0..width - 1, NEW d_row, NEW d_col
  PROVE  Source(row, col, d_row, d_col) \in (0..height - 1) \X (0..width - 1)
<1> DEFINE c_row == Mirrored(row + d_row, height)
           c_col == Mirrored(col + d_col, width)
<1>1. CASE InSquare(c_row, c_col, height, width)
  BY <1>1, Zenon DEF Source, InSquare
<1>2. CASE ~InSquare(c_row, c_col, height, width)
  BY <1>2, Zenon DEF Source
<1> QED BY <1>1, <1>2

\* An image that is h rows of w pixels can be read at every place in them.
LEMMA UniformHas ==
  ASSUME NEW h \in Nat, NEW w \in Nat, NEW place \in (0..h - 1) \X (0..w - 1)
  PROVE  Has(Uniform(h, w), place)
BY DEF Has, Uniform

\* What a crop leaves of h rows of w pixels is uniform again.
LEMMA CutUniform ==
  ASSUME height \in Nat, width \in Nat, NEW h \in Int, NEW w \in Int
  PROVE  Cut(Uniform(height, width), h, w) =
           Uniform(IF Smaller(h, height) THEN h ELSE height,
                   IF Smaller(w, width) THEN w ELSE width)
<1> DEFINE rows == Uniform(height, width)
           rest == IF Smaller(h, height) THEN h ELSE height
           kept == IF Smaller(h, height) THEN SubSeq(rows, 1, h) ELSE rows
<1>1. rest \in Nat /\ rest <= height
  BY DEF Smaller
<1>2. kept = Uniform(rest, width)
  <2>1. CASE Smaller(h, height)
    <3>1. h \in Nat /\ h <= height
      BY <2>1 DEF Smaller
    <3>2. SubSeq(rows, 1, h) = [i \in 1..h |-> width]
      BY <3>1 DEF Uniform
    <3> QED BY <2>1, <3>2 DEF Uniform
  <2>2. CASE ~Smaller(h, height)
    BY <2>2
  <2> QED BY <2>1, <2>2
<1>3. Len(kept) = rest
  BY <1>1, <1>2 DEF Uniform
<1> QED BY <1>2, <1>3, Zenon DEF Cut

-----------------------------------------------------------------------------
\* The inductive invariant: from ReadFile on, pixels and buffer have the rows
\* and the columns that the header says.
Shaped == phase \in {"apply", "write"} =>
            pixels = Uniform(height, width) /\ buffer = Uniform(height, width)
ShapeInv == /\ filters \in Seq([op : Flags, a : Int, b : Int])
            /\ applied \in Nat
            /\ height \in Nat /\ width \in Nat
            /\ Shaped

\* What a fabric makes of words it accepts has integers for parameters.
LEMMA MakeType ==
  ASSUME NEW flag \in Flags, NEW args, Accepts(flag, args)
  PROVE  Make(flag, args) \in [op : Flags, a : Int, b : Int]
<1> DEFINE Made(a, b) == [op |-> flag, a |-> a, b |-> b]
<1>1. CASE flag = "-crop"
  <2>1. args[1] \in DOMAIN IntOf /\ args[2] \in DOMAIN IntOf
    BY <1>1 DEF Accepts, IsInteger
  <2>2. Int16(IntOf[args[1]]) \in Int /\ Int16(IntOf[args[2]]) \in Int
    BY <2>1, WordsAssumption DEF Int16
  <2>3. Make(flag, args) = Made(Int16(IntOf[args[1]]), Int16(IntOf[args[2]]))
    BY <1>1 DEF Make
  <2> QED BY <2>2, <2>3
<1>2. CASE flag = "-blur"
  <2>1. TenthsOf[args[1]] \in Int
    BY <1>2, WordsAssumption DEF Accepts, IsFloat
  <2>2. Make(flag, args) = Made(TenthsOf[args[1]], 0)
    BY <1>2 DEF Make
  <2> QED BY <2>1, <2>2
<1>3. CASE flag = "-tunnel"
  <2>1. IntOf[args[1]] \in Int /\ IntOf[args[2]] \in Int
    BY <1>3, WordsAssumption DEF Accepts, IsInteger
  <2>2. Make(flag, args) = Made(IntOf[args[1]], IntOf[args[2]])
    BY <1>3 DEF Make
  <2> QED BY <2>1, <2>2
<1>4. CASE flag \notin {"-crop", "-blur", "-tunnel"}
  <2>1. Make(flag, args) = Made(0, 0)
    BY <1>4 DEF Make
  <2> QED BY <2>1
<1> QED BY <1>1, <1>2, <1>3, <1>4

\* An element of a sequence is one of the set it is over.
LEMMA ElementOf == ASSUME NEW S, NEW s \in Seq(S), NEW i \in 1..Len(s) PROVE s[i] \in S
  OBVIOUS

\* Where the program begins.
LEMMA FirstPhase ==
  ASSUME Init
  PROVE  /\ phase \in {"help", "parse", "ParserException"}
         /\ phase = "help" => options = <<>>
         /\ phase = "ParserException" <=> input \in Refused
<1>1. CASE input = "no path"
  <2>1. options = <<>> /\ phase = "help" /\ input \notin Refused
    BY <1>1 DEF Init, Refused
  <2> QED BY <2>1
<1>2. CASE input \in Refused
  <2>1. phase = "ParserException"
    BY <1>2 DEF Init, Refused
  <2> QED BY <1>2, <2>1
<1>3. CASE input \notin Refused /\ input # "no path"
  <2>1. phase = "parse"
    BY <1>3 DEF Init
  <2> QED BY <1>3, <2>1
<1> QED BY <1>1, <1>2, <1>3

\* Before the image is read there is nothing to say of its rows.
LEMMA ShapeInit == Init => ShapeInv
<1> SUFFICES ASSUME Init PROVE ShapeInv
  OBVIOUS
<1>1. phase \notin {"apply", "write"}
  BY FirstPhase
<1>2. Shaped
  BY <1>1, Zenon DEF Shaped
<1>3. filters = <<>> /\ applied = 0 /\ height \in Nat /\ width \in Nat
  BY SizesAssumption DEF Init
<1> QED BY <1>2, <1>3 DEF ShapeInv

\* One step per action; only the parser makes filters, only the reader, the
\* crop, the matrices and the rotation change the shape.
LEMMA ShapeStep == ShapeInv /\ [Next]_vars => ShapeInv'
<1> SUFFICES ASSUME ShapeInv, [Next]_vars PROVE ShapeInv'
  OBVIOUS
<1> USE DEF ShapeInv, shapeVars
<1>1. CASE ParseOption
  <2> DEFINE flag == argv[cur_arg + 1]
             args == SubSeq(argv, cur_arg + 2, cur_arg + 1 + Arity(flag))
  <2>1. filters' \in Seq([op : Flags, a : Int, b : Int])
    <3>1. CASE filters' = filters
      BY <3>1
    <3>2. CASE filters' # filters
      <4>1. /\ flag \in Flags /\ Accepts(flag, args)
            /\ filters' = Append(filters, Make(flag, args))
        BY <1>1, <3>2, Zenon DEF ParseOption
      <4> HIDE DEF flag, args
      <4>2. Make(flag, args) \in [op : Flags, a : Int, b : Int]
        BY <4>1, MakeType
      <4> QED BY <4>1, <4>2
    <3> QED BY <3>1, <3>2
  <2>2. phase' \notin {"apply", "write"}
    BY <1>1 DEF ParseOption, Throw
  <2> QED BY <1>1, <2>1, <2>2 DEF ParseOption, Shaped
<1>2. CASE EndParse \/ ReadFails
  BY <1>2 DEF EndParse, ReadFails, Throw, Shaped
<1>3. CASE ReadFile
  BY <1>3 DEF ReadFile, Shaped
<1>4. CASE ApplyCrop
  <2>1. NextIs({"-crop"}) /\ Filter \in [op : Flags, a : Int, b : Int]
    <3>1. NextIs({"-crop"})
      BY <1>4 DEF ApplyCrop
    <3>2. applied + 1 \in 1..Len(filters)
      BY <3>1 DEF NextIs
    <3>3. filters[applied + 1] \in [op : Flags, a : Int, b : Int]
      BY <3>2, ElementOf DEF ShapeInv
    <3> QED BY <3>1, <3>3, Zenon DEF Filter
  <2>2. pixels = Uniform(height, width) /\ buffer = Uniform(height, width)
    BY <2>1 DEF NextIs, Shaped
  <2>3. /\ pixels' = Cut(pixels, Filter.b, Filter.a)
        /\ buffer' = Cut(buffer, Filter.b, Filter.a)
        /\ height' = IF Smaller(Filter.b, height) THEN Filter.b ELSE height
        /\ width' = IF Smaller(Filter.a, width) THEN Filter.a ELSE width
        /\ Applied
    BY <1>4 DEF ApplyCrop
  <2>4. height' \in Nat /\ width' \in Nat
    BY <2>1, <2>3 DEF Smaller
  <2>5. pixels' = Uniform(height', width') /\ buffer' = Uniform(height', width')
    BY <2>1, <2>2, <2>3, CutUniform
  <2> QED BY <2>3, <2>4, <2>5 DEF Applied, Shaped
<1>5. CASE ApplyPixelwise \/ ApplyBlur
  BY <1>5 DEF ApplyPixelwise, ApplyBlur, Applied, Shaped
<1>6. CASE ApplyMatrix
  BY <1>6 DEF ApplyMatrix, NextIs, Applied, Shaped
<1>7. CASE ApplyTunnel
  BY <1>7 DEF ApplyTunnel, NextIs, Applied, Shaped
<1>8. CASE BlurThrows \/ TunnelThrows
  BY <1>8 DEF BlurThrows, TunnelThrows, FilterThrows, Throw, Shaped
<1>9. CASE EndApply
  BY <1>9 DEF EndApply, Shaped
<1>10. CASE WriteFile \/ WriteFails
  BY <1>10 DEF WriteFile, WriteFails, Throw, Shaped
<1>11. CASE UNCHANGED vars
  BY <1>11 DEF vars, Shaped
<1> QED
  BY <1>1, <1>2, <1>3, <1>4, <1>5, <1>6, <1>7, <1>8, <1>9, <1>10, <1>11, Zenon DEF Next

\* Rows that are as the header says contain whatever a filter touches.
LEMMA ShapeInBounds == ShapeInv => AccessesInBounds
<1> SUFFICES ASSUME ShapeInv, phase \in {"apply", "write"}, NEW place \in Touched
             PROVE  Has(pixels, place) /\ Has(buffer, place)
  BY Zenon DEF AccessesInBounds
<1>1. place \in (0..height - 1) \X (0..width - 1)
  <2>1. ASSUME NEW mid \in Reach(Filter), place \in Met(mid)
        PROVE  place \in (0..height - 1) \X (0..width - 1)
    <3>1. PICK row \in 0..height - 1, col \in 0..width - 1,
               d_row \in -mid[1]..mid[1], d_col \in -mid[2]..mid[2] :
            place = Source(row, col, d_row, d_col)
      BY <2>1 DEF Met
    <3> QED BY <3>1, SourceInImage, Zenon
  <2> QED BY <2>1, Zenon DEF Touched
<1> QED BY <1>1, UniformHas, Zenon DEF ShapeInv, Shaped

\* Filters and writers stay within the rows of pixels and buffer: for images of
\* every size, after every sequence of filters, for matrices of every reach.
THEOREM AccessesAreInBounds == Spec => []AccessesInBounds
<1>1. Spec => []ShapeInv
  BY ShapeInit, ShapeStep, PTL DEF Spec
<1> QED BY <1>1, ShapeInBounds, PTL

-----------------------------------------------------------------------------
\* The sizes that the input and the first k filters give, and the least of them.
Heights(k) == {original[1]} \cup ({filters[i].b : i \in Crops(k)} \cap Nat)
Widths(k) == {original[2]} \cup ({filters[i].a : i \in Crops(k)} \cap Nat)
Least(m, S) == m \in S /\ \A n \in S : m <= n

\* A set has one least number.
LEMMA MinIsLeast ==
  ASSUME NEW S, S \subseteq Int, NEW m, Least(m, S)
  PROVE  Min(S) = m
<1>1. m \in Int /\ m \in S /\ \A n \in S : m <= n
  BY DEF Least
<1>2. ASSUME NEW x \in S, \A n \in S : x <= n
      PROVE  x = m
  BY <1>1, <1>2
<1> QED BY <1>1, <1>2, Zenon DEF Min

\* One more filter adds the size of its crop, if it is one.
LEMMA SizesGrow ==
  ASSUME NEW k \in Nat
  PROVE  /\ Heights(k + 1) = Heights(k) \cup
              IF filters[k + 1].op = "-crop" THEN {filters[k + 1].b} \cap Nat ELSE {}
         /\ Widths(k + 1) = Widths(k) \cup
              IF filters[k + 1].op = "-crop" THEN {filters[k + 1].a} \cap Nat ELSE {}
<1>1. Crops(k + 1) = Crops(k) \cup IF filters[k + 1].op = "-crop" THEN {k + 1} ELSE {}
  BY DEF Crops
<1> QED BY <1>1 DEF Heights, Widths

\* The inductive invariant: at any time the image has the least of the sizes
\* met so far, and no filter applied was one that throws.
FilterInv == /\ original \in Nat \X Nat
             /\ phase = "parse" => applied = 0
             /\ Least(height, Heights(applied)) /\ Least(width, Widths(applied))
             /\ \A k \in 1..applied : ~Throws(k)
             /\ phase = "ApplyFilterException" => Throws(applied + 1)

\* The least sizes are those that SequentialFilters speaks of.
LEMMA LeastSizes ==
  ASSUME original \in Nat \X Nat, NEW k,
         Least(height, Heights(k)), Least(width, Widths(k))
  PROVE  HeightAfter(k) = height /\ WidthAfter(k) = width
<1>1. Heights(k) \subseteq Int /\ Widths(k) \subseteq Int
  BY DEF Heights, Widths
<1>2. Min(Heights(k)) = height /\ Min(Widths(k)) = width
  BY <1>1, MinIsLeast
<1> QED BY <1>2, Zenon DEF Heights, Widths, HeightAfter, WidthAfter

\* A filter that is no crop throws or not according to the image as it is.
LEMMA ThrowsNow ==
  ASSUME FilterInv, ShapeInv, phase = "apply", applied < Len(filters), Filter.op # "-crop"
  PROVE  /\ Least(height, Heights(applied + 1)) /\ Least(width, Widths(applied + 1))
         /\ Throws(applied + 1) <=> \/ Filter.op = "-blur" /\ Filter.a = 0
                                    \/ Filter.op = "-tunnel" /\ ~CentreInside
<1>1. applied \in Nat /\ height \in Nat /\ width \in Nat
  BY DEF ShapeInv
<1>2. Heights(applied + 1) = Heights(applied) /\ Widths(applied + 1) = Widths(applied)
  BY <1>1, SizesGrow DEF Filter
<1>3. HeightAfter(applied + 1) = height /\ WidthAfter(applied + 1) = width
  BY <1>2, LeastSizes DEF FilterInv
<1>4. Filter \in [op : Flags, a : Int, b : Int]
  <2>1. applied + 1 \in 1..Len(filters)
    BY <1>1 DEF ShapeInv
  <2>2. filters[applied + 1] \in [op : Flags, a : Int, b : Int]
    BY <2>1, ElementOf DEF ShapeInv
  <2> QED BY <2>2, Zenon DEF Filter
<1>5. Centre(Filter.a, height) \in Int /\ Centre(Filter.b, width) \in Int
  BY <1>1, <1>4 DEF Centre
<1>6. ~CentreInside <=> \/ height <= Centre(Filter.a, height)
                        \/ width <= Centre(Filter.b, width)
  BY <1>1, <1>5 DEF CentreInside
<1>7. Throws(applied + 1) <=>
        \/ Filter.op = "-blur" /\ Filter.a = 0
        \/ Filter.op = "-tunnel" /\ \/ height <= Centre(Filter.a, height)
                                    \/ width <= Centre(Filter.b, width)
  BY <1>3, Zenon DEF Throws, Filter
<1> QED BY <1>2, <1>6, <1>7, Zenon DEF FilterInv

\* What the filters and the input are decides all of it.
LEMMA SameFilters ==
  ASSUME filters' = filters, original' = original, NEW k
  PROVE  /\ Heights(k)' = Heights(k) /\ Widths(k)' = Widths(k)
         /\ Throws(k)' <=> Throws(k)
BY DEF Heights, Widths, Crops, Throws, HeightAfter, WidthAfter

\* An image not yet read has the sizes of the input.
LEMMA FilterInit == Init => FilterInv
<1> SUFFICES ASSUME Init PROVE FilterInv
  OBVIOUS
<1>1. original \in Nat \X Nat
  BY SizesAssumption DEF Init
<1>2. /\ original \in Nat \X Nat /\ height = original[1] /\ width = original[2]
      /\ applied = 0 /\ phase \in {"help", "parse", "ParserException"}
  BY <1>1, FirstPhase, Zenon DEF Init
<1>3. Crops(0) = {}
  BY DEF Crops
<1>4. Heights(0) = {height} /\ Widths(0) = {width}
  BY <1>2, <1>3 DEF Heights, Widths
<1>5. Least(height, Heights(applied)) /\ Least(width, Widths(applied))
  BY <1>1, <1>2, <1>4 DEF Least
<1> QED BY <1>1, <1>2, <1>5 DEF FilterInv

\* Where nothing was applied yet and the image stays, new filters change nothing.
LEMMA NoneApplied ==
  ASSUME FilterInv, applied = 0, applied' = applied, original' = original,
         height' = height, width' = width, phase' # "ApplyFilterException"
  PROVE  FilterInv'
<1>1. Crops(0) = {} /\ Crops(0)' = {}
  BY DEF Crops
<1>2. Heights(0)' = Heights(0) /\ Widths(0)' = Widths(0)
  BY <1>1 DEF Heights, Widths
<1>3. Least(height', Heights(0)') /\ Least(width', Widths(0)')
  BY <1>2, Zenon DEF FilterInv, Least
<1> QED BY <1>3 DEF FilterInv, Least

\* Where the image stays and nothing is applied, neither do the filters.
LEMMA SameImage ==
  ASSUME FilterInv, applied' = applied, original' = original, filters' = filters,
         height' = height, width' = width,
         phase' = "parse" => phase = "parse",
         phase' = "ApplyFilterException" => Throws(applied + 1)
  PROVE  FilterInv'
<1>1. /\ Least(height, Heights(applied))' <=> Least(height, Heights(applied))
      /\ Least(width, Widths(applied))' <=> Least(width, Widths(applied))
  BY SameFilters, Zenon DEF Least
<1>2. \A k \in 1..applied : ~Throws(k)'
  BY SameFilters, Zenon DEF FilterInv
<1>3. Throws(applied + 1)' <=> Throws(applied + 1)
  BY SameFilters, Zenon
<1> QED BY <1>1, <1>2, <1>3, Zenon DEF FilterInv

\* Where one more filter is applied that does not throw, the image has to have
\* the least sizes after it.
LEMMA OneApplied ==
  ASSUME FilterInv, applied \in Nat, applied' = applied + 1, original' = original,
         filters' = filters, phase' = "apply",
         Least(height', Heights(applied + 1)), Least(width', Widths(applied + 1)),
         ~Throws(applied + 1)
  PROVE  FilterInv'
<1>1. Least(height, Heights(applied))' /\ Least(width, Widths(applied))'
  BY SameFilters, Zenon DEF Least
<1>2. ASSUME NEW k \in 1..applied + 1 PROVE ~Throws(k)'
  <2>1. k \in 1..applied \/ k = applied + 1
    OBVIOUS
  <2>2. ~Throws(k)
    BY <2>1, Zenon DEF FilterInv
  <2> QED BY <2>2, SameFilters, Zenon
<1> QED BY <1>1, <1>2, Zenon DEF FilterInv

\* A crop leaves the least of the size before and its own, if that is no
\* negative number.
LEMMA CropIsLeast ==
  ASSUME NEW m \in Nat, NEW n \in Int, NEW S, S \subseteq Int, Least(m, S)
  PROVE  Least(IF Smaller(n, m) THEN n ELSE m, S \cup ({n} \cap Nat))
BY DEF Least, Smaller

\* One step per action: only a filter that does not throw changes the image, and
\* only one that does raises its exception.
LEMMA FilterStep == FilterInv /\ ShapeInv /\ [Next]_vars => FilterInv'
<1> SUFFICES ASSUME FilterInv, ShapeInv, [Next]_vars PROVE FilterInv'
  OBVIOUS
<1>1. CASE ParseOption
  <2>1. applied = 0
    BY <1>1 DEF ParseOption, FilterInv
  <2>2. phase' # "ApplyFilterException"
    BY <1>1 DEF ParseOption, Throw
  <2> QED BY <1>1, <2>1, <2>2, NoneApplied, Zenon DEF ParseOption, shapeVars
<1>2. CASE EndParse \/ ReadFile \/ ReadFails \/ EndApply \/ WriteFile \/ WriteFails
  BY <1>2, SameImage
  DEF EndParse, ReadFile, ReadFails, EndApply, WriteFile, WriteFails, Throw, shapeVars
<1>3. applied \in Nat /\ height \in Nat /\ width \in Nat
  BY DEF ShapeInv
<1>4. CASE ApplyCrop
  <2>1. phase = "apply" /\ applied < Len(filters) /\ Filter.op = "-crop"
    BY <1>4 DEF ApplyCrop, NextIs, Filter
  <2>2. applied + 1 \in 1..Len(filters)
    BY <1>3, <2>1 DEF ShapeInv
  <2>3. filters[applied + 1] \in [op : Flags, a : Int, b : Int]
    BY <2>2, ElementOf DEF ShapeInv
  <2>4. Filter.a \in Int /\ Filter.b \in Int
    BY <2>3 DEF Filter
  <2>5. /\ Heights(applied + 1) = Heights(applied) \cup ({Filter.b} \cap Nat)
        /\ Widths(applied + 1) = Widths(applied) \cup ({Filter.a} \cap Nat)
    BY <1>3, <2>1, SizesGrow, Zenon DEF Filter
  <2>6. Heights(applied) \subseteq Int /\ Widths(applied) \subseteq Int
    BY DEF Heights, Widths, FilterInv
  <2>7. /\ height' = IF Smaller(Filter.b, height) THEN Filter.b ELSE height
        /\ width' = IF Smaller(Filter.a, width) THEN Filter.a ELSE width
        /\ Applied
    BY <1>4, Zenon DEF ApplyCrop
  <2>8. /\ Least(height', Heights(applied + 1))
        /\ Least(width', Widths(applied + 1))
    <3>1. Least(height, Heights(applied)) /\ Least(width, Widths(applied))
      BY Zenon DEF FilterInv
    <3>2. Least(height', Heights(applied) \cup ({Filter.b} \cap Nat))
      BY <1>3, <2>4, <2>6, <2>7, <3>1, CropIsLeast
    <3>3. Least(width', Widths(applied) \cup ({Filter.a} \cap Nat))
      BY <1>3, <2>4, <2>6, <2>7, <3>1, CropIsLeast
    <3> QED BY <2>5, <3>2, <3>3, Zenon
  <2>9. ~Throws(applied + 1)
    BY <2>1 DEF Throws, Filter
  <2> QED BY <1>3, <2>1, <2>7, <2>8, <2>9, OneApplied, Zenon DEF Applied
<1>5. CASE ApplyPixelwise \/ ApplyMatrix \/ ApplyBlur \/ ApplyTunnel
  <2>1. /\ phase = "apply" /\ applied < Len(filters) /\ Filter.op # "-crop"
        /\ ~(Filter.op = "-blur" /\ Filter.a = 0)
        /\ ~(Filter.op = "-tunnel" /\ ~CentreInside)
        /\ Applied /\ height' = height /\ width' = width
    BY <1>5 DEF ApplyPixelwise, ApplyMatrix, ApplyBlur, ApplyTunnel, NextIs, Filter, shapeVars
  <2> QED BY <1>3, <2>1, ThrowsNow, OneApplied, Zenon DEF Applied
<1>6. CASE BlurThrows \/ TunnelThrows
  <2>1. /\ phase = "apply" /\ applied < Len(filters) /\ Filter.op # "-crop"
        /\ \/ Filter.op = "-blur" /\ Filter.a = 0
           \/ Filter.op = "-tunnel" /\ ~CentreInside
        /\ FilterThrows
    BY <1>6 DEF BlurThrows, TunnelThrows, NextIs, Filter
  <2>2. Throws(applied + 1)
    BY <2>1, ThrowsNow, Zenon
  <2>3. phase' # "parse"
    BY <2>1 DEF FilterThrows, Throw
  <2> QED BY <2>1, <2>2, <2>3, SameImage, Zenon DEF FilterThrows, shapeVars
<1>7. CASE UNCHANGED vars
  <2>1. /\ applied' = applied /\ original' = original /\ filters' = filters
        /\ height' = height /\ width' = width /\ phase' = phase
    BY <1>7, Zenon DEF vars, shapeVars
  <2> QED BY <2>1, SameImage, Zenon DEF FilterInv
<1> QED
  BY <1>1, <1>2, <1>4, <1>5, <1>6, <1>7, Zenon DEF Next

\* Filters apply one after the other: the size written is the least that the
\* input or a crop has, and a filter throws exactly if the image that those
\* before it left is one it cannot be applied to.
THEOREM FiltersAreSequential == Spec => []SequentialFilters
<1>1. Spec => []ShapeInv
  BY ShapeInit, ShapeStep, PTL DEF Spec
<1>2. Spec => []FilterInv
  BY FilterInit, FilterStep, <1>1, PTL DEF Spec
<1>3. FilterInv => SequentialFilters
  <2> SUFFICES ASSUME FilterInv PROVE SequentialFilters
    OBVIOUS
  <2>1. HeightAfter(applied) = height /\ WidthAfter(applied) = width
    BY LeastSizes, Zenon DEF FilterInv
  <2> QED BY <2>1, Zenon DEF FilterInv, SequentialFilters
<1> QED BY <1>2, <1>3, PTL

-----------------------------------------------------------------------------
\* A line of the file is as long as its pixels and a multiple of four bytes.
LEMMA LineIs ==
  ASSUME NEW w \in Nat
  PROVE  /\ Line(w) \in Nat /\ 3 * w <= Line(w)
         /\ Line(w) = 4 * ((3 * w + 3) \div 4)
BY DEF Line, padding

\* A line number and an offset in the line can be found again in the place.
LEMMA DivMod ==
  ASSUME NEW L \in Nat, NEW q \in Nat, NEW r \in 0..L - 1
  PROVE  (q * L + r) \div L = q /\ (q * L + r) % L = r
OBVIOUS

\* What the quotient of two numbers is.
LEMMA DivIs ==
  ASSUME NEW L \in Nat \ {0}, NEW n \in Nat
  PROVE  /\ n \div L \in Nat /\ (n \div L) * L <= n /\ n < (n \div L) * L + L
OBVIOUS

\* More lines are not shorter than fewer.
LEMMA TimesMonotone ==
  ASSUME NEW L \in Nat, NEW a \in Nat, NEW b \in Nat, a <= b
  PROVE  a * L \in Nat /\ a * L <= b * L
OBVIOUS

\* One line more, and lines counted in bytes.
LEMMA TimesNext ==
  ASSUME NEW L \in Nat, NEW a \in Int
  PROVE  a * L + L = (a + 1) * L /\ a * 4 * L = a * (4 * L)
OBVIOUS

\* The greatest number of a set is its Max.
LEMMA MaxIs ==
  ASSUME NEW S, S \subseteq Int, NEW m \in S, \A n \in S : n <= m
  PROVE  Max(S) = m
<1>1. ASSUME NEW x \in S, \A n \in S : x >= n
      PROVE  x = m
  BY <1>1
<1>2. \A n \in S : m >= n
  OBVIOUS
<1> QED BY <1>1, <1>2, Zenon DEF Max

\* The rows of a file of N bytes that reach to their byte i: if there are any there
\* is a last one, and it is row q if the file is long enough for that.
LEMMA LastRow ==
  ASSUME NEW L \in Nat \ {0}, NEW q \in Nat, NEW i \in 1..L, NEW N \in Nat,
         NEW S, S \subseteq 0..q, S # {}, \A r \in 0..q : r \in S <=> r * L + i <= N
  PROVE  Max(S) \in S /\ ((q + 1) * L <= N => Max(S) = q)
<1> DEFINE d == (N - i) \div L
           m == IF d <= q THEN d ELSE q
<1>1. i <= N
  <2>1. PICK r \in 0..q : r * L + i <= N
    OBVIOUS
  <2>2. r * L \in Nat
    BY TimesMonotone
  <2> QED BY <2>1, <2>2
<1>2. d \in Nat /\ d * L <= N - i /\ N - i < d * L + L
  BY <1>1, DivIs
<1> HIDE DEF d
<1>3. m \in Nat /\ m <= d /\ m <= q
  BY <1>2
<1>4. m \in S
  <2>1. m * L \in Nat /\ m * L <= d * L /\ d * L \in Nat
    BY <1>2, <1>3, TimesMonotone
  <2>2. m * L + i <= N
    BY <1>1, <1>2, <2>1
  <2> QED BY <1>3, <2>2
<1>5. ASSUME NEW r \in S PROVE r <= m
  <2>1. r \in Nat /\ r <= q /\ r * L + i <= N
    OBVIOUS
  <2>2. CASE d < r
    <3>1. (d + 1) * L <= r * L /\ r * L \in Nat
      BY <1>2, <2>1, <2>2, TimesMonotone
    <3>2. d * L + L = (d + 1) * L /\ d * L \in Nat
      BY <1>2, TimesNext, TimesMonotone
    <3> QED BY <1>1, <1>2, <2>1, <3>1, <3>2
  <2>3. CASE r <= d
    BY <2>1, <2>3
  <2> QED BY <1>2, <2>1, <2>2, <2>3
<1>6. Max(S) = m
  <2>1. S \subseteq Int
    OBVIOUS
  <2> HIDE DEF m
  <2> QED BY <1>4, <1>5, <2>1, MaxIs
<1>7. ASSUME (q + 1) * L <= N PROVE m = q
  <2>1. q * L + L = (q + 1) * L /\ q * L \in Nat
    BY TimesNext, TimesMonotone
  <2>2. q \in S
    BY <1>7, <2>1
  <2> QED BY <1>3, <1>5, <2>2
<1> QED BY <1>4, <1>6, <1>7

\* However large the image and wherever its file is cut, what is read is in its
\* place, or of a lower row and the same column.
LEMMA ReadingIsExact ==
  ASSUME original \in (Nat \ {0}) \X (Nat \ {0}), input \in {"good", "short"}
  PROVE  ReadIsExact
<1> DEFINE h == original[1]
           w == original[2]
           L == Line(w)
           N == IF input = "short" THEN (h * L) \div 2 ELSE h * L
           read == ReadPixels(InputBytes, h, w)
<1>1. h \in Nat \ {0} /\ w \in Nat \ {0}
  OBVIOUS
<1>2. L \in Nat \ {0} /\ 3 * w <= L /\ L = 4 * ((3 * w + 3) \div 4)
  <2>1. L \in Nat /\ 3 * w <= L /\ L = 4 * ((3 * w + 3) \div 4)
    BY <1>1, LineIs, Zenon
  <2> QED BY <1>1, <2>1
<1>3. h * L \in Nat /\ N \in Nat
  BY <1>1, <1>2, TimesMonotone
<1>4. InputBytes = [i \in 1..N |-> i]
  BY Zenon DEF InputBytes
<1>5. Len(InputBytes) = N
  BY <1>3, <1>4
<1>6. SUFFICES
        ASSUME NEW row \in 0..h - 1, NEW col \in 0..w - 1, NEW k \in 1..3
        PROVE  read[row][col][k] \in
                 IF input = "good" THEN {Place(row, col, h, w) + 4 - k}
                 ELSE {0} \cup {Place(r, col, h, w) + 4 - k : r \in row..h - 1}
  BY Zenon DEF ReadIsExact
<1> DEFINE q == real_row(row, h)
           i == 3 * col + 4 - k
           S == {r \in 0..q : r * L + i <= Len(InputBytes)}
<1>7. read[row][col][k] = IF S = {} THEN 0 ELSE InputBytes[Max(S) * L + i]
  BY Zenon DEF ReadPixels
<1>8. q = h - row - 1 /\ q \in Nat /\ i \in 1..3 * w
  BY <1>1 DEF real_row
<1> HIDE DEF L, read, q, i
<1>9. i \in 1..L
  BY <1>1, <1>2, <1>8
<1>10. S # {} => Max(S) \in S /\ ((q + 1) * L <= N => Max(S) = q)
  <2>1. S \subseteq 0..q /\ \A r \in 0..q : r \in S <=> r * L + i <= N
    BY <1>5
  <2>2. N \in Nat /\ q \in Nat /\ i \in 1..L /\ L \in Nat \ {0}
    BY <1>2, <1>3, <1>8, <1>9
  <2> HIDE DEF S, N
  <2> SUFFICES ASSUME S # {} PROVE Max(S) \in S /\ ((q + 1) * L <= N => Max(S) = q)
    OBVIOUS
  <2> QED BY <2>1, <2>2, LastRow
<1>11. CASE S = {}
  <2>1. input # "good"
    <3> SUFFICES ASSUME input = "good" PROVE FALSE
      OBVIOUS
    <3>1. N = h * L
      OBVIOUS
    <3>2. (q + 1) * L = q * L + L /\ q * L \in Nat /\ (q + 1) * L <= h * L
      BY <1>1, <1>2, <1>8, TimesNext, TimesMonotone
    <3>3. q * L + i <= N
      BY <1>2, <1>3, <1>9, <3>1, <3>2
    <3>4. q \in S
      BY <1>5, <1>8, <3>3
    <3> QED BY <1>11, <3>4
  <2> QED BY <1>7, <1>11, <2>1
<1>12. CASE S # {}
  <2> DEFINE m == Max(S)
  <2>1. m \in 0..q /\ m * L + i <= N
    BY <1>5, <1>10, <1>12
  <2>2. input = "good" => m = q
    <3>1. q + 1 <= h
      BY <1>1, <1>8
    <3>2. (q + 1) * L <= h * L
      BY <1>1, <1>2, <1>8, <3>1, TimesMonotone
    <3> QED BY <1>10, <1>12, <3>2
  <2> HIDE DEF m
  <2>3. m * L \in Nat
    BY <1>2, <1>8, <2>1, TimesMonotone
  <2>4. m * L + i \in 1..N
    BY <1>3, <1>9, <2>1, <2>3
  <2>5. read[row][col][k] = m * L + i
    BY <1>4, <1>7, <1>12, <2>4 DEF m
  <2>6. m * L + i = Place(h - 1 - m, col, h, w) + 4 - k
    <3>1. h - 1 - (h - 1 - m) = m
      BY <1>1, <1>8, <2>1
    <3>2. Place(h - 1 - m, col, h, w) = m * 4 * ((3 * w + 3) \div 4) + 3 * col
      BY <3>1, Zenon DEF Place
    <3>3. m * 4 * ((3 * w + 3) \div 4) = m * L
      BY <1>1, <1>2, <2>1
    <3> QED BY <1>1, <2>3, <3>2, <3>3 DEF i
  <2>7. h - 1 - m \in row..h - 1 /\ (m = q => h - 1 - m = row)
    BY <1>1, <1>8, <2>1
  <2> QED BY <2>2, <2>5, <2>6, <2>7, Zenon
<1> QED BY <1>11, <1>12

\* Every pixel is written to its place, whatever the width leaves to pad.
LEMMA WritingIsExact ==
  ASSUME height \in Nat, width \in Nat, NEW whole, whole = WritePixels(Colours, height, width)
  PROVE  /\ Len(whole) = height * 4 * ((3 * width + 3) \div 4) /\ Len(whole) \in Nat
         /\ \A row \in 0..height - 1, col \in 0..width - 1, k \in 1..3 :
              /\ whole[Place(row, col, height, width) + 4 - k] = <<row, col, k>>
              /\ Place(row, col, height, width) + 4 - k \in 1..Len(whole)
<1> DEFINE L == Line(width)
           N == height * L
           Written(n) == IF (n - 1) % L < 3 * width
                         THEN Colours[real_row((n - 1) \div L, height)]
                                     [((n - 1) % L) \div 3][3 - (((n - 1) % L) % 3)]
                         ELSE 0
<1>1. L \in Nat /\ 3 * width <= L /\ L = 4 * ((3 * width + 3) \div 4)
  BY LineIs
<1>2. whole = [n \in 1..N |-> Written(n)]
  BY Zenon DEF WritePixels
<1> HIDE DEF Written, L
<1>3. N \in Nat
  BY <1>1, TimesMonotone
<1>4. Len(whole) = height * 4 * ((3 * width + 3) \div 4) /\ Len(whole) = N
  <2>1. N = height * 4 * ((3 * width + 3) \div 4)
    BY <1>1
  <2> HIDE DEF N
  <2> QED BY <1>2, <1>3, <2>1
<1>5. ASSUME NEW row \in 0..height - 1, NEW col \in 0..width - 1, NEW k \in 1..3
      PROVE  /\ whole[Place(row, col, height, width) + 4 - k] = <<row, col, k>>
             /\ Place(row, col, height, width) + 4 - k \in 1..Len(whole)
  <2> DEFINE q == height - 1 - row
             r == 3 * col + 3 - k
             n == q * L + r + 1
  <2>1. q \in 0..height - 1 /\ q \in Nat /\ r \in 0..3 * width - 1 /\ r \in 0..L - 1
    BY <1>1
  <2>2. r \div 3 = col /\ 3 - (r % 3) = k /\ real_row(q, height) = row
    BY DEF real_row
  <2>3. Place(row, col, height, width) + 4 - k = n
    <3>1. Place(row, col, height, width) = q * 4 * ((3 * width + 3) \div 4) + 3 * col
      BY Zenon DEF Place
    <3>2. q * 4 * ((3 * width + 3) \div 4) = q * L
      BY <1>1, <2>1
    <3>3. q * L \in Nat
      BY <1>1, <2>1, TimesMonotone
    <3> QED BY <3>1, <3>2, <3>3
  <2> HIDE DEF q, r
  <2>4. q * L \in Nat
    BY <1>1, <2>1, TimesMonotone
  <2>5. n \in 1..N
    <3>1. q + 1 <= height
      BY <2>1
    <3>2. (q + 1) * L <= N /\ q * L + L = (q + 1) * L
      BY <1>1, <2>1, <3>1, TimesMonotone, TimesNext
    <3> QED BY <1>1, <1>3, <2>1, <2>4, <3>2
  <2>6. n - 1 = q * L + r
    BY <1>1, <2>1, <2>4
  <2>7. (n - 1) \div L = q /\ (n - 1) % L = r
    BY <1>1, <2>1, <2>6, DivMod
  <2>8. r < 3 * width
    BY <2>1
  <2> HIDE DEF n, N
  <2>9. whole[n] = Written(n)
    BY <1>2, <2>5
  <2>10. Written(n) = Colours[row][col][k]
    BY <2>2, <2>7, <2>8, Zenon DEF Written
  <2>11. Colours[row][col][k] = <<row, col, k>>
    BY DEF Colours
  <2> QED BY <1>4, <2>3, <2>5, <2>9, <2>10, <2>11, Zenon
<1> QED BY <1>3, <1>4, <1>5, Zenon

\* The beginning of a sequence.
LEMMA Beginning ==
  ASSUME NEW s, NEW n, Len(s) \in Nat, n \in 0..Len(s)
  PROVE  Len(SubSeq(s, 1, n)) = n /\ \A i \in 1..n : SubSeq(s, 1, n)[i] = s[i]
OBVIOUS

\* So it is in what is written before a failure.
LEMMA BeginningIsExact ==
  ASSUME height \in Nat, width \in Nat,
         \E n \in 0..Len(WritePixels(Colours, height, width)) :
           output = SubSeq(WritePixels(Colours, height, width), 1, n)
  PROVE  WriteIsExact
<1> DEFINE whole == WritePixels(Colours, height, width)
           At(row, col, k) == Place(row, col, height, width) + 4 - k
<1>1. /\ Len(whole) = height * 4 * ((3 * width + 3) \div 4) /\ Len(whole) \in Nat
      /\ \A row \in 0..height - 1, col \in 0..width - 1, k \in 1..3 :
           whole[At(row, col, k)] = <<row, col, k>> /\ At(row, col, k) \in 1..Len(whole)
  BY WritingIsExact
<1>2. PICK n \in 0..Len(whole) : output = SubSeq(whole, 1, n)
  OBVIOUS
<1> HIDE DEF whole
<1>3. Len(output) = n /\ \A i \in 1..n : output[i] = whole[i]
  BY <1>1, <1>2, Beginning
<1>4. Len(output) <= height * 4 * ((3 * width + 3) \div 4)
  <2>1. Len(output) <= Len(whole)
    BY <1>1, <1>2, <1>3
  <2> QED BY <1>1, <2>1
<1>5. ASSUME NEW row \in 0..height - 1, NEW col \in 0..width - 1, NEW k \in 1..3,
             At(row, col, k) <= Len(output)
      PROVE  output[At(row, col, k)] = <<row, col, k>>
  <2>1. whole[At(row, col, k)] = <<row, col, k>> /\ At(row, col, k) \in 1..Len(whole)
    BY <1>1
  <2> HIDE DEF At
  <2>2. At(row, col, k) \in 1..n
    BY <1>1, <1>3, <1>5, <2>1
  <2> QED BY <1>3, <2>1, <2>2, Zenon
<1> QED BY <1>4, <1>5, Zenon DEF WriteIsExact

\* The output is the beginning of what it should be, or all of it.
Begun == \E n \in 0..Len(WritePixels(Colours, height, width)) :
           output = SubSeq(WritePixels(Colours, height, width), 1, n)

\* The inductive invariant: an image is applied filters to only if its file was
\* read, and what is written is the image that the headers are about.
FileInv == /\ original \in (Nat \ {0}) \X (Nat \ {0})
           /\ phase = "apply" => input \in {"good", "short"}
           /\ phase = "done" => Begun

\* One step per action; only ReadFile begins to apply, only WriteFile is done.
LEMMA FileStep == FileInv /\ ShapeInv /\ [Next]_vars => FileInv'
<1> SUFFICES ASSUME FileInv, ShapeInv, [Next]_vars PROVE FileInv'
  OBVIOUS
<1>1. original' = original /\ input' = input
  BY Zenon DEF Next, vars, ParseOption, EndParse, ReadFile, ReadFails, ApplyCrop, ApplyPixelwise,
     ApplyMatrix, ApplyBlur, BlurThrows, ApplyTunnel, TunnelThrows, EndApply, WriteFile,
     WriteFails, Applied, FilterThrows
<1>2. phase' = "apply" => input \in {"good", "short"}
  <2>1. CASE ReadFile
    BY <2>1 DEF ReadFile
  <2>2. CASE ~ReadFile
    <3>1. phase' = "apply" => phase = "apply"
      BY <2>2 DEF Next, vars, ParseOption, EndParse, ReadFails, ApplyCrop, ApplyPixelwise,
         ApplyMatrix, ApplyBlur, BlurThrows, ApplyTunnel, TunnelThrows, EndApply, WriteFile,
         WriteFails, Applied, FilterThrows, Throw
    <3> QED BY <3>1 DEF FileInv
  <2> QED BY <2>1, <2>2
<1>3. phase' = "done" => Begun'
  <2>1. CASE WriteFile
    <3>1. height' = height /\ width' = width
      BY <2>1, Zenon DEF WriteFile, shapeVars
    <3>2. PICK n \in 0..Len(WritePixels(Colours, height, width)) :
            output' = SubSeq(WritePixels(Colours, height, width), 1, n)
      BY <2>1, Zenon DEF WriteFile
    <3>3. Colours' = Colours
      BY <3>1, Zenon DEF Colours
    <3> QED BY <3>1, <3>2, <3>3, Zenon DEF Begun
  <2>2. CASE UNCHANGED vars
    <3>1. output' = output /\ height' = height /\ width' = width /\ phase' = phase
      BY <2>2, Zenon DEF vars, shapeVars
    <3>2. Colours' = Colours
      BY <3>1, Zenon DEF Colours
    <3> QED BY <3>1, <3>2, Zenon DEF FileInv, Begun
  <2>3. CASE ~WriteFile /\ Next
    BY <2>3 DEF Next, ParseOption, EndParse, ReadFile, ReadFails, ApplyCrop, ApplyPixelwise,
       ApplyMatrix, ApplyBlur, BlurThrows, ApplyTunnel, TunnelThrows, EndApply, WriteFails,
       Applied, FilterThrows, Throw, NextIs
  <2> QED BY <2>1, <2>2, <2>3
<1> QED BY <1>1, <1>2, <1>3, Zenon DEF FileInv

\* In the file that is read and in the one that is written every pixel is where
\* the format has it, for images of every size and after every crop.
THEOREM PixelsAreInPlace == Spec => []PixelsInPlace
<1>1. Spec => []ShapeInv
  BY ShapeInit, ShapeStep, PTL DEF Spec
<1>2. Init => FileInv
  BY SizesAssumption DEF Init, FileInv
<1>3. Spec => []FileInv
  BY <1>1, <1>2, FileStep, PTL DEF Spec
<1>4. FileInv /\ ShapeInv => PixelsInPlace
  <2> SUFFICES ASSUME FileInv, ShapeInv PROVE PixelsInPlace
    OBVIOUS
  <2>1. phase = "apply" => ReadIsExact
    BY ReadingIsExact DEF FileInv
  <2>2. phase = "done" => WriteIsExact
    BY BeginningIsExact DEF FileInv, Begun, ShapeInv
  <2> QED BY <2>1, <2>2, Zenon DEF PixelsInPlace
<1> QED BY <1>1, <1>3, <1>4, PTL

-----------------------------------------------------------------------------
\* Of the numbers in a set there is a least one.
LEMMA LeastOf ==
  ASSUME NEW T, T \subseteq Nat, T # {}
  PROVE  \E n \in T : \A m \in T : n <= m
<1> DEFINE R == OpToRel(<, Nat)
<1>1. IsWellFoundedOn(R, Nat)
  BY NatLessThanWellFounded
<1>2. ASSUME NEW m \in Nat, NEW n \in Nat PROVE <<m, n>> \in R <=> m < n
  BY DEF OpToRel
<1> HIDE DEF R
<1>3. PICK n \in T : \A m \in T : ~(<<m, n>> \in R)
  BY <1>1, WFMin
<1>4. ASSUME NEW m \in T PROVE n <= m
  <2>1. m \in Nat /\ n \in Nat
    OBVIOUS
  <2>2. ~(<<m, n>> \in R)
    BY <1>3, Zenon
  <2>3. ~(m < n)
    BY <1>2, <2>1, <2>2, Zenon
  <2> QED BY <2>1, <2>3
<1> QED BY <1>4

\* Induction, for a set of numbers.
LEMMA SetInduction ==
  ASSUME NEW T, 0 \in T, \A n \in Nat : n \in T => n + 1 \in T
  PROVE  \A n \in Nat : n \in T
<1> SUFFICES ASSUME Nat \ T # {} PROVE FALSE
  OBVIOUS
<1>1. PICK n \in Nat \ T : \A m \in Nat \ T : n <= m
  <2> DEFINE U == Nat \ T
  <2>1. U \subseteq Nat /\ U # {}
    OBVIOUS
  <2> HIDE DEF U
  <2>2. \E n \in U : \A m \in U : n <= m
    BY <2>1, LeastOf
  <2> QED BY <2>2 DEF U
<1>2. n - 1 \in Nat /\ n - 1 \in T
  BY <1>1
<1> QED BY <1>1, <1>2

\* The sequences that FlattenSeq builds one after the other.
Grows(seqs, G) == /\ G[0] = <<>>
                  /\ \A i \in 0..Len(seqs) - 1 : G[i + 1] = G[i] \o seqs[i + 1]

\* Two such rows of sequences are equal as far as what they are of is.
LEMMA GrowTheSame ==
  ASSUME NEW s, NEW t, Len(s) \in Nat, Len(t) \in Nat, NEW F, NEW G, Grows(s, F), Grows(t, G),
         NEW n \in Nat, n <= Len(s), n <= Len(t), \A i \in 1..n : s[i] = t[i]
  PROVE  F[n] = G[n]
<1> DEFINE T == {m \in Nat : m <= n => F[m] = G[m]}
<1>1. 0 \in T
  BY DEF Grows
<1>2. ASSUME NEW m \in Nat, m \in T PROVE m + 1 \in T
  <2> SUFFICES ASSUME m + 1 <= n PROVE F[m + 1] = G[m + 1]
    OBVIOUS
  <2>1. m \in 0..Len(s) - 1 /\ m \in 0..Len(t) - 1 /\ m + 1 \in 1..n
    OBVIOUS
  <2>2. F[m + 1] = F[m] \o s[m + 1] /\ G[m + 1] = G[m] \o t[m + 1]
    BY <2>1, Zenon DEF Grows
  <2>3. s[m + 1] = t[m + 1] /\ F[m] = G[m]
    BY <1>2, <2>1
  <2> QED BY <2>2, <2>3, Zenon
<1> HIDE DEF T
<1>3. n \in T
  BY <1>1, <1>2, SetInduction
<1> QED BY <1>3 DEF T

\* Nothing is a sequence of anything.
LEMMA EmptySeqIn == ASSUME NEW S PROVE <<>> \in Seq(S)
  OBVIOUS

\* They are sequences, if they are of sequences.
LEMMA GrowsType ==
  ASSUME NEW S, NEW seqs \in Seq(Seq(S)), NEW G, Grows(seqs, G), NEW n \in Nat, n <= Len(seqs)
  PROVE  G[n] \in Seq(S)
<1> DEFINE T == {m \in Nat : m <= Len(seqs) => G[m] \in Seq(S)}
<1>1. 0 \in T
  <2>1. G[0] = <<>> /\ <<>> \in Seq(S)
    BY Zenon, EmptySeqIn DEF Grows
  <2> QED BY <2>1
<1>2. ASSUME NEW m \in Nat, m \in T PROVE m + 1 \in T
  <2> SUFFICES ASSUME m + 1 <= Len(seqs) PROVE G[m + 1] \in Seq(S)
    OBVIOUS
  <2>1. m \in 0..Len(seqs) - 1 /\ m + 1 \in 1..Len(seqs)
    OBVIOUS
  <2>2. G[m + 1] = G[m] \o seqs[m + 1]
    BY <2>1, Zenon DEF Grows
  <2>3. seqs[m + 1] \in Seq(S) /\ G[m] \in Seq(S)
    BY <1>2, <2>1
  <2> QED BY <2>2, <2>3
<1> HIDE DEF T
<1>3. n \in T
  BY <1>1, <1>2, SetInduction
<1> QED BY <1>3 DEF T

\* There is such a row for every sequence of sequences.
LEMMA GrowsExists ==
  ASSUME NEW seqs, Len(seqs) \in Nat
  PROVE  \E G : Grows(seqs, G)
<1> DEFINE Row(m, G) == /\ G[0] = <<>>
                        /\ \A i \in 0..m - 1 : G[i + 1] = G[i] \o seqs[i + 1]
           T == {m \in Nat : \E G : Row(m, G)}
<1>1. 0 \in T
  <2>1. Row(0, [i \in 0..0 |-> <<>>])
    OBVIOUS
  <2> QED BY <2>1
<1>2. ASSUME NEW m \in Nat, m \in T PROVE m + 1 \in T
  <2>1. PICK G : Row(m, G)
    BY <1>2
  <2> DEFINE F == [i \in 0..m + 1 |-> IF i = m + 1 THEN G[m] \o seqs[m + 1] ELSE G[i]]
  <2>2. F[0] = <<>>
    BY <2>1
  <2>3. ASSUME NEW i \in 0..m PROVE F[i + 1] = F[i] \o seqs[i + 1]
    <3>1. CASE i = m
      <4>1. F[m + 1] = G[m] \o seqs[m + 1] /\ F[m] = G[m]
        OBVIOUS
      <4> QED BY <3>1, <4>1
    <3>2. CASE i # m
      <4>1. i \in 0..m - 1 /\ F[i + 1] = G[i + 1] /\ F[i] = G[i]
        BY <3>2
      <4> QED BY <2>1, <4>1
    <3> QED BY <3>1, <3>2
  <2>4. Row(m + 1, F)
    <3>1. (m + 1) - 1 = m
      OBVIOUS
    <3> HIDE DEF F
    <3> QED BY <2>2, <2>3, <3>1
  <2> HIDE DEF Row
  <2> QED BY <2>4
<1> HIDE DEF T
<1>3. Len(seqs) \in T
  BY <1>1, <1>2, SetInduction
<1> QED BY <1>3, Zenon DEF T, Grows

\* FlattenSeq is the last of them.
LEMMA FlattenIs ==
  ASSUME NEW S, NEW seqs \in Seq(Seq(S))
  PROVE  \E G : Grows(seqs, G) /\ FlattenSeq(seqs) = G[Len(seqs)]
<1>1. CASE Len(seqs) = 0
  <2> DEFINE G == [i \in 0..0 |-> <<>>]
  <2>1. Grows(seqs, G)
    BY <1>1 DEF Grows
  <2>2. FlattenSeq(seqs) = G[0]
    BY <1>1 DEF FlattenSeq
  <2> QED BY <1>1, <2>1, <2>2
<1>2. CASE Len(seqs) # 0
  <2> DEFINE n == Len(seqs)
             F == CHOOSE f : f = [i \in 1..n |-> IF i = 1 THEN seqs[i] ELSE f[i-1] \o seqs[i]]
             G == [i \in 0..n |-> IF i = 0 THEN <<>> ELSE F[i]]
  <2>1. n \in Nat \ {0} /\ \A i \in 1..n : seqs[i] \in Seq(S)
    BY <1>2
  <2>2. PICK H : Grows(seqs, H)
    BY <2>1, GrowsExists
  <2>3. H[1] = seqs[1]
    <3>1. 0 \in 0..n - 1 /\ 0 + 1 = 1
      BY <2>1
    <3>2. H[0] = <<>> /\ H[0 + 1] = H[0] \o seqs[0 + 1]
      BY <2>2, <3>1, Zenon DEF Grows
    <3>3. H[1] = <<>> \o seqs[1]
      BY <3>1, <3>2
    <3> QED BY <2>1, <3>3
  <2>4. ASSUME NEW i \in 1..n, i # 1 PROVE H[i] = H[i - 1] \o seqs[i]
    <3>1. i - 1 \in 0..n - 1 /\ (i - 1) + 1 = i
      BY <2>1, <2>4
    <3> QED BY <2>2, <3>1 DEF Grows
  <2> DEFINE f == [i \in 1..n |-> H[i]]
  <2>5. f = [i \in 1..n |-> IF i = 1 THEN seqs[i] ELSE f[i-1] \o seqs[i]]
    <3>1. ASSUME NEW i \in 1..n
          PROVE  f[i] = IF i = 1 THEN seqs[i] ELSE f[i-1] \o seqs[i]
      <4>1. CASE i = 1
        BY <2>3, <4>1
      <4>2. CASE i # 1
        <5>1. i - 1 \in 1..n
          BY <2>1, <4>2
        <5> QED BY <2>4, <4>2, <5>1
      <4> QED BY <4>1, <4>2
    <3> QED BY <3>1
  <2>6. F = [i \in 1..n |-> IF i = 1 THEN seqs[i] ELSE F[i-1] \o seqs[i]]
    <3> HIDE DEF f, n
    <3> QED BY <2>5
  <2>7. FlattenSeq(seqs) = F[n]
    BY <2>1 DEF FlattenSeq
  <2> HIDE DEF F
  <2>8. Grows(seqs, G)
    <3>1. F[1] = seqs[1]
      BY <2>1, <2>6
    <3>2. G[0] = <<>>
      BY <2>1
    <3>3. ASSUME NEW i \in 0..n - 1 PROVE G[i + 1] = G[i] \o seqs[i + 1]
      <4>1. CASE i = 0
        <5>1. G[1] = seqs[1] /\ seqs[1] \in Seq(S)
          BY <2>1, <3>1
        <5>2. <<>> \o seqs[1] = seqs[1]
          BY <5>1
        <5>3. G[0 + 1] = G[0] \o seqs[0 + 1] /\ 0 + 1 = 1
          <6> HIDE DEF G
          <6> QED BY <3>2, <5>1, <5>2
        <5> QED BY <4>1, <5>3, Zenon
      <4>2. CASE i # 0
        <5>1. i \in 1..n /\ i + 1 \in 1..n /\ i + 1 # 1 /\ (i + 1) - 1 = i
          BY <2>1, <4>2
        <5>2. F[i + 1] = F[i] \o seqs[i + 1]
          BY <2>6, <5>1
        <5>3. G[i + 1] = F[i + 1] /\ G[i] = F[i]
          BY <4>2, <5>1
        <5> QED BY <5>2, <5>3
      <4> QED BY <4>1, <4>2
    <3> QED BY <3>2, <3>3, Zenon DEF Grows
  <2>9. G[n] = F[n]
    BY <2>1
  <2> QED BY <2>7, <2>8, <2>9, Zenon
<1> QED BY <1>1, <1>2

\* The first k of the sequences, put together.
Upto(seqs, k) == FlattenSeq(SubSeq(seqs, 1, k))

\* They are what the row of FlattenSeq has at its place k.
LEMMA UptoIs ==
  ASSUME NEW S, NEW seqs \in Seq(Seq(S)), NEW G, Grows(seqs, G), NEW k \in 0..Len(seqs)
  PROVE  Upto(seqs, k) = G[k]
<1> DEFINE first == SubSeq(seqs, 1, k)
<1>1. first \in Seq(Seq(S)) /\ Len(first) = k /\ \A i \in 1..k : first[i] = seqs[i]
  OBVIOUS
<1>2. Len(seqs) \in Nat /\ k \in Nat /\ k <= Len(seqs)
  OBVIOUS
<1> HIDE DEF first
<1>3. PICK F : Grows(first, F) /\ FlattenSeq(first) = F[k]
  BY <1>1, FlattenIs
<1>4. F[k] = G[k]
  <2>1. Len(first) \in Nat /\ k <= Len(first) /\ Grows(first, F)
    BY <1>1, <1>2, <1>3
  <2>2. \A i \in 1..k : first[i] = seqs[i]
    BY <1>1
  <2> QED BY <1>2, <2>1, <2>2, GrowTheSame
<1> QED BY <1>3, <1>4, Zenon DEF Upto, first

\* Put together one after the other they make what FlattenSeq makes of all.
LEMMA UptoStep ==
  ASSUME NEW S, NEW seqs \in Seq(Seq(S))
  PROVE  /\ Upto(seqs, 0) = <<>>
         /\ Upto(seqs, Len(seqs)) = FlattenSeq(seqs)
         /\ \A k \in 0..Len(seqs) : Upto(seqs, k) \in Seq(S)
         /\ \A k \in 0..Len(seqs) - 1 : Upto(seqs, k + 1) = Upto(seqs, k) \o seqs[k + 1]
<1>1. PICK G : Grows(seqs, G) /\ FlattenSeq(seqs) = G[Len(seqs)]
  BY FlattenIs
<1>2. Len(seqs) \in Nat
  OBVIOUS
<1>3. \A k \in 0..Len(seqs) : Upto(seqs, k) = G[k]
  BY <1>1, UptoIs
<1>4. \A k \in 0..Len(seqs) : G[k] \in Seq(S)
  BY <1>1, <1>2, GrowsType
<1>5. ASSUME NEW k \in 0..Len(seqs) - 1
      PROVE  Upto(seqs, k + 1) = Upto(seqs, k) \o seqs[k + 1]
  <2>1. k \in 0..Len(seqs) /\ k + 1 \in 0..Len(seqs)
    BY <1>2
  <2>2. G[k + 1] = G[k] \o seqs[k + 1]
    BY <1>1, Zenon DEF Grows
  <2> QED BY <1>3, <2>1, <2>2, Zenon
<1>6. 0 \in 0..Len(seqs) /\ Len(seqs) \in 0..Len(seqs)
  BY <1>2
<1>7. G[0] = <<>>
  BY <1>1, Zenon DEF Grows
<1> QED BY <1>1, <1>3, <1>4, <1>5, <1>6, <1>7, Zenon

\* What two sequences make, put together.
LEMMA ConcatIs ==
  ASSUME NEW S, NEW s \in Seq(S), NEW t \in Seq(S)
  PROVE  /\ s \o t \in Seq(S) /\ Len(s \o t) = Len(s) + Len(t)
         /\ \A i \in 1..Len(s) : (s \o t)[i] = s[i]
         /\ \A i \in 1..Len(t) : (s \o t)[Len(s) + i] = t[i]
OBVIOUS

\* What a part of a sequence is.
LEMMA SubSeqIs ==
  ASSUME NEW S, NEW s \in Seq(S), NEW m \in Nat \ {0}, NEW n \in Nat, m <= n + 1, n <= Len(s)
  PROVE  /\ Len(SubSeq(s, m, n)) = n - m + 1 /\ SubSeq(s, m, n) \in Seq(S)
         /\ \A i \in 1..n - m + 1 : SubSeq(s, m, n)[i] = s[m + i - 1]
OBVIOUS

\* What they begin with stays when more are added.
LEMMA UptoReaches ==
  ASSUME NEW S, NEW seqs \in Seq(Seq(S)), NEW j \in 0..Len(seqs), NEW k \in j..Len(seqs)
  PROVE  /\ Len(Upto(seqs, j)) <= Len(Upto(seqs, k))
         /\ \A x \in 1..Len(Upto(seqs, j)) : Upto(seqs, k)[x] = Upto(seqs, j)[x]
<1> DEFINE n == Len(seqs)
           J == Upto(seqs, j)
           Reached(m) == LET K == Upto(seqs, m) IN
                         Len(J) <= Len(K) /\ \A x \in 1..Len(J) : K[x] = J[x]
           T == {d \in Nat : j + d <= n => Reached(j + d)}
<1>0. n \in Nat /\ j \in Nat /\ k \in Nat /\ j <= k /\ k <= n
  OBVIOUS
<1>1. J \in Seq(S) /\ Len(J) \in Nat
  BY <1>0, UptoStep
<1> HIDE DEF n, J
<1>2. 0 \in T
  BY <1>0, <1>1 DEF J
<1>3. ASSUME NEW d \in Nat, d \in T PROVE d + 1 \in T
  <2> SUFFICES ASSUME j + (d + 1) <= n PROVE Reached(j + (d + 1))
    OBVIOUS
  <2> DEFINE m == j + d
             K == Upto(seqs, m)
             s == seqs[m + 1]
  <2>1. m \in 0..n - 1 /\ m \in 0..n /\ m + 1 = j + (d + 1) /\ m + 1 \in 1..n /\ m <= n
    BY <1>0
  <2>2. Upto(seqs, m + 1) = K \o s /\ K \in Seq(S)
    BY <2>1, UptoStep, Zenon DEF n
  <2>3. s \in Seq(S)
    BY <2>1 DEF n
  <2>4. Reached(m)
    BY <1>3, <2>1
  <2> HIDE DEF K, s, m
  <2>5. /\ Len(K \o s) = Len(K) + Len(s) /\ \A x \in 1..Len(K) : (K \o s)[x] = K[x]
        /\ Len(K) \in Nat /\ Len(s) \in Nat
    BY <2>2, <2>3, ConcatIs
  <2>6. Len(J) <= Len(K) /\ \A x \in 1..Len(J) : K[x] = J[x]
    BY <2>4 DEF K
  <2>7. Len(J) <= Len(K \o s) /\ \A x \in 1..Len(J) : (K \o s)[x] = J[x]
    <3>1. Len(J) <= Len(K \o s)
      BY <1>1, <2>5, <2>6
    <3>2. \A x \in 1..Len(J) : x \in 1..Len(K)
      BY <1>1, <2>5, <2>6
    <3> QED BY <2>5, <2>6, <3>1, <3>2, Zenon
  <2> QED BY <2>1, <2>2, <2>7, Zenon
<1> HIDE DEF T
<1>4. k - j \in T
  <2>1. k - j \in Nat
    BY <1>0
  <2> QED BY <1>2, <1>3, <2>1, SetInduction
<1>5. Reached(k)
  <2>1. j + (k - j) = k /\ k <= n
    BY <1>0
  <2> QED BY <1>4, <2>1 DEF T
<1> QED BY <1>5, Zenon DEF J

\* The words of each are where those before them end.
LEMMA UptoWords ==
  ASSUME NEW S, NEW seqs \in Seq(Seq(S)), NEW j \in 0..Len(seqs) - 1
  PROVE  /\ Len(Upto(seqs, j)) \in Nat /\ Len(FlattenSeq(seqs)) \in Nat
         /\ Len(Upto(seqs, j + 1)) = Len(Upto(seqs, j)) + Len(seqs[j + 1])
         /\ Len(Upto(seqs, j + 1)) <= Len(FlattenSeq(seqs))
         /\ \A x \in 1..Len(seqs[j + 1]) :
              FlattenSeq(seqs)[Len(Upto(seqs, j)) + x] = seqs[j + 1][x]
<1> DEFINE n == Len(seqs)
           J == Upto(seqs, j)
           K == Upto(seqs, j + 1)
           s == seqs[j + 1]
           all == FlattenSeq(seqs)
<1>1. j \in 0..n /\ j + 1 \in 0..n /\ n \in j + 1..n /\ n \in 0..n /\ j + 1 \in 1..n
  OBVIOUS
<1>2. J \in Seq(S) /\ s \in Seq(S) /\ K = J \o s /\ all = Upto(seqs, n) /\ all \in Seq(S)
  <2>1. s \in Seq(S)
    BY <1>1
  <2> QED BY <1>1, <2>1, UptoStep, Zenon
<1>3. Len(K) <= Len(all) /\ \A x \in 1..Len(K) : all[x] = K[x]
  BY <1>1, <1>2, UptoReaches
<1> HIDE DEF J, K, s, all
<1>4. /\ Len(K) = Len(J) + Len(s) /\ Len(J) \in Nat /\ Len(s) \in Nat /\ Len(all) \in Nat
      /\ \A x \in 1..Len(s) : K[Len(J) + x] = s[x]
  BY <1>2, ConcatIs
<1>5. \A x \in 1..Len(s) : Len(J) + x \in 1..Len(K)
  BY <1>4
<1>6. \A x \in 1..Len(s) : all[Len(J) + x] = s[x]
  BY <1>3, <1>4, <1>5, Zenon
<1> QED BY <1>3, <1>4, <1>6, Zenon DEF J, K, s, all
-----------------------------------------------------------------------------
\* No flag takes more than four arguments.
LEMMA ArityType == ASSUME NEW flag PROVE Arity(flag) \in 0..4
BY DEF Arity

\* What a fabric that takes arguments accepts for them are numbers.
LEMMA AcceptsNumbers ==
  ASSUME NEW flag, NEW args, Accepts(flag, args), NEW i \in 1..Arity(flag)
  PROVE  args[i] \in DOMAIN IntOf \cup DOMAIN TenthsOf
<1>1. CASE flag = "-crop"
  BY <1>1 DEF Accepts, Arity, IsInteger
<1>2. CASE flag \in {"-edge", "-blur"}
  BY <1>2 DEF Accepts, Arity, IsFloat
<1>3. CASE flag = "-tunnel"
  BY <1>3 DEF Accepts, Arity, IsInteger, IsFloat
<1>4. CASE flag \notin {"-crop", "-edge", "-blur", "-tunnel"}
  BY <1>4 DEF Arity
<1> QED BY <1>1, <1>2, <1>3, <1>4

\* Where the words of an option are in argv.
LEMMA OptionAt ==
  ASSUME options \in Seq(Options), NEW j \in 0..Len(options) - 1
  PROVE  /\ options[j + 1] \in Options /\ options[j + 1] \in Seq(STRING)
         /\ Len(options[j + 1]) \in Nat \ {0} /\ options[j + 1][1] \in Flags
         /\ Len(Upto(options, j)) \in Nat /\ Len(argv) \in Nat
         /\ Len(Upto(options, j + 1)) = Len(Upto(options, j)) + Len(options[j + 1])
         /\ Len(Upto(options, j + 1)) <= Len(argv)
         /\ \A x \in 1..Len(options[j + 1]) :
              argv[Len(Upto(options, j)) + x] = options[j + 1][x]
<1>1. options \in Seq(Seq(STRING))
  BY OptionsAssumption
<1>2. options[j + 1] \in Options
  OBVIOUS
<1>3. /\ options[j + 1] \in Seq(STRING) /\ Len(options[j + 1]) \in Nat \ {0}
      /\ options[j + 1][1] \in Flags
  BY <1>2, OptionsAssumption
<1>4. /\ Len(Upto(options, j)) \in Nat /\ Len(argv) \in Nat
      /\ Len(Upto(options, j + 1)) = Len(Upto(options, j)) + Len(options[j + 1])
      /\ Len(Upto(options, j + 1)) <= Len(argv)
      /\ \A x \in 1..Len(options[j + 1]) :
           argv[Len(Upto(options, j)) + x] = options[j + 1][x]
  BY <1>1, UptoWords, Zenon DEF argv
<1> QED BY <1>2, <1>3, <1>4, Zenon

\* All the words, and none.
LEMMA AllWords ==
  ASSUME options \in Seq(Options)
  PROVE  /\ argv \in Seq(STRING) /\ Len(argv) \in Nat
         /\ Upto(options, 0) = <<>> /\ Len(Upto(options, Len(options))) = Len(argv)
<1>1. options \in Seq(Seq(STRING))
  BY OptionsAssumption
<1>2. Upto(options, 0) = <<>> /\ Upto(options, Len(options)) = argv
  BY <1>1, UptoStep, Zenon DEF argv
<1>3. Upto(options, Len(options)) \in Seq(STRING)
  <2>1. Len(options) \in 0..Len(options)
    OBVIOUS
  <2> QED BY <1>1, <2>1, UptoStep, Zenon
<1> QED BY <1>2, <1>3

\* The words that the parser takes for the arguments of a flag at an option.
Taken(flag) == SubSeq(argv, cur_arg + 2, cur_arg + 1 + Arity(flag))

\* At the beginning of an option the parser does with the flat list what the
\* option alone deserves: an option too short would take the next flag for a
\* number, or end the list.
LEMMA AtAnOption ==
  ASSUME options \in Seq(Options), NEW j \in 0..Len(options) - 1,
         cur_arg = Len(Upto(options, j))
  PROVE  LET flag == argv[cur_arg + 1]
             option == options[j + 1] IN
         /\ flag = option[1]
         /\ WellFormed(option) => Enough(flag) /\ Accepts(flag, Taken(flag))
         /\ Enough(flag) /\ Accepts(flag, Taken(flag)) => 1 + Arity(flag) <= Len(option)
         /\ Enough(flag) /\ Accepts(flag, Taken(flag)) /\ 1 + Arity(flag) = Len(option) =>
              WellFormed(option) /\ Taken(flag) = Tail(option)
<1> DEFINE option == options[j + 1]
           flag == option[1]
           l == Len(option)
           k == Arity(flag)
<1>1. /\ option \in Seq(STRING) /\ l \in Nat \ {0} /\ flag \in Flags
      /\ cur_arg \in Nat /\ Len(argv) \in Nat
      /\ Len(Upto(options, j + 1)) = cur_arg + l /\ cur_arg + l <= Len(argv)
      /\ \A x \in 1..l : argv[cur_arg + x] = option[x]
  BY OptionAt
<1>2. argv \in Seq(STRING)
  BY AllWords
<1>3. argv[cur_arg + 1] = flag
  <2>1. 1 \in 1..l
    BY <1>1
  <2> QED BY <1>1, <2>1
<1>4. k \in 0..4
  BY ArityType
<1> HIDE DEF option, l, k
<1>5. /\ Enough(flag) <=> cur_arg + 1 + k <= Len(argv)
      /\ WellFormed(option) <=> l = 1 + k /\ Accepts(flag, Tail(option))
  BY <1>1, Zenon DEF Enough, WellFormed, k, l
<1>6. ASSUME cur_arg + 1 + k <= Len(argv)
      PROVE  /\ Len(Taken(flag)) = k
             /\ \A i \in 1..k : Taken(flag)[i] = argv[cur_arg + 1 + i]
             /\ Taken(flag) \in Seq(STRING)
  <2> DEFINE from == cur_arg + 2
             to == cur_arg + 1 + k
  <2>1. from \in Nat \ {0} /\ to \in Nat /\ from <= to + 1 /\ to <= Len(argv)
    BY <1>1, <1>4, <1>6
  <2>2. /\ to - from + 1 = k
        /\ \A i \in 1..k : from + i - 1 = cur_arg + 1 + i
    BY <1>1, <1>4
  <2> HIDE DEF from, to
  <2>3. /\ Len(SubSeq(argv, from, to)) = to - from + 1
        /\ \A i \in 1..to - from + 1 : SubSeq(argv, from, to)[i] = argv[from + i - 1]
        /\ SubSeq(argv, from, to) \in Seq(STRING)
    BY <1>2, <2>1, SubSeqIs
  <2>4. Taken(flag) = SubSeq(argv, from, to)
    BY Zenon DEF Taken, from, to, k
  <2> QED BY <2>2, <2>3, <2>4, Zenon
<1>7. ASSUME l = 1 + k
      PROVE  cur_arg + 1 + k <= Len(argv) /\ Taken(flag) = Tail(option)
  <2>1. cur_arg + 1 + k <= Len(argv)
    BY <1>1, <1>4, <1>7
  <2>2. Tail(option) \in Seq(STRING) /\ Len(Tail(option)) = k
    BY <1>1, <1>4, <1>7 DEF l
  <2>3. ASSUME NEW i \in 1..k PROVE Taken(flag)[i] = Tail(option)[i]
    <3>1. i + 1 \in 1..l /\ cur_arg + 1 + i = cur_arg + (i + 1)
      <4>1. i \in Nat /\ 1 <= i /\ i <= k /\ k \in Nat /\ cur_arg \in Nat
        BY <1>1, <1>4
      <4> QED BY <1>7, <4>1
    <3>2. Taken(flag)[i] = option[i + 1]
      BY <1>1, <1>6, <2>1, <3>1
    <3>3. Tail(option)[i] = option[i + 1]
      BY <1>1, <1>4, <1>7 DEF l
    <3> QED BY <3>2, <3>3
  <2> QED BY <1>4, <1>6, <2>1, <2>2, <2>3
<1>8. ASSUME cur_arg + 1 + k <= Len(argv), Accepts(flag, Taken(flag)), l < 1 + k
      PROVE  FALSE
  <2>1. j + 1 \in 0..Len(options) - 1
    <3>1. j + 1 # Len(options)
      BY <1>1, <1>4, <1>8, AllWords
    <3> QED BY <3>1
  <2>2. options[(j + 1) + 1][1] \in Flags /\ Len(options[(j + 1) + 1]) \in Nat \ {0}
    BY <2>1, OptionAt, Zenon
  <2>3. \A x \in 1..Len(options[(j + 1) + 1]) :
          argv[Len(Upto(options, j + 1)) + x] = options[(j + 1) + 1][x]
    BY <2>1, OptionAt, Zenon
  <2>4. argv[cur_arg + l + 1] = options[(j + 1) + 1][1]
    <3>1. 1 \in 1..Len(options[(j + 1) + 1])
      BY <2>2
    <3>2. argv[Len(Upto(options, j + 1)) + 1] = options[(j + 1) + 1][1]
      BY <2>3, <3>1, Zenon
    <3>3. Len(Upto(options, j + 1)) + 1 = cur_arg + l + 1
      BY <1>1, Zenon
    <3> QED BY <3>2, <3>3, Zenon
  <2>5. l \in 1..k /\ cur_arg + 1 + l = cur_arg + l + 1
    BY <1>1, <1>4, <1>8
  <2>6. Taken(flag)[l] = argv[cur_arg + l + 1]
    BY <1>6, <1>8, <2>5
  <2>7. Taken(flag)[l] \in DOMAIN IntOf \cup DOMAIN TenthsOf
    BY <1>8, <2>5, AcceptsNumbers, Zenon DEF k
  <2> QED BY <2>2, <2>4, <2>6, <2>7, OptionsAssumption
<1>9. 1 + k \in Nat /\ (~(l < 1 + k) => 1 + k <= l)
  BY <1>1, <1>4
<1> QED BY <1>3, <1>5, <1>7, <1>8, <1>9, Zenon DEF option, l, k

\* What each option makes, and that the parser is between options: it has read
\* the first j, which were right, and has made their filters.
FiltersMade == [i \in 1..Len(options) |-> FiltersOf(options[i])]
Between(j) == /\ cur_arg = Len(Upto(options, j)) /\ filters = Upto(FiltersMade, j)
              /\ \A i \in 1..j : WellFormed(options[i])
\* Or it has read the arguments of option j + 1, which has words too many.
Inside(j) == LET needed == 1 + Arity(options[j + 1][1])
             IN needed < Len(options[j + 1]) /\ cur_arg = Len(Upto(options, j)) + needed
SomeWrong == \E i \in 1..Len(options) : ~WellFormed(options[i])

\* The inductive invariant of the parser.
ParserInv ==
  /\ options \in Seq(Options) /\ cur_arg \in 0..Len(argv)
  /\ phase = "parse" => \/ \E j \in 0..Len(options) : Between(j)
                        \/ \E j \in 0..Len(options) - 1 : Inside(j)
  /\ phase \notin {"parse", "ParserException"} => Between(Len(options))
  /\ phase = "ParserException" /\ input \notin Refused => SomeWrong
  /\ input \in Refused => phase = "ParserException"

\* Every option makes at most one filter, of some kind.
LEMMA FiltersMadeType ==
  ASSUME options \in Seq(Options)
  PROVE  \E S : FiltersMade \in Seq(Seq(S))
<1> DEFINE S == {Make(option[1], Tail(option)) : option \in Options}
<1>1. ASSUME NEW i \in 1..Len(options) PROVE FiltersOf(options[i]) \in Seq(S)
  <2>1. options[i] \in Options
    OBVIOUS
  <2>2. Make(options[i][1], Tail(options[i])) \in S
    BY <2>1
  <2> HIDE DEF S
  <2>3. <<>> \in Seq(S) /\ <<Make(options[i][1], Tail(options[i]))>> \in Seq(S)
    BY <2>2
  <2> QED BY <2>3, Zenon DEF FiltersOf
<1> HIDE DEF S
<1>2. FiltersMade \in Seq(Seq(S))
  BY <1>1 DEF FiltersMade
<1> QED BY <1>2

\* The filters of one option more.
LEMMA MadeNext ==
  ASSUME options \in Seq(Options), NEW j \in 0..Len(options) - 1
  PROVE  LET flag == options[j + 1][1]  one == Make(flag, Tail(options[j + 1])) IN
         Upto(FiltersMade, j + 1) =
           IF Skipped(flag) THEN Upto(FiltersMade, j) ELSE Append(Upto(FiltersMade, j), one)
<1> DEFINE flag == options[j + 1][1]
           one == Make(flag, Tail(options[j + 1]))
           before == Upto(FiltersMade, j)
<1>1. PICK S : FiltersMade \in Seq(Seq(S))
  BY FiltersMadeType
<1>2. Len(FiltersMade) = Len(options) /\ j + 1 \in 1..Len(options) /\ j \in 0..Len(options)
  BY DEF FiltersMade
<1>3. FiltersMade[j + 1] = FiltersOf(options[j + 1])
  BY <1>2 DEF FiltersMade
<1>4. Upto(FiltersMade, j + 1) = before \o FiltersOf(options[j + 1]) /\ before \in Seq(S)
  BY <1>1, <1>2, <1>3, UptoStep, Zenon
<1> HIDE DEF before, one
<1>5. before \o <<>> = before /\ before \o <<one>> = Append(before, one)
  BY <1>4
<1>6. FiltersOf(options[j + 1]) = IF Skipped(flag) THEN <<>> ELSE <<one>>
  BY Zenon DEF FiltersOf, one
<1> QED BY <1>4, <1>5, <1>6, Zenon DEF before, one

\* At first the parser is before the first option.
LEMMA ParserInit == Init => ParserInv
<1> SUFFICES ASSUME Init PROVE ParserInv
  OBVIOUS
<1>1. options \in BoundedSeq(Options, MaxOptions) /\ cur_arg = 0 /\ filters = <<>>
  BY Zenon DEF Init
<1>2. options \in Seq(Options)
  <2>1. PICK m \in 0..MaxOptions : options \in [1..m -> Options]
    BY <1>1, Zenon DEF BoundedSeq, SeqOf
  <2>2. m \in Nat
    BY SizesAssumption
  <2> QED BY <2>1, <2>2
<1>3. Upto(options, 0) = <<>> /\ Len(argv) \in Nat
  BY <1>2, AllWords
<1>4. Upto(FiltersMade, 0) = <<>>
  BY <1>2, FiltersMadeType, UptoStep
<1>5. Between(0) /\ 0 \in 0..Len(options)
  BY <1>1, <1>2, <1>3, <1>4 DEF Between
<1>6. /\ phase \in {"help", "parse", "ParserException"}
      /\ phase = "ParserException" <=> input \in Refused
      /\ phase = "help" => Len(options) = 0
  BY FirstPhase
<1> QED BY <1>1, <1>2, <1>3, <1>5, <1>6 DEF ParserInv

\* An option more, or an error.
LEMMA ParserOption == ParserInv /\ ParseOption => ParserInv'
<1> SUFFICES ASSUME ParserInv, ParseOption PROVE ParserInv'
  OBVIOUS
<1> DEFINE flag == argv[cur_arg + 1]
           args == Taken(flag)
           right == flag \in Flags /\ Enough(flag) /\ Accepts(flag, args)
           n == Len(options)
<1>1. /\ phase = "parse" /\ cur_arg < Len(argv) /\ options' = options /\ input' = input
      /\ right => /\ filters' = IF Skipped(flag) THEN filters ELSE Append(filters, Make(flag, args))
                  /\ cur_arg' = cur_arg + Step(flag) /\ phase' = phase
      /\ ~right => phase' = "ParserException" /\ filters' = filters /\ cur_arg' = cur_arg
  BY Zenon DEF ParseOption, Taken, Throw
<1> HIDE DEF right, flag, args
<1>2. options \in Seq(Options) /\ cur_arg \in Nat /\ Len(argv) \in Nat /\ n \in Nat
  BY AllWords DEF ParserInv
<1>3. argv' = argv /\ FiltersMade' = FiltersMade
  BY <1>1, Zenon DEF argv, FiltersMade
<1>4. \A j : Upto(options, j)' = Upto(options, j) /\ Upto(FiltersMade, j)' = Upto(FiltersMade, j)
  BY <1>1, <1>3, Zenon DEF Upto
<1>5. cur_arg' \in 0..Len(argv)
  <2>1. CASE right
    BY <1>1, <1>2, <2>1, ArityType DEF right, Enough, Step
  <2>2. CASE ~right
    BY <1>1, <1>2, <2>2
  <2> QED BY <2>1, <2>2
<1>6. CASE \E j \in 0..n - 1 : Inside(j)
  <2>1. PICK j \in 0..n - 1 : Inside(j)
    BY <1>6
  <2> DEFINE option == options[j + 1]
             k == Arity(option[1])
  <2>2. /\ option \in Options /\ Len(option) \in Nat /\ k \in 0..4 /\ option[1] \in Flags
        /\ Len(Upto(options, j)) \in Nat
        /\ \A x \in 1..Len(option) : argv[Len(Upto(options, j)) + x] = option[x]
    BY <1>2, <2>1, OptionAt, ArityType
  <2>3. 1 + k < Len(option) /\ cur_arg = Len(Upto(options, j)) + (1 + k)
    BY <2>1, Zenon DEF Inside
  <2>4. \A i \in k + 2..Len(option) : option[i] \notin Flags
    BY <2>2, OptionsAssumption
  <2> HIDE DEF option, k
  <2>5. flag = option[k + 2]
    <3>1. k + 2 \in 1..Len(option) /\ cur_arg + 1 = Len(Upto(options, j)) + (k + 2)
      BY <2>2, <2>3
    <3> QED BY <2>2, <3>1, Zenon DEF flag
  <2>6. ~right
    <3>1. k + 2 \in k + 2..Len(option)
      BY <2>2, <2>3
    <3> QED BY <2>4, <2>5, <3>1, Zenon DEF right
  <2>7. j + 1 \in 1..n /\ Len(option) # 1 + k
    BY <1>2, <2>2, <2>3
  <2>8. SomeWrong
    BY <2>7, Zenon DEF SomeWrong, WellFormed, option, k
  <2>9. SomeWrong'
    BY <1>1, <2>8 DEF SomeWrong, WellFormed, Accepts
  <2> QED BY <1>1, <1>2, <1>3, <1>5, <2>6, <2>9 DEF ParserInv
<1>7. CASE \E j \in 0..n : Between(j)
  <2>1. PICK j \in 0..n : Between(j)
    BY <1>7
  <2> DEFINE option == options[j + 1]
             k == Arity(flag)
  <2>2. cur_arg = Len(Upto(options, j)) /\ filters = Upto(FiltersMade, j)
    BY <2>1 DEF Between
  <2>3. j \in 0..n - 1 /\ j + 1 \in 0..n /\ j + 1 \in 1..n
    <3>1. j # n
      BY <1>1, <1>2, <2>2, AllWords
    <3> QED BY <1>2, <3>1
  <2>4. /\ flag = option[1]
        /\ WellFormed(option) => Enough(flag) /\ Accepts(flag, args)
        /\ Enough(flag) /\ Accepts(flag, args) => 1 + k <= Len(option)
        /\ Enough(flag) /\ Accepts(flag, args) /\ 1 + k = Len(option) =>
             WellFormed(option) /\ args = Tail(option)
    BY <1>2, <2>2, <2>3, AtAnOption, Zenon DEF flag, args
  <2>5. /\ option[1] \in Flags /\ Len(option) \in Nat /\ k \in 0..4
        /\ Len(Upto(options, j + 1)) = Len(Upto(options, j)) + Len(option)
        /\ Len(Upto(options, j)) \in Nat
    BY <1>2, <2>3, OptionAt, ArityType
  <2>6. CASE ~right
    <3>1. ~WellFormed(option)
      BY <2>4, <2>5, <2>6, Zenon DEF right
    <3>2. SomeWrong
      BY <2>3, <3>1, Zenon DEF SomeWrong
    <3>3. SomeWrong'
      BY <1>1, <3>2 DEF SomeWrong, WellFormed, Accepts
    <3> QED BY <1>1, <1>2, <1>3, <1>5, <2>6, <3>3 DEF ParserInv
  <2> HIDE DEF option, k
  <2>7. CASE right /\ 1 + k = Len(option)
    <3>1. WellFormed(option) /\ args = Tail(option)
      BY <2>4, <2>7, Zenon DEF right
    <3>2. cur_arg' = Len(Upto(options, j + 1))
      BY <1>1, <1>2, <2>2, <2>5, <2>7 DEF Step, k
    <3>3. filters' = Upto(FiltersMade, j + 1)
      BY <1>1, <1>2, <2>2, <2>3, <2>4, <2>7, <3>1, MadeNext, Zenon DEF option
    <3>4. ASSUME NEW i \in 1..j + 1 PROVE WellFormed(options[i])
      <4>1. i \in 1..j \/ i = j + 1
        BY <2>3
      <4> QED BY <2>1, <3>1, <4>1, Zenon DEF Between, option
    <3>5. \A i \in 1..j + 1 : WellFormed(options[i])'
      BY <1>1, <3>4 DEF WellFormed, Accepts
    <3>6. Between(j + 1)'
      BY <1>4, <3>2, <3>3, <3>5, Zenon DEF Between
    <3> QED BY <1>1, <1>2, <1>3, <1>5, <2>3, <2>7, <3>6 DEF ParserInv
  <2>8. CASE right /\ 1 + k # Len(option)
    <3>1. 1 + k < Len(option)
      BY <2>4, <2>5, <2>8 DEF right
    <3>2. cur_arg' = Len(Upto(options, j)) + (1 + k)
      BY <1>1, <1>2, <2>2, <2>5, <2>8 DEF Step, k
    <3>3. Inside(j)'
      BY <1>1, <1>4, <2>4, <3>1, <3>2, Zenon DEF Inside, option, k
    <3> QED BY <1>1, <1>2, <1>3, <1>5, <2>3, <2>8, <3>3 DEF ParserInv
  <2> QED BY <2>6, <2>7, <2>8
<1> QED BY <1>1, <1>6, <1>7, Zenon DEF ParserInv

\* The parser ends only between options, and nothing after it changes its result.
LEMMA ParserStep == ParserInv /\ [Next]_vars => ParserInv'
<1> SUFFICES ASSUME ParserInv, [Next]_vars PROVE ParserInv'
  OBVIOUS
<1>1. CASE ParseOption
  BY <1>1, ParserOption
<1>2. CASE EndParse
  <2>1. /\ phase = "parse" /\ cur_arg = Len(argv) /\ phase' = "read" /\ options' = options
        /\ input' = input /\ cur_arg' = cur_arg /\ filters' = filters
    BY <1>2, Zenon DEF EndParse
  <2>2. options \in Seq(Options) /\ Len(options) \in Nat /\ cur_arg \in 0..Len(argv)
    BY DEF ParserInv
  <2>3. ASSUME NEW j \in 0..Len(options) - 1, Inside(j) PROVE FALSE
    <3>1. /\ Len(Upto(options, j + 1)) = Len(Upto(options, j)) + Len(options[j + 1])
          /\ Len(Upto(options, j + 1)) <= Len(argv) /\ Len(Upto(options, j)) \in Nat
          /\ Len(options[j + 1]) \in Nat /\ Len(argv) \in Nat
          /\ Arity(options[j + 1][1]) \in 0..4
      BY <2>2, OptionAt, ArityType
    <3> QED BY <2>1, <2>3, <3>1 DEF Inside
  <2>4. ASSUME NEW j \in 0..Len(options), Between(j) PROVE j = Len(options)
    <3> SUFFICES ASSUME j # Len(options) PROVE FALSE
      OBVIOUS
    <3>1. j \in 0..Len(options) - 1
      BY <2>2
    <3>2. /\ Len(Upto(options, j + 1)) = Len(Upto(options, j)) + Len(options[j + 1])
          /\ Len(Upto(options, j + 1)) <= Len(argv) /\ Len(Upto(options, j)) \in Nat
          /\ Len(options[j + 1]) \in Nat \ {0} /\ Len(argv) \in Nat
      BY <2>2, <3>1, OptionAt
    <3>3. cur_arg = Len(Upto(options, j))
      BY <2>4 DEF Between
    <3> QED BY <2>1, <3>2, <3>3
  <2>5. Between(Len(options))
    BY <2>1, <2>3, <2>4 DEF ParserInv
  <2>6. argv' = argv /\ FiltersMade' = FiltersMade
    BY <2>1, Zenon DEF argv, FiltersMade
  <2>7. Between(Len(options))'
    BY <2>1, <2>5, <2>6 DEF Between, Upto, WellFormed, Accepts
  <2> QED BY <2>1, <2>2, <2>6, <2>7 DEF ParserInv
<1>3. CASE ~ParseOption /\ ~EndParse
  <2>1. /\ options' = options /\ input' = input /\ cur_arg' = cur_arg /\ filters' = filters
    BY <1>3, Zenon DEF Next, vars, ReadFile, ReadFails, ApplyCrop, ApplyPixelwise,
       ApplyMatrix, ApplyBlur, BlurThrows, ApplyTunnel, TunnelThrows, EndApply, WriteFile,
       WriteFails, Applied, FilterThrows
  <2>2. phase' = phase \/ (phase \notin {"parse", "ParserException"} /\
                           phase' \notin {"parse", "ParserException"})
    BY <1>3 DEF Next, vars, ReadFile, ReadFails, ApplyCrop, ApplyPixelwise,
       ApplyMatrix, ApplyBlur, BlurThrows, ApplyTunnel, TunnelThrows, EndApply, WriteFile,
       WriteFails, Applied, FilterThrows, Throw, NextIs
  <2>3. argv' = argv /\ FiltersMade' = FiltersMade
    BY <2>1, Zenon DEF argv, FiltersMade
  <2>4. \A j : (Between(j)' <=> Between(j)) /\ (Inside(j)' <=> Inside(j))
    BY <2>1, <2>3 DEF Between, Inside, Upto, WellFormed, Accepts
  <2>5. SomeWrong' <=> SomeWrong
    BY <2>1 DEF SomeWrong, WellFormed, Accepts
  <2> QED BY <2>1, <2>2, <2>3, <2>4, <2>5, Zenon DEF ParserInv
<1> QED BY <1>1, <1>2, <1>3

\* The parser accepts the arguments exactly if the paths are right and each option
\* alone is, and makes their filters in their order, however many there are.
THEOREM ParserIsExact == Spec => []ParseIsExact
<1>1. Spec => []ParserInv
  BY ParserInit, ParserStep, PTL DEF Spec
<1>2. ParserInv => ParseIsExact
  <2> SUFFICES ASSUME ParserInv, phase # "parse"
               PROVE  IF input \notin Refused /\ \A i \in 1..Len(options) : WellFormed(options[i])
                      THEN phase # "ParserException" /\ filters = FlattenSeq(FiltersMade)
                      ELSE phase = "ParserException"
    BY Zenon DEF ParseIsExact, FiltersMade
  <2>1. CASE phase = "ParserException"
    BY <2>1, Zenon DEF ParserInv, SomeWrong
  <2>2. CASE phase # "ParserException"
    <3>1. Between(Len(options)) /\ options \in Seq(Options)
      BY <2>2 DEF ParserInv
    <3>2. Upto(FiltersMade, Len(options)) = FlattenSeq(FiltersMade)
      <4>1. Len(FiltersMade) = Len(options)
        BY <3>1 DEF FiltersMade
      <4> QED BY <3>1, <4>1, FiltersMadeType, UptoStep, Zenon
    <3>3. input \notin Refused
      BY <2>2, Zenon DEF ParserInv
    <3> QED BY <2>2, <3>1, <3>2, <3>3, Zenon DEF Between
  <2> QED BY <2>1, <2>2
<1> QED BY <1>1, <1>2, PTL

-----------------------------------------------------------------------------
\* Filters as the fabrics make them: a crop has the numbers of an int16_t.
FilterType == {f \in [op : Flags \ {"-other"}, a : Int, b : Int] :
                 f.op = "-crop" => {f.a, f.b} \subseteq Int16s}

\* Whatever number a word stands for, what Crop keeps of it fits.
LEMMA Int16Fits == ASSUME NEW n \in Int PROVE Int16(n) \in Int16s
<1> DEFINE r == (n + 32768) % 65536
<1>1. r \in Int /\ 0 <= r /\ r <= 65535
  BY SMT
<1>2. Int16(n) = r - 32768
  BY SMT DEF Int16
<1> HIDE DEF r
<1> QED BY <1>1, <1>2, SMT DEF Int16s

\* A filter is one of them if what it has is right.
LEMMA FilterTypeHas ==
  ASSUME NEW f \in [op : Flags, a : Int, b : Int], f.op # "-other",
         f.op = "-crop" => f.a \in Int16s /\ f.b \in Int16s
  PROVE  f \in FilterType
<1>1. f \in [op : Flags \ {"-other"}, a : Int, b : Int]
  OBVIOUS
<1>2. f.op = "-crop" => {f.a, f.b} \subseteq Int16s
  OBVIOUS
<1> QED BY <1>1, <1>2, Zenon DEF FilterType

\* What a fabric makes is such a filter.
LEMMA MakeFits ==
  ASSUME NEW flag \in Flags, NEW args, Accepts(flag, args), ~Skipped(flag)
  PROVE  Make(flag, args) \in FilterType
<1>1. Make(flag, args) \in [op : Flags, a : Int, b : Int]
  BY MakeType
<1>2. CASE flag = "-crop"
  <2>1. IntOf[args[1]] \in Int /\ IntOf[args[2]] \in Int
    BY <1>2, WordsAssumption DEF Accepts, IsInteger
  <2>2. Make(flag, args) = [op |-> flag, a |-> Int16(IntOf[args[1]]), b |-> Int16(IntOf[args[2]])]
    BY <1>2 DEF Make
  <2>3. Int16(IntOf[args[1]]) \in Int16s /\ Int16(IntOf[args[2]]) \in Int16s
    BY <2>1, Int16Fits, Zenon
  <2>4. Make(flag, args).a \in Int16s /\ Make(flag, args).b \in Int16s
    BY <2>2, <2>3
  <2>5. Make(flag, args).op = flag
    BY <2>2
  <2> QED BY <1>1, <1>2, <2>4, <2>5, FilterTypeHas
<1>3. CASE flag # "-crop"
  <2>1. Make(flag, args).op = flag
    BY <1>3 DEF Make
  <2>2. Make(flag, args).op \in Flags \ {"-other"}
    BY <2>1 DEF Skipped
  <2> QED BY <1>1, <1>3, <2>1, <2>2, FilterTypeHas
<1> QED BY <1>2, <1>3

\* The inductive invariant: TypeOK with what its parts need.
TypeInv == /\ original \in Sizes \X Sizes /\ input \in Inputs
           /\ phase \in {"help", "parse", "read", "apply", "write", "done"} \cup Exceptions
           /\ filters \in Seq(FilterType) /\ applied \in 0..Len(filters)
           /\ phase = "parse" => applied = 0
           /\ pixels \in Seq(Nat) /\ buffer \in Seq(Nat)

\* Rows of one length are a sequence of numbers.
LEMMA UniformType == ASSUME NEW h \in Nat, NEW w \in Nat PROVE Uniform(h, w) \in Seq(Nat)
BY DEF Uniform

\* Nothing is read and nothing made.
LEMMA TypeInit == Init => TypeInv
<1> SUFFICES ASSUME Init PROVE TypeInv
  OBVIOUS
<1>1. <<>> \in Seq(FilterType) /\ <<>> \in Seq(Nat)
  BY EmptySeqIn, Zenon
<1>2. phase \in {"help", "parse", "ParserException"}
  BY FirstPhase
<1>3. original \in Sizes \X Sizes /\ input \in Inputs
  BY Zenon DEF Init
<1>4. filters = <<>> /\ applied = 0 /\ pixels = <<>> /\ buffer = <<>>
  BY DEF Init
<1> QED BY <1>1, <1>2, <1>3, <1>4 DEF TypeInv, Exceptions

\* One step per action; only the parser makes filters.
LEMMA TypeStep == TypeInv /\ ShapeInv /\ [Next]_vars => TypeInv'
<1> SUFFICES ASSUME TypeInv, ShapeInv, [Next]_vars PROVE TypeInv'
  OBVIOUS
<1>1. CASE ParseOption
  <2> DEFINE flag == argv[cur_arg + 1]
             args == SubSeq(argv, cur_arg + 2, cur_arg + 1 + Arity(flag))
  <2>1. filters' \in Seq(FilterType) /\ applied' = applied /\ applied = 0
    <3>1. phase = "parse" /\ applied' = applied
      BY <1>1, Zenon DEF ParseOption
    <3>2. CASE filters' = filters
      BY <3>1, <3>2 DEF TypeInv
    <3>3. CASE filters' # filters
      <4>1. /\ flag \in Flags /\ Accepts(flag, args) /\ ~Skipped(flag)
            /\ filters' = Append(filters, Make(flag, args))
        BY <1>1, <3>3, Zenon DEF ParseOption
      <4> HIDE DEF flag, args
      <4>2. Make(flag, args) \in FilterType
        BY <4>1, MakeFits
      <4> QED BY <3>1, <4>1, <4>2 DEF TypeInv
    <3> QED BY <3>2, <3>3
  <2>2. phase' \in {"parse", "ParserException"}
    BY <1>1 DEF ParseOption, Throw
  <2>3. original' = original /\ input' = input /\ pixels' = pixels /\ buffer' = buffer
    BY <1>1, Zenon DEF ParseOption, shapeVars
  <2> QED BY <2>1, <2>2, <2>3 DEF TypeInv, Exceptions
<1>2. CASE ~ParseOption
  <2>1. filters' = filters /\ original' = original /\ input' = input
    BY <1>2, Zenon DEF Next, vars, EndParse, ReadFile, ReadFails, ApplyCrop, ApplyPixelwise,
       ApplyMatrix, ApplyBlur, BlurThrows, ApplyTunnel, TunnelThrows, EndApply, WriteFile,
       WriteFails, Applied, FilterThrows
  <2>2. /\ phase' \in {"help", "parse", "read", "apply", "write", "done"} \cup Exceptions
        /\ phase' = "parse" => phase = "parse" /\ applied' = applied
    BY <1>2 DEF Next, vars, EndParse, ReadFile, ReadFails, ApplyCrop, ApplyPixelwise,
       ApplyMatrix, ApplyBlur, BlurThrows, ApplyTunnel, TunnelThrows, EndApply, WriteFile,
       WriteFails, Applied, FilterThrows, Throw, NextIs, TypeInv, Exceptions
  <2>3. applied' = applied \/ (applied < Len(filters) /\ applied' = applied + 1)
    BY <1>2, Zenon DEF Next, vars, EndParse, ReadFile, ReadFails, ApplyCrop, ApplyPixelwise,
       ApplyMatrix, ApplyBlur, BlurThrows, ApplyTunnel, TunnelThrows, EndApply, WriteFile,
       WriteFails, Applied, FilterThrows, NextIs
  <2>4. applied' \in 0..Len(filters)
    <3>1. Len(filters) \in Nat /\ applied \in 0..Len(filters)
      BY DEF TypeInv
    <3> QED BY <2>3, <3>1
  <2>5. pixels' \in Seq(Nat) /\ buffer' \in Seq(Nat)
    <3>1. height \in Nat /\ width \in Nat
      BY DEF ShapeInv
    <3>2. Uniform(height, width) \in Seq(Nat)
      BY <3>1, UniformType
    <3>3. CASE ApplyCrop
      <4>1. ShapeInv'
        BY ShapeStep
      <4>2. phase' = "apply"
        BY <3>3, Zenon DEF ApplyCrop, NextIs, Applied
      <4>3. /\ pixels' = Uniform(height', width') /\ buffer' = Uniform(height', width')
            /\ height' \in Nat /\ width' \in Nat
        BY <4>1, <4>2 DEF ShapeInv, Shaped
      <4> QED BY <4>3, UniformType
    <3>4. CASE ~ApplyCrop
      <4>1. /\ pixels' \in {pixels, buffer, Uniform(height, width)}
            /\ buffer' \in {pixels, buffer, Uniform(height, width)}
        BY <1>2, <3>4, Zenon DEF Next, vars, shapeVars, EndParse, ReadFile, ReadFails,
           ApplyPixelwise, ApplyMatrix, ApplyBlur, BlurThrows, ApplyTunnel, TunnelThrows,
           EndApply, WriteFile, WriteFails, Applied, FilterThrows
      <4>2. pixels \in Seq(Nat) /\ buffer \in Seq(Nat)
        BY DEF TypeInv
      <4> QED BY <3>2, <4>1, <4>2, Zenon
    <3> QED BY <3>3, <3>4
  <2> QED BY <2>1, <2>2, <2>4, <2>5, Zenon DEF TypeInv
<1> QED BY <1>1, <1>2

\* The parser's result and the image have the types of the code, the numbers of
\* a crop those of an int16_t.
THEOREM TypeCorrect == Spec => []TypeOK
<1>1. Spec => []ShapeInv
  BY ShapeInit, ShapeStep, PTL DEF Spec
<1>2. Spec => []TypeInv
  BY <1>1, TypeInit, TypeStep, PTL DEF Spec
<1>3. Spec => []ParserInv
  BY ParserInit, ParserStep, PTL DEF Spec
<1>4. ShapeInv /\ TypeInv /\ ParserInv => TypeOK
  <2> SUFFICES ASSUME ShapeInv, TypeInv, ParserInv PROVE TypeOK
    OBVIOUS
  <2>1. ASSUME NEW i \in 1..Len(filters)
        PROVE  /\ filters[i].op \in Flags \ {"-other"} /\ {filters[i].a, filters[i].b} \subseteq Int
               /\ filters[i].op = "-crop" => {filters[i].a, filters[i].b} \subseteq Int16s
    <3>1. filters[i] \in FilterType
      BY DEF TypeInv
    <3>2. filters[i] \in [op : Flags \ {"-other"}, a : Int, b : Int]
      BY <3>1 DEF FilterType
    <3>3. filters[i].op = "-crop" => {filters[i].a, filters[i].b} \subseteq Int16s
      BY <3>1, Zenon DEF FilterType
    <3>4. filters[i].op \in Flags \ {"-other"} /\ filters[i].a \in Int /\ filters[i].b \in Int
      BY <3>2
    <3> QED BY <3>3, <3>4, Zenon
  <2>2. height \in Nat /\ width \in Nat
    BY DEF ShapeInv
  <2>3. options \in Seq(Options) /\ cur_arg \in 0..Len(argv)
    BY DEF ParserInv
  <2> QED BY <2>1, <2>2, <2>3, Zenon DEF TypeInv, TypeOK
<1> QED BY <1>1, <1>2, <1>3, <1>4, PTL
=============================================================================
