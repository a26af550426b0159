------------------------------ MODULE Mappings ------------------------------
(***************************************************************************)
(* What a source map or an R8 mapping says of a frame                      *)
(* (internal/symbolicate/sourcemap.go, proguard.go).  A source map lists   *)
(* segments as deltas of the ones before; an R8 mapping lists the calls    *)
(* inlined at a range of lines.  Original columns move as original lines   *)
(* do and are left out, and so are the expressions that split a line.      *)
(***************************************************************************)
EXTENDS Integers, Sequences, FiniteSets, SequencesExt, FiniteSetsExt

CONSTANTS
  Bundles,     \* a release's source maps: sets of [name, sections]
  JsFrames,    \* minified frames: [file, line, col, name]
  Apps,        \* what R8 did to an app: sequences of classes
  JvmFrames,   \* obfuscated frames: [class, method, line, file]
  Unknown      \* no source, no name, no file, no class, nothing restored

VARIABLES bundle, app, frame, restored

mappingVars == <<bundle, app, frame, restored>>

MappingsInit == bundle = {} /\ app = <<>> /\ frame = Unknown /\ restored = Unknown

-----------------------------------------------------------------------------
(* A section is [line, column, good, sources, names, lines]: where it      *)
(* starts, whether it parses, its tables, and for each generated line its  *)
(* segments: <<column>>, <<column, source, line>>, <<column, source, line, *)
(* name>>, all deltas, or <<>> for one that does not decode.  A plain map  *)
(* is one section at the start.                                            *)

Entry(table, i) == IF i + 1 \in DOMAIN table THEN table[i + 1] ELSE Unknown

\* Faulty: every delta starts over with the line.
NextLineFresh(s) == [s EXCEPT !.line = @ + 1, !.col = 0, !.src = 0, !.orig = 0, !.name = 0]

\* Only the generated column does (sourcemap.go:79-80).
NextLine(s) == [s EXCEPT !.line = @ + 1, !.col = 0]

\* One segment of the loop at sourcemap.go:81-108.
Decode(sec, s, seg) ==
  IF seg = <<>> THEN s
  ELSE LET col  == s.col + seg[1]
           has  == Len(seg) > 1
           src  == IF has THEN s.src + seg[2] ELSE s.src
           orig == IF has THEN s.orig + seg[3] ELSE s.orig
           name == IF Len(seg) > 3 THEN s.name + seg[4] ELSE s.name
       IN [s EXCEPT !.col = col, !.src = src, !.orig = orig, !.name = name,
             !.out = Append(@, [line |-> s.line, col |-> col, has |-> has,
                                source |-> IF has THEN Entry(sec.sources, src) ELSE Unknown,
                                orig   |-> orig + 1,
                                name   |-> IF Len(seg) > 3 THEN Entry(sec.names, name) ELSE Unknown])]

ParseSection(sec) ==
  LET Start == [line |-> 0, col |-> 0, src |-> 0, orig |-> 0, name |-> 0, out |-> <<>>]
      Line(s, segs) == FoldLeft(LAMBDA t, seg : Decode(sec, t, seg), NextLine(s), segs)
  IN FoldLeft(Line, Start, sec.lines).out

\* A section that does not parse is passed over (sourcemap.go:45-59).
Shifted(sec) ==
  LET Shift(m) == [m EXCEPT !.line = @ + sec.line, !.col = IF m.line = 1 THEN @ + sec.column ELSE @]
  IN IF sec.good THEN [i \in DOMAIN ParseSection(sec) |-> Shift(ParseSection(sec)[i])] ELSE <<>>

\* The last mapping at or before the frame in a stable order by place: only
\* one on the frame's own line counts.
ResolveIn(mappings, f) ==
  LET col     == IF f.col > 0 THEN f.col - 1 ELSE 0
      near    == {i \in DOMAIN mappings : mappings[i].line = f.line /\ mappings[i].col <= col}
      nearest == {i \in near : mappings[i].col = Max({mappings[j].col : j \in near})}
      Out(m) == [f EXCEPT !.line = m.orig, !.file = IF m.source = Unknown THEN @ ELSE m.source,
                          !.name = IF m.name = Unknown THEN @ ELSE m.name]
  IN IF f.line < 1 \/ near = {} THEN f
     ELSE LET m == mappings[Max(nearest)] IN IF m.has THEN Out(m) ELSE f

ParseSourceMap(doc) == FlattenSeq([i \in DOMAIN doc.sections |-> Shifted(doc.sections[i])])

\* SourceMapSet: of two maps with one base name Go's map order keeps either;
\* a frame without a file has only the release's one map (sourcemap.go:208-250).
MapsFor(f) ==
  IF f.file # Unknown THEN {d \in bundle : d.name = f.file}
  ELSE IF Cardinality({d.name : d \in bundle}) = 1 THEN bundle ELSE {}

-----------------------------------------------------------------------------
(* An R8 class is [obf, class, methods]; a method [obf, plain, spans]: the *)
(* name of a declaration with no lines or Unknown, and ranges [from, to,   *)
(* calls] whose calls are [class, method, line, spread], outermost first.  *)
(* Its file has a line per call (external: R8 writes it, innermost first). *)

WrittenMethod(c, m) ==
  LET Row(class, method, ranged, span, line, last) ==
        [obf |-> m.obf, class |-> class, method |-> method, ranged |-> ranged,
         from |-> span.from, to |-> span.to, line |-> line, last |-> last]
      Call(span, x) == Row(x.class, x.method, TRUE, span, x.line, IF x.spread THEN x.line + span.to - span.from ELSE x.line)
      plain == IF m.plain = Unknown THEN <<>> ELSE <<Row(c.class, m.plain, FALSE, [from |-> 0, to |-> 0], 0, 0)>>
  IN plain \o FlattenSeq([i \in DOMAIN m.spans |->
       [j \in DOMAIN m.spans[i].calls |-> Call(m.spans[i], Reverse(m.spans[i].calls)[j])]])

\* ParseProGuard: the rows under one obfuscated class and method, in file order.
Candidates(class, method) ==
  LET RowsOf(c) == FlattenSeq([j \in DOMAIN c.methods |->
                     IF c.methods[j].obf = method THEN WrittenMethod(c, c.methods[j]) ELSE <<>>])
  IN FlattenSeq([i \in DOMAIN app |-> IF app[i].obf = class THEN RowsOf(app[i]) ELSE <<>>])

ClassOf(obf) == LET named == {i \in DOMAIN app : app[i].obf = obf}
                IN IF named = {} THEN Unknown ELSE app[Max(named)].class

OrigLine(c, line) ==
  IF c.line > 0 /\ c.last > c.line /\ c.ranged /\ line >= c.from THEN c.line + line - c.from
  ELSE IF c.line > 0 THEN c.line ELSE line

\* deobfuscatedFile: for a placeholder the file of the class, named as the class.
FileOf(file, class) == IF file = Unknown THEN class ELSE file

OutermostFirst(chain) == Reverse(chain)

\* A frame from a class is by its module, from the file where it has none.
ExpandFrame(f) ==
  LET class  == IF f.class = Unknown THEN f.file ELSE f.class
      cands  == Candidates(class, f.method)
      plain  == SelectSeq(cands, LAMBDA c : ~ c.ranged)
      spans  == SelectSeq(cands, LAMBDA c : c.ranged /\ f.line >= c.from /\ f.line <= c.to)
      chain  == IF spans # <<>> THEN spans ELSE IF plain # <<>> THEN <<plain[1]>> ELSE <<cands[1]>>
      Restore(c) == [class |-> c.class, method |-> c.method, line |-> OrigLine(c, f.line),
                     file |-> FileOf(IF c.class = ClassOf(class) THEN f.file ELSE Unknown, c.class)]
  IN IF class = Unknown \/ (cands = <<>> /\ ClassOf(class) = Unknown) THEN <<f>>
     ELSE IF cands = <<>> THEN <<[f EXCEPT !.class = ClassOf(class), !.file = FileOf(@, ClassOf(class))]>>
     ELSE [i \in DOMAIN chain |-> Restore(OutermostFirst(chain)[i])]

-----------------------------------------------------------------------------

\* The mapping files of a release arrive before its frames are asked about.
Upload(b, a) ==
  /\ bundle = {} /\ app = <<>>
  /\ bundle' = b /\ app' = a
  /\ UNCHANGED <<frame, restored>>

\* ResolveAll, a frame at a time.
ResolveJs(f) ==
  /\ bundle # {} /\ frame = Unknown
  /\ frame' = f
  /\ restored' \in IF MapsFor(f) = {} THEN {f} ELSE {ResolveIn(ParseSourceMap(d), f) : d \in MapsFor(f)}
  /\ UNCHANGED <<bundle, app>>

ExpandJvm(f) ==
  /\ app # <<>> /\ frame = Unknown
  /\ frame' = f /\ restored' = ExpandFrame(f)
  /\ UNCHANGED <<bundle, app>>

MappingsNext ==
  \/ \E b \in Bundles : Upload(b, <<>>)
  \/ \E a \in Apps : Upload({}, a)
  \/ \E f \in JsFrames : ResolveJs(f)
  \/ \E f \in JvmFrames : ExpandJvm(f)

MappingsSpec == MappingsInit /\ [][MappingsNext]_mappingVars

-----------------------------------------------------------------------------
(* The two formats, read as their writers mean them: a segment by the sum  *)
(* of the deltas up to it, an inlined line by the calls that were there.   *)

Places(sec)      == UNION {{<<l, k>> : k \in DOMAIN sec.lines[l]} : l \in DOMAIN sec.lines}
UpTo(sec, p)     == {q \in Places(sec) : q[1] < p[1] \/ (q[1] = p[1] /\ q[2] <= p[2])}
Seg(sec, p)      == sec.lines[p[1]][p[2]]
Total(sec, S, n) == MapThenSumSet(LAMBDA p : IF Len(Seg(sec, p)) >= n THEN Seg(sec, p)[n] ELSE 0, S)
Column(sec, p)   == Total(sec, {q \in UpTo(sec, p) : q[1] = p[1]}, 1) + IF p[1] = 1 THEN sec.column ELSE 0

Segments(doc) == UNION {{<<i, p>> : p \in {q \in Places(doc.sections[i]) : Seg(doc.sections[i], q) # <<>>}} :
                          i \in {j \in DOMAIN doc.sections : doc.sections[j].good}}

Meant(doc, f) ==
  LET sec(s)  == doc.sections[s[1]]
      col(s)  == Column(sec(s), s[2])
      near    == {s \in Segments(doc) : s[2][1] + sec(s).line = f.line /\ col(s) < Max({f.col, 1})}
      nearest == {s \in near : \A t \in near : col(t) <= col(s)}
      hit     == CHOOSE s \in nearest : \A t \in nearest : t[1] < s[1] \/ (t[1] = s[1] /\ t[2][2] <= s[2][2])
      Sum(n)  == Total(sec(hit), UpTo(sec(hit), hit[2]), n)
      From(table, n, old) == IF Len(Seg(sec(hit), hit[2])) < n \/ Entry(table, Sum(n)) = Unknown
                             THEN old ELSE Entry(table, Sum(n))
  IN IF near = {} \/ Len(Seg(sec(hit), hit[2])) < 2 THEN f
     ELSE [f EXCEPT !.file = From(sec(hit).sources, 2, @), !.line = 1 + Sum(3), !.name = From(sec(hit).names, 4, @)]

CallsRestored(c, s) ==
  /\ Len(restored) = Len(s.calls)
  /\ \A i \in DOMAIN s.calls :
       /\ <<restored[i].class, restored[i].method>> = <<s.calls[i].class, s.calls[i].method>>
       /\ restored[i].line = s.calls[i].line + IF s.calls[i].spread THEN frame.line - s.from ELSE 0
       /\ restored[i].file = FileOf(IF s.calls[i].class = c.class THEN frame.file ELSE Unknown, s.calls[i].class)

\* A stack trace names the lines the program's author wrote: the delta state
\* that runs across lines (sourcemap.go:78), sections folded in at their
\* offsets (50-55), the frame's 1-based column (162-165), and R8's inlined
\* calls walked back out (proguard.go:72-73, 125-140).
FramesRestored ==
  /\ bundle # {} /\ frame # Unknown /\ frame.line > 0 =>
       restored \in IF MapsFor(frame) = {} THEN {frame} ELSE {Meant(d, frame) : d \in MapsFor(frame)}
  /\ app # <<>> /\ frame # Unknown => 
       \A c \in {d \in Range(app) : d.obf = frame.class} : \A m \in {n \in Range(c.methods) : n.obf = frame.method} :
         \A s \in Range(m.spans) : frame.line \in s.from..s.to => CallsRestored(c, s)
=============================================================================
