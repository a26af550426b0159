------------------------------ MODULE MCSymbols ------------------------------
(***************************************************************************)
(* Symbol files, the sidecar's cache and the mappings themselves: one      *)
(* behaviour is of one of them, since none writes another's state.         *)
(***************************************************************************)
EXTENDS SymbolFiles, Sidecar, Mappings, TLC

VARIABLE part

-----------------------------------------------------------------------------
(* Source maps: two lines with deltas that go back, a segment with no      *)
(* source and one that does not decode, a source out of range; alone, and  *)
(* as sections, one of them broken.                                        *)

Section(line, column, good, lines) ==
  [line |-> line, column |-> column, good |-> good, sources |-> <<"a.ts", "b.ts">>, names |-> <<"f", "g">>, lines |-> lines]

FirstLines  == {<<<<0, 0, 4, 1>>, <<3, 1, -2>>>>, <<<<2, 1, 3>>, <<>>, <<1>>, <<2, 0, 2, 0>>>>, <<<<1, 2, 6>>, <<0, -1, 1, 1>>>>}
SecondLines == {<<>>, <<<<1, 0, 1, 0>>, <<2, 0, 1>>>>, <<<<0, -1, 2>>>>}
Texts       == {<<l, k>> : l \in FirstLines, k \in SecondLines}

Plain(text) == <<Section(0, 0, TRUE, text)>>
Indexed(text, next, good) == <<Section(0, 0, TRUE, text), Section(1, 3, good, next), Section(2, 1, TRUE, text)>>

Documents == {Plain(t) : t \in Texts} \cup {Indexed(t, n, good) : t \in Texts, n \in Texts, good \in BOOLEAN}
Named(file, sections) == [name |-> file, sections |-> sections]

MCBundles ==
  {{Named("main.js", d)} : d \in Documents} \cup
  {{Named("main.js", Plain(t)), Named(file, Plain(u))} : t \in Texts, u \in Texts, file \in {"main.js", "chunk.js"}}

MCJsFrames == {[file |-> file, line |-> l, col |-> c, name |-> "min"] : file \in {"main.js", "other.js", Unknown}, l \in 0..4, c \in 0..8}

-----------------------------------------------------------------------------
(* R8: methods with and without a declaration of their own, ranges from    *)
(* line 0, calls inlined one and two deep from the same class and another. *)

Deep  == [class |-> "Repo", method |-> "load", line |-> 40, spread |-> TRUE]
Mid   == [class |-> "Main", method |-> "fetch", line |-> 20, spread |-> FALSE]
Outer == [class |-> "Main", method |-> "onClick", line |-> 7, spread |-> FALSE]
Span(from, to, calls) == [from |-> from, to |-> to, calls |-> calls]
Method(obf, plain, spans) == [obf |-> obf, plain |-> plain, spans |-> spans]

SpanLists == {<<>>, <<Span(0, 2, <<Outer>>)>>, <<Span(0, 0, <<Outer, Deep>>), Span(1, 3, <<Outer, Mid, Deep>>)>>,
              <<Span(1, 2, <<Outer, Mid>>), Span(4, 4, <<[Deep EXCEPT !.spread = FALSE]>>)>>}

MCApps ==
  {<<[obf |-> "a", class |-> "Main", methods |-> <<Method("b", plain, spans), Method("c", "other", <<>>)>>],
     [obf |-> "d", class |-> "Repo", methods |-> <<Method("b", Unknown, more)>>]>> :
   plain \in {Unknown, "run"}, spans \in SpanLists, more \in SpanLists}

MCJvmFrames == {[class |-> class, method |-> m, line |-> l, file |-> file] :
                  class \in {"a", "d", "x", Unknown}, m \in {"b", "c", "z"}, l \in 0..5, file \in {"Main.kt", "a", Unknown}}

-----------------------------------------------------------------------------

Init ==
  /\ part \in {"files", "sidecar", "mappings"}
  /\ FilesInit /\ SidecarInit /\ MappingsInit

Next ==
  \/ part = "files" /\ FilesNext /\ UNCHANGED <<part, sidecarVars, mappingVars>>
  \/ part = "sidecar" /\ SidecarNext /\ UNCHANGED <<part, filesVars, mappingVars>>
  \/ part = "mappings" /\ MappingsNext /\ UNCHANGED <<part, filesVars, sidecarVars>>

Interchangeable == Permutations(Keys) \cup Permutations(Uploaders)
=============================================================================
