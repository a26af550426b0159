------------------------------ MODULE Grouping ------------------------------
(***************************************************************************)
(* Which issue an event belongs to: Fingerprint and Culprit of             *)
(* internal/sentry/analyze.go over an event as ParseEvent leaves it.  The  *)
(* same crash comes again from other runs, where the loader put the images *)
(* elsewhere, and from other builds, where edits moved the lines.          *)
(*                                                                         *)
(* Names are what the patterns make of them: a function is named,          *)
(* anonymous, the SDK's or the runtime's; a signature is a record, in      *)
(* place of its digest.                                                    *)
(***************************************************************************)
EXTENDS Integers, SequencesExt

CONSTANTS
  CrashSites,  \* crashes a program can have: records of CrashSite
  Images,      \* its images, as debug_meta lists them: [id, size]
  Layouts,     \* Layouts: base addresses, one per image, of a run
  Edits        \* how far an edit moves the lines

\* A frame's address is an image and an offset into it, 0 for no image.
FrameContent ==
  [file : STRING, fn : STRING, kind : {"named", "anonymous", "sdk", "runtime"},
   inApp : BOOLEAN, line : Nat, image : 0..(Len(Images) + 1), offset : Nat]

\* Exceptions with their mechanism's exception_id and parent_id, -1 for none.
CrashSite ==
  [platform : STRING, message : STRING, level : STRING, sdk : Seq(STRING),
   exceptions : Seq([type : STRING, frames : Seq(FrameContent), id : Int, parent : Int]),
   threads : Seq([crashed : BOOLEAN, current : BOOLEAN, frames : Seq(FrameContent)])]

\* The sizes are known, the loader overlaps no image, and the last base is of
\* what no image covers.
ASSUME GroupingAssumption ==
  /\ CrashSites \subseteq CrashSite /\ Edits \subseteq Nat
  /\ Images \in Seq([id : STRING, size : Nat \ {0}])
  /\ Layouts \subseteq Seq(Nat)
  /\ \A at \in Layouts :
       /\ Len(at) = Len(Images) + 1
       /\ \A i, j \in DOMAIN Images : i # j => at[i] + Images[i].size <= at[j] \/ at[j] + Images[j].size <= at[i]
       /\ \A i \in DOMAIN Images : at[Len(at)] >= at[i] + Images[i].size

VARIABLES
  site,     \* the crash, NoSite before it happens
  run,      \* this run: the images' bases and how far the lines have moved
  grouped   \* history: the fingerprint of the crash's first event, and its lines

groupingVars == <<site, run, grouped>>

NoSite == [platform |-> "", message |-> "", level |-> "", sdk |-> <<>>, exceptions |-> <<>>, threads |-> <<>>]
NoSig  == [kind |-> "none", platform |-> "", of |-> <<>>, frames |-> <<>>]

GroupingInit ==
  /\ site = NoSite /\ run = [at |-> <<>>, lines |-> 0]
  /\ grouped = [keys |-> <<>>, sig |-> NoSig]

-----------------------------------------------------------------------------
(* The stack of an event. *)

\* mainException: the last one, or the one without a parent where the SDK
\* links them.
MainException(xs) ==
  LET root == SelectInSeq(xs, LAMBDA x : x.id # -1 /\ x.parent = -1) IN
  IF root = 0 THEN Len(xs) ELSE root

\* threadFrames: the first crashed thread's stack, else the first current one's.
ThreadFrames(threads) ==
  LET crashed == SelectInSeq(threads, LAMBDA t : t.frames # <<>> /\ t.crashed)
      current == SelectInSeq(threads, LAMBDA t : t.frames # <<>> /\ t.current) IN
  IF crashed # 0 THEN threads[crashed].frames ELSE IF current # 0 THEN threads[current].frames ELSE <<>>

\* An exception without a stack borrows the thread's.
EventFrames(c) ==
  IF c.exceptions # <<>> /\ c.exceptions[MainException(c.exceptions)].frames # <<>>
  THEN c.exceptions[MainException(c.exceptions)].frames
  ELSE ThreadFrames(c.threads)

ErrorType(c) == IF c.exceptions = <<>> THEN "" ELSE c.exceptions[MainException(c.exceptions)].type

-----------------------------------------------------------------------------
(* Frames. *)

\* FrameKind: the SDK's own frames, the runtime's, those with no identity.
IsCode(f) ==
  /\ f.kind \notin {"sdk", "runtime"}
  /\ f.fn # "" \/ f.file # "" \/ f.image # 0
  /\ ~(f.kind = "anonymous" /\ f.fn # "" /\ f.file = "" /\ f.line = 0)

\* SelectSeq by positions: the elements of s at those in I, in their order.
Kept(s, I) == [k \in 1..Cardinality(I) |-> s[CHOOSE i \in I : Cardinality({j \in I : j < i}) = k - 1]]

CodeAt(frames)   == {i \in DOMAIN frames : IsCode(frames[i])}
Code(frames)     == Kept(frames, CodeAt(frames))
InApp(frames)    == Kept(frames, {i \in CodeAt(frames) : frames[i].inApp})
LastFive(s)      == SubSeq(s, IF Len(s) > 5 THEN Len(s) - 4 ELSE 1, Len(s))
Selected(frames) == LastFive(IF InApp(frames) # <<>> THEN InApp(frames) ELSE Code(frames))

\* An address lies in its image.  Only what is selected is grouped by.
ASSUME FramesFit ==
  \A c \in CrashSites : \A i \in DOMAIN Selected(EventFrames(c)) :
    LET f == Selected(EventFrames(c))[i] IN
    f \in FrameContent /\ (f.image \in DOMAIN Images => f.offset < Images[f.image].size)

\* allAnonymous.
AllAnonymous(frames) == frames # <<>> /\ \A i \in DOMAIN frames : frames[i].fn = "" \/ frames[i].kind = "anonymous"

\* Lines count where functions cannot tell throw sites apart.
KeepLine(frames) == Len(Code(frames)) <= 1 \/ AllAnonymous(Selected(frames))

\* An address in a run, and imageTable.relative: the image that covers it.
Address(f, at)    == at[f.image] + f.offset
Covers(i, addr, at) == at[i] <= addr /\ addr < at[i] + Images[i].size
ImageAt(addr, at) == SelectInSeq([i \in DOMAIN Images |-> i], LAMBDA i : Covers(i, addr, at))

\* Faulty: an address no image covers stands for itself.
PlaceRaw(addr, at) ==
  IF ImageAt(addr, at) = 0 THEN [id |-> "", offset |-> addr]
  ELSE [id |-> Images[ImageAt(addr, at)].id, offset |-> addr - at[ImageAt(addr, at)]]

Place(addr, at) ==
  IF ImageAt(addr, at) = 0 THEN [id |-> "", offset |-> 0]
  ELSE [id |-> Images[ImageAt(addr, at)].id, offset |-> addr - at[ImageAt(addr, at)]]

Part(f, r, keepLine) ==
  [file |-> f.file, fn |-> f.fn,
   place |-> IF f.fn = "" /\ f.image # 0 THEN Place(Address(f, r.at), r.at) ELSE [id |-> "", offset |-> 0],
   line |-> IF keepLine /\ f.line > 0 THEN f.line + r.lines ELSE 0]

FrameSignature(frames, r) ==
  [i \in DOMAIN Selected(frames) |-> Part(Selected(frames)[i], r, KeepLine(frames))]

-----------------------------------------------------------------------------
(* Fingerprint. *)

\* chainTypes.
ChainTypes(c) == IF Len(c.exceptions) <= 1 THEN <<ErrorType(c)>> ELSE [i \in DOMAIN c.exceptions |-> c.exceptions[i].type]

\* Numbers in a message are left out: the message here is what remains.
DefaultSignature(c, r) ==
  IF ErrorType(c) # ""
  THEN [kind |-> "error", platform |-> c.platform, of |-> ChainTypes(c), frames |-> FrameSignature(EventFrames(c), r)]
  ELSE IF c.level \in {"fatal", "error"} /\ c.message # ""
  THEN [kind |-> "msg", platform |-> c.platform, of |-> <<c.message>>, frames |-> FrameSignature(EventFrames(c), r)]
  ELSE NoSig

\* The SDK's fingerprint wins; "default" in it stands for the default one.
Fingerprint(c, r) ==
  IF c.sdk \in {<<>>, <<"default">>}
  THEN [keys |-> <<>>, sig |-> DefaultSignature(c, r)]
  ELSE [keys |-> c.sdk, sig |-> IF "default" \in ToSet(c.sdk) THEN DefaultSignature(c, r) ELSE NoSig]

\* Culprit: the innermost of the frames that rank highest.
Rank(f)         == (IF f.file # "" THEN 1 ELSE 0) + (IF f.inApp THEN 2 ELSE 0)
Culprit(frames) == SelectLastInSeq(frames, LAMBDA f : IsCode(f) /\ \A i \in DOMAIN frames : IsCode(frames[i]) => Rank(frames[i]) <= Rank(f))

-----------------------------------------------------------------------------

Crash(c, at) ==
  /\ site = NoSite
  /\ site' = c /\ run' = [at |-> at, lines |-> 0]
  /\ grouped' = Fingerprint(c, run')

\* The program is run again, or built and run again.
RunAgain(at, lines) ==
  /\ site # NoSite
  /\ run' = [at |-> at, lines |-> lines]
  /\ UNCHANGED <<site, grouped>>

GroupingNext ==
  \E at \in Layouts : (\E c \in CrashSites : Crash(c, at)) \/ (\E lines \in Edits : RunAgain(at, lines))

GroupingSpec == GroupingInit /\ [][GroupingNext]_groupingVars

-----------------------------------------------------------------------------

\* A crash is one issue through all its runs: addresses differ in every one
\* (analyze.go:132-136), and lines after an edit, unless nothing else tells throw
\* sites apart (analyze.go:110-114).
SameIssue ==
  run.lines = 0 \/ ~KeepLine(EventFrames(site)) => Fingerprint(site, run) = grouped

\* What the issue is titled with is among what it is grouped by.
CulpritGrouped ==
  LET frames == EventFrames(site) IN
  Code(frames) # <<>> /\ Len(Code(frames)) <= 5 => frames[Culprit(frames)] \in ToSet(Selected(frames))

\* Crashes are grouped by what stays the same from run to run, the frame in the
\* issue's title among it.
OneIssuePerCrash == site # NoSite => SameIssue /\ CulpritGrouped
=============================================================================
