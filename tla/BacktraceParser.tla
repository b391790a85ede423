-------------------------- MODULE BacktraceParser --------------------------
(***************************************************************************)
(* What the parser makes of a debugger's output while it comes in: the     *)
(* trace shown to the user (m_linesList), the frames that are rated        *)
(* (m_linesToRate), and, when somebody asks, the verdict on the trace with *)
(* what is cached next to it.  A line is a kind of line: the regular       *)
(* expressions of gdb's parser decide the kind from the text.              *)
(***************************************************************************)
EXTENDS Integers, Sequences, SequencesExt, FiniteSetsExt

CONSTANTS
    Debuggers,      \* parsers that newParser() is asked for
    GdbLines,       \* kinds of lines gdb prints
    MaxLines,       \* bound on the lines of one run
    MaxQuestions,   \* bound on how often the parser is asked
    SimplifiedMax,  \* 16: useful frames in the simplified trace
    Word            \* 2^32: what a uint wraps at

\* Stack frames, with their number and how much is known of them.  "half" and
\* "tail" are a frame gdb broke in two lines.
Frames == {"first", "useful", "joined", "stripped", "nowhere", "atomic", "libc",
           "abort", "main", "exit", "wayland"}
OtherLines == {"thread", "handler", "blank", "indicator", "info", "half", "tail", "text"}

ASSUME ParserAssumption ==
    /\ Debuggers \subseteq {"gdb", "lldb", "null"}
    /\ GdbLines \subseteq Frames \cup OtherLines
    /\ {MaxLines, MaxQuestions, SimplifiedMax} \subseteq Nat /\ Word \in Nat \ {0}

\* The levels of Usefulness, in the order of the enumeration.
Invalid == 0
Useless == 1
ProbablyUseless == 2
MayBeUseful == 3
ReallyUseful == 4

VARIABLES
    debugger,   \* whose output is parsed
    d,          \* the BacktraceParserPrivate of this run
    ended,      \* the debugger is gone: newLine(QString()) was emitted
    fed,        \* history: the lines of this run
    questions   \* history: how often somebody asked in this run

vars == <<debugger, d, ended, fed, questions>>

-----------------------------------------------------------------------------
(* Rating one frame.                                                        *)

FrameZero(line) == line = "first"
BestRating == 4

RatingOf(line) ==
    CASE line = "nowhere"                     -> 0
      [] line \in {"stripped", "libc", "abort"} -> 3
      [] OTHER                                -> BestRating

LineIsStackBase(line) == line \in {"main", "exit"}
LineIsStackTop(line) == line = "abort"
LineShouldBeIgnored(line) == line \in {"libc", "exit"}
IsFunctionUseful(line) == line \notin {"nowhere", "abort", "atomic"}
MissesSymbols(line) == RatingOf(line) \in {1, 3}

-----------------------------------------------------------------------------
(* Rating the trace, from its last frame to the crash.                      *)

NoRating == [rating |-> 0, best |-> 0, counter |-> 0, base |-> FALSE, top |-> FALSE]

\* An invalid address as the place of the crash says nothing against the trace.
IsInvalidCall(lines, i) == i = 1 /\ lines[i] = "nowhere"

Weigh(acc, line) ==
    LET multiplier == (acc.counter + 1) % Word IN
    IF LineShouldBeIgnored(line) THEN acc
    ELSE [acc EXCEPT !.counter = multiplier,
                     !.rating  = (@ + RatingOf(line) * multiplier) % Word,
                     !.best    = (@ + BestRating * multiplier) % Word]

RateLine(acc, lines, i) ==
    LET line == lines[i] IN
    IF acc.top \/ IsInvalidCall(lines, i) THEN acc
    ELSE IF LineIsStackBase(line) THEN Weigh([NoRating EXCEPT !.base = TRUE], line)
    ELSE IF LineIsStackTop(line) THEN [acc EXCEPT !.top = TRUE]
    ELSE Weigh(acc, line)

RatingFrom(lines) ==
    LET r[i \in 1 .. Len(lines) + 1] ==
            IF i > Len(lines) THEN NoRating ELSE RateLine(r[i + 1], lines, i)
    IN  r

RateTrace(lines) == RatingFrom(lines)[1]

Verdict(r) ==
    LET Reaches(percent) == 100 * r.rating >= percent * r.best
        level == IF Reaches(90) THEN ReallyUseful
                 ELSE IF Reaches(70) THEN MayBeUseful
                 ELSE IF Reaches(40) THEN ProbablyUseless
                 ELSE Useless
    IN  IF r.base THEN level
        ELSE IF r.counter < 1 THEN Useless
        ELSE IF level > Useless THEN level - 1 ELSE level

\* What the loop above passes before it breaks, for the side effects it has there.
Inspected(lines) ==
    {i \in DOMAIN lines : \A j \in i + 1 .. Len(lines) :
        LineIsStackTop(lines[j]) => LineIsStackBase(lines[j])}

Examined(lines) ==
    {i \in Inspected(lines) : ~IsInvalidCall(lines, i) /\ ~LineIsStackTop(lines[i])}

LibrariesIn(lines) ==
    {lines[i] : i \in {j \in Examined(lines) :
                          MissesSymbols(lines[j]) /\ ~LineShouldBeIgnored(lines[j])}}

CompositorCrashedIn(lines) == \E i \in Inspected(lines) : lines[i] = "wayland"

-----------------------------------------------------------------------------
(* The simplified trace.                                                    *)

Simplify(old, lines) ==
    LET Shorten(acc, line) ==
            IF acc.n >= SimplifiedMax THEN acc
            ELSE IF ~LineShouldBeIgnored(line) /\ IsFunctionUseful(line)
            THEN [n |-> acc.n + 1, text |-> Append(acc.text, line)]
            ELSE IF acc.n > 0 /\ Last(acc.text) # "[...]"
            THEN [acc EXCEPT !.text = Append(@, "[...]")]
            ELSE acc
    IN  FoldLeft(Shorten, [n |-> 0, text |-> old], lines).text

\* calculateRatingData() runs when there is no cached verdict.  It adds to what
\* an earlier question left in the other members.
CalculateRatingData(p) ==
    IF p.usefulness # Invalid THEN p
    ELSE [p EXCEPT !.usefulness = Verdict(RateTrace(p.rate)),
                   !.libraries  = @ \cup LibrariesIn(p.rate),
                   !.compositor = @ \/ CompositorCrashedIn(p.rate),
                   !.simplified = Simplify(@, p.rate)]

-----------------------------------------------------------------------------
(* The lines come in.                                                       *)

NoLine == [head |-> "", tail |-> FALSE]

ConstructPrivate(who) ==
    [lines      |-> <<>>,
     rate       |-> <<>>,
     info       |-> 0,
     simplified |-> <<>>,
     libraries  |-> {},
     compositor |-> FALSE,
     usefulness |-> IF who = "gdb" THEN Invalid ELSE MayBeUseful,
     buffer     |-> NoLine,
     start      |-> 0,
     threads    |-> 0,
     below      |-> FALSE,
     zero       |-> FALSE]

\* A frame in two lines is a frame, half of one is nothing, and a tail makes
\* something unknown of a line that is matched to its end.
Joined(buffer) ==
    CASE buffer.head = "half" /\ buffer.tail                           -> "joined"
      [] buffer.tail /\ buffer.head \in {"thread", "indicator", "blank"} -> "unknown"
      [] OTHER                                                         -> buffer.head

AppendLine(p, line) == [p EXCEPT !.lines = Append(@, line)]

StartThread_FaultStillBelow(p) ==
    LET q == AppendLine(p, "thread")
    IN  [q EXCEPT !.start = Len(q.lines), !.threads = @ + 1, !.zero = FALSE]
StartThread(p) ==
    LET q == AppendLine(p, "thread")
    IN  [q EXCEPT !.start = Len(q.lines), !.threads = @ + 1, !.below = FALSE, !.zero = FALSE]

\* KCrash's own frames give way to a message, once per thread.
StartHandler(p) ==
    IF p.below THEN AppendLine(p, "handler")
    ELSE [p EXCEPT !.lines = Append(SubSeq(@, 1, p.start), "kcrash"), !.below = TRUE]

\* gdb writes frame #0 again at the end.
AddFrame(p, line) ==
    IF FrameZero(line) /\ p.zero THEN p
    ELSE AppendLine([p EXCEPT !.zero = @ \/ FrameZero(line),
                              !.rate = IF p.below THEN Append(@, line) ELSE @], line)

ParseLine(p, line) ==
    CASE line = "thread"  -> StartThread(p)
      [] line = "handler" -> StartHandler(p)
      [] line = "info"    -> [p EXCEPT !.info = @ + 1]
      [] line \in Frames  -> AddFrame(p, line)
      [] OTHER            -> AppendLine(p, line)

\* newLine() of gdb's parser is one line behind.
NewLineGdb(p, line) ==
    IF p.buffer = NoLine THEN [p EXCEPT !.buffer = [NoLine EXCEPT !.head = line]]
    ELSE IF line = "tail" THEN [p EXCEPT !.buffer.tail = TRUE]
    ELSE [ParseLine(p, Joined(p.buffer)) EXCEPT !.buffer = [NoLine EXCEPT !.head = line]]

NewLine(p, line) == IF debugger = "gdb" THEN NewLineGdb(p, line) ELSE AppendLine(p, line)

\* newLineInternal(), after newLine().
Invalidate_FaultKeeps(p) == p
Invalidate(p) == [p EXCEPT !.usefulness = Invalid]

LinesOf(who) == IF who = "gdb" THEN GdbLines ELSE {"text"}

Init ==
    /\ debugger \in Debuggers
    /\ d = ConstructPrivate(debugger)
    /\ ended = FALSE
    /\ fed = <<>>
    /\ questions = 0

\* starting(): the parser begins anew, whatever it was told before.
ResetState ==
    /\ ended \/ fed # <<>>
    /\ d' = ConstructPrivate(debugger)
    /\ ended' = FALSE
    /\ fed' = <<>>
    /\ questions' = 0
    /\ UNCHANGED debugger

GetLine(line) ==
    /\ ~ended /\ Len(fed) < MaxLines
    /\ d' = Invalidate(NewLine(d, line))
    /\ fed' = Append(fed, line)
    /\ UNCHANGED <<debugger, ended, questions>>

\* The null string ends gdb's last line; to the other parsers it is a line.
End ==
    /\ ~ended
    /\ d' = Invalidate(NewLine(d, ""))
    /\ ended' = TRUE
    /\ UNCHANGED <<debugger, fed, questions>>

\* backtraceUsefulness(), simplifiedBacktrace() and the like, at any time.
Ask ==
    /\ questions < MaxQuestions
    /\ d' = CalculateRatingData(d)
    /\ questions' = questions + 1
    /\ UNCHANGED <<debugger, ended, fed>>

Next == ResetState \/ End \/ Ask \/ \E line \in LinesOf(debugger) : GetLine(line)
Spec == Init /\ [][Next]_vars

\* parsedBacktrace(): with one thread there is no need to name it.
ParsedBacktrace ==
    LET Shown(line) == ~(d.threads = 1 /\ line \in {"thread", "indicator", "blank"})
    IN  IF debugger = "gdb" THEN SelectSeq(d.lines, Shown) ELSE d.lines

-----------------------------------------------------------------------------
(* What gdb said, read as a whole: the lines put together, the index of the *)
(* thread a line is in, and the line that hides what is before it.          *)

Nth(S, k) == CHOOSE i \in S : Cardinality({j \in S : j <= i}) = k
Selected(w, S) == [k \in 1 .. Cardinality(S) |-> w[Nth(S, k)]]

Heads(f) == {i \in DOMAIN f : i = 1 \/ f[i] # "tail"}
LineAt(f, i) == [head |-> f[i], tail |-> i < Len(f) /\ i + 1 \notin Heads(f)]
PutTogether(f, over) ==
    LET n == IF over THEN Cardinality(Heads(f)) ELSE Cardinality(Heads(f)) - 1
    IN  [k \in 1 .. n |-> Joined(LineAt(f, Nth(Heads(f), k)))]
Whole == PutTogether(fed, ended)

ThreadOf(w, i) == CHOOSE t \in 0 .. i :
    /\ t > 0 => w[t] = "thread"
    /\ \A j \in t + 1 .. i : w[j] # "thread"
HandlersAbove(w, i) == {h \in 1 .. i - 1 : w[h] = "handler" /\ ThreadOf(w, h) = ThreadOf(w, i)}
IsRepeat(w, i) ==
    FrameZero(w[i]) /\ \E j \in 1 .. i - 1 : w[j] = w[i] /\ ThreadOf(w, j) = ThreadOf(w, i)
IsHidden(w, i) ==
    /\ w[i] \notin {"thread", "handler"} /\ HandlersAbove(w, i) = {}
    /\ \E h \in i + 1 .. Len(w) : w[h] = "handler" /\ ThreadOf(w, h) = ThreadOf(w, i)

Message(w) ==
    [i \in DOMAIN w |-> IF w[i] = "handler" /\ HandlersAbove(w, i) = {} THEN "kcrash" ELSE w[i]]
ShownIn(w) == {i \in DOMAIN w : w[i] # "info" /\ ~IsRepeat(w, i) /\ ~IsHidden(w, i)}
RatedIn(w) ==
    {i \in DOMAIN w : w[i] \in Frames /\ ~IsRepeat(w, i) /\ HandlersAbove(w, i) # {}}
ToShow(w) == Selected(Message(w), ShownIn(w))
ToRate(w) == Selected(w, RatedIn(w))

(* The frames that count are those from below the last abort() to the first *)
(* main() after it.  A frame weighs as much as there are frames from it to  *)
(* the bottom: its rating is that many times among the points.              *)
BelowTop(f, i) == \A j \in i .. Len(f) : ~LineIsStackTop(f[j])
HasBase(f) == \E i \in DOMAIN f : LineIsStackBase(f[i]) /\ BelowTop(f, i)
Relevant(f) ==
    {i \in DOMAIN f :
        /\ BelowTop(f, i)
        /\ \A j \in 1 .. i - 1 : LineIsStackBase(f[j]) => ~BelowTop(f, j)
        /\ ~LineShouldBeIgnored(f[i]) /\ ~IsInvalidCall(f, i)}

Points(f, S) ==
    {p \in S \X S \X (1 .. BestRating) : p[1] <= p[2] /\ p[3] <= RatingOf(f[p[1]])}
Sum(f) == Cardinality(Points(f, Relevant(f)))
Most(f) ==    \* BestRating * (1 + ... + n)
    LET n == Cardinality(Relevant(f)) IN 2 * n * (n + 1)

(* A level is reached by the weighted mean of the ratings.                  *)
Grade(f) == 1 + Cardinality({percent \in {40, 70, 90} : 100 * Sum(f) >= percent * Most(f)})

VerdictOn(f) ==
    IF HasBase(f) THEN Grade(f)
    ELSE IF Relevant(f) = {} \/ Grade(f) = Useless THEN Useless
    ELSE Grade(f) - 1

-----------------------------------------------------------------------------
(* However the lines come in, gdb's trace shows every thread, in each       *)
(* thread only what is below KCrash's handler if it is there, and no frame  *)
(* #0 twice; and exactly the frames below a handler are rated (parseLine(), *)
(* newLine() and the flags they keep per thread).                           *)
ShowsTheCrash ==
    debugger = "gdb" => d.lines = ToShow(Whole) /\ d.rate = ToRate(Whole)

(* A verdict somebody gets is one on all the lines of this run, and on no   *)
(* others: the frames between the last abort() and the first main() below   *)
(* it, weighed by their distance (the cache of calculateRatingData()).  The *)
(* sums may not wrap, which they would from 46341 frames on; the debugger's *)
(* preamble has gdb stop at 128 of a thread.                                *)
VerdictIsOfTheTrace ==
    debugger = "gdb" /\ d.usefulness # Invalid /\ Most(ToRate(Whole)) < Word
        => d.usefulness = VerdictOn(ToRate(Whole))

(* backtraceparserlldb.cpp:21-23: "we'll have faith that lldb provides      *)
(* useful information", and a new parser says MayBeUseful.                  *)
LldbIsTrusted ==
    debugger = "lldb" /\ fed # <<>> => d.usefulness # Useless
=============================================================================
