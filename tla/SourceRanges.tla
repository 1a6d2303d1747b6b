---------------------------- MODULE SourceRanges ----------------------------
(***************************************************************************)
(* What becomes of a text: the chunks it is stored in, the windows that    *)
(* are searched, the range of it a recall answers with around a match, the *)
(* part of that range the reader is shown, and the locators that lead on   *)
(* from the range. A reader follows them all.                              *)
(*                                                                         *)
(* A text is a sequence of characters: "w" and "W" belong to words and are *)
(* one and two bytes long, "." is a token of its own, " " and "n" (the end *)
(* of a line) are between tokens. Ranges are half-open, in bytes.          *)
(***************************************************************************)
EXTENDS Integers, FiniteSets, SequencesExt

CONSTANTS
    Texts,            \* the texts that are archived
    MaxChunkBytes,    \* at least as many as a character has
    MinLineSplit,     \* a line does not end a chunk before so many bytes
    WindowTokens, OverlapTokens,
    BytesPerToken,    \* what a token of the budget allows in bytes
    SnippetBytes,     \* what a step along the history shows of a document
    Requests          \* records of tokens, neighbors, expand, turn and room

VARIABLES
    text,     \* its characters, each with its place
    chunks,   \* the ranges it is stored in
    windows,  \* and those it is searched in
    request,  \* the budget, the neighbours, whether to fill the budget, the document a turn,
              \* and the bytes of the source the record of the answer has room for
    open,     \* the locators that were given out and not recalled yet
    recalled, \* those that were recalled
    shown,    \* the ranges that were answered with
    seen      \* what was shown of them

vars == <<text, chunks, windows, request, open, recalled, shown, seen>>

Span(s, e) == [start |-> s, end |-> e]
Bytes(r) == r.start .. r.end - 1
Size(r) == r.end - r.start
Hull(r, s) == Span(r.start, s.end)
Within(r, s) == s.start <= r.start /\ r.end <= s.end
AtMost(a, b) == IF a < b THEN a ELSE b
AtLeast(a, b) == IF a > b THEN a ELSE b
Greatest(S) == CHOOSE n \in S : \A m \in S : m <= n
Least(S) == CHOOSE n \in S : \A m \in S : n <= m

-----------------------------------------------------------------------------
(* Characters and tokens (tokenizeWithByteOffsets).                        *)

InWord(c) == c.sort \in {"w", "W"}
Width(sort) == IF sort = "W" THEN 2 ELSE 1
\* The characters with their places.
Placed(sorts) ==
    LET end[k \in 0 .. Len(sorts)] == IF k = 0 THEN 0 ELSE end[k - 1] + Width(sorts[k])
    IN  [k \in 1 .. Len(sorts) |-> [sort |-> sorts[k], start |-> end[k - 1], end |-> end[k]]]
ByteLength(t) == IF t = <<>> THEN 0 ELSE Last(t).end
Whole(t) == Span(0, ByteLength(t))
Boundaries(t) == {0} \cup {t[i].end : i \in DOMAIN t}
Runs(t, words) ==
    {Span(t[p[1]].start, t[p[2]].end) : p \in
        {q \in words \X words : q[1] <= q[2] /\ q[1] .. q[2] \subseteq words
                                /\ q[1] - 1 \notin words /\ q[2] + 1 \notin words}}
InOrder(ranges) == SetToSortSeq(ranges, LAMBDA a, b : a.start < b.start)
\* The tokens of what a range has of the text: whole words and single signs.
Tokens(t, r) ==
    InOrder(Runs(t, {i \in DOMAIN t : Within(t[i], r) /\ InWord(t[i])})
            \cup {Span(c.start, c.end) : c \in {d \in ToSet(t) : Within(d, r) /\ d.sort = "."}})

-----------------------------------------------------------------------------
(* The chunks a text is stored in (splitPhysicalChunks).                   *)

\* A chunk ends with a line when that is not too short, else where it must.
Hard(t, b) == Greatest({c \in Boundaries(t) : c <= b + MaxChunkBytes})
LineEnds(t, b, hard) == {c.end : c \in {d \in ToSet(t) : /\ d.sort = "n" /\ d.start < hard
                                                       /\ d.start >= b + MinLineSplit}}
PreferredEnd(t, b) ==
    IF b + MaxChunkBytes >= ByteLength(t) THEN ByteLength(t)
    ELSE IF LineEnds(t, b, Hard(t, b)) = {} THEN Hard(t, b)
    ELSE Greatest(LineEnds(t, b, Hard(t, b)))

Split(t, length) ==
    LET from[n \in 0 .. length] ==  \* what is left to store, n bytes
            LET end == PreferredEnd(t, length - n)
            IN  <<Span(length - n, end)>> \o (IF end = length THEN <<>> ELSE from[length - end])
    IN  from[length]
Chunks(t) == Split(t, ByteLength(t))

(* A range is read from the chunks that hold some of it. Its ends are moved *)
(* inward to whole characters when the caller says so; else it must have   *)
(* whole characters already (readDocumentRange).                           *)
Unread == Span(-1, -1)
Meets(c, r) == c.start < r.end /\ c.end > r.start
Covered(r, held) ==
    /\ held # <<>> /\ Head(held).start <= r.start /\ Last(held).end >= r.end
    /\ \A k \in DOMAIN held : {held[k].start, held[k].end} \subseteq Boundaries(text)
Inward(inside, r) == IF inside = {} THEN Span(r.end, r.end) ELSE Span(Least(inside), Greatest(inside))
ReadDocumentRange(r, adjustUtf8) ==
    IF r.end < r.start \/ r.end > ByteLength(text) THEN Unread
    ELSE IF r.start = r.end THEN r
    ELSE IF ~Covered(r, SelectSeq(chunks, LAMBDA c : Meets(c, r))) THEN Unread
    ELSE IF adjustUtf8 THEN Inward({b \in Boundaries(text) : r.start <= b /\ b <= r.end}, r)
    ELSE IF {r.start, r.end} \subseteq Boundaries(text) THEN r ELSE Unread

-----------------------------------------------------------------------------
(* The windows that are searched (createSearchWindows).                    *)

Step == WindowTokens - OverlapTokens
LastWindow(count) == IF count <= WindowTokens THEN 0 ELSE (count - WindowTokens + Step - 1) \div Step
WindowsOf(tokens, length) ==
    [k \in 1 .. LastWindow(Len(tokens)) + 1 |->
        Span(IF k = 1 THEN 0 ELSE tokens[(k - 1) * Step + 1].start,
             IF (k - 1) * Step + 1 + WindowTokens > Len(tokens) THEN length
             ELSE tokens[(k - 1) * Step + 1 + WindowTokens].start)]
Windows(t) == WindowsOf(Tokens(t, Whole(t)), ByteLength(t))

(* The window of a match: the first that holds it, or else the first that  *)
(* meets it (findStoredWindowForByteRange).                                *)
Holding(ws, r) == {k \in DOMAIN ws : Within(r, ws[k]) /\ (r.start < ws[k].end \/ k = Len(ws))}
Meeting(ws, r) == {k \in DOMAIN ws :
    IF r.start = r.end THEN ws[k].start = r.start \/ ws[k].end = r.end ELSE Meets(ws[k], r)}
WindowFor(ws, r) ==
    IF Holding(ws, r) # {} THEN Least(Holding(ws, r))
    ELSE IF Meeting(ws, r) # {} THEN Least(Meeting(ws, r)) ELSE 0

-----------------------------------------------------------------------------
(* What a recall shows (selectedWindowRange, clippedTargetRange). A pair   *)
(* says how many windows are taken on each side of the target k.           *)

ByteBudget == request.tokens * BytesPerToken
FitsRecallBudget(r) == Size(r) <= ByteBudget /\ Len(Tokens(text, r)) <= request.tokens
Around(k, pair) == Hull(windows[k - pair[1]], windows[k + pair[2]])

\* The neighbours that are left of those asked for, the farther dropped first.
Shrunk(k) ==
    LET shrunk[l \in 0 .. request.neighbors, r \in 0 .. request.neighbors] ==
            IF l + r = 0 \/ FitsRecallBudget(Around(k, <<l, r>>)) THEN <<l, r>>
            ELSE IF r >= l THEN shrunk[l, r - 1] ELSE shrunk[l - 1, r]
    IN  shrunk[AtMost(request.neighbors, k - 1), AtMost(request.neighbors, Len(windows) - k)]

\* As many more as there is room for, the nearer side first.
Room(k, pair) == /\ pair[1] < k /\ k + pair[2] <= Len(windows)
                 /\ FitsRecallBudget(Around(k, pair))
Grown(k, pair) ==
    LET grown[steps \in 0 .. 2 * Len(windows) + 2, l \in 0 .. Len(windows), r \in 0 .. Len(windows),
              left \in BOOLEAN, right \in BOOLEAN] ==
            IF steps = 0 \/ ~(left \/ right) THEN <<l, r>>
            ELSE IF left /\ (~right \/ l <= r)
                 THEN IF Room(k, <<l + 1, r>>) THEN grown[steps - 1, l + 1, r, left, right]
                      ELSE grown[steps - 1, l, r, FALSE, right]
            ELSE IF Room(k, <<l, r + 1>>) THEN grown[steps - 1, l, r + 1, left, right]
                 ELSE grown[steps - 1, l, r, left, FALSE]
    IN  grown[2 * Len(windows) + 2, pair[1], pair[2], k - pair[1] > 1, TRUE]
Selected(k) == IF request.expand THEN Grown(k, Shrunk(k)) ELSE Shrunk(k)

\* The bytes around the match, the match in the middle.
Clamped(n, r) == AtLeast(r.start, AtMost(r.end, n))
Centred(r, s, e, earliest) ==
    IF AtLeast(earliest, s - (ByteBudget - (e - s)) \div 2) + ByteBudget > r.end
    THEN AtLeast(earliest, r.end - ByteBudget)
    ELSE AtLeast(earliest, s - (ByteBudget - (e - s)) \div 2)
FromByte(r, b) == Span(b, AtMost(r.end, b + ByteBudget))
Bounded(r, s, e) ==
    FromByte(r, IF e - s >= ByteBudget THEN s ELSE Centred(r, s, e, AtLeast(r.start, e - ByteBudget)))
ByteBoundedRange(r, match) ==
    IF Size(r) <= ByteBudget THEN r
    ELSE Bounded(r, Clamped(match.start, r), AtLeast(Clamped(match.start, r), Clamped(match.end, r)))

\* The tokens around the match, the match in the middle.
FirstOf(tokens, after) == IF after = {} THEN Len(tokens) ELSE Least(after)
LastOf(before, first) == AtMost(IF before = {} THEN first ELSE AtLeast(first, Greatest(before)),
                               first + request.tokens - 1)
LastShown(tokens, first, last) ==
    AtMost(Len(tokens),
           AtLeast(1, first - (request.tokens - (last - first + 1)) \div 2) + request.tokens - 1)
FromToken(tokens, e) == ReadDocumentRange(Hull(tokens[e - request.tokens + 1], tokens[e]), FALSE)
AroundTokens(tokens, first, before) ==
    FromToken(tokens, LastShown(tokens, first, LastOf(before, first)))
ClipTokens(tokens, read, match) ==
    IF Len(tokens) <= request.tokens THEN read
    ELSE AroundTokens(tokens,
             FirstOf(tokens, {i \in DOMAIN tokens : tokens[i].end > AtLeast(read.start, match.start)}),
             {i \in DOMAIN tokens : tokens[i].start < AtMost(read.end, match.end)})
ClipBytes(read, match) == ClipTokens(Tokens(text, read), read, match)
ClippedTargetRange(window, match) ==
    ClipBytes(ReadDocumentRange(ByteBoundedRange(window, match), TRUE), match)

(* The answer to one locator: the range, and the locators that lead on: to *)
(* the rest of the window, or else to the window before and after          *)
(* (recallSnapshot).                                                       *)
Locator(k, match) == [window |-> k, match |-> match]
Window(k) == IF k \in DOMAIN windows THEN {Locator(k, windows[k])} ELSE {}
Answer(k, range, before, next) ==
    [range |-> range,
     on |-> (IF range.start > windows[k].start THEN {Locator(k, Span(windows[k].start, range.start))}
             ELSE Window(before))
            \cup (IF range.end < windows[k].end THEN {Locator(k, Span(range.end, windows[k].end))}
                  ELSE Window(next))]
Shown(locator, pair) ==
    Answer(locator.window,
           IF FitsRecallBudget(Around(locator.window, pair))
           THEN ReadDocumentRange(Around(locator.window, pair), FALSE)
           ELSE ClippedTargetRange(windows[locator.window], locator.match),
           locator.window - pair[1] - 1, locator.window + pair[2] + 1)
Recall(locator) ==
    IF request.turn /\ FitsRecallBudget(Whole(text))
    THEN Answer(locator.window, ReadDocumentRange(Whole(text), FALSE), 0, 0)
    ELSE Shown(locator, Selected(locator.window))

(* What the reader is shown of the range: all of it if the record has room *)
(* for it, else the characters of the match and as many around them as fit,*)
(* or what fits of the match (renderRecalledEvidence).                     *)
Characters(range) == {i \in DOMAIN text : Within(text[i], range)}
Stretch(S) == Span(text[Least(S)].start, text[Greatest(S)].end)
HasRoom(S) == Size(Stretch(S)) <= request.room
FocusCodePointRange(I, range, match) ==
    LET after == {i \in I : text[i].end > match.start}
    IN  IF match.end <= AtLeast(match.start, range.start) THEN {Least(I)}
        ELSE IF after = {} THEN I
        ELSE {Least(after)} \cup {i \in after : text[i].start < match.end}
Widened(I, focus, n) == {i \in I : Least(focus) - n <= i /\ i <= Greatest(focus) + n}
Prefix(focus, n) == {i \in focus : i < Least(focus) + n}
FocusedRecord(I, focus) ==
    IF HasRoom(focus)
    THEN Widened(I, focus, Greatest({n \in 0 .. Cardinality(I) : HasRoom(Widened(I, focus, n))}))
    ELSE Prefix(focus, Greatest({n \in 1 .. Cardinality(focus) : HasRoom(Prefix(focus, n))}))
Rendered(range, match) ==
    IF Size(range) <= request.room THEN range
    ELSE Stretch(FocusedRecord(Characters(range),
                               FocusCodePointRange(Characters(range), range, match)))

-----------------------------------------------------------------------------
(* A search signs the window and the place of a match, a step along the    *)
(* history the first bytes of the document (locateCandidates,              *)
(* traverseArchive). The reader follows what it is given.                  *)
SearchLocators == {Locator(WindowFor(windows, r), r) : r \in ToSet(Tokens(text, Whole(text)))}
FirstBytes(snippet) == Span(0, AtMost(ByteLength(text), AtLeast(1, Size(snippet))))
TraverseLocator ==
    Locator(1, FirstBytes(ReadDocumentRange(Span(0, AtMost(ByteLength(text), SnippetBytes)), TRUE)))

Init ==
    /\ text \in {Placed(t) : t \in Texts}
    /\ chunks = Chunks(text)
    /\ windows = Windows(text)
    /\ request \in Requests
    /\ open \in {{l} : l \in SearchLocators \cup {TraverseLocator}}
    /\ recalled = {}
    /\ shown = {} /\ seen = {}

Follow ==
    \E locator \in open : \E answer \in {Recall(locator)} :
        /\ recalled' = recalled \cup {locator}
        /\ open' = (open \cup answer.on) \ (recalled \cup {locator})
        /\ shown' = shown \cup {answer.range}
        /\ seen' = seen \cup {Rendered(answer.range, locator.match)}
        /\ UNCHANGED <<text, chunks, windows, request>>

Next == Follow
Spec == Init /\ [][Next]_vars

-----------------------------------------------------------------------------
\* The chunks hold every byte once, none is too big, and none splits a character
\* (splitPhysicalChunks, assertChunkLayout).
ChunksWhole ==
    /\ chunks[1].start = 0 /\ Last(chunks).end = ByteLength(text)
    /\ \A k \in DOMAIN chunks :
           /\ Size(chunks[k]) <= MaxChunkBytes
           /\ chunks[k].end \in Boundaries(text)
           /\ k > 1 => chunks[k].start = chunks[k - 1].end

\* Every byte is in a window and every token whole in one, and no window has more
\* tokens than a window has (createSearchWindows).
WindowsCover ==
    /\ Bytes(Whole(text)) = UNION {Bytes(windows[k]) : k \in DOMAIN windows}
    /\ \A r \in ToSet(Tokens(text, Whole(text))) : \E k \in DOMAIN windows : Within(r, windows[k])
    /\ \A k \in DOMAIN windows : Len(Tokens(text, windows[k])) <= WindowTokens

\* A locator that was given out can be recalled: its match is in its window
\* (the checks of recallSnapshot).
LocatorsHold ==
    \A l \in open \cup recalled : l.window \in DOMAIN windows /\ Within(l.match, windows[l.window])

\* A recall never fails and stays in its budget, and the match it was asked for is in
\* its answer when the budget has room for it (recallSnapshot).
RecallsHold ==
    /\ \A r \in shown : r # Unread /\ FitsRecallBudget(r)
    /\ \A l \in recalled : FitsRecallBudget(l.match) =>
           \A r \in ToSet(Tokens(text, l.match)) : \E s \in shown : Within(r, s)

\* What is shown is a part of what was answered with, and in its room. The beginning of
\* the match is never clipped away, nor are the tokens of a match there is room for
\* (renderRecalledEvidence, focusCodePointRange, focusedRecord).
RenderedHold ==
    /\ \A s \in seen : Size(s) <= request.room /\ \E r \in shown : Within(s, r)
    /\ \A l \in recalled :
           /\ LET r == Recall(l).range
              IN  l.match.start \in Bytes(r) => l.match.start \in Bytes(Rendered(r, l.match))
           /\ FitsRecallBudget(l.match) /\ Size(l.match) <= request.room =>
                  \A r \in ToSet(Tokens(text, l.match)) : \E s \in seen : Within(r, s)

\* Who follows every locator is answered with the whole document, when the budget holds the
\* tokens of a window or nothing is between the tokens of the text (continuationLocator).
\* With a smaller budget a locator may lead to blanks only, and back to itself. This is
\* said of the source a recall answers with; see WholeSeen for what is shown of it.
NoBlanks == \A i \in DOMAIN text : text[i].sort \notin {" ", "n"}
ReadsOn ==
    open = {} /\ (request.tokens >= WindowTokens \/ NoBlanks) =>
        Bytes(Whole(text)) = UNION {Bytes(r) : r \in shown}

\* "Recall returns continuation locators when adjacent evidence does not fit"
\* (retrieval.md:179), of what is shown. It does not hold: the locators lead on from the
\* range of the answer, and what the record has no room for is in none of them.
WholeSeen ==
    open = {} /\ request.tokens >= WindowTokens =>
        Bytes(Whole(text)) = UNION {Bytes(s) : s \in seen}

RangesSound ==
    ChunksWhole /\ WindowsCover /\ LocatorsHold /\ RecallsHold /\ RenderedHold /\ ReadsOn
=============================================================================
