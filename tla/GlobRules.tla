------------------------------ MODULE GlobRules ------------------------------
(***************************************************************************)
(* One exclude_dirs rule, read by two engines: the walker of the indexer   *)
(* (normalizeExcludeRule and ShouldSkipDirIn, internal/extraction/skip.go, *)
(* with Go's filepath.Match) and ripgrep, for which RgExcludeGlobs rewrites *)
(* the rule (rgExcludeArgs, internal/server/rg_exclude.go).                *)
(*                                                                         *)
(* A string is a sequence of character codes, for ranges compare codes and *)
(* the translation is about where a character stands.  Both glob languages *)
(* are external: GoItems and RgItems read them into items, which GoMatch   *)
(* and Matches interpret: Go never returns to a star it has left, while    *)
(* ripgrep's regular expression tries all places.  White space and invalid *)
(* UTF-8 are left out.                                                     *)
(***************************************************************************)
EXTENDS Naturals, Sequences, SequencesExt, FiniteSets

Bang == 33
Star == 42
Comma == 44
Minus == 45
Dot == 46
Slash == 47
Quest == 63
LBr == 91
Bs == 92
RBr == 93
Caret == 94
LCurl == 123
RCurl == 125

From(s, i) == SubSeq(s, i, Len(s))
Has(s, c)  == \E i \in DOMAIN s : s[i] = c
Starts(s, c) == s # <<>> /\ s[1] = c

Item(is, c, neg, ranges, arms) ==
    [is |-> is, c |-> c, neg |-> neg, ranges |-> ranges, arms |-> arms]
Char(c)    == Item("char", c, FALSE, {}, {})
Quoted(c)  == Item("char", c, TRUE, {}, {})     \* \c: only how it is written
AnyChar    == Item("any", 0, FALSE, {}, {})
Stars      == Item("star", 0, FALSE, {}, {})
Class(neg, ranges) == Item("class", 0, neg, ranges, {})
Deep       == Item("deep", 0, FALSE, {}, {})    \* /**/ of ripgrep
Arms(arms) == Item("arms", 0, FALSE, {}, arms)
Malformed  == Item("bad", 0, FALSE, {}, {})
WellFormed(items) == \A i \in DOMAIN items : items[i].is # "bad"

\* Both engines: ? and * stop at a separator, a class does not.
Fits(i, c) ==
    CASE i.is = "char"  -> c = i.c
      [] i.is = "any"   -> c # Slash
      [] i.is = "class" -> i.neg # (\E r \in i.ranges : r[1] <= c /\ c <= r[2])
      [] OTHER -> FALSE
RECURSIVE Matches(_, _)
Matches(items, s) ==
    IF items = <<>> THEN s = <<>>
    ELSE CASE Head(items).is = "star" ->
                \E k \in 0 .. Len(s) : /\ \A j \in 1 .. k : s[j] # Slash
                                       /\ Matches(Tail(items), From(s, k + 1))
           [] Head(items).is = "deep" ->
                \E k \in DOMAIN s : s[1] = Slash /\ s[k] = Slash /\ Matches(Tail(items), From(s, k + 1))
           [] Head(items).is = "arms" -> \E arm \in Head(items).arms : Matches(arm \o Tail(items), s)
           [] OTHER -> s # <<>> /\ Fits(Head(items), Head(s)) /\ Matches(Tail(items), Tail(s))

(***************************************************************************)
(* Go's pattern language (path/filepath: matchChunk, getEsc).              *)
(***************************************************************************)
\* How many characters the next member of a class takes; 0 if it is malformed.
Esc(s) ==
    IF s = <<>> \/ Starts(s, Minus) \/ Starts(s, RBr) THEN 0
    ELSE LET n == IF Head(s) = Bs THEN 2 ELSE 1 IN IF Len(s) > n THEN n ELSE 0

RECURSIVE GoMembers(_)
GoMembers(s) ==
    LET n == Esc(s)
        range == n > 0 /\ s[n + 1] = Minus
        m == IF range THEN Esc(From(s, n + 2)) ELSE 0
    IN  IF n = 0 \/ (range /\ m = 0) THEN [ok |-> FALSE, ranges |-> {}, rest |-> <<>>]
        ELSE LET one == {<<s[n], IF range THEN s[n + 1 + m] ELSE s[n]>>}
                 t == From(s, IF range THEN n + m + 2 ELSE n + 1)
             IN  IF Head(t) = RBr THEN [ok |-> TRUE, ranges |-> one, rest |-> Tail(t)]
                 ELSE LET more == GoMembers(t) IN [more EXCEPT !.ranges = @ \cup one]

RECURSIVE GoItems(_)
GoItems(s) ==
    IF s = <<>> THEN <<>>
    ELSE CASE Head(s) = Star  -> <<Stars>> \o GoItems(Tail(s))
           [] Head(s) = Quest -> <<AnyChar>> \o GoItems(Tail(s))
           [] Head(s) = Bs    -> IF Len(s) = 1 THEN <<Malformed>>
                                 ELSE <<Quoted(s[2])>> \o GoItems(From(s, 3))
           [] Head(s) = LBr   ->
                LET neg == Starts(Tail(s), Caret)
                    mem == GoMembers(From(s, IF neg THEN 3 ELSE 2))
                IN  IF mem.ok THEN <<Class(neg, mem.ranges)>> \o GoItems(mem.rest) ELSE <<Malformed>>
           [] OTHER -> <<Char(Head(s))>> \o GoItems(Tail(s))

\* The pattern is read in chunks, each what stands between two stars.  After a
\* star a chunk takes the first place where it fits, and only that one; the
\* last chunk the place that ends the name.
StarFree(items) == CHOOSE n \in 0 .. Len(items) : /\ \A i \in 1 .. n : items[i].is # "star"
                                                  /\ n = Len(items) \/ items[n + 1].is = "star"
matchChunk(chunk, s) == Len(s) >= Len(chunk) /\ \A i \in DOMAIN chunk : Fits(chunk[i], s[i])
RECURSIVE GoChunks(_, _, _)
GoChunks(items, star, s) ==
    LET n == StarFree(items)
        last == n = Len(items)
        places == {k \in 0 .. (IF star THEN Len(s) ELSE 0) :
                     /\ ~Has(SubSeq(s, 1, k), Slash) /\ matchChunk(SubSeq(items, 1, n), From(s, k + 1))
                     /\ last => Len(s) = k + n}
        first == CHOOSE k \in places : \A j \in places : k <= j
    IN  /\ places # {}
        /\ last \/ GoChunks(From(items, n + 2), TRUE, From(s, first + n + 1))

\* filepath.Match without error: it reports true only after reading all of
\* the pattern.
GoMatch(items, s) == WellFormed(items) /\ GoChunks(items, FALSE, s)

(***************************************************************************)
(* The walker.                                                             *)
(***************************************************************************)
Without(s, ends) ==      \* without the slashes at its start or end
    LET keep == {i \in DOMAIN s : s[i] # Slash}
        lo == CHOOSE i \in keep : \A j \in keep : i <= j
        hi == CHOOSE i \in keep : \A j \in keep : j <= i
    IN  CASE keep = {} -> <<>> [] ends = "left" -> From(s, lo) [] OTHER -> SubSeq(s, 1, hi)

normalizeExcludeRule(raw) ==
    LET dotted == IsPrefix(<<Dot, Slash>>, raw)
        anchored == dotted \/ Starts(raw, Slash)
        sub == IF anchored THEN Without(IF dotted THEN From(raw, 3) ELSE raw, "left") ELSE raw
        rule(pat) == [pat |-> pat, anchored |-> anchored, ok |-> pat \notin {<<>>, <<Dot>>, <<Dot, Dot>>}]
    IN  rule(Without(sub, "right"))
allowSlash(rule) == rule.anchored \/ Has(rule.pat, Slash)

BaseName(path) ==
    From(path, 1 + CHOOSE i \in 0 .. Len(path) : /\ i = 0 \/ path[i] = Slash
                                                 /\ \A j \in i + 1 .. Len(path) : path[j] # Slash)
\* The user-rule part of ShouldSkipDirIn for the directory at a path below
\* the workdir; items is GoItems of the rule's pattern.
WalkerSkips(rule, items, path) ==
    /\ rule.ok
    /\ IF allowSlash(rule)
       THEN path = rule.pat \/ IsPrefix(rule.pat \o <<Slash>>, path) \/ GoMatch(items, path)
       ELSE BaseName(path) = rule.pat \/ GoMatch(items, BaseName(path))

(***************************************************************************)
(* The translation.                                                        *)
(***************************************************************************)
\* isValidGoPattern: the pattern is cut at every * that is outside a class,
\* and each piece is read by itself.
RECURSIVE ChunkLen(_, _)
ChunkLen(s, inrange) ==
    IF s = <<>> \/ (Head(s) = Star /\ ~inrange) THEN 0
    ELSE LET n == IF Head(s) = Bs /\ Len(s) > 1 THEN 2 ELSE 1
         IN  n + ChunkLen(From(s, n + 1),
                          CASE Head(s) = LBr -> TRUE [] Head(s) = RBr -> FALSE [] OTHER -> inrange)

RECURSIVE isValidGoPattern(_)
isValidGoPattern(pat) ==
    IF pat = <<>> THEN TRUE
    ELSE IF Head(pat) = Star THEN isValidGoPattern(Tail(pat))
    ELSE LET n == ChunkLen(pat, FALSE)
         IN  WellFormed(GoItems(SubSeq(pat, 1, n))) /\ isValidGoPattern(From(pat, n + 1))

LiteralClass(c) == IF c = Bs THEN <<LBr, Bs, Bs, RBr>> ELSE <<LBr, c, RBr>>
EscapeChar(c) ==
    CASE c \in {Bs, LCurl, RCurl} -> LiteralClass(c)
      [] c \in {Star, Quest, LBr, RBr} -> <<Bs, c>>
      [] OTHER -> <<c>>
escapeRgLiteral(s) == FlattenSeq([i \in DOMAIN s |-> EscapeChar(s[i])])

\* The members of a class, split at the separator when the pattern only sees
\* base names; a reversed range is empty.
parseGoClass(i, slash) ==
    LET Split(r) == IF slash \/ r[1] > Slash \/ r[2] < Slash THEN {r}
                    ELSE {<<r[1], Slash - 1>>, <<Slash + 1, r[2]>>}
        inner == UNION {Split(r) : r \in {x \in i.ranges : x[1] < x[2]}}
    IN  [singles |-> {r[1] : r \in {x \in i.ranges : x[1] = x[2]}} \ (IF slash THEN {} ELSE {Slash}),
         ranges  |-> {r \in inner : r[1] <= r[2]}]

\* Characters whose place matters to ripgrep are taken off the ends of ranges.
normalizeRgRangeEndpoints(cls) ==
    LET endpoint == {RBr, Minus, Bang, Caret}
        Lo(r) == CHOOSE i \in r[1] .. r[2] + 1 : /\ \A j \in r[1] .. i - 1 : j \in endpoint
                                                 /\ i > r[2] \/ i \notin endpoint
        Hi(r) == CHOOSE i \in r[1] - 1 .. r[2] : /\ \A j \in i + 1 .. r[2] : j \in endpoint
                                                 /\ i < r[1] \/ i \notin endpoint
    IN  [singles |-> cls.singles \cup UNION {(r[1] .. Lo(r) - 1) \cup (Hi(r) + 1 .. r[2]) : r \in cls.ranges}
                       \cup {Lo(r) : r \in {x \in cls.ranges : Lo(x) = Hi(x)}},
         ranges  |-> {<<Lo(r), Hi(r)>> : r \in {x \in cls.ranges : Lo(x) < Hi(x)}}]

Only(cls, cs) == cls.singles \subseteq cs /\ cls.ranges = {}
Write(cls, c) == IF c \in cls.singles THEN <<c>> ELSE <<>>

\* The class as ripgrep reads it: ] first, - first or last, ! and ^ never
\* first.  The result is empty when class syntax has no form for it.
Written(neg, cls) ==
    LET ordinary == SetToSeq(cls.singles \ {RBr, Minus, Bang, Caret})
        minusFirst == /\ ~neg /\ Minus \in cls.singles /\ RBr \notin cls.singles
                      /\ ordinary = <<>> /\ cls.ranges = {}
        minus == Write(cls, Minus)
    IN  CASE Only(cls, {}) -> <<>>
          [] ~neg /\ Only(cls, {Bang, Caret}) ->
                IF cls.singles = {Bang, Caret} THEN <<LCurl, Bs, Bang, Comma, Bs, Caret, RCurl>>
                ELSE <<Bs>> \o SetToSeq(cls.singles)
          [] OTHER ->
                <<LBr>> \o (IF neg THEN <<Bang>> ELSE <<>>) \o Write(cls, RBr)
                  \o (IF minusFirst THEN minus ELSE <<>>) \o ordinary
                  \o FlattenSeq([i \in 1 .. Cardinality(cls.ranges) |->
                                   LET r == SetToSeq(cls.ranges)[i] IN <<r[1], Minus, r[2]>>])
                  \o Write(cls, Bang) \o Write(cls, Caret)
                  \o (IF minusFirst THEN <<>> ELSE minus) \o <<RBr>>
emitRgClass(neg, parsed) == Written(neg, normalizeRgRangeEndpoints(parsed))

\* A class without the separator a negated one must not match below it.
classGlob(it, parsed, slash) ==
    LET barred == IF it.neg /\ ~slash /\ ~Only(parsed, {}) THEN {Slash} ELSE {}
    IN  emitRgClass(it.neg, [parsed EXCEPT !.singles = @ \cup barred])
\* A negated class without members is any character, which may stand on a
\* separator inside a path; one without members that is not negated is
\* nothing.
openClass(it, items, i, slash) ==
    LET inside == i > 1 /\ i < Len(items) /\ items[i - 1] # Char(Slash) /\ items[i - 1] # Quoted(Slash)
                    /\ items[i + 1] # Char(Slash)
    IN  CASE ~it.neg -> <<>>
          [] slash /\ inside -> <<LCurl, Quest, Comma, LBr, Slash, RBr, RCurl>>
          [] OTHER -> <<Quest>>
OrElse(glob, other) == IF glob # <<>> THEN glob ELSE other

\* One item of a valid pattern; <<>> when the pattern denotes nothing.
translateItem(items, i, slash) ==
    LET it == items[i]
    IN  CASE it.is = "star" -> IF i > 1 /\ items[i - 1].is = "star" THEN <<0>> ELSE <<Star>>
          [] it.is = "any"  -> <<Quest>>
          [] it.is = "char" -> IF it.c \in {LCurl, RCurl} \/ (it.neg /\ it.c = Bs) THEN LiteralClass(it.c)
                               ELSE IF it.neg THEN <<Bs, it.c>> ELSE <<it.c>>
          [] OTHER -> OrElse(classGlob(it, parseGoClass(it, slash), slash), openClass(it, items, i, slash))

Joined(parts) == [glob |-> SelectSeq(FlattenSeq(parts), LAMBDA c : c # 0),
                  satisfiable |-> \A i \in DOMAIN parts : parts[i] # <<>>]
translateRgGlob(items, slash) == Joined([i \in DOMAIN items |-> translateItem(items, i, slash)])

TrailingRun(g) == Len(g) - (CHOOSE n \in 0 .. Len(g) : /\ n = 0 \/ g[n] # Bs
                                                       /\ \A j \in n + 1 .. Len(g) : g[j] = Bs)
fixRgTrailingEscape(g) == IF TrailingRun(g) > 0 /\ TrailingRun(g) % 2 = 0 THEN g \o <<Bs>> ELSE g

rgSafeGlob(pat, slash) ==
    IF isValidGoPattern(pat) THEN translateRgGlob(GoItems(pat), slash)
    ELSE [glob |-> fixRgTrailingEscape(escapeRgLiteral(pat)), satisfiable |-> TRUE]

M_globsOf(rule, slash, wild) ==
    IF wild.satisfiable THEN {(IF slash THEN <<Slash>> ELSE <<>>) \o wild.glob} ELSE {}

\* The globs for one rule: its translation, and its own name when the walker
\* would skip the directory of that very name and the pattern would not.
globsOf(rule, slash, wild) ==
    LET lead == CASE slash -> <<Slash>> [] Has(wild.glob, Slash) -> <<Star, Star, Slash>> [] OTHER -> <<>>
        literal == isValidGoPattern(rule.pat) /\ ~GoMatch(GoItems(rule.pat), rule.pat)
    IN  (IF wild.satisfiable THEN {lead \o wild.glob} ELSE {}) \cup
        (IF literal THEN {(IF slash THEN <<Slash>> ELSE <<>>) \o fixRgTrailingEscape(escapeRgLiteral(rule.pat))}
         ELSE {})
globsFor(rule) == IF rule.ok THEN globsOf(rule, allowSlash(rule), rgSafeGlob(rule.pat, allowSlash(rule))) ELSE {}
RgExcludeGlobs(raw) == globsFor(normalizeExcludeRule(raw))

(***************************************************************************)
(* ripgrep's glob language and its --glob overrides.                       *)
(***************************************************************************)
\* The members of a class up to its ]: the first character is a member
\* whatever it is, a range must not be reversed.
RECURSIVE RgMembers(_, _, _)
RgMembers(s, first, acc) ==
    IF s = <<>> THEN [ok |-> FALSE, ranges |-> {}, rest |-> <<>>]
    ELSE IF Head(s) = RBr /\ ~first THEN [ok |-> TRUE, ranges |-> acc, rest |-> Tail(s)]
    ELSE IF Len(s) > 2 /\ s[2] = Minus /\ s[3] # RBr
    THEN IF s[1] <= s[3] THEN RgMembers(From(s, 4), FALSE, acc \cup {<<s[1], s[3]>>})
         ELSE [ok |-> FALSE, ranges |-> {}, rest |-> <<>>]
    ELSE RgMembers(Tail(s), FALSE, acc \cup {<<Head(s), Head(s)>>})

\* Where the } of an alternation is, and its arms; they hold no braces.
ArmEnd(s) == IF Has(s, RCurl) THEN CHOOSE i \in DOMAIN s : s[i] = RCurl /\ ~Has(SubSeq(s, 1, i - 1), RCurl)
             ELSE 0
ArmsOf(s) == LET cuts == {0, Len(s) + 1} \cup {i \in DOMAIN s : s[i] = Comma}
             IN  {SubSeq(s, i + 1, (CHOOSE j \in cuts : j > i /\ \A k \in cuts : k > i => j <= k) - 1) :
                    i \in cuts \ {Len(s) + 1}}

\* \{ opens an alternation as { does, which is why the translation never
\* writes it.
RECURSIVE RgItems(_)
RgItems(s) ==
    IF s = <<>> THEN <<>>
    ELSE CASE IsPrefix(<<Slash, Star, Star, Slash>>, s) -> <<Deep>> \o RgItems(From(s, 5))
           [] Head(s) = Star  -> <<Stars>> \o RgItems(Tail(s))
           [] Head(s) = Quest -> <<AnyChar>> \o RgItems(Tail(s))
           [] Head(s) = Bs    -> IF Len(s) = 1 \/ s[2] \in {LCurl, RCurl} THEN <<Malformed>>
                                 ELSE <<Char(s[2])>> \o RgItems(From(s, 3))
           [] Head(s) = LBr   ->
                LET neg == Starts(Tail(s), Bang) \/ Starts(Tail(s), Caret)
                    mem == RgMembers(From(s, IF neg THEN 3 ELSE 2), TRUE, {})
                IN  IF mem.ok THEN <<Class(neg, mem.ranges)>> \o RgItems(mem.rest) ELSE <<Malformed>>
           [] Head(s) = RCurl -> <<Malformed>>
           [] Head(s) = LCurl ->
                LET n == ArmEnd(Tail(s))
                    arms == {RgItems(a) : a \in ArmsOf(SubSeq(s, 2, n))}
                IN  IF n = 0 \/ \E a \in arms : ~WellFormed(a) THEN <<Malformed>>
                    ELSE <<Arms(arms)>> \o RgItems(From(s, n + 2))
           [] OTHER -> <<Char(Head(s))>> \o RgItems(Tail(s))

\* "!<glob>/": the trailing slash makes it a directory rule and takes one
\* escape with it; a leading slash or an inner one anchors it at the root.
RgRule(glob) ==
    LET body == CASE Starts(glob, Slash) -> Tail(glob)
                  [] IsPrefix(<<Star, Star, Slash>>, glob) -> From(glob, 4) [] OTHER -> glob
        cut == IF body # <<>> /\ Last(body) = Bs THEN Front(body) ELSE body
    IN  [anchored |-> Starts(glob, Slash) \/ (body = glob /\ Has(glob, Slash)), items |-> RgItems(cut)]
RgSkips(rule, path) ==
    \E i \in 1 .. Len(path) : /\ i = 1 \/ (~rule.anchored /\ path[i - 1] = Slash)
                              /\ Matches(rule.items, From(path, i))
rgExcludeArgs(raw) == {RgRule(g) : g \in RgExcludeGlobs(raw)}

-----------------------------------------------------------------------------
\* Directories of a path, outermost first.
Above(path) == {SubSeq(path, 1, i) : i \in {j \in DOMAIN path : j = Len(path) \/ path[j + 1] = Slash}}

\* A class that may stand on a separator, between two stars of a rule that is
\* matched with whole paths: where Go takes the first place that fits and
\* fails, ripgrep may find another behind a separator.
Drifts(rule, items) ==
    allowSlash(rule) /\ \E i, j, k \in DOMAIN items :
        /\ i < j /\ j < k /\ items[i].is = "star" /\ items[k].is = "star"
        /\ items[j].is = "class" /\ Fits(items[j], Slash)

\* Whatever the rule, the walker and ripgrep leave out the same of the given
\* directories (ripgrep at least as much if the rule may drift), and no glob
\* is one that ripgrep refuses (rgExcludeArgs: "no rule can break rg's glob
\* parser").
Agree(rule, items, globs, paths) ==
    /\ \A g \in globs : WellFormed(g.items)
    /\ \A path \in paths :
          LET walker  == \E d \in Above(path) : WalkerSkips(rule, items, d)
              ripgrep == \E d \in Above(path), g \in globs : RgSkips(g, d)
          IN  /\ walker => ripgrep
              /\ ripgrep => walker \/ Drifts(rule, items)
AgreeOn(rule, raw, paths) == Agree(rule, GoItems(rule.pat), rgExcludeArgs(raw), paths)
EnginesAgree(raw, paths) == AgreeOn(normalizeExcludeRule(raw), raw, paths)
=============================================================================
