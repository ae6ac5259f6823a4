---------------------------- MODULE OfficeProofs ----------------------------
(***************************************************************************)
(* What the pages of MCOffice show is true, for any constants: an          *)
(* invariant for each page, which only the steps of its own tab touch.     *)
(***************************************************************************)
EXTENDS MCOffice, FiniteInduction, SequenceTheorems

(***************************************************************************)
(* Numbers: the lowest and the highest of some, and the newest k of them.  *)
(***************************************************************************)
LEMMA FewestOf ==
    ASSUME NEW S, IsFiniteSet(S), S # {}, NEW O \in [S -> SUBSET S]
    PROVE  \E e \in S : \A f \in S : O[f] \subseteq O[e] => O[f] = O[e]
<1> DEFINE T == {O[e] : e \in S}
<1>1. T \subseteq SUBSET S /\ T # {}
    OBVIOUS
<1> HIDE DEF T
<1>2. PICK x \in T : \A y \in T : y \subseteq x => y = x
    BY <1>1, SmallestSet
<1> QED
    BY <1>2 DEF T

LEMMA LowestIs ==
    ASSUME NEW S, \A e \in S : e \in Nat, IsFiniteSet(S), S # {}
    PROVE  History!Lowest(S) \in S /\ \A f \in S : History!Lowest(S) <= f
<1> DEFINE Under == [e \in S |-> {f \in S : f < e}]
<1>1. Under \in [S -> SUBSET S]
    OBVIOUS
<1> HIDE DEF Under
<1>2. PICK e \in S : \A f \in S : Under[f] \subseteq Under[e] => Under[f] = Under[e]
    BY <1>1, FewestOf
<1>3. ASSUME NEW f \in S PROVE e <= f
  <2> SUFFICES ASSUME f < e PROVE FALSE
      OBVIOUS
  <2>1. e \in Nat /\ f \in Nat
      OBVIOUS
  <2>2. \A g \in Under[f] : g \in S /\ g \in Nat /\ g < f
      BY DEF Under
  <2>3. \A g \in Under[f] : g \in S /\ g < e
      BY <2>1, <2>2
  <2>4. Under[f] \subseteq Under[e]
      BY <2>3 DEF Under
  <2>5. f \in Under[e] /\ f \notin Under[f]
      BY <2>1 DEF Under
  <2> QED
      BY <1>2, <2>4, <2>5
<1> QED
    BY <1>3 DEF History!Lowest

LEMMA HighestIs ==
    ASSUME NEW S, \A e \in S : e \in Nat, IsFiniteSet(S), S # {}
    PROVE  History!Highest(S) \in S /\ \A f \in S : f <= History!Highest(S)
<1> DEFINE Over == [e \in S |-> {f \in S : f > e}]
<1>1. Over \in [S -> SUBSET S]
    OBVIOUS
<1> HIDE DEF Over
<1>2. PICK e \in S : \A f \in S : Over[f] \subseteq Over[e] => Over[f] = Over[e]
    BY <1>1, FewestOf
<1>3. ASSUME NEW f \in S PROVE f <= e
  <2> SUFFICES ASSUME f > e PROVE FALSE
      OBVIOUS
  <2>1. e \in Nat /\ f \in Nat
      OBVIOUS
  <2>2. \A g \in Over[f] : g \in S /\ g \in Nat /\ g > f
      BY DEF Over
  <2>3. \A g \in Over[f] : g \in S /\ g > e
      BY <2>1, <2>2
  <2>4. Over[f] \subseteq Over[e]
      BY <2>3 DEF Over
  <2>5. f \in Over[e] /\ f \notin Over[f]
      BY <2>1 DEF Over
  <2> QED
      BY <1>2, <2>4, <2>5
<1> QED
    BY <1>3 DEF History!Highest

LEMMA SameCount == \A S : History!Cardinality(S) = Cardinality(S)
    BY DEF History!Cardinality, Cardinality

LEMMA NewestAre ==
    ASSUME NEW S, \A e \in S : e \in Nat, IsFiniteSet(S), NEW k \in Nat
    PROVE  /\ History!Newest(S, k) \subseteq S
           /\ \A e \in History!Newest(S, k), f \in S : f > e => f \in History!Newest(S, k)
           /\ k # 0 /\ S # {} => History!Newest(S, k) # {}
           /\ \A n \in Nat : k <= n => History!Newest(S, k) \subseteq History!Newest(S, n)
           /\ \A R \in SUBSET S : \A e \in R : e \in History!Newest(S, k) => e \in History!Newest(R, k)
<1> DEFINE Over(e) == {f \in S : f > e}
           N == History!Newest(S, k)
<1>1. \A e : IsFiniteSet(Over(e)) /\ Cardinality(Over(e)) \in Nat
    BY FS_Subset, FS_CardinalityType
<1>2. N = {e \in S : Cardinality(Over(e)) < k}
    BY SameCount DEF History!Newest
<1> HIDE DEF N
<1>3. ASSUME NEW e \in N, NEW f \in S, f > e PROVE f \in N
  <2>1. e \in S /\ e \in Nat /\ f \in Nat /\ f > e
      BY <1>2, <1>3
  <2>3. Over(f) \subseteq Over(e)
    <3>1. \A g \in Over(f) : g \in S /\ g \in Nat /\ g > f
        OBVIOUS
    <3>2. \A g \in Over(f) : g > e
        BY <2>1, <3>1
    <3> QED
        BY <3>1, <3>2
  <2>2. Cardinality(Over(f)) <= Cardinality(Over(e))
      BY <1>1, <2>3, FS_Subset
  <2> HIDE DEF Over
  <2> QED
      BY <1>1, <1>2, <2>1, <2>2
<1>4. ASSUME k # 0, S # {} PROVE N # {}
  <2> DEFINE h == History!Highest(S)
  <2>0. h \in S /\ \A f \in S : f <= h
      BY <1>4, HighestIs
  <2> HIDE DEF h
  <2>1. h \in S /\ Over(h) = {}
    <3> SUFFICES ASSUME NEW f \in Over(h) PROVE FALSE
        BY <2>0
    <3>1. f \in Nat /\ h \in Nat /\ f <= h /\ f > h
        BY <2>0
    <3> QED
        BY <3>1
  <2>2. Cardinality(Over(h)) = 0
      BY <2>1, FS_EmptySet
  <2> HIDE DEF Over, h
  <2> QED
      BY <1>2, <1>4, <2>1, <2>2
<1>5. ASSUME NEW n \in Nat, k <= n PROVE N \subseteq History!Newest(S, n)
  <2>1. History!Newest(S, n) = {e \in S : Cardinality(Over(e)) < n}
      BY SameCount DEF History!Newest
  <2> HIDE DEF Over
  <2> QED
      BY <1>1, <1>2, <1>5, <2>1
<1>6. ASSUME NEW R \in SUBSET S, NEW e \in R, e \in N PROVE e \in History!Newest(R, k)
  <2> DEFINE Less == {f \in R : f > e}
  <2>1. Less \subseteq Over(e)
      OBVIOUS
  <2>2. Cardinality(Less) <= Cardinality(Over(e)) /\ Cardinality(Less) \in Nat
      BY <1>1, <2>1, FS_Subset, FS_CardinalityType
  <2>3. e \in History!Newest(R, k) <=> Cardinality(Less) < k
      BY SameCount DEF History!Newest
  <2> HIDE DEF Over, Less
  <2> QED
      BY <1>1, <1>2, <1>6, <2>2, <2>3
<1> QED
    BY <1>2, <1>3, <1>4, <1>5, <1>6 DEF N

(***************************************************************************)
(* The histories. Met is what the question asks for, Dec the cases decided *)
(* among them. Going on to older entries, a page follows on what was seen: *)
(* every entry between the cursor and the newest one seen was seen, and    *)
(* what was seen below the cursor is on the cursor's page. An offset moves *)
(* only down: of the cases decided no later than the newest one seen       *)
(* first, those before the offset were seen.                               *)
(***************************************************************************)
HQuery == [case : {History!Any} \cup History!Cases, action : {History!Any} \cup History!Actions,
           before : {0} \cup Entries, offset : Nat]

HAnswer == [to : HQuery, events : SUBSET Entries, next : {0} \cup Entries,
            compared : SUBSET Entries, nextOffset : Nat]

HistoryTyped ==
    /\ view \in {"history", "validation"}
    /\ written \in {0} \cup Entries
    /\ fields \in [case : {History!Any} \cup History!Cases, action : {History!Any} \cup History!Actions]
    /\ historyQuery \in HQuery
    /\ phase \in {"none", "asked", "served"} /\ (fetched # NoAnswer) = (phase = "served")
    /\ fetched \in HAnswer \cup {NoAnswer} /\ historyShown \in HAnswer \cup {NoAnswer}
    /\ opened \in [case : {History!Any} \cup History!Cases, before : {0} \cup Entries, asked : BOOLEAN,
                   entries : SUBSET Entries]
    /\ seen \in [events : SUBSET Entries, compared : SUBSET Entries, newest : {0} \cup Entries]

AsAsked ==
    /\ fetched # NoAnswer => fetched.to = historyQuery
    /\ view = "history" => /\ phase # "none" => historyShown = NoAnswer
                           /\ historyShown # NoAnswer => historyShown.to = historyQuery

Met == {e \in Entries : History!Matches(e, History!Asked(historyQuery))}
Dec == History!Decided(historyQuery)

Below(b) == {e \in Met : b = 0 \/ e < b}
PageBelow(b) == History!Newest(Below(b), Limit)

\* The page at b follows on what was seen.
FollowsOn(b) ==
    b # 0 => /\ b <= written
             /\ \A e \in Met : e >= b /\ e \notin seen.events => \A f \in seen.events : f < e
             /\ {e \in seen.events : e < b} \subseteq PageBelow(b)

Leads(n, events) == n # 0 => n \in events /\ \A f \in events : n <= f

EventsSeen ==
    /\ seen.events \subseteq Met
    /\ History!Gapless(seen.events, Met)
    /\ FollowsOn(historyQuery.before)
    /\ historyQuery.before = 0 /\ phase # "none" => seen.events = {}
    /\ fetched # NoAnswer =>
         /\ fetched.events \subseteq Met
         /\ IF historyQuery.before = 0 THEN History!Gapless(fetched.events, Met)
            ELSE fetched.events = PageBelow(historyQuery.before)
         /\ Leads(fetched.next, fetched.events)
    /\ historyShown # NoAnswer =>
         /\ historyShown.next <= written
         /\ seen.events # {} => Leads(historyShown.next, seen.events)

\* Those of the first k decided that are no later than top.
UpTo(k, top) == {e \in History!Newest(Dec, k) : e <= top}

\* Every case decided between one of these and the top is one of them.
Solid(cases, top) == \A f \in cases, e \in Dec : f < e /\ e <= top => e \in cases

ComparedSeen ==
    /\ seen.compared \subseteq Dec
    /\ seen.newest <= written
    /\ Solid(seen.compared, seen.newest)
    /\ seen.compared # {} => UpTo(historyQuery.offset, seen.newest) \subseteq seen.compared
    /\ fetched # NoAnswer =>
         LET all == seen.compared \cup fetched.compared
             top == IF seen.compared = {} /\ fetched.compared # {} THEN History!Highest(fetched.compared)
                    ELSE seen.newest
         IN  /\ fetched.compared \subseteq Dec
             /\ Solid(all, top)
             /\ all # {} => UpTo(fetched.nextOffset, top) \subseteq all
             /\ all # {} => UpTo(historyQuery.offset, top) \subseteq all
    /\ historyShown # NoAnswer /\ seen.compared # {} =>
         UpTo(historyShown.nextOffset, seen.newest) \subseteq seen.compared

HistoryInv == HistoryTyped /\ AsAsked /\ EventsSeen /\ ComparedSeen

LEMMA EntriesAre ==
    /\ \A e \in Entries : e \in Nat /\ e # 0
    /\ \A S \in SUBSET Entries : IsFiniteSet(S) /\ \A e \in S : e \in Nat
<1>1. Entries \subseteq Nat \ {0} /\ IsFiniteSet(Entries)
    BY HistoryAssumption
<1>2. \A S \in SUBSET Entries : IsFiniteSet(S)
    BY <1>1, FS_Subset
<1> QED
    BY <1>1, <1>2

LEMMA AnswersAreNot == NoAnswer \notin HAnswer
    BY HistoryAssumption DEF HAnswer, HQuery, History!Any, History!Cases, History!Actions

LEMMA BoundsAre == Limit \in Nat /\ Limit # 0 /\ Window \in Nat /\ Window # 0
    BY HistoryAssumption

LEMMA MetAre ==
    /\ Met \subseteq Entries /\ Dec \subseteq Entries
    /\ \A e \in Met \cup Dec : e <= written
    BY DEF Met, Dec, History!Decided, History!Matches

\* What an answer has is of the entries that are asked for.
LEMMA PagesAre ==
    ASSUME NEW b
    PROVE  /\ PageBelow(b) \subseteq Below(b) /\ Below(b) \subseteq Met
           /\ \A e \in PageBelow(b), f \in Below(b) : f > e => f \in PageBelow(b)
           /\ Below(b) # {} => PageBelow(b) # {}
<1>1. Below(b) \subseteq Met /\ Below(b) \in SUBSET Entries
    BY MetAre DEF Below
<1>2. IsFiniteSet(Below(b)) /\ \A e \in Below(b) : e \in Nat
    BY <1>1, EntriesAre
<1> QED
    BY <1>1, <1>2, BoundsAre, NewestAre DEF PageBelow

LEMMA FirstAre ==
    ASSUME NEW k \in Nat
    PROVE  /\ History!Newest(Dec, k) \subseteq Dec
           /\ \A e \in History!Newest(Dec, k), f \in Dec : f > e => f \in History!Newest(Dec, k)
           /\ \A n \in Nat : k <= n => History!Newest(Dec, k) \subseteq History!Newest(Dec, n)
           /\ \A R \in SUBSET Dec : \A e \in R : e \in History!Newest(Dec, k) => e \in History!Newest(R, k)
<1>1. Dec \in SUBSET Entries
    BY MetAre
<1>2. IsFiniteSet(Dec) /\ \A e \in Dec : e \in Nat
    BY <1>1, EntriesAre
<1> HIDE DEF Dec
<1> QED
    BY <1>2, NewestAre

LEMMA NoneAreFirst == \A top : UpTo(0, top) = {}
<1>1. \A e : IsFiniteSet({f \in Dec : f > e})
  <2>1. \A e : {f \in Dec : f > e} \in SUBSET Entries
      BY MetAre
  <2> QED
      BY <2>1, EntriesAre
<1>2. \A e : Cardinality({f \in Dec : f > e}) \in Nat
    BY <1>1, FS_CardinalityType
<1>3. History!Newest(Dec, 0) = {e \in Dec : Cardinality({f \in Dec : f > e}) < 0}
    BY SameCount DEF History!Newest
<1>4. History!Newest(Dec, 0) = {}
  <2> SUFFICES ASSUME NEW e \in History!Newest(Dec, 0) PROVE FALSE
      OBVIOUS
  <2> DEFINE n == Cardinality({f \in Dec : f > e})
  <2>1. n \in Nat
      BY <1>2
  <2>2. n < 0
      BY <1>3
  <2> HIDE DEF n
  <2> QED
      BY <2>1, <2>2
<1> QED
    BY <1>4 DEF UpTo

LEMMA ServedEvents ==
    ASSUME HistoryTyped
    PROVE  LET q == History!Asked(historyQuery) IN
           /\ History!Events(q) = PageBelow(historyQuery.before)
           /\ History!NextBefore(q) # 0 => /\ History!NextBefore(q) = History!Lowest(History!Events(q))
                                           /\ History!Events(q) # {}
<1> DEFINE q == History!Asked(historyQuery)
<1>1. q.before = historyQuery.before
    BY DEF HistoryTyped, HQuery, History!Asked
<1>2. {e \in Entries : History!Matches(e, q) /\ (q.before = 0 \/ e < q.before)} = Below(historyQuery.before)
    BY <1>1 DEF Below, Met
<1> HIDE DEF q
<1>3. History!Events(q) = PageBelow(historyQuery.before)
    BY <1>2 DEF History!Events, PageBelow
<1>4. History!More(q) \subseteq Below(historyQuery.before)
    BY <1>2 DEF History!More
<1>5. History!NextBefore(q) # 0 => /\ History!NextBefore(q) = History!Lowest(History!Events(q))
                                   /\ History!More(q) # {}
    BY DEF History!NextBefore
<1> QED
    BY <1>3, <1>4, <1>5, PagesAre DEF q

LEMMA ServedTyped ==
    ASSUME HistoryTyped
    PROVE  /\ History!AnswerTo(historyQuery) \in HAnswer
           /\ \A n : n = History!NextBefore(History!Asked(historyQuery)) => Leads(n, PageBelow(historyQuery.before))
<1> DEFINE q == History!Asked(historyQuery)
           P == PageBelow(historyQuery.before)
           n == History!NextBefore(q)
<1>1. P \subseteq Entries
    BY PagesAre, MetAre
<1>2. IsFiniteSet(P) /\ \A e \in P : e \in Nat
    BY <1>1, EntriesAre
<1>3. History!Events(q) = P /\ (n # 0 => n = History!Lowest(P) /\ P # {})
    BY ServedEvents
<1> HIDE DEF q, P, n
<1>4. Leads(n, P)
    BY <1>2, <1>3, LowestIs DEF Leads
<1>5. n \in {0} \cup Entries
    BY <1>1, <1>4 DEF Leads
<1>6. historyQuery \in HQuery /\ historyQuery.offset \in Nat
    BY DEF HistoryTyped, HQuery
<1>7. History!Compared(historyQuery) \subseteq Entries
  <2>1. \A k : History!Newest(Dec, k) \subseteq Dec
      BY DEF History!Newest
  <2> QED
      BY <2>1, MetAre DEF History!Compared, Dec
<1>8. History!NextOffset(historyQuery) \in Nat
    BY <1>6, BoundsAre DEF History!NextOffset
<1>9. History!AnswerTo(historyQuery) \in HAnswer
    BY <1>1, <1>3, <1>5, <1>6, <1>7, <1>8 DEF History!AnswerTo, HAnswer, q, n
<1> QED
    BY <1>4, <1>9 DEF n, P, q

TopOf(cases, newest, new) == IF cases = {} /\ new # {} THEN History!Highest(new) ELSE newest

JoinsOn(cases, newest, k, new, top) ==
    /\ new \subseteq Dec
    /\ Solid(cases \cup new, top)
    /\ cases \cup new # {} => UpTo(k, top) \subseteq cases \cup new
    /\ cases \cup new # {} => UpTo(k + Window, top) \subseteq cases \cup new

\* Going on by an offset: what is on the page joins what was seen without a gap.
LEMMA OffsetPage ==
    ASSUME HistoryTyped,
           NEW cases \in SUBSET Entries, cases \subseteq Dec, NEW newest \in {0} \cup Entries, Solid(cases, newest),
           NEW k \in Nat, cases # {} => UpTo(k, newest) \subseteq cases,
           NEW new, new = History!Newest(Dec, k + Window) \ History!Newest(Dec, k)
    PROVE  JoinsOn(cases, newest, k, new, TopOf(cases, newest, new))
<1> DEFINE top == TopOf(cases, newest, new)
           few == History!Newest(Dec, k)
           more == History!Newest(Dec, k + Window)
<1>1. k + Window \in Nat
    BY BoundsAre
<1>2. /\ few \subseteq Dec /\ more \subseteq Dec
      /\ \A e \in few, f \in Dec : f > e => f \in few
      /\ \A e \in more, f \in Dec : f > e => f \in more
    BY <1>1, FirstAre
<1>3. \A e \in Dec : e \in Nat
    BY MetAre, EntriesAre
<1>4. \A t, e : /\ e \in UpTo(k, t) <=> e \in few /\ e <= t
                /\ e \in UpTo(k + Window, t) <=> e \in more /\ e <= t
    BY DEF UpTo
<1>5. new \subseteq Dec /\ \A e : e \in new <=> e \in more /\ e \notin few
    BY <1>2
<1>t. top = IF cases = {} /\ new # {} THEN History!Highest(new) ELSE newest
    BY DEF TopOf
<1> HIDE DEF few, more, top
<1>6. CASE cases # {}
  <2>1. top = newest
      BY <1>6, <1>t
  <2>2. ASSUME NEW f \in cases \cup new, NEW e \in Dec, f < e, e <= top PROVE e \in cases \cup new
    <3>1. CASE f \in cases
        BY <2>1, <2>2, <3>1 DEF Solid
    <3>2. CASE f \in new
      <4>1. e \in more
          BY <1>2, <1>3, <1>5, <2>2, <3>2
      <4> QED
          BY <1>4, <1>5, <1>6, <2>1, <2>2, <4>1
    <3> QED
        BY <2>2, <3>1, <3>2
  <2>3. UpTo(k, top) \subseteq cases \cup new
      BY <1>6, <2>1
  <2>4. UpTo(k + Window, top) \subseteq cases \cup new
      BY <1>4, <1>5, <2>3
  <2> QED
      BY <1>5, <2>2, <2>3, <2>4 DEF Solid, JoinsOn, top
<1>7. CASE cases = {} /\ new # {}
  <2>1. new \in SUBSET Entries
      BY <1>5, MetAre
  <2>2. IsFiniteSet(new) /\ \A e \in new : e \in Nat
      BY <2>1, EntriesAre
  <2>3. top \in new
      BY <1>7, <1>t, <2>2, HighestIs
  <2>4. ASSUME NEW e \in few, e <= top PROVE FALSE
    <3>1. top \in Dec /\ top \in Nat /\ e \in Nat /\ top \notin few
        BY <1>2, <1>3, <1>5, <2>3
    <3>2. top > e
        BY <2>4, <3>1
    <3> QED
        BY <1>2, <3>1, <3>2
  <2>5. ASSUME NEW f \in new, NEW e \in Dec, f < e, e <= top PROVE e \in new
    <3>1. e \in more
        BY <1>2, <1>3, <1>5, <2>5
    <3> QED
        BY <1>5, <2>4, <2>5, <3>1
  <2>6. UpTo(k, top) \subseteq new /\ UpTo(k + Window, top) \subseteq new
      BY <1>4, <1>5, <2>4
  <2> QED
      BY <1>5, <1>7, <2>5, <2>6 DEF Solid, JoinsOn, top
<1>8. CASE cases = {} /\ new = {}
    BY <1>5, <1>8 DEF Solid, JoinsOn, top
<1> QED
    BY <1>6, <1>7, <1>8

LEMMA HistoryServes ==
    ASSUME HistoryInv, History!ServeAnswer PROVE HistoryInv'
<1> DEFINE q == historyQuery
           ans == History!AnswerTo(q)
           P == PageBelow(q.before)
<1>1. /\ HistoryTyped /\ AsAsked /\ EventsSeen /\ ComparedSeen
      /\ fetched' = ans /\ phase = "asked" /\ phase' = "served"
      /\ UNCHANGED <<view, written, fields, historyQuery, org, historyShown, opened, seen>>
    BY DEF HistoryInv, History!ServeAnswer
<1>2. ans \in HAnswer /\ ans # NoAnswer
    BY <1>1, ServedTyped, AnswersAreNot
<1>3. HistoryTyped'
    BY <1>1, <1>2 DEF HistoryTyped
<1>4. /\ ans.to = q /\ ans.events = P /\ Leads(ans.next, P)
      /\ ans.compared = IF view = "validation" THEN History!Compared(q) ELSE {}
      /\ ans.nextOffset = IF view = "validation" THEN History!NextOffset(q) ELSE 0
  <2>1. History!Events(History!Asked(q)) = P
      BY <1>1, ServedEvents
  <2>2. Leads(History!NextBefore(History!Asked(q)), P)
      BY <1>1, ServedTyped
  <2> QED
      BY <2>1, <2>2 DEF History!AnswerTo
<1> HIDE DEF ans
<1>5. AsAsked'
    BY <1>1, <1>4 DEF AsAsked
<1>6. Met' = Met /\ Dec' = Dec /\ \A b : Below(b)' = Below(b) /\ PageBelow(b)' = PageBelow(b)
  <2>1. Met' = Met /\ Dec' = Dec
      BY <1>1 DEF Met, Dec, History!Decided, History!Matches, History!Asked, History!OfOrg
  <2>2. \A b : Below(b)' = Below(b)
      BY <2>1 DEF Below
  <2> QED
      BY <2>1, <2>2 DEF PageBelow, History!Newest
<1>7. P \subseteq Met /\ (q.before = 0 => History!Gapless(P, Met))
  <2>1. /\ P \subseteq Below(q.before) /\ Below(q.before) \subseteq Met
        /\ \A e \in P, f \in Below(q.before) : f > e => f \in P
      BY PagesAre
  <2>2. ASSUME q.before = 0, NEW e \in Met, NEW f \in P, f < e PROVE e \in P
    <3>1. e \in Below(q.before)
        BY <2>2 DEF Below
    <3>2. e \in Nat /\ f \in Nat
        BY <2>1, MetAre, EntriesAre
    <3> QED
        BY <2>1, <2>2, <3>1, <3>2
  <2> QED
      BY <2>1, <2>2 DEF History!Gapless
<1> HIDE DEF P
<1>8. FollowsOn(q.before)'
    BY <1>1, <1>6 DEF EventsSeen, FollowsOn
<1>9. EventsSeen'
  <2>1. (q.before = 0 => seen.events = {})
      BY <1>1 DEF EventsSeen
  <2>2. fetched' # NoAnswer =>
          /\ fetched'.events \subseteq Met
          /\ IF q.before = 0 THEN History!Gapless(fetched'.events, Met) ELSE fetched'.events = P
          /\ Leads(fetched'.next, fetched'.events)
      BY <1>1, <1>4, <1>7
  <2> QED
      BY <1>1, <1>6, <1>8, <2>1, <2>2 DEF EventsSeen, Leads, History!Gapless, P
<1>10. ComparedSeen'
  <2> DEFINE S == seen.compared
             new == ans.compared
             top == IF S = {} /\ new # {} THEN History!Highest(new) ELSE seen.newest
  <2>1. S \subseteq Dec /\ Solid(S, seen.newest) /\ (S # {} => UpTo(q.offset, seen.newest) \subseteq S)
      BY <1>1 DEF ComparedSeen
  <2>2. S \in SUBSET Entries /\ seen.newest \in {0} \cup Entries /\ q.offset \in Nat
      BY <1>1 DEF HistoryTyped, HQuery
  <2>3. /\ new \subseteq Dec
        /\ Solid(S \cup new, top)
        /\ S \cup new # {} => UpTo(q.offset, top) \subseteq S \cup new
        /\ S \cup new # {} => UpTo(ans.nextOffset, top) \subseteq S \cup new
    <3>1. CASE view # "validation"
      <4>1. new = {} /\ ans.nextOffset = 0 /\ S \cup new = S /\ top = seen.newest
          BY <1>4, <3>1
      <4> HIDE DEF S, new, top
      <4> QED
          BY <2>1, <4>1, NoneAreFirst
    <3>2. CASE view = "validation"
      <4>1. new = History!Newest(Dec, q.offset + Window) \ History!Newest(Dec, q.offset)
          BY <1>4, <3>2 DEF History!Compared, Dec
      <4>2. ans.nextOffset \in {0, q.offset + Window}
          BY <1>4, <3>2 DEF History!NextOffset
      <4> DEFINE newest == seen.newest
                 k == q.offset
      <4>a. /\ S \in SUBSET Entries /\ S \subseteq Dec /\ newest \in {0} \cup Entries /\ Solid(S, newest)
            /\ k \in Nat /\ (S # {} => UpTo(k, newest) \subseteq S)
            /\ new = History!Newest(Dec, k + Window) \ History!Newest(Dec, k)
            /\ top = IF S = {} /\ new # {} THEN History!Highest(new) ELSE newest
          BY <2>1, <2>2, <4>1
      <4>b. HistoryTyped
          BY <1>1
      <4> HIDE DEF S, new, top, newest, k, q
      <4>3. JoinsOn(S, newest, k, new, TopOf(S, newest, new))
          BY <4>a, <4>b, OffsetPage
      <4> QED
          BY <4>a, <4>2, <4>3, NoneAreFirst DEF k, q, JoinsOn, TopOf
    <3> QED
        BY <3>1, <3>2
  <2>4. \A cases, t : Solid(cases, t)' <=> Solid(cases', t')
      BY <1>6 DEF Solid
  <2> QED
      BY <1>1, <1>6, <2>1, <2>3 DEF ComparedSeen, Solid, UpTo, History!Newest, History!Highest
<1> QED
    BY <1>3, <1>5, <1>9, <1>10 DEF HistoryInv

LEMMA TopIs ==
    ASSUME NEW cases, NEW newest \in {0} \cup Entries, newest <= written, NEW new, new \subseteq Dec
    PROVE  TopOf(cases, newest, new) \in {0} \cup Entries /\ TopOf(cases, newest, new) <= written
<1>1. CASE cases = {} /\ new # {}
  <2>1. new \in SUBSET Entries
      BY MetAre
  <2>2. IsFiniteSet(new) /\ \A e \in new : e \in Nat
      BY <2>1, EntriesAre
  <2>3. History!Highest(new) \in new
      BY <1>1, <2>2, HighestIs
  <2>4. TopOf(cases, newest, new) = History!Highest(new)
      BY <1>1 DEF TopOf
  <2> QED
      BY <2>1, <2>3, <2>4, MetAre
<1>2. CASE ~(cases = {} /\ new # {})
    BY <1>2 DEF TopOf
<1> QED
    BY <1>1, <1>2

LEMMA SameQuestion ==
    ASSUME UNCHANGED <<view, written, org>>, historyQuery'.case = historyQuery.case,
           historyQuery \in HQuery, historyQuery' \in HQuery
    PROVE  /\ Dec' = Dec
           /\ historyQuery'.action = historyQuery.action =>
                Met' = Met /\ \A b : Below(b)' = Below(b) /\ PageBelow(b)' = PageBelow(b)
<1>1. Dec' = Dec
    BY DEF Dec, History!Decided, History!Matches, History!OfOrg, HQuery
<1>2. ASSUME historyQuery'.action = historyQuery.action PROVE Met' = Met
    BY <1>2 DEF Met, History!Matches, History!Asked, History!OfOrg, HQuery
<1>3. Met' = Met => \A b : Below(b)' = Below(b)
    BY DEF Below
<1>4. Met' = Met => \A b : PageBelow(b)' = PageBelow(b)
    BY <1>3 DEF PageBelow, History!Newest
<1> QED
    BY <1>1, <1>2, <1>3, <1>4

LEMMA HistoryShows ==
    ASSUME HistoryInv, History!Show PROVE HistoryInv'
<1> DEFINE b == historyQuery.before
           E == seen.events
           P == fetched.events
           S == seen.compared
           new == fetched.compared
           top == TopOf(S, seen.newest, new)
<1>1. /\ HistoryTyped /\ AsAsked /\ EventsSeen /\ ComparedSeen
      /\ phase = "served" /\ phase' = "none" /\ fetched' = NoAnswer /\ historyShown' = fetched
      /\ seen' = [events |-> E \cup P, compared |-> S \cup new, newest |-> top]
      /\ UNCHANGED <<view, written, fields, historyQuery, org, opened>>
    BY DEF HistoryInv, History!Show, TopOf
<1>2. /\ fetched # NoAnswer /\ fetched \in HAnswer /\ historyQuery \in HQuery
      /\ E \in SUBSET Entries /\ S \in SUBSET Entries /\ P \in SUBSET Entries /\ new \in SUBSET Entries
      /\ seen.newest \in {0} \cup Entries
    BY <1>1 DEF HistoryTyped, HAnswer
<1>3. Dec' = Dec /\ Met' = Met /\ \A c : Below(c)' = Below(c) /\ PageBelow(c)' = PageBelow(c)
    BY <1>1, <1>2, SameQuestion
<1>4. /\ new \subseteq Dec
      /\ Solid(S \cup new, top)
      /\ S \cup new # {} => UpTo(fetched.nextOffset, top) \subseteq S \cup new
      /\ S \cup new # {} => UpTo(historyQuery.offset, top) \subseteq S \cup new
    BY <1>1, <1>2 DEF ComparedSeen, TopOf
<1>5. top \in {0} \cup Entries /\ top <= written
    BY <1>1, <1>2, <1>4, TopIs DEF ComparedSeen
<1>6. /\ E \subseteq Met /\ P \subseteq Met /\ History!Gapless(E, Met) /\ FollowsOn(b)
      /\ (b = 0 => E = {} /\ History!Gapless(P, Met))
      /\ (b # 0 => P = PageBelow(b))
      /\ Leads(fetched.next, P)
    BY <1>1, <1>2 DEF EventsSeen
<1>7. /\ \A e \in Met : e \in Nat /\ e <= written
      /\ b \in Nat /\ written \in Nat
    BY <1>1, <1>2, MetAre, EntriesAre DEF HistoryTyped, HQuery
<1>p. \A e \in P : b # 0 => e < b
    BY <1>6, PagesAre DEF Below
<1>q. \A e \in P, f \in Met : b # 0 /\ f > e /\ f < b => f \in P
  <2>1. \A f \in Met : f < b => f \in Below(b)
      BY DEF Below
  <2> QED
      BY <2>1, <1>6, PagesAre
<1>8. HistoryTyped'
  <2>1. seen' \in [events : SUBSET Entries, compared : SUBSET Entries, newest : {0} \cup Entries]
      BY <1>1, <1>2, <1>5
  <2> QED
      BY <1>1, <1>2, <2>1 DEF HistoryTyped
<1>9. AsAsked'
    BY <1>1, <1>2 DEF AsAsked
<1> HIDE DEF b, E, P, S, new, top
<1>10. ASSUME NEW e \in Met, NEW f \in E \cup P, NEW g \in E \cup P, f < e, e < g
       PROVE  e \in E \cup P
  <2>1. f \in Nat /\ g \in Nat /\ e \in Nat
      BY <1>6, <1>7
  <2>2. CASE b = 0
      BY <1>6, <1>10, <2>2 DEF History!Gapless
  <2>3. CASE b # 0 /\ e < b
    <3>1. f < b
        BY <1>7, <1>10, <2>1, <2>3
    <3>2. f \in P
        BY <1>6, <2>3, <3>1 DEF FollowsOn, E
    <3> QED
        BY <1>10, <1>q, <2>3, <3>2
  <2>4. CASE b # 0 /\ e >= b
    <3>1. g \notin P
        BY <1>7, <1>10, <1>p, <2>1, <2>4
    <3>2. g \in E
        BY <3>1
    <3>3. e \notin E => g < e
        BY <1>6, <2>4, <3>2 DEF FollowsOn, E
    <3> QED
        BY <1>10, <2>1, <3>3
  <2> QED
      BY <1>7, <2>1, <2>2, <2>3, <2>4
<1>11. History!Gapless(E \cup P, Met)
    BY <1>10 DEF History!Gapless
<1>12. b # 0 => /\ b <= written
                /\ \A e \in Met : e >= b /\ e \notin E \cup P => \A f \in E \cup P : f < e
                /\ {e \in E \cup P : e < b} \subseteq P
  <2> SUFFICES ASSUME b # 0 PROVE
                /\ b <= written
                /\ \A e \in Met : e >= b /\ e \notin E \cup P => \A f \in E \cup P : f < e
                /\ {e \in E \cup P : e < b} \subseteq P
      OBVIOUS
  <2>1. b <= written /\ {e \in E \cup P : e < b} \subseteq P
      BY <1>6 DEF FollowsOn, E
  <2>2. ASSUME NEW e \in Met, e >= b, e \notin E \cup P, NEW f \in E \cup P PROVE f < e
    <3>1. f \in Nat /\ e \in Nat
        BY <1>6, <1>7
    <3>2. CASE f \in E
        BY <1>6, <2>2, <3>2 DEF FollowsOn, E
    <3>3. CASE f \in P
      <4>1. f < b
          BY <1>p, <3>3
      <4> QED
          BY <1>7, <2>2, <3>1, <4>1
    <3> QED
        BY <3>2, <3>3
  <2> QED
      BY <2>1, <2>2
<1>13. Leads(fetched.next, E \cup P)
  <2> DEFINE n == fetched.next
  <2> SUFFICES ASSUME n # 0 PROVE n \in E \cup P /\ \A f \in E \cup P : n <= f
      BY DEF Leads
  <2>1. n \in P /\ \A f \in P : n <= f
      BY <1>6 DEF Leads
  <2>2. ASSUME NEW f \in E PROVE n <= f
    <3>1. b # 0
        BY <1>6
    <3>2. n \in Nat /\ n < b /\ f \in Nat
        BY <1>6, <1>7, <1>p, <2>1, <3>1
    <3>3. f < b => f \in P
        BY <1>6, <3>1 DEF FollowsOn, E
    <3> HIDE DEF n
    <3> QED
        BY <1>7, <2>1, <3>2, <3>3
  <2> QED
      BY <2>1, <2>2
<1>14. fetched.next <= written
    BY <1>1, <1>2, <1>6, <1>7 DEF Leads, HAnswer
<1>15. FollowsOn(historyQuery.before)'
    BY <1>1, <1>3, <1>6, <1>12 DEF FollowsOn, b
<1>16. EventsSeen'
  <2>1. seen'.events = E \cup P /\ fetched' = NoAnswer /\ phase' = "none" /\ historyShown'.next = fetched.next
      BY <1>1
  <2> QED
      BY <1>1, <1>3, <1>6, <1>11, <1>13, <1>14, <1>15, <2>1 DEF EventsSeen, Leads, History!Gapless
<1>17. ComparedSeen'
  <2>1. seen'.compared = S \cup new /\ seen'.newest = top /\ fetched' = NoAnswer
        /\ historyShown'.nextOffset = fetched.nextOffset /\ historyQuery' = historyQuery /\ written' = written
      BY <1>1
  <2>2. S \subseteq Dec
      BY <1>1 DEF ComparedSeen, S
  <2> QED
      BY <1>3, <1>4, <1>5, <2>1, <2>2 DEF ComparedSeen, Solid, UpTo, History!Newest
<1> QED
    BY <1>8, <1>9, <1>16, <1>17 DEF HistoryInv

\* What is recorded meanwhile is newer than all that was asked about.
LEMMA HistoryRecords ==
    ASSUME HistoryInv, History!Record PROVE HistoryInv'
<1> DEFINE w == written + 1
<1>1. /\ HistoryTyped /\ AsAsked /\ EventsSeen /\ ComparedSeen
      /\ w \in Entries /\ written' = w
      /\ UNCHANGED <<view, fields, historyQuery, org, phase, fetched, historyShown, opened, seen>>
    BY DEF HistoryInv, History!Record
<1>2. written \in Nat /\ w \in Nat /\ written < w
    BY <1>1, EntriesAre DEF HistoryTyped
<1>3. HistoryTyped' /\ AsAsked'
    BY <1>1 DEF HistoryTyped, AsAsked
<1>4. \A e \in Entries : e <= w <=> e <= written \/ e = w
    BY <1>2, EntriesAre
<1>5. Met \subseteq Met' /\ Met' \subseteq Met \cup {w}
    BY <1>1, <1>2, <1>4 DEF Met, History!Matches, History!Asked, History!OfOrg
<1>6. Dec \subseteq Dec' /\ Dec' \subseteq Dec \cup {w}
    BY <1>1, <1>2, <1>4 DEF Dec, History!Decided, History!Matches, History!OfOrg
<1>7. /\ \A e \in Met \cup Dec : e \in Nat /\ e <= written
      /\ Met' \subseteq Entries /\ Dec' \subseteq Entries
    BY <1>1, MetAre, EntriesAre, <1>5, <1>6
<1> HIDE DEF w
<1>8. \A b \in Nat : b # 0 /\ b <= written => Below(b)' = Below(b)
  <2> SUFFICES ASSUME NEW b \in Nat, b # 0, b <= written PROVE Below(b)' = Below(b)
      OBVIOUS
  <2>1. ~(w < b)
      BY <1>2
  <2> QED
      BY <1>5, <2>1 DEF Below
<1>9. \A b \in Nat : b # 0 /\ b <= written => PageBelow(b)' = PageBelow(b)
    BY <1>8 DEF PageBelow, History!Newest
<1>10. ASSUME NEW T, T \subseteq Met, History!Gapless(T, Met) PROVE History!Gapless(T, Met')
  <2>1. \A g \in T : g <= written /\ g \in Nat
      BY <1>7, <1>10
  <2>2. \A g \in T : ~(g > w)
      BY <1>2, <2>1
  <2> QED
      BY <1>5, <1>10, <2>2 DEF History!Gapless
<1>11. historyQuery.before \in Nat
    BY <1>1, EntriesAre DEF HistoryTyped, HQuery
<1>12. FollowsOn(historyQuery.before)'
  <2>0. PICK b \in Nat : b = historyQuery.before
      BY <1>11
  <2> SUFFICES ASSUME b # 0
               PROVE  /\ b <= w
                      /\ \A e \in Met' : e >= b /\ e \notin seen.events => \A f \in seen.events : f < e
                      /\ {e \in seen.events : e < b} \subseteq PageBelow(b)'
      BY <1>1, <2>0 DEF FollowsOn
  <2>1. /\ b <= written
        /\ \A e \in Met : e >= b /\ e \notin seen.events => \A f \in seen.events : f < e
        /\ {e \in seen.events : e < b} \subseteq PageBelow(b)
      BY <1>1, <2>0 DEF EventsSeen, FollowsOn
  <2>2. b <= w
      BY <1>2, <2>1
  <2>3. \A f \in seen.events : f \in Nat /\ f <= written
      BY <1>1, <1>7 DEF EventsSeen
  <2>4. \A f \in seen.events : f < w
      BY <1>2, <2>3
  <2>5. PageBelow(b)' = PageBelow(b)
      BY <1>9, <2>1
  <2>6. \A e \in Met' : e >= b /\ e \notin seen.events => \A f \in seen.events : f < e
      BY <1>5, <2>1, <2>4
  <2> QED
      BY <2>1, <2>2, <2>5, <2>6
<1>13. EventsSeen'
  <2>1. seen.events \subseteq Met' /\ History!Gapless(seen.events, Met')
      BY <1>1, <1>5, <1>10 DEF EventsSeen
  <2>2. ASSUME fetched # NoAnswer
        PROVE  /\ fetched.events \subseteq Met'
               /\ IF historyQuery.before = 0 THEN History!Gapless(fetched.events, Met')
                  ELSE fetched.events = PageBelow(historyQuery.before)'
    <3>1. historyQuery.before # 0 => historyQuery.before <= written
        BY <1>1 DEF EventsSeen, FollowsOn
    <3> QED
        BY <1>1, <1>5, <1>9, <1>10, <1>11, <2>2, <3>1 DEF EventsSeen
  <2>3. ASSUME historyShown # NoAnswer PROVE historyShown.next <= w
    <3>1. historyShown.next <= written /\ historyShown.next \in {0} \cup Entries
        BY <1>1, <2>3 DEF EventsSeen, HistoryTyped, HAnswer
    <3>2. historyShown.next \in Nat
        BY <3>1, EntriesAre
    <3> QED
        BY <1>2, <3>1, <3>2
  <2> QED
      BY <1>1, <1>12, <2>1, <2>2, <2>3 DEF EventsSeen, Leads, History!Gapless
<1>14. ASSUME NEW k \in Nat, NEW top \in {0} \cup Entries, top <= written
       PROVE  \A e : e \in Entries /\ e \in History!Newest(Dec', k) /\ e <= top => e \in UpTo(k, top)
  <2> SUFFICES ASSUME NEW e \in Entries, e \in History!Newest(Dec', k), e <= top PROVE e \in UpTo(k, top)
      OBVIOUS
  <2>1. e \in Nat /\ top \in Nat
      BY EntriesAre
  <2>2. e \in Dec' /\ e # w
      BY <1>2, <1>14, <2>1 DEF History!Newest
  <2>3. e \in Dec
      BY <1>6, <2>2
  <2> DEFINE D == Dec'
  <2>4. IsFiniteSet(D) /\ \A f \in D : f \in Nat
      BY <1>7, EntriesAre
  <2>5. Dec \in SUBSET D
      BY <1>6
  <2> HIDE DEF D
  <2>6. \A R \in SUBSET D : \A f \in R : f \in History!Newest(D, k) => f \in History!Newest(R, k)
      BY <2>4, NewestAre
  <2>7. e \in History!Newest(D, k)
      BY DEF D
  <2> QED
      BY <2>3, <2>5, <2>6, <2>7 DEF UpTo
<1>15. ASSUME NEW T, NEW top \in {0} \cup Entries, top <= written, Solid(T, top)
       PROVE  \A f \in T, e \in Dec' : f < e /\ e <= top => e \in T
  <2>1. top \in Nat
      BY EntriesAre
  <2>2. ~(w <= top)
      BY <1>2, <1>15, <2>1
  <2> QED
      BY <1>6, <1>15, <2>2 DEF Solid
<1>16. ASSUME NEW k \in Nat, NEW top \in {0} \cup Entries, top <= written
       PROVE  {e \in History!Newest(Dec', k) : e <= top} \subseteq UpTo(k, top)
    BY <1>7, <1>14, <1>16 DEF History!Newest
<1>17. \A T, top : top \in {0} \cup Entries /\ top <= written /\ Solid(T, top)
                  => \A f \in T, e \in Dec' : f < e /\ e <= top => e \in T
    BY <1>15
<1>18. ComparedSeen'
  <2> DEFINE S == seen.compared
             new == fetched.compared
             top == TopOf(S, seen.newest, new)
             k == historyQuery.offset
  <2>1. /\ S \subseteq Dec' /\ k \in Nat
        /\ seen.newest \in {0} \cup Entries /\ seen.newest <= written /\ seen.newest <= w
    <3>1. S \subseteq Dec /\ k \in Nat /\ seen.newest \in {0} \cup Entries /\ seen.newest <= written
        BY <1>1 DEF ComparedSeen, HistoryTyped, HQuery
    <3>2. seen.newest \in Nat
        BY <3>1, EntriesAre
    <3>3. seen.newest <= w
        BY <1>2, <3>1, <3>2
    <3> QED
        BY <1>6, <3>1, <3>3
  <2>2. \A f \in S, e \in Dec' : f < e /\ e <= seen.newest => e \in S
      BY <1>1, <1>17, <2>1 DEF ComparedSeen
  <2>3. S # {} => {e \in History!Newest(Dec', k) : e <= seen.newest} \subseteq S
      BY <1>1, <1>16, <2>1 DEF ComparedSeen
  <2>4. ASSUME fetched # NoAnswer
        PROVE  /\ new \subseteq Dec'
               /\ \A f \in S \cup new, e \in Dec' : f < e /\ e <= top => e \in S \cup new
               /\ S \cup new # {} => {e \in History!Newest(Dec', fetched.nextOffset) : e <= top} \subseteq S \cup new
               /\ S \cup new # {} => {e \in History!Newest(Dec', k) : e <= top} \subseteq S \cup new
    <3>1. /\ new \subseteq Dec
          /\ Solid(S \cup new, top)
          /\ S \cup new # {} => UpTo(fetched.nextOffset, top) \subseteq S \cup new
          /\ S \cup new # {} => UpTo(k, top) \subseteq S \cup new
        BY <1>1, <2>4 DEF ComparedSeen, TopOf
    <3>2. fetched.nextOffset \in Nat
        BY <1>1, <2>4 DEF HistoryTyped, HAnswer
    <3>3. top \in {0} \cup Entries /\ top <= written
        BY <2>1, <3>1, TopIs
    <3> HIDE DEF S, new, top, k
    <3> QED
        BY <1>6, <1>16, <1>17, <2>1, <3>1, <3>2, <3>3
  <2>5. ASSUME historyShown # NoAnswer, S # {}
        PROVE  {e \in History!Newest(Dec', historyShown.nextOffset) : e <= seen.newest} \subseteq S
    <3>1. historyShown.nextOffset \in Nat
        BY <1>1, <2>5 DEF HistoryTyped, HAnswer
    <3> QED
        BY <1>1, <1>16, <2>1, <2>5, <3>1 DEF ComparedSeen
  <2> QED
      BY <1>1, <2>1, <2>2, <2>3, <2>4, <2>5 DEF ComparedSeen, Solid, UpTo, TopOf, History!Newest, History!Highest
<1> QED
    BY <1>3, <1>13, <1>18 DEF HistoryInv

\* What is asked for next: from the latest, on from where the question or what is
\* shown is.
LEMMA HistoryAsks ==
    ASSUME HistoryInv, NEW q \in HQuery, History!Ask(q),
           fields' \in [case : {History!Any} \cup History!Cases, action : {History!Any} \cup History!Actions],
           q.before = 0 \/ q.before = historyQuery.before
             \/ (historyShown # NoAnswer /\ q.before = historyShown.next),
           q.offset = 0 \/ q.offset = historyQuery.offset
             \/ (historyShown # NoAnswer /\ q.offset = historyShown.nextOffset)
    PROVE  HistoryInv'
<1> DEFINE E == seen.events
           S == seen.compared
           anew == q.before = 0 \/ [q EXCEPT !.before = 0] # [historyQuery EXCEPT !.before = 0]
           first == q.offset = 0 \/ q.case # historyQuery.case
<1>1. /\ HistoryTyped /\ AsAsked /\ EventsSeen /\ ComparedSeen
      /\ historyQuery' = q /\ phase' = "asked" /\ fetched' = NoAnswer
      /\ (view = "history" => historyShown' = NoAnswer) /\ (view # "history" => historyShown' = historyShown)
      /\ seen' = [events |-> IF anew THEN {} ELSE E, compared |-> IF first THEN {} ELSE S, newest |-> seen.newest]
      /\ UNCHANGED <<view, written, org, opened>>
    BY DEF HistoryInv, History!Ask
<1>2. historyQuery \in HQuery /\ historyShown' \in {historyShown, NoAnswer}
    BY <1>1 DEF HistoryTyped
<1>3. HistoryTyped'
  <2>1. seen' \in [events : SUBSET Entries, compared : SUBSET Entries, newest : {0} \cup Entries]
      BY <1>1 DEF HistoryTyped
  <2> QED
      BY <1>1, <1>2, <2>1 DEF HistoryTyped
<1>4. AsAsked'
    BY <1>1 DEF AsAsked
<1>5. written \in Nat /\ q.before \in Nat /\ \A e \in Met : e \in Nat
    BY <1>1, MetAre, EntriesAre DEF HistoryTyped, HQuery
<1>6. q.before # 0 => q.before <= written
    BY <1>1, <1>5 DEF EventsSeen, FollowsOn
<1>7. historyShown' # NoAnswer => historyShown' = historyShown /\ historyShown.next <= written
    BY <1>1, <1>2 DEF EventsSeen
<1> HIDE DEF E, S, anew, first
<1>8. ASSUME anew PROVE EventsSeen'
  <2>1. seen'.events = {}
      BY <1>1, <1>8
  <2>2. FollowsOn(q.before)'
      BY <1>1, <1>6, <2>1 DEF FollowsOn
  <2> QED
      BY <1>1, <1>7, <2>1, <2>2 DEF EventsSeen, History!Gapless
<1>9. ASSUME ~anew PROVE EventsSeen'
  <2>1. /\ q.before # 0 /\ q.case = historyQuery.case /\ q.action = historyQuery.action
        /\ q.offset = historyQuery.offset
    <3>1. q.before # 0 /\ [q EXCEPT !.before = 0] = [historyQuery EXCEPT !.before = 0]
        BY <1>9 DEF anew
    <3>2. /\ [q EXCEPT !.before = 0].case = q.case /\ [q EXCEPT !.before = 0].action = q.action
          /\ [q EXCEPT !.before = 0].offset = q.offset
          /\ [historyQuery EXCEPT !.before = 0].case = historyQuery.case
          /\ [historyQuery EXCEPT !.before = 0].action = historyQuery.action
          /\ [historyQuery EXCEPT !.before = 0].offset = historyQuery.offset
        BY <1>2 DEF HQuery
    <3> QED
        BY <3>1, <3>2
  <2>2. Met' = Met /\ \A c : PageBelow(c)' = PageBelow(c)
      BY <1>1, <1>2, <2>1, SameQuestion
  <2>3. seen'.events = E
      BY <1>1, <1>9
  <2>4. E \subseteq Met /\ History!Gapless(E, Met) /\ FollowsOn(historyQuery.before)
      BY <1>1 DEF EventsSeen, E
  <2>5. PICK n \in Nat : n = q.before
      BY <1>5
  <2>6. /\ \A e \in Met : e >= n /\ e \notin E => \A f \in E : f < e
        /\ {e \in E : e < n} \subseteq PageBelow(n)
    <3>1. CASE n = historyQuery.before
        BY <2>1, <2>4, <2>5, <3>1 DEF FollowsOn, E
    <3>2. CASE n # historyQuery.before
      <4>1. historyShown # NoAnswer /\ n = historyShown.next
          BY <2>1, <2>5, <3>2
      <4>2. E # {} => n \in E /\ \A f \in E : n <= f
          BY <1>1, <2>1, <2>5, <4>1 DEF EventsSeen, Leads, E
      <4>3. ASSUME NEW e \in Met, e >= n, e \notin E, NEW f \in E PROVE f < e
        <5>1. e \in Nat /\ f \in Nat /\ e # f /\ e # n
            BY <1>5, <2>4, <4>2, <4>3
        <5>2. n < e
            BY <4>3, <5>1
        <5>3. ~(f > e)
            BY <2>4, <4>2, <4>3, <5>2 DEF History!Gapless
        <5> QED
            BY <5>1, <5>3
      <4>4. ASSUME NEW e \in E, e < n PROVE FALSE
        <5>1. e \in Nat /\ n <= e
            BY <1>5, <2>4, <4>2
        <5> QED
            BY <4>4, <5>1
      <4> QED
          BY <4>3, <4>4
    <3> QED
        BY <3>1, <3>2
  <2>7. FollowsOn(q.before)'
      BY <1>1, <1>6, <2>2, <2>3, <2>5, <2>6 DEF FollowsOn
  <2>8. historyShown' # NoAnswer /\ E # {} => Leads(historyShown.next, E)
      BY <1>1, <1>7 DEF EventsSeen, E
  <2> QED
      BY <1>1, <1>7, <2>1, <2>2, <2>3, <2>4, <2>7, <2>8 DEF EventsSeen, Leads, History!Gapless
<1>10. EventsSeen'
    BY <1>8, <1>9
<1>11. seen'.newest = seen.newest /\ seen.newest <= written
    BY <1>1 DEF ComparedSeen
<1>12. ASSUME first PROVE ComparedSeen'
  <2>1. seen'.compared = {}
      BY <1>1, <1>12
  <2> QED
      BY <1>1, <1>11, <2>1 DEF ComparedSeen, Solid
<1>13. ASSUME ~first PROVE ComparedSeen'
  <2>1. q.offset # 0 /\ q.case = historyQuery.case
      BY <1>13 DEF first
  <2>2. Dec' = Dec
      BY <1>1, <1>2, <2>1, SameQuestion
  <2>3. seen'.compared = S
      BY <1>1, <1>13
  <2>4. /\ S \subseteq Dec /\ Solid(S, seen.newest)
        /\ S # {} => UpTo(historyQuery.offset, seen.newest) \subseteq S
        /\ historyShown # NoAnswer /\ S # {} => UpTo(historyShown.nextOffset, seen.newest) \subseteq S
      BY <1>1 DEF ComparedSeen, S
  <2>5. S # {} => UpTo(q.offset, seen.newest) \subseteq S
      BY <2>1, <2>4
  <2> QED
      BY <1>1, <1>7, <1>11, <2>2, <2>3, <2>4, <2>5 DEF ComparedSeen, Solid, UpTo, History!Newest
<1>14. ComparedSeen'
    BY <1>12, <1>13
<1> QED
    BY <1>3, <1>4, <1>10, <1>14 DEF HistoryInv

LEMMA ClientChosen ==
    ASSUME HistoryInv, History!ChooseOrg PROVE HistoryInv'
<1>1. /\ HistoryTyped /\ AsAsked /\ EventsSeen /\ ComparedSeen
      /\ view = "validation" /\ phase' = "asked" /\ fetched' = NoAnswer
      /\ seen' = [events |-> {}, compared |-> {}, newest |-> 0]
      /\ UNCHANGED <<view, written, fields, historyQuery, historyShown, opened>>
    BY DEF HistoryInv, History!ChooseOrg, History!NothingSeen
<1>2. HistoryTyped' /\ AsAsked'
    BY <1>1 DEF HistoryTyped, AsAsked
<1>3. FollowsOn(historyQuery.before)'
    BY <1>1 DEF EventsSeen, FollowsOn
<1>4. EventsSeen'
    BY <1>1, <1>3 DEF EventsSeen, History!Gapless
<1>5. 0 <= written
    BY <1>1, EntriesAre DEF HistoryTyped
<1>6. ComparedSeen'
    BY <1>1, <1>5 DEF ComparedSeen, Solid
<1> QED
    BY <1>2, <1>4, <1>6 DEF HistoryInv

\* The form, the dialog with the timeline, or an answer that does not come.
LEMMA HistoryElsewhere ==
    ASSUME HistoryInv, UNCHANGED <<view, written, historyQuery, org, historyShown, seen>>,
           \/ UNCHANGED <<phase, fetched>>
           \/ phase' = "none" /\ fetched' = NoAnswer,
           fields' \in [case : {History!Any} \cup History!Cases, action : {History!Any} \cup History!Actions],
           opened' \in [case : {History!Any} \cup History!Cases, before : {0} \cup Entries, asked : BOOLEAN,
                        entries : SUBSET Entries]
    PROVE  HistoryInv'
<1>1. HistoryTyped /\ AsAsked /\ EventsSeen /\ ComparedSeen
    BY DEF HistoryInv
<1>2. HistoryTyped' /\ AsAsked'
    BY <1>1 DEF HistoryTyped, AsAsked
<1>3. Dec' = Dec /\ Met' = Met /\ \A b : PageBelow(b)' = PageBelow(b)
    BY <1>1, SameQuestion DEF HistoryTyped
<1>4. FollowsOn(historyQuery.before)'
    BY <1>1, <1>3 DEF EventsSeen, FollowsOn
<1>5. EventsSeen'
    BY <1>1, <1>3, <1>4 DEF EventsSeen, Leads, History!Gapless
<1>6. ComparedSeen'
    BY <1>1, <1>3 DEF ComparedSeen, Solid, UpTo, History!Newest
<1> QED
    BY <1>2, <1>5, <1>6 DEF HistoryInv

LEMMA NewestAmong == \A S, k : History!Newest(S, k) \subseteq S
    BY DEF History!Newest

LEMMA HistoryStep ==
    ASSUME HistoryInv, History!HistoryNext PROVE HistoryInv'
<1> DEFINE F == [case : {History!Any} \cup History!Cases, action : {History!Any} \cup History!Actions]
           O == [case : {History!Any} \cup History!Cases, before : {0} \cup Entries, asked : BOOLEAN,
                 entries : SUBSET Entries]
<1>1. /\ HistoryTyped /\ AsAsked
      /\ fields \in F /\ opened \in O /\ historyQuery \in HQuery
      /\ historyShown # NoAnswer => historyShown \in HAnswer
    BY DEF HistoryInv, HistoryTyped
<1>2. CASE History!Record
    BY <1>2, HistoryRecords
<1>3. CASE History!ServeAnswer
    BY <1>3, HistoryServes
<1>4. CASE History!ShowHistory \/ History!ShowCalls
    BY <1>4, HistoryShows DEF History!ShowHistory, History!ShowCalls
<1>5. CASE History!AnswerFails
    BY <1>1, <1>5, HistoryElsewhere DEF History!AnswerFails
<1>6. CASE History!FillIn
  <2>1. fields' \in F
      BY <1>1, <1>6 DEF History!FillIn
  <2> QED
      BY <1>1, <1>6, <2>1, HistoryElsewhere DEF History!FillIn
<1>7. CASE History!Submit
  <2> DEFINE q == [History!FromTheLatest EXCEPT !.case = fields.case, !.action = fields.action]
  <2>1. q \in HQuery /\ q.before = 0 /\ q.offset = 0
      BY <1>1 DEF HQuery, History!FromTheLatest
  <2>2. History!Ask(q) /\ fields' = fields
      BY <1>7 DEF History!Submit
  <2> HIDE DEF q
  <2> QED
      BY <1>1, <2>1, <2>2, HistoryAsks
<1>8. CASE History!ClearFilters
  <2> DEFINE q == History!FromTheLatest
  <2>1. q \in HQuery /\ q.before = 0 /\ q.offset = 0
      BY <1>1 DEF HQuery, History!FromTheLatest
  <2>2. History!Ask(q) /\ fields' \in F
      BY <1>8 DEF History!ClearFilters, History!NoFields
  <2> HIDE DEF q
  <2> QED
      BY <1>1, <2>1, <2>2, HistoryAsks
<1>9. CASE History!DropFilter
  <2>1. fields' \in F
      BY <1>1, <1>9 DEF History!DropFilter
  <2>2. CASE History!Ask([historyQuery EXCEPT !.case = History!Any, !.before = 0])
    <3> DEFINE q == [historyQuery EXCEPT !.case = History!Any, !.before = 0]
    <3>1. q \in HQuery /\ q.before = 0 /\ q.offset = historyQuery.offset
        BY <1>1 DEF HQuery
    <3>2. History!Ask(q)
        BY <2>2
    <3> HIDE DEF q
    <3> QED
        BY <2>1, <3>1, <3>2, HistoryAsks
  <2>3. CASE History!Ask([historyQuery EXCEPT !.action = History!Any, !.before = 0])
    <3> DEFINE q == [historyQuery EXCEPT !.action = History!Any, !.before = 0]
    <3>1. q \in HQuery /\ q.before = 0 /\ q.offset = historyQuery.offset
        BY <1>1 DEF HQuery
    <3>2. History!Ask(q)
        BY <2>3
    <3> HIDE DEF q
    <3> QED
        BY <2>1, <3>1, <3>2, HistoryAsks
  <2> QED
      BY <1>9, <2>2, <2>3 DEF History!DropFilter
<1>10. CASE History!Older
  <2> DEFINE q == [historyQuery EXCEPT !.before = historyShown.next]
  <2>1. historyShown # NoAnswer /\ History!Ask(q) /\ fields' = fields
      BY <1>10 DEF History!Older
  <2>2. q \in HQuery /\ q.before = historyShown.next /\ q.offset = historyQuery.offset
      BY <1>1, <2>1 DEF HQuery, HAnswer
  <2> HIDE DEF q
  <2> QED
      BY <1>1, <2>1, <2>2, HistoryAsks
<1>11. CASE History!Latest
  <2> DEFINE q == [historyQuery EXCEPT !.before = 0]
  <2>1. History!Ask(q) /\ fields' = fields
      BY <1>11 DEF History!Latest
  <2>2. q \in HQuery /\ q.before = 0 /\ q.offset = historyQuery.offset
      BY <1>1 DEF HQuery
  <2> HIDE DEF q
  <2> QED
      BY <1>1, <2>1, <2>2, HistoryAsks
<1>12. CASE History!OlderComparisons
  <2> DEFINE q == [historyQuery EXCEPT !.offset = historyShown.nextOffset]
  <2>1. historyShown # NoAnswer /\ History!Ask(q) /\ fields' = fields
      BY <1>12 DEF History!OlderComparisons
  <2>2. q \in HQuery /\ q.before = historyQuery.before /\ q.offset = historyShown.nextOffset
      BY <1>1, <2>1 DEF HQuery, HAnswer
  <2> HIDE DEF q
  <2> QED
      BY <1>1, <2>1, <2>2, HistoryAsks
<1>13. CASE History!NewestComparisons
  <2> DEFINE q == [historyQuery EXCEPT !.offset = 0]
  <2>1. History!Ask(q) /\ fields' = fields
      BY <1>13 DEF History!NewestComparisons
  <2>2. q \in HQuery /\ q.before = historyQuery.before /\ q.offset = 0
      BY <1>1 DEF HQuery
  <2> HIDE DEF q
  <2> QED
      BY <1>1, <2>1, <2>2, HistoryAsks
<1>14. CASE History!ChooseOrg
    BY <1>14, ClientChosen
<1>15. ASSUME NEW o \in O, History!SetOpened(o) PROVE HistoryInv'
    BY <1>1, <1>15, HistoryElsewhere DEF History!SetOpened
<1>16. CASE History!OpenCaseHistory
  <2>1. PICK e \in historyShown.events :
             historyShown # NoAnswer /\ History!SetOpened([opened EXCEPT !.case = CaseOf[e], !.asked = TRUE])
      BY <1>16 DEF History!OpenCaseHistory
  <2>2. e \in Entries
      BY <1>1, <2>1 DEF HAnswer
  <2>3. CaseOf[e] \in History!Cases
      BY <2>2 DEF History!Cases
  <2>4. [opened EXCEPT !.case = CaseOf[e], !.asked = TRUE] \in O
      BY <1>1, <2>3
  <2> QED
      BY <1>15, <2>1, <2>4
<1>17. CASE History!CloseCaseHistory
  <2>1. [opened EXCEPT !.case = History!Any, !.asked = FALSE, !.entries = {}] \in O
      BY <1>1
  <2> QED
      BY <1>15, <1>17, <2>1 DEF History!CloseCaseHistory
<1>18. CASE History!ShowTimeline
  <2>1. History!Events(History!TimelineQuery) \subseteq Entries
      BY NewestAmong DEF History!Events
  <2>2. [opened EXCEPT !.asked = FALSE, !.entries = History!Events(History!TimelineQuery)] \in O
      BY <1>1, <2>1
  <2> QED
      BY <1>15, <1>18, <2>2 DEF History!ShowTimeline
<1>19. CASE History!OlderEvents
  <2>1. opened.entries \in SUBSET Entries /\ opened.entries # {}
      BY <1>1, <1>19 DEF History!OlderEvents
  <2>2. IsFiniteSet(opened.entries) /\ \A e \in opened.entries : e \in Nat
      BY <2>1, EntriesAre
  <2>3. History!Lowest(opened.entries) \in Entries
      BY <2>1, <2>2, LowestIs
  <2>4. [opened EXCEPT !.before = History!Lowest(opened.entries), !.asked = TRUE] \in O
      BY <1>1, <2>3
  <2> QED
      BY <1>15, <1>19, <2>4 DEF History!OlderEvents
<1> QED
    BY <1>2, <1>3, <1>4, <1>5, <1>6, <1>7, <1>8, <1>9, <1>10, <1>11, <1>12, <1>13, <1>14,
       <1>16, <1>17, <1>18, <1>19 DEF History!HistoryNext

LEMMA HistoryIdle ==
    ASSUME HistoryInv, UNCHANGED historyVars PROVE HistoryInv'
    BY HistoryElsewhere DEF HistoryInv, HistoryTyped, historyVars

LEMMA HistoryStarts == History!HistoryInit => HistoryInv
<1> SUFFICES ASSUME History!HistoryInit PROVE HistoryInv
    OBVIOUS
<1>1. /\ view \in {"history", "validation"} /\ written \in {0} \cup Entries
      /\ phase = "asked" /\ fetched = NoAnswer /\ historyShown = NoAnswer
      /\ opened = History!NoCaseOpen
      /\ seen = [events |-> {}, compared |-> {}, newest |-> 0]
    BY DEF History!HistoryInit, History!NothingSeen
<1>2. PICK c \in {History!Any} \cup History!Cases :
         /\ fields = [History!NoFields EXCEPT !.case = IF view = "history" THEN c ELSE History!Any]
         /\ historyQuery = [History!FromTheLatest EXCEPT !.case = IF view = "history" THEN c ELSE History!Any]
    BY DEF History!HistoryInit
<1>3. historyQuery \in HQuery /\ historyQuery.before = 0
    BY <1>2 DEF HQuery, History!FromTheLatest
<1>4. HistoryTyped
    BY <1>1, <1>2, <1>3 DEF HistoryTyped, History!NoFields, History!NoCaseOpen
<1>5. AsAsked
    BY <1>1 DEF AsAsked
<1>6. EventsSeen
    BY <1>1, <1>3 DEF EventsSeen, FollowsOn, History!Gapless
<1>7. 0 <= written
    BY <1>1, EntriesAre
<1>8. ComparedSeen
    BY <1>1, <1>7 DEF ComparedSeen, Solid
<1> QED
    BY <1>4, <1>5, <1>6, <1>8 DEF HistoryInv

LEMMA HistoryShown == HistoryInv => HistoryTruth
<1> SUFFICES ASSUME HistoryInv PROVE HistoryTruth
    OBVIOUS
<1>1. HistoryTyped /\ AsAsked /\ EventsSeen /\ ComparedSeen
    BY DEF HistoryInv
<1>2. History!HistoryTypeOK
    BY <1>1 DEF HistoryTyped, History!HistoryTypeOK, HQuery
<1>3. History!ShownAsAsked
    BY <1>1 DEF AsAsked, HistoryTyped, History!ShownAsAsked, History!Loading
<1>4. History!Gapless(seen.events, Met)
    BY <1>1 DEF EventsSeen
<1>5. History!Gapless(seen.compared, {e \in Dec : e <= seen.newest})
    BY <1>1 DEF ComparedSeen, Solid, History!Gapless
<1>6. History!NothingIsSkipped
    BY <1>4, <1>5 DEF Met, Dec, History!NothingIsSkipped
<1> QED
    BY <1>2, <1>3, <1>6 DEF HistoryTruth

(***************************************************************************)
(* The client's results. An action in flight is one that the page may      *)
(* send, and one that was answered with success was recorded; the note     *)
(* that is being typed is that of the result whose dialog is open.         *)
(***************************************************************************)
Action == [result : Results, action : {"REMOVED", "KEPT"}, note : Results \cup {Nobody},
           how : {"one", "selected", "suggested"}, reply : {"none", "done", "failed"}, awaited : BOOLEAN]

ActionOK(s) ==
    /\ s \in Action
    /\ tool = "results" => s.note \in {Nobody, s.result}
    /\ s.how = "suggested" =>
         <<outcome[s.result], s.action>>
           \in {<<"POLICY_VIOLATION_FOUND", "REMOVED">>, <<"NO_VIOLATION_FOUND", "KEPT">>}
    /\ s.reply = "done" => s.result \in acted

ResultsInv ==
    /\ outcome \in [Results -> Portal!Outcomes]
    /\ resultsQuery \in [asked : BOOLEAN, answer : (SUBSET Results) \cup {Nobody}]
    /\ Portal!ResultsTypeOK
    /\ \A s \in sent : ActionOK(s)
    /\ tool = "results" /\ acting # Nobody => remark \in {Nobody, acting}
    /\ notice \subseteq acted

LEMMA ActionsStay ==
    ASSUME UNCHANGED <<tool, outcome>>, acted \subseteq acted', NEW s, ActionOK(s) PROVE ActionOK(s)'
    BY DEF ActionOK

LEMMA ResultsBegin == Portal!ResultsInit => ResultsInv
    BY DEF Portal!ResultsInit, ResultsInv, Portal!ResultsTypeOK, Portal!QuerySent

\* A step that sends nothing, and shows or types what it may.
LEMMA ResultsStay ==
    ASSUME ResultsInv, UNCHANGED <<tool, outcome>>, acted \subseteq acted', Portal!ResultsTypeOK',
           resultsQuery' \in [asked : BOOLEAN, answer : (SUBSET Results) \cup {Nobody}],
           \A s \in sent' : s \in sent \/ ActionOK(s)',
           UNCHANGED <<acting, remark>> \/ acting' = Nobody \/ remark' \in {Nobody, acting'} \/ tool # "results",
           notice' \subseteq acted'
    PROVE  ResultsInv'
<1>1. \A s \in sent' : ActionOK(s)'
    BY ActionsStay DEF ResultsInv
<1> QED
    BY <1>1 DEF ResultsInv

LEMMA RepliedOK ==
    ASSUME ResultsInv, UNCHANGED <<tool, outcome>>, acted \subseteq acted', NEW s \in sent,
           NEW reply \in {"done", "failed"}, sent' = Portal!WithReply(s, reply), reply = "done" => s.result \in acted'
    PROVE  \A t \in sent' : t \in sent \/ ActionOK(t)'
<1>1. ActionOK(s)
    BY DEF ResultsInv
<1>2. ActionOK([s EXCEPT !.reply = reply])'
    BY <1>1 DEF ActionOK, Action
<1> QED
    BY <1>2 DEF Portal!WithReply

LEMMA NobodyWaits ==
    ASSUME ResultsInv, UNCHANGED <<tool, outcome, acted>>, sent' = Portal!OnTheirWay
    PROVE  \A t \in sent' : ActionOK(t)'
<1> SUFFICES ASSUME NEW s \in sent PROVE ActionOK([s EXCEPT !.awaited = FALSE])'
    BY DEF Portal!OnTheirWay
<1>1. ActionOK(s)
    BY DEF ResultsInv
<1> QED
    BY <1>1 DEF ActionOK, Action

LEMMA ResultsStep ==
    ASSUME ResultsInv, Portal!ResultsNext PROVE ResultsInv'
<1>1. /\ Portal!ResultsTypeOK /\ outcome \in [Results -> Portal!Outcomes]
      /\ resultsQuery \in [asked : BOOLEAN, answer : (SUBSET Results) \cup {Nobody}]
      /\ notice \subseteq acted
      /\ \A s \in sent : ActionOK(s)
    BY DEF ResultsInv
<1> USE DEF Portal!PlatformActions
<1>2. CASE Portal!Colleague
  <2>1. Portal!ResultsTypeOK' /\ acted \subseteq acted'
      BY <1>1, <1>2 DEF Portal!Colleague, Portal!ResultsTypeOK
  <2> QED
      BY <1>1, <1>2, <2>1, ResultsStay DEF Portal!Colleague
<1>3. CASE Portal!ServeAction
  <2>1. PICK s \in sent, reply \in {"done", "failed"} :
             /\ acted' = acted \cup {s.result}
             /\ sent' = Portal!WithReply(s, reply)
             /\ UNCHANGED <<notice, tool, outcome, needsAction, resultsQuery, acting, choice, remark, selected, followAll, saving>>
      BY <1>3 DEF Portal!ServeAction
  <2>2. s.result \in Results
      BY <1>1 DEF ActionOK, Action
  <2>3. Portal!ResultsTypeOK'
      BY <1>1, <2>1, <2>2 DEF Portal!ResultsTypeOK
  <2>4. \A t \in sent' : t \in sent \/ ActionOK(t)'
      BY <2>1, RepliedOK
  <2> QED
      BY <1>1, <2>1, <2>3, <2>4, ResultsStay
<1>4. CASE Portal!LoseAction
  <2>1. PICK s \in sent : sent' = Portal!WithReply(s, "failed")
      BY <1>4 DEF Portal!LoseAction
  <2>2. UNCHANGED <<notice, tool, outcome, acted, needsAction, resultsQuery, acting, choice, remark, selected, followAll, saving>>
      BY <1>4 DEF Portal!LoseAction
  <2>3. \A t \in sent' : t \in sent \/ ActionOK(t)'
      BY <2>1, <2>2, RepliedOK
  <2>4. Portal!ResultsTypeOK'
      BY <1>1, <2>2 DEF Portal!ResultsTypeOK
  <2> QED
      BY <1>1, <2>2, <2>3, <2>4, ResultsStay
<1>5. CASE Portal!ServeQuery
  <2>1. Portal!ResultsTypeOK' /\ resultsQuery' \in [asked : BOOLEAN, answer : (SUBSET Results) \cup {Nobody}]
      BY <1>1, <1>5 DEF Portal!ServeQuery, Portal!ResultsTypeOK, Portal!QuerySent
  <2> QED
      BY <1>1, <1>5, <2>1, ResultsStay DEF Portal!ServeQuery
<1>6. CASE Portal!ListLoaded \/ Portal!ListNotLoaded
  <2>1. Portal!ResultsTypeOK' /\ resultsQuery' \in [asked : BOOLEAN, answer : (SUBSET Results) \cup {Nobody}]
    <3>1. resultsQuery' = Portal!NoQuery /\ needsAction' \in {needsAction, resultsQuery.answer}
        BY <1>6 DEF Portal!ListLoaded, Portal!ListNotLoaded
    <3>2. UNCHANGED <<acted, acting, choice, remark, selected, saving, notice>>
        BY <1>6 DEF Portal!ListLoaded, Portal!ListNotLoaded
    <3> QED
        BY <1>1, <3>1, <3>2 DEF Portal!ResultsTypeOK, Portal!NoQuery
  <2> QED
      BY <1>1, <1>6, <2>1, ResultsStay DEF Portal!ListLoaded, Portal!ListNotLoaded
<1>7. Portal!NeedsAction \subseteq Results
    BY <1>1 DEF Portal!NeedsAction, Portal!ResultsTypeOK
<1>8. CASE Portal!Tick
  <2>1. Portal!ResultsTypeOK'
      BY <1>1, <1>7, <1>8 DEF Portal!Tick, Portal!ResultsTypeOK
  <2> QED
      BY <1>1, <1>8, <2>1, ResultsStay DEF Portal!Tick
<1>9. CASE Portal!OpenDialog
  <2>1. UNCHANGED <<notice, tool, outcome, acted, needsAction, resultsQuery, selected, followAll, saving, sent>>
      BY <1>9 DEF Portal!OpenDialog
  <2>2. /\ acting' \in Results /\ choice' \in {"REMOVED", "KEPT", "none", "read"}
        /\ remark' \in {Nobody, remark}
        /\ tool = "results" => remark' = Nobody
      BY <1>7, <1>9 DEF Portal!OpenDialog, Portal!OpenResult, Portal!OpenModeration
  <2>3. Portal!ResultsTypeOK'
      BY <1>1, <2>1, <2>2 DEF Portal!ResultsTypeOK
  <2> QED
      BY <1>1, <2>1, <2>2, <2>3, ResultsStay
<1>10. CASE Portal!Choose \/ Portal!TypeRemark \/ Portal!CloseResult
  <2>1. UNCHANGED <<notice, tool, outcome, acted, needsAction, resultsQuery, selected, followAll, saving, sent>>
      BY <1>10 DEF Portal!Choose, Portal!TypeRemark, Portal!CloseResult
  <2>2. /\ UNCHANGED <<acting, remark>> \/ acting' = Nobody \/ remark' \in {Nobody, acting'}
        /\ Portal!ResultsTypeOK'
      BY <1>1, <1>10, <2>1 DEF Portal!Choose, Portal!TypeRemark, Portal!CloseResult, Portal!ResultsTypeOK
  <2> QED
      BY <1>1, <2>1, <2>2, ResultsStay
<1>11. CASE Portal!RecordOne
  <2> DEFINE s == Portal!Sending(acting, choice, remark, "one")
  <2>1. /\ sent' = sent \cup {s} /\ saving' = "one" /\ acting \in Results /\ choice \in {"REMOVED", "KEPT"}
        /\ acting # Nobody
        /\ UNCHANGED <<notice, tool, outcome, acted, needsAction, resultsQuery, acting, choice, remark, selected, followAll>>
      BY <1>1, <1>11 DEF Portal!RecordOne, Portal!Send, Portal!Editable, Portal!ResultsTypeOK
  <2>2. ActionOK(s)'
      BY <1>1, <2>1 DEF ActionOK, Action, Portal!Sending, ResultsInv, Portal!ResultsTypeOK
  <2>3. Portal!ResultsTypeOK'
      BY <1>1, <2>1 DEF Portal!ResultsTypeOK
  <2> QED
      BY <1>1, <2>1, <2>2, <2>3, ResultsStay
<1>12. CASE Portal!OneRecorded
  <2>1. PICK s \in sent : s.reply = "done" /\ sent' = sent \ {s} /\ notice' = {s.result}
      BY <1>12 DEF Portal!OneRecorded, Portal!Awaited
  <2>2. /\ saving' = "nothing" /\ acting' = Nobody /\ remark' \in {Nobody, remark} /\ resultsQuery' = Portal!QuerySent
        /\ UNCHANGED <<tool, outcome, acted, needsAction, choice, selected, followAll>>
      BY <1>12 DEF Portal!OneRecorded
  <2>3. s.result \in Results /\ s.result \in acted
      BY <1>1, <2>1 DEF ActionOK, Action
  <2>4. Portal!ResultsTypeOK' /\ resultsQuery' \in [asked : BOOLEAN, answer : (SUBSET Results) \cup {Nobody}]
      BY <1>1, <2>1, <2>2, <2>3 DEF Portal!ResultsTypeOK, Portal!QuerySent
  <2> QED
      BY <1>1, <2>1, <2>2, <2>3, <2>4, ResultsStay
<1>13. CASE Portal!OneFailed
  <2>1. sent' \subseteq sent /\ Portal!ResultsTypeOK'
      BY <1>1, <1>13 DEF Portal!OneFailed, Portal!ResultsTypeOK
  <2> QED
      BY <1>1, <1>13, <2>1, ResultsStay DEF Portal!OneFailed
<1>14. ASSUME NEW items, NEW how \in {"selected", "suggested"}, Portal!ApplyMany(items, how),
              \A s \in items : ActionOK(s)
       PROVE  ResultsInv'
  <2>1. /\ sent' = sent \cup items /\ saving' = how
        /\ UNCHANGED <<notice, tool, outcome, acted, needsAction, resultsQuery, acting, choice, remark, selected, followAll>>
      BY <1>14 DEF Portal!ApplyMany, Portal!Send
  <2>2. \A s \in items : ActionOK(s)'
      BY <1>14, <2>1 DEF ActionOK
  <2>3. Portal!ResultsTypeOK'
      BY <1>1, <1>14, <2>1 DEF Portal!ResultsTypeOK
  <2> QED
      BY <1>1, <2>1, <2>2, <2>3, ResultsStay
<1>15. CASE Portal!RecordSelected
  <2>1. PICK a \in {"REMOVED", "KEPT"} :
            Portal!ApplyMany({Portal!Sending(r, a, Nobody, "selected") : r \in Portal!SelectedRows}, "selected")
      BY <1>15 DEF Portal!RecordSelected
  <2>2. \A r \in Portal!SelectedRows : ActionOK(Portal!Sending(r, a, Nobody, "selected"))
      BY <1>7 DEF ActionOK, Action, Portal!Sending, Portal!SelectedRows
  <2> QED
      BY <1>14, <2>1, <2>2
<1>16. CASE Portal!OpenFollowAll \/ Portal!CloseFollowAll
  <2>1. Portal!ResultsTypeOK'
      BY <1>1, <1>16 DEF Portal!OpenFollowAll, Portal!CloseFollowAll, Portal!ResultsTypeOK
  <2> QED
      BY <1>1, <1>16, <2>1, ResultsStay DEF Portal!OpenFollowAll, Portal!CloseFollowAll
<1>17. CASE Portal!FollowRcs
  <2>1. Portal!ApplyMany({Portal!Sending(r, Portal!Usual(r), Nobody, "suggested") : r \in Portal!Suggested}, "suggested")
      BY <1>17 DEF Portal!FollowRcs
  <2>2. ASSUME NEW r \in Portal!Suggested PROVE ActionOK(Portal!Sending(r, Portal!Usual(r), Nobody, "suggested"))
    <3>1. r \in Results /\ outcome[r] # "CLOSED_NO_REASSIGNMENT"
        BY <1>7 DEF Portal!Suggested
    <3>2. outcome[r] \in {"POLICY_VIOLATION_FOUND", "NO_VIOLATION_FOUND"}
        BY <1>1, <3>1 DEF Portal!Outcomes
    <3>3. /\ Portal!Usual(r) \in {"REMOVED", "KEPT"}
          /\ outcome[r] = "POLICY_VIOLATION_FOUND" => Portal!Usual(r) = "REMOVED"
          /\ outcome[r] = "NO_VIOLATION_FOUND" => Portal!Usual(r) = "KEPT"
        BY <3>2 DEF Portal!Usual
    <3> QED
        BY <3>1, <3>2, <3>3 DEF ActionOK, Action, Portal!Sending
  <2> QED
      BY <1>14, <2>1, <2>2
<1>18. CASE Portal!ManyRecorded
  <2>1. /\ notice' = {s.result : s \in Portal!Awaited} /\ sent' = Portal!OnTheirWay
        /\ saving' = "nothing" /\ selected' = {} /\ resultsQuery' = Portal!QuerySent
        /\ \A s \in Portal!Awaited : s.reply = "done"
        /\ UNCHANGED <<tool, outcome, acted, needsAction, acting, choice, remark>>
      BY <1>18 DEF Portal!ManyRecorded, Portal!AllDone
  <2>2. notice' \subseteq acted
      BY <1>1, <2>1 DEF Portal!Awaited, ActionOK
  <2>3. \A t \in sent' : ActionOK(t)'
      BY <2>1, NobodyWaits
  <2>4. Portal!ResultsTypeOK' /\ resultsQuery' \in [asked : BOOLEAN, answer : (SUBSET Results) \cup {Nobody}]
      BY <1>1, <2>1, <2>2 DEF Portal!ResultsTypeOK, Portal!QuerySent
  <2> QED
      BY <1>1, <2>1, <2>2, <2>3, <2>4, ResultsStay
<1>19. CASE Portal!ManyFailed
  <2>1. /\ sent' = Portal!OnTheirWay /\ saving' = "nothing"
        /\ UNCHANGED <<notice, tool, outcome, acted, needsAction, resultsQuery, acting, choice, remark, selected, followAll>>
      BY <1>19 DEF Portal!ManyFailed
  <2>2. \A t \in sent' : ActionOK(t)'
      BY <2>1, NobodyWaits
  <2>3. Portal!ResultsTypeOK'
      BY <1>1, <2>1 DEF Portal!ResultsTypeOK
  <2> QED
      BY <1>1, <2>1, <2>2, <2>3, ResultsStay
<1>20. CASE Portal!DismissNotice
  <2>1. Portal!ResultsTypeOK'
      BY <1>1, <1>20 DEF Portal!DismissNotice, Portal!ResultsTypeOK
  <2> QED
      BY <1>1, <1>20, <2>1, ResultsStay DEF Portal!DismissNotice
<1> QED
    BY <1>2, <1>3, <1>4, <1>5, <1>6, <1>8, <1>9, <1>10, <1>11, <1>12, <1>13, <1>15, <1>16, <1>17, <1>18,
       <1>19, <1>20 DEF Portal!ResultsNext

LEMMA ResultsIdle ==
    ASSUME ResultsInv, UNCHANGED resultsVars PROVE ResultsInv'
<1>1. UNCHANGED <<tool, outcome, acted, needsAction, resultsQuery, acting, choice, remark, selected, followAll,
                  saving, sent, notice>>
    BY DEF resultsVars
<1>2. Portal!ResultsTypeOK'
    BY <1>1 DEF ResultsInv, Portal!ResultsTypeOK
<1> QED
    BY <1>1, <1>2, ResultsStay DEF ResultsInv

LEMMA ResultsShown == ResultsInv => ResultsTruth
    BY DEF ResultsInv, ResultsTruth, ActionOK, Portal!NotesStayWithTheirResult, Portal!FollowedAsDecided,
           Portal!ToldWasRecorded

(***************************************************************************)
(* The Manager's desk. What the server has (its record, what it carried    *)
(* out, the calls and their answers) and what the page has are apart; an   *)
(* answer "done" says that the call was carried out.                       *)
(***************************************************************************)
DeskRecord ==
    [free : SUBSET Desk!Candidates, custody : {"manager", "an Auditor", "closed"}, accessed : BOOLEAN,
     aiFailure : {"none", "vision", "other"}, alert : {"UNACKNOWLEDGED", "IN_PROGRESS", "RESOLVED"},
     delivery : {"NEEDS_ATTENTION", "RETRYING", "SUCCESS"}, escalated : BOOLEAN, replied : BOOLEAN,
     limit : Limits, owed : BOOLEAN, request : {"OPEN", "APPROVED", "WITHDRAWN"}]

DeskForm ==
    [chosen : 0..NumAuditors, note : {"", "own", "template"},
     outcome : {"none", "NO_FURTHER_ACTION", "AUDITOR_STOPPED_SHIFT"}, step : {"gate", "summary", "workspace"},
     open : BOOLEAN, draft : {0} \cup Limits, video : BOOLEAN]

DeskKinds == {"reassign", "close", "access", "acknowledge", "followUp", "retry", "escalate", "reply", "limit",
              "grant", "checkIn"}

CallOK(c) ==
    /\ c = [kind |-> c.kind, arg |-> c.arg, answer |-> c.answer, stale |-> c.stale]
    /\ c.kind \in DeskKinds
    /\ c.kind \in {"retry", "access"} => c.arg = 0
    /\ c.kind = "limit" => c.arg \in Limits
    /\ c.answer = "done" => [kind |-> c.kind, arg |-> c.arg] \in done
    /\ c.answer = "still failing" => c.kind = "retry"

DeskServer ==
    /\ record \in DeskRecord
    /\ others \in 0..MaxOthers
    /\ \A c \in calls : CallOK(c)
    /\ [kind |-> "access", arg |-> 0] \in done => record.accessed
    /\ (\E d \in done : d.kind = "limit") => [kind |-> "limit", arg |-> record.limit] \in done

DeskPage ==
    /\ page \in Desk!Desk \cup Desk!Away
    /\ data \in DeskRecord \cup {NoData} /\ (data # NoData => page \in Desk!Desk)
    /\ deskQuery \in [stage : {"none", "asked", "served", "failed"}, copy : DeskRecord \cup {NoData}]
    /\ deskQuery.stage # "none" => page \in Desk!Desk
    /\ expired => page \in Desk!Desk
    /\ form \in DeskForm
    /\ form.step # "gate" => page = "raw" /\ record.accessed

\* Once a limit was saved, what is loaded afterwards has a limit that was set.
DeskNames ==
    (\E t \in told : t.kind = "limit") =>
        /\ page = "auditor"
        /\ deskQuery.stage = "none" => [kind |-> "limit", arg |-> data.limit] \in done
        /\ deskQuery.stage = "served" => [kind |-> "limit", arg |-> deskQuery.copy.limit] \in done

DeskInv == DeskServer /\ DeskPage /\ told \subseteq done /\ DeskNames

LEMMA CallParts ==
    ASSUME NEW c, CallOK(c)
    PROVE  /\ \A a : [c EXCEPT !.answer = a] = [kind |-> c.kind, arg |-> c.arg, answer |-> a, stale |-> c.stale]
           /\ \A b : [c EXCEPT !.stale = b] = [kind |-> c.kind, arg |-> c.arg, answer |-> c.answer, stale |-> b]
<1>1. PICK k, x, y, z : c = [kind |-> k, arg |-> x, answer |-> y, stale |-> z]
    BY DEF CallOK
<1> QED
    BY <1>1

LEMMA DeskStarts == Desk!DeskInit => DeskInv
<1> SUFFICES ASSUME Desk!DeskInit PROVE DeskInv
    OBVIOUS
<1>1. record \in DeskRecord
    BY DEF Desk!DeskInit, Desk!NewRecord, DeskRecord
<1>0. 0 \in 0..NumAuditors
    BY DeskAssumption
<1>2. form \in DeskForm /\ form.step = "gate"
    BY <1>0 DEF Desk!DeskInit, Desk!Blank, DeskForm
<1>3. DeskServer
    BY <1>1, DeskAssumption DEF Desk!DeskInit, DeskServer
<1>4. DeskPage
    BY <1>2 DEF Desk!DeskInit, DeskPage, Desk!Asked, Desk!Desk
<1> QED
    BY <1>3, <1>4 DEF DeskInv, Desk!DeskInit, DeskNames

LEMMA ServerStays ==
    ASSUME DeskServer, UNCHANGED <<record, done, others>>, \A c \in calls' : c \in calls \/ CallOK(c)'
    PROVE  DeskServer'
    BY DEF DeskServer, CallOK

LEMMA PageStays ==
    ASSUME DeskPage, UNCHANGED <<page, data, deskQuery, form, expired>>, record.accessed => record'.accessed
    PROVE  DeskPage'
    BY DEF DeskPage

LEMMA NamesStay ==
    ASSUME DeskNames, UNCHANGED <<page, data, deskQuery>>, told' \subseteq told, done \subseteq done'
    PROVE  DeskNames'
    BY DEF DeskNames

LEMMA PageOpens ==
    ASSUME NEW p \in Desk!Desk \cup Desk!Away, Desk!Open(p) PROVE DeskPage'
<1>0. 0 \in 0..NumAuditors
    BY DeskAssumption
<1>1. Desk!Blank \in DeskForm /\ Desk!Blank.step = "gate"
    BY <1>0 DEF Desk!Blank, DeskForm
<1> QED
    BY <1>1 DEF Desk!Open, DeskPage, Desk!Asked, Desk!NoLoad

LEMMA FormFilled ==
    ASSUME DeskInv, UNCHANGED <<page, record, data, deskQuery, expired, done, others>>,
           \A c \in calls' : c \in calls \/ CallOK(c)', told' \subseteq told,
           form' \in DeskForm, form'.step # "gate" => form.step # "gate"
    PROVE  DeskInv'
<1>1. DeskServer'
    BY ServerStays DEF DeskInv
<1>2. DeskPage'
    BY DEF DeskInv, DeskPage
<1>3. DeskNames'
    BY NamesStay DEF DeskInv
<1> QED
    BY <1>1, <1>2, <1>3 DEF DeskInv

LEMMA Filling ==
    ASSUME DeskInv, NEW f \in DeskForm, Desk!Fill(f), f.step # "gate" => form.step # "gate"
    PROVE  DeskInv'
    BY FormFilled DEF Desk!Fill

LEMMA Calling ==
    ASSUME DeskInv, NEW kind \in DeskKinds, NEW arg, Desk!Call(kind, arg),
           kind \in {"retry", "access"} => arg = 0, kind = "limit" => arg \in Limits
    PROVE  DeskInv'
<1>0. PICK c : c = [kind |-> kind, arg |-> arg, answer |-> "none", stale |-> ~live]
    OBVIOUS
<1>1. CallOK(c)'
    BY <1>0 DEF CallOK
<1>2. calls' = calls \cup {c} /\ told' \subseteq told
    BY <1>0 DEF Desk!Call
<1>3. UNCHANGED <<page, record, data, deskQuery, form, live, expired, done, others>>
    BY DEF Desk!Call
<1>4. form' \in DeskForm
    BY <1>3 DEF DeskInv, DeskPage
<1> QED
    BY <1>1, <1>2, <1>3, <1>4, FormFilled

\* What the server does: it moves the record, and answers.
LEMMA AnswersOK ==
    ASSUME NEW c \in calls, CallOK(c), done \subseteq done', NEW a, Desk!Answer(c, a),
           a = "done" => [kind |-> c.kind, arg |-> c.arg] \in done',
           a = "still failing" => c.kind = "retry",
           \A d \in calls : CallOK(d)
    PROVE  \A d \in calls' : CallOK(d)'
<1>1. CallOK([c EXCEPT !.answer = a])'
  <2> DEFINE d == [kind |-> c.kind, arg |-> c.arg, answer |-> a, stale |-> c.stale]
  <2>1. [c EXCEPT !.answer = a] = d
      BY CallParts
  <2>2. CallOK(d)'
      BY DEF CallOK
  <2> QED
      BY <2>1, <2>2
<1>2. \A d \in calls : CallOK(d)'
    BY DEF CallOK
<1> QED
    BY <1>1, <1>2 DEF Desk!Answer

LEMMA CallServed ==
    ASSUME DeskInv, Desk!ServeCall PROVE DeskInv'
<1>0. PICK c \in calls :
         \E r \in Desk!Outcomes(c) :
           /\ record' = r
           /\ \E a \in {Desk!AnswerTo(c, r), "lost"} : Desk!Answer(c, a)
           /\ done' = done \cup IF Desk!AnswerTo(c, r) = "done" THEN {[kind |-> c.kind, arg |-> c.arg]} ELSE {}
    BY DEF Desk!ServeCall
<1>r. PICK r \in Desk!Outcomes(c) :
           /\ record' = r
           /\ \E a \in {Desk!AnswerTo(c, r), "lost"} : Desk!Answer(c, a)
           /\ done' = done \cup IF Desk!AnswerTo(c, r) = "done" THEN {[kind |-> c.kind, arg |-> c.arg]} ELSE {}
    BY <1>0
<1>1. PICK a \in {Desk!AnswerTo(c, r), "lost"} :
         /\ record' = r /\ Desk!Answer(c, a)
         /\ done' = done \cup IF Desk!AnswerTo(c, r) = "done" THEN {[kind |-> c.kind, arg |-> c.arg]} ELSE {}
    BY <1>r
<1>2. UNCHANGED <<page, data, deskQuery, form, told, troubles, live, expired, others>>
    BY DEF Desk!ServeCall
<1>3. /\ DeskServer /\ DeskPage /\ told \subseteq done /\ record \in DeskRecord /\ CallOK(c)
      /\ \A d \in calls : CallOK(d)
      /\ DeskNames
    BY DEF DeskInv, DeskServer
<1>4. /\ r \in DeskRecord
      /\ record.accessed => r.accessed
      /\ c.kind = "access" => r.accessed
      /\ r.limit = IF c.kind = "limit" THEN c.arg ELSE record.limit
  <2>1. c.kind \in DeskKinds /\ (c.kind = "limit" => c.arg \in Limits)
      BY <1>3 DEF CallOK
  <2> DEFINE R == Desk!Outcomes(c)
  <2>2. CASE c.kind = "reassign"
    <3>1. r = [record EXCEPT !.custody = "an Auditor"]
        BY <1>1, <2>2 DEF Desk!Outcomes
    <3> QED
        BY <1>3, <2>2, <3>1 DEF DeskRecord
  <2>3. CASE c.kind = "close"
    <3>1. r = [record EXCEPT !.custody = "closed"]
        BY <1>1, <2>3 DEF Desk!Outcomes
    <3> QED
        BY <1>3, <2>3, <3>1 DEF DeskRecord
  <2>4. CASE c.kind = "access"
    <3>1. r = [record EXCEPT !.accessed = TRUE]
        BY <1>1, <2>4 DEF Desk!Outcomes
    <3> QED
        BY <1>3, <2>4, <3>1 DEF DeskRecord
  <2>5. CASE c.kind = "acknowledge"
    <3>1. r = [record EXCEPT !.alert = IF @ = "UNACKNOWLEDGED" THEN "IN_PROGRESS" ELSE @]
        BY <1>1, <2>5 DEF Desk!Outcomes
    <3> QED
        BY <1>3, <2>5, <3>1 DEF DeskRecord
  <2>6. CASE c.kind = "followUp"
    <3>1. r = [record EXCEPT !.alert = "RESOLVED", !.owed = FALSE]
        BY <1>1, <2>6 DEF Desk!Outcomes
    <3> QED
        BY <1>3, <2>6, <3>1 DEF DeskRecord
  <2>7. CASE c.kind = "retry"
    <3>1. PICK s \in {"SUCCESS", "NEEDS_ATTENTION"} : r = [record EXCEPT !.delivery = s]
        BY <1>1, <2>7 DEF Desk!Outcomes
    <3> QED
        BY <1>3, <2>7, <3>1 DEF DeskRecord
  <2>8. CASE c.kind = "escalate"
    <3>1. r = [record EXCEPT !.escalated = TRUE]
        BY <1>1, <2>8 DEF Desk!Outcomes
    <3> QED
        BY <1>3, <2>8, <3>1 DEF DeskRecord
  <2>9. CASE c.kind = "reply"
    <3>1. r = [record EXCEPT !.replied = TRUE]
        BY <1>1, <2>9 DEF Desk!Outcomes
    <3> QED
        BY <1>3, <2>9, <3>1 DEF DeskRecord
  <2>10. CASE c.kind = "limit"
    <3>1. r = [record EXCEPT !.limit = c.arg]
        BY <1>1, <2>10 DEF Desk!Outcomes
    <3> QED
        BY <1>3, <2>1, <2>10, <3>1 DEF DeskRecord
  <2>11. CASE c.kind = "grant"
    <3>1. r = [record EXCEPT !.request = IF @ = "OPEN" THEN "APPROVED" ELSE @]
        BY <1>1, <2>11 DEF Desk!Outcomes
    <3> QED
        BY <1>3, <2>11, <3>1 DEF DeskRecord
  <2>12. CASE c.kind = "checkIn"
    <3>1. r = [record EXCEPT !.owed = FALSE]
        BY <1>1, <2>12 DEF Desk!Outcomes
    <3> QED
        BY <1>3, <2>12, <3>1 DEF DeskRecord
  <2> QED
      BY <2>1, <2>2, <2>3, <2>4, <2>5, <2>6, <2>7, <2>8, <2>9, <2>10, <2>11, <2>12 DEF DeskKinds
<1>5. \A d \in calls' : CallOK(d)'
  <2>1. done \subseteq done' /\ (a = "done" => [kind |-> c.kind, arg |-> c.arg] \in done')
      BY <1>1
  <2>2. a = "still failing" => c.kind = "retry"
      BY <1>1 DEF Desk!AnswerTo
  <2> QED
      BY <1>1, <1>3, <2>1, <2>2, AnswersOK
<1>6. [kind |-> "access", arg |-> 0] \in done' => record'.accessed
  <2>1. [kind |-> "access", arg |-> 0] \in done => record.accessed
      BY <1>3 DEF DeskServer
  <2>2. [kind |-> "access", arg |-> 0] = [kind |-> c.kind, arg |-> c.arg] => c.kind = "access"
      OBVIOUS
  <2> QED
      BY <1>1, <1>4, <2>1, <2>2
<1>9. (\E d \in done' : d.kind = "limit") => [kind |-> "limit", arg |-> record'.limit] \in done'
  <2>1. (\E d \in done : d.kind = "limit") => [kind |-> "limit", arg |-> record.limit] \in done
      BY <1>3 DEF DeskServer
  <2>2. CASE c.kind = "limit"
    <3>1. Desk!AnswerTo(c, r) = "done"
        BY <2>2 DEF Desk!AnswerTo
    <3> QED
        BY <1>1, <1>4, <2>2, <3>1
  <2>3. CASE c.kind # "limit"
    <3>1. (\E d \in done' : d.kind = "limit") => \E d \in done : d.kind = "limit"
        BY <1>1, <2>3
    <3> QED
        BY <1>1, <1>4, <2>1, <2>3, <3>1
  <2> QED
      BY <2>2, <2>3
<1>7. DeskServer'
    BY <1>1, <1>2, <1>3, <1>4, <1>5, <1>6, <1>9 DEF DeskServer
<1>8. DeskPage'
    BY <1>1, <1>2, <1>3, <1>4, PageStays
<1>10. DeskNames'
    BY <1>1, <1>2, <1>3, NamesStay
<1> QED
    BY <1>1, <1>2, <1>3, <1>7, <1>8, <1>10 DEF DeskInv

LEMMA DeskServes ==
    ASSUME DeskInv, Desk!RefuseCall \/ Desk!Others \/ Desk!SessionLost PROVE DeskInv'
<1>1. /\ DeskServer /\ DeskPage /\ told \subseteq done /\ record \in DeskRecord /\ DeskNames
      /\ \A d \in calls : CallOK(d)
    BY DEF DeskInv, DeskServer
<1>2. CASE Desk!RefuseCall
  <2>1. PICK c \in calls, a \in {"no session", "refused", "lost"} : Desk!Answer(c, a)
      BY <1>2 DEF Desk!RefuseCall
  <2>2. UNCHANGED <<page, record, data, deskQuery, form, told, troubles, live, expired, done, others>>
      BY <1>2 DEF Desk!RefuseCall
  <2>3. \A d \in calls' : CallOK(d)'
      BY <1>1, <2>1, <2>2, AnswersOK
  <2> QED
      BY <1>1, <2>2, <2>3, ServerStays, PageStays, NamesStay DEF DeskInv
<1>3. CASE Desk!Others
  <2>1. /\ others' = others + 1 /\ others < MaxOthers
        /\ UNCHANGED <<page, data, deskQuery, form, calls, told, troubles, live, expired>>
        /\ done' = done \cup IF record'.limit = record.limit THEN {} ELSE {[kind |-> "limit", arg |-> record'.limit]}
      BY <1>3 DEF Desk!Others
  <2>2. record' \in DeskRecord /\ record'.accessed = record.accessed
    <3>1. \/ \E s \in SUBSET Desk!Candidates : record' = [record EXCEPT !.free = s]
          \/ \E s \in {"IN_PROGRESS", "RESOLVED"} : record' = [record EXCEPT !.alert = s]
          \/ \E s \in {"NEEDS_ATTENTION", "SUCCESS"} : record' = [record EXCEPT !.delivery = s]
          \/ record' = [record EXCEPT !.replied = TRUE]
          \/ \E l \in Limits, b \in BOOLEAN : record' = [record EXCEPT !.limit = l, !.owed = b]
          \/ record' = [record EXCEPT !.request = "WITHDRAWN"]
        BY <1>3 DEF Desk!Others
    <3> QED
        BY <1>1, <3>1 DEF DeskRecord
  <2>3. others' \in 0..MaxOthers
      BY <1>1, <2>1, DeskAssumption DEF DeskServer
  <2>4. DeskServer'
    <3>1. \A c \in calls' : CallOK(c)'
        BY <1>1, <2>1 DEF CallOK
    <3>2. [kind |-> "access", arg |-> 0] \in done' => record'.accessed
        BY <1>1, <2>1, <2>2 DEF DeskServer
    <3>3. (\E d \in done' : d.kind = "limit") => [kind |-> "limit", arg |-> record'.limit] \in done'
      <4>1. CASE record'.limit = record.limit
          BY <1>1, <2>1, <4>1 DEF DeskServer
      <4>2. CASE record'.limit # record.limit
          BY <2>1, <4>2
      <4> QED
          BY <4>1, <4>2
    <3> QED
        BY <2>2, <2>3, <3>1, <3>2, <3>3 DEF DeskServer
  <2>5. DeskNames'
      BY <1>1, <2>1, NamesStay
  <2> QED
      BY <1>1, <2>1, <2>2, <2>4, <2>5, PageStays DEF DeskInv
<1>4. CASE Desk!SessionLost
  <2>1. /\ UNCHANGED <<page, record, data, deskQuery, form, told, troubles, expired, done, others>>
        /\ calls' = {[c EXCEPT !.stale = c.answer = "none"] : c \in calls}
      BY <1>4 DEF Desk!SessionLost
  <2>2. ASSUME NEW c \in calls PROVE CallOK([c EXCEPT !.stale = c.answer = "none"])'
    <3> DEFINE b == c.answer = "none"
               d == [kind |-> c.kind, arg |-> c.arg, answer |-> c.answer, stale |-> b]
    <3>1. CallOK(c)
        BY <1>1
    <3>2. [c EXCEPT !.stale = b] = d
        BY <3>1, CallParts
    <3>3. CallOK(d)'
        BY <2>1, <3>1 DEF CallOK
    <3> QED
        BY <3>2, <3>3
  <2>3. \A d \in calls' : CallOK(d)'
      BY <2>1, <2>2
  <2> QED
      BY <1>1, <2>1, <2>3, ServerStays, PageStays, NamesStay DEF DeskInv
<1> QED
    BY <1>2, <1>3, <1>4

\* The page: it loads, is left, and its forms are filled in.
LEMMA DeskLoads ==
    ASSUME DeskInv,
           Desk!LoadServedHere \/ Desk!ShowData \/ Desk!LoadFailed \/ Desk!Reauthenticate
    PROVE  DeskInv'
<1>1. UNCHANGED <<page, record, form, calls, told, troubles, done, others>>
    BY DEF Desk!LoadServedHere, Desk!ShowData, Desk!LoadFailed, Desk!Reauthenticate
<1>2. DeskServer'
    BY <1>1, ServerStays DEF DeskInv
<1>3. /\ data' \in DeskRecord \cup {NoData} /\ (data' # NoData => page \in Desk!Desk)
      /\ deskQuery' \in [stage : {"none", "asked", "served", "failed"}, copy : DeskRecord \cup {NoData}]
      /\ deskQuery'.stage # "none" => page \in Desk!Desk
      /\ expired' => page \in Desk!Desk
    BY DEF DeskInv, DeskPage, DeskServer, Desk!LoadServedHere, Desk!ShowData, Desk!LoadFailed, Desk!Reauthenticate,
           Desk!NoLoad, Desk!NotLoaded, Desk!Asked
<1>4. DeskPage'
    BY <1>1, <1>3 DEF DeskInv, DeskPage
<1>5. DeskNames'
  <2>1. ASSUME NEW t \in told, t.kind = "limit"
        PROVE  /\ page = "auditor" /\ [kind |-> "limit", arg |-> record.limit] \in done
               /\ deskQuery.stage = "served" => [kind |-> "limit", arg |-> deskQuery.copy.limit] \in done
      BY <2>1 DEF DeskInv, DeskServer, DeskNames
  <2>2. CASE Desk!LoadServedHere
      BY <1>1, <2>1, <2>2 DEF DeskNames, Desk!LoadServedHere
  <2>3. CASE Desk!ShowData
      BY <1>1, <2>1, <2>3 DEF DeskNames, Desk!ShowData, Desk!NoLoad
  <2>4. CASE Desk!LoadFailed \/ Desk!Reauthenticate
    <3>1. deskQuery'.stage \in {"failed", "asked"}
        BY <2>4 DEF Desk!LoadFailed, Desk!Reauthenticate, Desk!NotLoaded, Desk!Asked
    <3> QED
        BY <1>1, <2>1, <3>1 DEF DeskNames
  <2> QED
      BY <2>2, <2>3, <2>4
<1> QED
    BY <1>1, <1>2, <1>4, <1>5 DEF DeskInv

LEMMA DeskOpens ==
    ASSUME DeskInv, NEW p \in Desk!Desk \cup Desk!Away, Desk!Open(p), told' \subseteq done',
           \A t \in told' : t.kind # "limit", DeskServer'
    PROVE  DeskInv'
    BY PageOpens DEF DeskInv, DeskNames

LEMMA DeskLeaves ==
    ASSUME DeskInv,
           Desk!LeaveForSignIn \/ Desk!Leave \/ Desk!SignOutInstead \/ Desk!OpenFollowUp
    PROVE  DeskInv'
<1>1. UNCHANGED <<record, calls, live, done, others>> /\ told' = {}
    BY DEF Desk!LeaveForSignIn, Desk!Leave, Desk!SignOutInstead, Desk!OpenFollowUp
<1>2. PICK p \in Desk!Desk \cup Desk!Away : Desk!Open(p)
    BY DEF Desk!LeaveForSignIn, Desk!Leave, Desk!SignOutInstead, Desk!OpenFollowUp, Desk!Desk, Desk!Away
<1>3. DeskServer'
    BY <1>1, ServerStays DEF DeskInv
<1> QED
    BY <1>1, <1>2, <1>3, DeskOpens

\* Every form is filled in with what it may hold, and only Cleared leaves the gate.
DeskFills ==
    \/ Desk!TypeNote \/ Desk!ChooseTarget \/ Desk!ToggleClosing \/ Desk!FetchVideo \/ Desk!ContinueToReview
    \/ Desk!BackToSummary \/ Desk!ChooseOutcome \/ Desk!OpenEscalation \/ Desk!OpenCheckIn \/ Desk!CloseDialog

MayHold(f) == f \in DeskForm /\ (f.step # "gate" => form.step # "gate")

LEMMA Fillings ==
    ASSUME form \in DeskForm
    PROVE  /\ \A n \in {"", "own", "template"} : MayHold([form EXCEPT !.note = n])
           /\ \A a \in 0..NumAuditors : MayHold([form EXCEPT !.chosen = a])
           /\ MayHold([form EXCEPT !.open = ~form.open])
           /\ MayHold([form EXCEPT !.video = TRUE])
           /\ form.step # "gate" => \A s \in {"summary", "workspace"} : MayHold([form EXCEPT !.step = s])
           /\ \A o \in {"NO_FURTHER_ACTION", "AUDITOR_STOPPED_SHIFT"} : MayHold([form EXCEPT !.outcome = o])
           /\ MayHold([form EXCEPT !.open = TRUE])
           /\ MayHold([form EXCEPT !.open = TRUE, !.note = ""])
           /\ \A n \in {"", form.note} : MayHold([form EXCEPT !.open = FALSE, !.note = n])
    BY DEF DeskForm, MayHold

LEMMA OfferedAre == ASSUME NEW d \in DeskRecord, NEW a \in d.free PROVE a \in 0..NumAuditors
<1>1. a \in 1..NumAuditors
    BY DEF DeskRecord, Desk!Candidates
<1> QED
    BY <1>1, DeskAssumption

LEMMA DeskFilled ==
    ASSUME DeskInv, DeskFills PROVE DeskInv'
<1>1. form \in DeskForm
    BY DEF DeskInv, DeskPage
<1>2. PICK f : MayHold(f) /\ Desk!Fill(f)
  <2>1. CASE Desk!TypeNote
      BY <1>1, <2>1, Fillings DEF Desk!TypeNote
  <2>2. CASE Desk!ChooseTarget
    <3>1. PICK a \in data.free : Desk!Fill([form EXCEPT !.chosen = a])
        BY <2>2 DEF Desk!ChooseTarget, Desk!Offered
    <3>2. data \in DeskRecord
        BY <2>2 DEF Desk!ChooseTarget, Desk!On, DeskInv, DeskPage
    <3> QED
        BY <1>1, <3>1, <3>2, OfferedAre, Fillings
  <2>3. CASE Desk!ToggleClosing
    <3>1. Desk!Fill([form EXCEPT !.open = ~form.open])
        BY <2>3 DEF Desk!ToggleClosing
    <3> QED
        BY <1>1, <3>1, Fillings
  <2>4. CASE Desk!FetchVideo
      BY <1>1, <2>4, Fillings DEF Desk!FetchVideo
  <2>5. CASE Desk!ContinueToReview
      BY <1>1, <2>5, Fillings DEF Desk!ContinueToReview
  <2>6. CASE Desk!BackToSummary
      BY <1>1, <2>6, Fillings DEF Desk!BackToSummary
  <2>7. CASE Desk!ChooseOutcome
      BY <1>1, <2>7, Fillings DEF Desk!ChooseOutcome
  <2>8. CASE Desk!OpenEscalation
      BY <1>1, <2>8, Fillings DEF Desk!OpenEscalation
  <2>9. CASE Desk!OpenCheckIn
      BY <1>1, <2>9, Fillings DEF Desk!OpenCheckIn
  <2>10. CASE Desk!CloseDialog
    <3>1. PICK n \in {"", form.note} : Desk!Fill([form EXCEPT !.open = FALSE, !.note = n])
        BY <2>10 DEF Desk!CloseDialog
    <3> QED
        BY <1>1, <3>1, Fillings
  <2> QED
      BY <2>1, <2>2, <2>3, <2>4, <2>5, <2>6, <2>7, <2>8, <2>9, <2>10 DEF DeskFills
<1> QED
    BY <1>2, Filling DEF MayHold

DeskCalls ==
    \/ Desk!ConfirmReassignment \/ Desk!ConfirmNoReassignment \/ Desk!Proceed \/ Desk!Acknowledge
    \/ Desk!LogFollowUp \/ Desk!Retry \/ Desk!SubmitEscalation \/ Desk!SendReply \/ Desk!SaveLimit
    \/ Desk!GrantRequest \/ Desk!LogCheckIn

LEMMA DeskCalled ==
    ASSUME DeskInv, DeskCalls PROVE DeskInv'
<1>1. CASE Desk!SaveLimit
  <2>1. data \in DeskRecord /\ form \in DeskForm
      BY <1>1 DEF Desk!SaveLimit, Desk!On, DeskInv, DeskPage
  <2>2. Desk!LimitShown \in Limits
      BY <2>1 DEF Desk!LimitShown, DeskRecord, DeskForm
  <2>3. Desk!Call("limit", Desk!LimitShown)
      BY <1>1 DEF Desk!SaveLimit
  <2> HIDE DEF Desk!LimitShown
  <2>4. PICK l : l = Desk!LimitShown
      OBVIOUS
  <2> QED
      BY <2>2, <2>3, <2>4, Calling DEF DeskKinds
<1>2. CASE Desk!ConfirmReassignment
  <2>1. PICK t : Desk!Call("reassign", t)
      BY <1>2 DEF Desk!ConfirmReassignment
  <2> QED
      BY <2>1, Calling DEF DeskKinds
<1>3. CASE ~(Desk!SaveLimit \/ Desk!ConfirmReassignment)
  <2>1. PICK kind \in DeskKinds \ {"reassign", "limit"} : Desk!Call(kind, 0)
      BY <1>3 DEF DeskCalls, DeskKinds, Desk!ConfirmNoReassignment, Desk!Proceed, Desk!Acknowledge, Desk!LogFollowUp,
         Desk!Retry, Desk!SubmitEscalation, Desk!SendReply, Desk!GrantRequest, Desk!LogCheckIn
  <2> QED
      BY <2>1, Calling
<1> QED
    BY <1>1, <1>2, <1>3

LEMMA LimitTyped ==
    ASSUME DeskInv, Desk!TypeLimit PROVE DeskInv'
<1>1. PICK l \in Limits : form' = [form EXCEPT !.draft = l]
    BY DEF Desk!TypeLimit
<1>2. form \in DeskForm
    BY DEF DeskInv, DeskPage
<1>3. form' \in DeskForm /\ form'.step = form.step
    BY <1>1, <1>2 DEF DeskForm
<1>4. told' \subseteq told /\ UNCHANGED <<page, record, data, deskQuery, calls, troubles, live, expired, done, others>>
    BY DEF Desk!TypeLimit
<1> QED
    BY <1>3, <1>4, FormFilled

\* Answers.  What was answered "done" was done, and a page that is opened starts anew.
LEMMA DeskAnswered ==
    ASSUME DeskInv, Desk!CallDone PROVE DeskInv'
<1>1. PICK c \in calls :
      /\ c.answer \in {"done", "still failing"}
      /\ calls' = calls \ {c}
      /\ \/ c.kind \in {"reassign", "close"} /\ page # "login" /\ Desk!Finish(c)
         \/ page # "login" /\ Desk!Acknowledged(c)
         \/ c.kind \notin {"reassign", "close", "acknowledge"} /\ page = Desk!PageOf(c.kind) /\ data # NoData /\ Desk!Stays(c)
         \/ UNCHANGED <<page, data, deskQuery, form, told, troubles, expired>>
    BY DEF Desk!CallDone
<1>2. UNCHANGED <<record, live, done, others>>
    BY DEF Desk!CallDone
<1>3. DeskServer' /\ CallOK(c)
    BY <1>1, <1>2, ServerStays DEF DeskInv, DeskServer
<1>4. DeskPage /\ told \subseteq done /\ DeskNames
    BY DEF DeskInv
<1>5. CASE Desk!Finish(c) /\ c.kind \in {"reassign", "close"}
  <2>1. [kind |-> c.kind, arg |-> c.arg] \in done
      BY <1>1, <1>3, <1>5 DEF CallOK
  <2>2. told' \subseteq done' /\ \A t \in told' : t.kind # "limit"
      BY <1>2, <1>4, <1>5, <2>1 DEF Desk!Finish
  <2> QED
      BY <1>3, <1>5, <2>2, DeskOpens DEF Desk!Finish, Desk!Away
<1>6. CASE Desk!Acknowledged(c)
    BY <1>3, <1>6, DeskOpens DEF Desk!Acknowledged, Desk!Desk
<1>7. CASE c.kind \notin {"reassign", "close", "acknowledge"} /\ page = Desk!PageOf(c.kind) /\ data # NoData
           /\ Desk!Stays(c)
  <2>1. UNCHANGED <<page, data, troubles, expired>>
      BY <1>7 DEF Desk!Stays
  <2>2. form \in DeskForm /\ deskQuery' \in {deskQuery, Desk!Asked}
      BY <1>4, <1>7 DEF DeskPage, Desk!Stays, Desk!Cleared, Desk!LimitSaved
  <2>3. c.answer = "done" => [kind |-> c.kind, arg |-> c.arg] \in done
      BY <1>3 DEF CallOK
  <2>4. told' \subseteq done
    <3>1. CASE c.kind = "retry"
      <4>1. c.arg = 0
          BY <1>3, <3>1 DEF CallOK
      <4>2. told' = told \cup IF c.answer = "done" THEN {[kind |-> "retry", arg |-> 0]} ELSE {}
          BY <1>7, <3>1 DEF Desk!Stays
      <4> QED
          BY <1>4, <2>3, <3>1, <4>1, <4>2
    <3>2. CASE c.kind # "retry"
      <4>1. [kind |-> c.kind, arg |-> c.arg] \in done
          BY <1>1, <1>3, <3>2 DEF CallOK
      <4>2. told' = told \/ told' = told \cup {[kind |-> c.kind, arg |-> c.arg]}
          BY <1>7, <3>2 DEF Desk!Stays, Desk!Cleared, Desk!LimitSaved, Desk!Told
      <4> QED
          BY <1>4, <4>1, <4>2
    <3> QED
        BY <3>1, <3>2
  <2>5. form' \in DeskForm /\ (form'.step # "gate" => page = "raw" /\ record.accessed)
    <3>1. CASE c.kind = "access"
      <4>1. c.answer = "done" /\ c.arg = 0
          BY <1>1, <1>3, <3>1 DEF CallOK
      <4>2. record.accessed /\ page = "raw"
          BY <1>7, <2>3, <3>1, <4>1 DEF DeskInv, DeskServer, Desk!PageOf
      <4>3. PICK s \in {"summary", "workspace"} : form' = [form EXCEPT !.step = s]
          BY <1>7, <3>1 DEF Desk!Stays, Desk!Cleared
      <4> QED
          BY <2>2, <4>2, <4>3 DEF DeskForm
    <3>2. CASE c.kind # "access"
      <4>1. \/ form' = form
            \/ form' = [form EXCEPT !.draft = 0]
            \/ form' = [form EXCEPT !.note = ""]
            \/ form' = [form EXCEPT !.open = FALSE, !.note = ""]
          BY <1>7, <3>2 DEF Desk!Stays, Desk!LimitSaved
      <4>2. form' \in DeskForm /\ form'.step = form.step
          BY <2>2, <4>1 DEF DeskForm
      <4> QED
          BY <1>4, <4>2 DEF DeskPage
    <3> QED
        BY <3>1, <3>2
  <2>6. page \in Desk!Desk
      BY <1>4, <1>7 DEF DeskPage
  <2>7. DeskPage'
      BY <1>2, <1>4, <2>1, <2>2, <2>5, <2>6 DEF DeskPage, Desk!Asked
  <2>8. DeskNames'
    <3>1. CASE c.kind = "limit"
      <4>1. page' = "auditor" /\ deskQuery' = Desk!Asked
          BY <1>7, <2>1, <3>1 DEF Desk!Stays, Desk!LimitSaved, Desk!PageOf
      <4> QED
          BY <4>1 DEF DeskNames, Desk!Asked
    <3>2. CASE c.kind # "limit"
      <4>1. \A t \in told' : t.kind = "limit" => t \in told
        <5>1. CASE c.kind = "retry"
          <6>1. told' = told \cup IF c.answer = "done" THEN {[kind |-> "retry", arg |-> 0]} ELSE {}
              BY <1>7, <5>1 DEF Desk!Stays
          <6> QED
              BY <6>1
        <5>2. CASE c.kind # "retry"
          <6>1. told' = told \/ told' = told \cup {[kind |-> c.kind, arg |-> c.arg]}
              BY <1>7, <3>2, <5>2 DEF Desk!Stays, Desk!Cleared, Desk!Told
          <6> QED
              BY <3>2, <6>1
        <5> QED
            BY <5>1, <5>2
      <4>2. CASE deskQuery' = deskQuery
          BY <1>2, <1>4, <2>1, <4>1, <4>2 DEF DeskNames
      <4>3. CASE deskQuery' = Desk!Asked
          BY <1>4, <2>1, <4>1, <4>3 DEF DeskNames, Desk!Asked
      <4> QED
          BY <2>2, <4>2, <4>3
    <3> QED
        BY <3>1, <3>2
  <2> QED
      BY <1>2, <1>3, <2>4, <2>7, <2>8 DEF DeskInv
<1>8. CASE UNCHANGED <<page, data, deskQuery, form, told, troubles, expired>>
  <2>1. DeskPage'
      BY <1>2, <1>4, <1>8, PageStays
  <2>2. DeskNames'
      BY <1>2, <1>4, <1>8, NamesStay
  <2> QED
      BY <1>2, <1>3, <1>4, <1>8, <2>1, <2>2 DEF DeskInv
<1> QED
    BY <1>1, <1>5, <1>6, <1>7, <1>8

LEMMA DeskRefused ==
    ASSUME DeskInv, Desk!CallRefused \/ Desk!CallExpired PROVE DeskInv'
<1>1. DeskServer /\ DeskPage /\ told \subseteq done /\ DeskNames
    BY DEF DeskInv
<1>2. UNCHANGED <<record, live, done, others>> /\ calls' \subseteq calls
    BY DEF Desk!CallRefused, Desk!CallExpired
<1>3. DeskServer'
    BY <1>1, <1>2, ServerStays
<1>4. CASE Desk!CallRefused
  <2>1. UNCHANGED <<page, data, told, expired>>
      BY <1>4 DEF Desk!CallRefused
  <2>2. \/ UNCHANGED <<form, deskQuery>>
        \/ page = "reassign" /\ form' = [form EXCEPT !.chosen = 0] /\ deskQuery' = Desk!Asked
      BY <1>4 DEF Desk!CallRefused
  <2>3. 0 \in 0..NumAuditors
      BY DeskAssumption
  <2>4. form' \in DeskForm /\ form'.step = form.step
      BY <1>1, <2>2, <2>3 DEF DeskPage, DeskForm
  <2>5. DeskPage'
      BY <1>1, <1>2, <2>1, <2>2, <2>4 DEF DeskPage, Desk!Asked, Desk!Desk
  <2>6. DeskNames'
      BY <1>1, <1>2, <2>1, <2>2 DEF DeskNames
  <2> QED
      BY <1>1, <1>2, <1>3, <2>1, <2>5, <2>6 DEF DeskInv
<1>5. CASE Desk!CallExpired
  <2>1. PICK c \in calls :
          \/ Desk!Open("login") /\ told' = {}
          \/ /\ expired' = (expired \/ page = Desk!PageOf(c.kind))
             /\ UNCHANGED <<page, data, deskQuery, form, told, troubles>>
      BY <1>5 DEF Desk!CallExpired
  <2>2. CASE Desk!Open("login") /\ told' = {}
      BY <1>3, <2>2, DeskOpens DEF Desk!Away
  <2>3. CASE /\ expired' = (expired \/ page = Desk!PageOf(c.kind))
             /\ UNCHANGED <<page, data, deskQuery, form, told, troubles>>
    <3>1. Desk!PageOf(c.kind) \in Desk!Desk
        BY DEF Desk!PageOf, Desk!Desk
    <3>2. DeskPage'
        BY <1>1, <1>2, <2>3, <3>1 DEF DeskPage
    <3>3. DeskNames'
        BY <1>1, <1>2, <2>3, NamesStay
    <3> QED
        BY <1>1, <1>2, <1>3, <2>3, <3>2, <3>3 DEF DeskInv
  <2> QED
      BY <2>1, <2>2, <2>3
<1> QED
    BY <1>4, <1>5

LEMMA DeskStep == ASSUME DeskInv, Desk!DeskNext PROVE DeskInv'
<1>1. CASE Desk!ServeCall
    BY <1>1, CallServed
<1>2. CASE Desk!RefuseCall \/ Desk!Others \/ Desk!SessionLost
    BY <1>2, DeskServes
<1>3. CASE Desk!LoadServedHere \/ Desk!ShowData \/ Desk!LoadFailed \/ Desk!Reauthenticate
    BY <1>3, DeskLoads
<1>4. CASE Desk!LeaveForSignIn \/ Desk!Leave \/ Desk!SignOutInstead \/ Desk!OpenFollowUp
    BY <1>4, DeskLeaves
<1>5. CASE DeskFills
    BY <1>5, DeskFilled
<1>6. CASE DeskCalls
    BY <1>6, DeskCalled
<1>7. CASE Desk!TypeLimit
    BY <1>7, LimitTyped
<1>8. CASE Desk!CallDone
    BY <1>8, DeskAnswered
<1>9. CASE Desk!CallRefused \/ Desk!CallExpired
    BY <1>9, DeskRefused
<1> QED
    BY <1>1, <1>2, <1>3, <1>4, <1>5, <1>6, <1>7, <1>8, <1>9 DEF Desk!DeskNext, DeskFills, DeskCalls

LEMMA DeskIdle == ASSUME DeskInv, UNCHANGED deskVars PROVE DeskInv'
    BY DEF deskVars, DeskInv, DeskServer, DeskPage, DeskNames, CallOK

LEMMA DeskShown == DeskInv => DeskTruth
<1> SUFFICES ASSUME DeskInv PROVE DeskTruth
    OBVIOUS
<1>1. Desk!DeskTypeOK /\ Desk!SeenOnceRecorded
    BY DEF DeskInv, DeskServer, DeskPage, DeskForm, Desk!DeskTypeOK, Desk!SeenOnceRecorded
<1>2. Desk!SaidIsDone
    BY DEF DeskInv, DeskNames, Desk!SaidIsDone, Desk!LimitNamed
<1> QED
    BY <1>1, <1>2 DEF DeskTruth

(***************************************************************************)
(* The routes.                                                             *)
(***************************************************************************)
ClientPaths == {"/client/login", "/client/reports", "/client/reports/:reportId", "/client/messages",
                "/client/messages/new", "/client/messages/:messageId", "/client/cases"}

SignedInPaths == ClientPaths \ {"/client/login"}

\* What is so of every page.
FitsWith(path, who, call) ==
    /\ path \notin {"/status", "/case-confirmation", "/client"}
    /\ who \in {"anyone", "signed-out", "auditor", "manager", "reports", "cases", "any-client"}
    /\ path \in {"/", "/report/status", "/report/confirmation"} => who = "anyone"
    /\ path \in {"/staff/login", "/client/login"} <=> who = "signed-out"
    /\ path = "/auditor" => who = "auditor"
    /\ path = "/manager" => who = "manager"
    /\ path \in SignedInPaths <=> who \in {"reports", "cases", "any-client"}
    /\ who = "signed-out" => call = "none"
    /\ who = "anyone" /\ call # "none" => path = "/communityhub/moderation"
    /\ path = "/communityhub/moderation" => call = "clientListCaseResults"

Fits(p) == FitsWith(p.path, p.who, p.call)

LEMMA PagesFit == \A p \in Pages : Fits(p)
<1>1. \A p \in PublicPages : Fits(p)
    BY DEF PublicPages, Page, Fits, FitsWith, SignedInPaths, ClientPaths
<1>2. \A p \in AuditorPages : Fits(p)
    BY DEF AuditorPages, Page, Fits, FitsWith, SignedInPaths, ClientPaths
<1>3. \A p \in ManagerPages : Fits(p)
    BY DEF ManagerPages, Page, Fits, FitsWith, SignedInPaths, ClientPaths
<1>4. \A p \in ManagerCustomerPages : Fits(p)
    BY DEF ManagerCustomerPages, Page, Fits, FitsWith, SignedInPaths, ClientPaths
<1>5. \A p \in ClientPages : Fits(p)
    BY DEF ClientPages, Page, Fits, FitsWith, SignedInPaths, ClientPaths
<1> QED
    BY <1>1, <1>2, <1>3, <1>4, <1>5 DEF Pages

LEMMA RoutesAre ==
    /\ \A path \in DOMAIN Routes : Fits(Routes[path]) /\ Routes[path].path = path
    /\ {"/", "/report/status", "/report/confirmation", "/staff/login", "/auditor", "/manager"} \subseteq DOMAIN Routes
    /\ Paths(ClientPages) = ClientPaths /\ ClientPaths \subseteq DOMAIN Routes
<1>1. DOMAIN Routes = Paths(Pages)
    BY DEF Routes
<1>2. ASSUME NEW path \in DOMAIN Routes PROVE Fits(Routes[path]) /\ Routes[path].path = path
  <2>1. \E p \in Pages : p.path = path
      BY <1>1 DEF Paths
  <2>2. Routes[path] = CHOOSE p \in Pages : p.path = path
      BY <1>1 DEF Routes
  <2>3. Routes[path] \in Pages /\ Routes[path].path = path
      BY <2>1, <2>2
  <2> QED
      BY <2>3, PagesFit
<1>3. /\ {"/", "/report/status", "/report/confirmation", "/staff/login"} \subseteq Paths(PublicPages)
      /\ "/auditor" \in Paths(AuditorPages)
      /\ "/manager" \in Paths(ManagerPages)
    BY DEF Paths, PublicPages, AuditorPages, ManagerPages, Page
<1>4. Paths(ClientPages) = ClientPaths
    BY DEF Paths, ClientPages, ClientPaths, Page
<1>5. \A S \in {PublicPages, AuditorPages, ManagerPages, ClientPages} : Paths(S) \subseteq Paths(Pages)
    BY DEF Paths, Pages
<1> QED
    BY <1>1, <1>2, <1>3, <1>4, <1>5

(***************************************************************************)
(* The guards: whoever is sent on may stay where they are sent.            *)
(***************************************************************************)
AppRoles == UNION {Roles[s] : s \in Surfaces}

AppSession == [token : Nat, role : AppRoles]

AppSessions ==
    /\ surface \in Surfaces
    /\ session \in [Surfaces -> {NoSession} \cup AppSession]
    /\ \A s \in Surfaces : session[s] # NoSession => s = surface /\ session[s].role \in Roles[s]

\* Where a client is sent back to after the sign-in.
AppFrom == {NoPath} \cup SignedInPaths

MayStay(path) ==
    \/ path \in {"/", "/report/status", "/report/confirmation"}
    \/ path = "/staff/login" /\ Staff = NoSession
    \/ Staff # NoSession /\ Staff.role \in Roles.staff /\ path = RoleHome[Staff.role]
    \/ path = "/client/login" /\ Client = NoSession
    \/ path \in SignedInPaths /\ Client # NoSession

LEMMA Stays ==
    ASSUME NEW path, NEW from, MayStay(path) PROVE Redirect(Entry(path, from)) = NoPath
<1>0. path \in {"/", "/report/status", "/report/confirmation", "/staff/login", "/auditor", "/manager"} \cup ClientPaths
    BY DEF MayStay, RoleHome, Roles, SignedInPaths, ClientPaths
<1>1. /\ path \in DOMAIN Routes /\ Routes[path].path = path
      /\ FitsWith(path, Routes[path].who, Routes[path].call)
  <2>1. path \in DOMAIN Routes
      BY <1>0, RoutesAre
  <2> QED
      BY <2>1, RoutesAre DEF Fits
<1>2. OfClients(path) <=> path \in ClientPaths
    BY <1>1, RoutesAre DEF OfClients, FitsWith
<1>3. Entry(path, from).path = path /\ Entry(path, from).from = from
    BY DEF Entry
<1>4. CASE path \in ClientPaths
  <2>1. ClientRedirect(path, from) = NoPath
      BY <1>4, <1>1 DEF MayStay, ClientRedirect, ClientPaths, SignedInPaths, RoleHome, Roles
  <2> QED
      BY <1>1, <1>2, <1>3, <1>4, <2>1 DEF Redirect, Moved, ClientPaths
<1>5. CASE path \notin ClientPaths
  <2>1. StaffRedirect(path) = NoPath
    <3>1. CASE path \in {"/", "/report/status", "/report/confirmation"}
        BY <1>1, <3>1 DEF StaffRedirect, FitsWith, Roles
    <3>2. CASE path = "/staff/login" /\ Staff = NoSession
        BY <1>1, <3>2 DEF StaffRedirect, FitsWith, Roles
    <3>3. CASE Staff # NoSession /\ Staff.role \in Roles.staff /\ path = RoleHome[Staff.role]
      <4>1. \/ path = "/auditor" /\ Staff.role = "auditor"
            \/ path = "/manager" /\ Staff.role = "manager"
          BY <3>3 DEF Roles, RoleHome
      <4> QED
          BY <1>1, <3>3, <4>1 DEF StaffRedirect, FitsWith, Roles
    <3> QED
        BY <1>5, <3>1, <3>2, <3>3 DEF MayStay, ClientPaths, SignedInPaths
  <2> QED
      BY <1>1, <1>2, <1>3, <1>5, <2>1 DEF Redirect, Moved, FitsWith
<1> QED
    BY <1>4, <1>5

LEMMA SentOn ==
    ASSUME AppSessions, NEW e, e.from \in AppFrom, Redirect(e) # NoPath PROVE MayStay(Redirect(e))
<1>1. /\ Staff # NoSession => Staff.role \in Roles.staff
      /\ Client # NoSession => Client.role \in Roles.client
    BY DEF AppSessions, Staff, Client, Surfaces
<1>2. CASE e.path \in DOMAIN Moved
    BY <1>2 DEF Redirect, Moved, MayStay
<1>3. CASE e.path \notin DOMAIN Moved /\ OfClients(e.path)
  <2>1. Redirect(e) = ClientRedirect(e.path, e.from)
      BY <1>3 DEF Redirect
  <2>2. \A r : ClientHome(r) \in SignedInPaths
      BY DEF ClientHome, SignedInPaths, ClientPaths
  <2> QED
      BY <2>1, <2>2 DEF ClientRedirect, MayStay, AppFrom
<1>4. CASE e.path \notin DOMAIN Moved /\ ~OfClients(e.path) /\ e.path \in DOMAIN Routes
  <2>1. Redirect(e) = StaffRedirect(e.path)
      BY <1>4 DEF Redirect
  <2> QED
      BY <1>1, <2>1 DEF StaffRedirect, StaffHome, MayStay
<1>5. CASE e.path \notin DOMAIN Moved /\ ~OfClients(e.path) /\ e.path \notin DOMAIN Routes
    BY <1>5 DEF Redirect, MayStay
<1> QED
    BY <1>2, <1>3, <1>4, <1>5

LEMMA OneRedirect ==
    ASSUME AppSessions, NEW e, e.from \in AppFrom, Redirect(e) # NoPath, NEW from
    PROVE  Redirect(Entry(Redirect(e), from)) = NoPath
    BY SentOn, Stays

LEMMA SignInIsLast == ASSUME NEW e, e.from \in AppFrom, Redirect(e) = "/client/login" PROVE e.path # "/client/login"
<1> SUFFICES ASSUME e.path = "/client/login" PROVE FALSE
    OBVIOUS
<1>1. Redirect(e) = ClientRedirect(e.path, e.from)
    BY RoutesAre DEF Redirect, Moved, OfClients, ClientPaths
<1>2. \A r : ClientHome(r) # "/client/login"
    BY DEF ClientHome
<1>3. NoPath # "/client/login"
    BY PathsAssumption, RoutesAre DEF ClientPaths
<1> QED
    BY <1>1, <1>2, <1>3 DEF ClientRedirect, AppFrom, SignedInPaths

LEMMA FromIs == ASSUME NEW path, path # "/client/login" PROVE FromOf(path) \in AppFrom
    BY RoutesAre DEF FromOf, OfClients, AppFrom, SignedInPaths

(***************************************************************************)
(* The invariant of a tab.                                                 *)
(***************************************************************************)
Address == DOMAIN Routes \cup UNION {Visited[s] : s \in Surfaces}

AppEntries == [path : Address, from : AppFrom]

AppBrowser == entries \in Seq(AppEntries) /\ at \in 1..Len(entries)

AppServer ==
    /\ issued \in Nat /\ alive \subseteq 1..issued
    /\ signIns \subseteq [role : Roles[surface], token : Nat, here : BOOLEAN]

AppCalls == {Routes[path].call : path \in DOMAIN Routes}

AppAnswers == Answers \cup {[status |-> 0, body |-> "empty"]}

AppLoad ==
    [call : AppCalls, token : Nat, path : Address, role : AppRoles, heard : BOOLEAN, answer : AppAnswers,
     served : BOOLEAN]

\* A load asks for what its page may, and an answer is marked as served when it was.
LoadFits(l) ==
    /\ l \in AppLoad
    /\ l.path # "/client/messages/new" => Admits(l.call, l.role)
    /\ l.answer.status = 403 => ~Admits(l.call, l.role)
    /\ l.answer.status # 0 /\ Parse(l.answer) = "done" => l.served

\* The load of the page on screen, made with the session there is.
HeardHere(l) == l.token = session[surface].token /\ l.path = Here.path /\ l.path # "/client/login"

AppLoads == \A l \in pageLoads : LoadFits(l) /\ (l.heard => HeardHere(l))

AppClaims ==
    /\ hops \in {0, 1} /\ (hops = 1 => Settled)
    /\ ended.whose = ended.call
    /\ shown.outcome = "done" => shown.served

AppInv == AppSessions /\ AppBrowser /\ AppServer /\ AppLoads /\ AppClaims

LEMMA HereIs == ASSUME AppBrowser PROVE Here \in AppEntries
    BY ElementOfSeq DEF AppBrowser, Here

LEMMA AppStarts == AppInit => AppInv
<1> SUFFICES ASSUME AppInit PROVE AppInv
    OBVIOUS
<1>1. AppSessions
    BY DEF AppInit, AppSessions
<1>2. AppBrowser
  <2>1. Entry("/", NoPath) \in AppEntries
      BY RoutesAre DEF AppEntries, Entry, Address, AppFrom
  <2>2. entries = <<Entry("/", NoPath)>> /\ at = 1
      BY DEF AppInit, Entry
  <2>3. <<Entry("/", NoPath)>> \in Seq(AppEntries) /\ Len(<<Entry("/", NoPath)>>) = 1
      BY <2>1
  <2> QED
      BY <2>2, <2>3 DEF AppBrowser
<1>3. AppServer /\ AppLoads /\ AppClaims
    BY DEF AppInit, AppServer, AppLoads, AppClaims, NothingShown
<1> QED
    BY <1>1, <1>2, <1>3 DEF AppInv

LEMMA Replaced ==
    ASSUME AppBrowser, NEW e \in AppEntries, entries' = [entries EXCEPT ![at] = e], at' = at
    PROVE  AppBrowser' /\ Here' = e
<1>1. entries \in Seq(AppEntries) /\ at \in 1..Len(entries)
    BY DEF AppBrowser
<1>2. entries' \in Seq(AppEntries) /\ Len(entries') = Len(entries) /\ entries'[at] = e
    BY <1>1, ExceptSeq
<1> QED
    BY <1>1, <1>2 DEF AppBrowser, Here

LEMMA Pushed ==
    ASSUME AppBrowser, NEW e \in AppEntries, entries' = Append(SubSeq(entries, 1, at), e), at' = at + 1
    PROVE  AppBrowser'
<1>1. entries \in Seq(AppEntries) /\ at \in 1..Len(entries) /\ Len(entries) \in Nat
    BY LenProperties DEF AppBrowser
<1>2. \A i \in 1..at : entries[i] \in AppEntries
    BY <1>1, ElementOfSeq
<1>3. SubSeq(entries, 1, at) \in Seq(AppEntries) /\ Len(SubSeq(entries, 1, at)) = at
    BY <1>1, <1>2, SubSeqProperties
<1>4. entries' \in Seq(AppEntries) /\ Len(entries') = at + 1
    BY <1>3, AppendProperties
<1> QED
    BY <1>1, <1>4 DEF AppBrowser

LEMMA UnheardIs ==
    ASSUME NEW l, LoadFits(l) PROVE LoadFits(Unheard(l)) /\ ~Unheard(l).heard
<1>1. Unheard(l) \in AppLoad /\ Unheard(l).heard = FALSE
    BY DEF LoadFits, AppLoad, Unheard
<1>2. /\ Unheard(l).call = l.call /\ Unheard(l).path = l.path /\ Unheard(l).role = l.role
      /\ Unheard(l).answer = l.answer /\ Unheard(l).served = l.served
    BY DEF LoadFits, AppLoad, Unheard
<1> QED
    BY <1>1, <1>2 DEF LoadFits

\* Whatever happens to the page, a load that is not heard any more is no claim.
LEMMA UnheardAre ==
    ASSUME AppLoads, pageLoads' = {Unheard(l) : l \in pageLoads} PROVE AppLoads'
<1>1. ASSUME NEW l \in pageLoads PROVE LoadFits(Unheard(l)) /\ ~Unheard(l).heard
    BY UnheardIs DEF AppLoads
<1> QED
    BY <1>1 DEF AppLoads, LoadFits

LEMMA SignInsLeft ==
    ASSUME AppServer, NEW S \in SUBSET signIns, signIns' = {[s EXCEPT !.here = FALSE] : s \in S},
           UNCHANGED <<surface, issued, alive>>
    PROVE  AppServer'
    BY DEF AppServer

LEMMA Unmounts ==
    ASSUME AppInv, Unmount, UNCHANGED <<surface, issued, alive>>
    PROVE  AppServer' /\ AppLoads' /\ (shown'.outcome = "done" => shown'.served)
<1>1. AppServer /\ AppLoads
    BY DEF AppInv
<1>2. AppLoads'
    BY <1>1, UnheardAre DEF Unmount
<1>3. AppServer'
    BY <1>1, SignInsLeft DEF Unmount
<1> QED
    BY <1>2, <1>3 DEF Unmount, NothingShown

\* Whoever is shown a page is signed in as one it is for.
LEMMA SignedInIs ==
    ASSUME AppInv
    PROVE  /\ Staff # NoSession => /\ surface = "staff" /\ session[surface] = Staff
                                   /\ Staff \in AppSession /\ Staff.role \in Roles.staff
           /\ Client # NoSession => /\ surface = "client" /\ session[surface] = Client
                                    /\ Client \in AppSession /\ Client.role \in Roles.client
    BY DEF AppInv, AppSessions, Staff, Client, Surfaces

LEMMA NoRedirects ==
    /\ NoPath \notin {"/", "/report/status", "/report/confirmation", "/staff/login", "/auditor", "/manager"}
    /\ NoPath \notin ClientPaths
    BY PathsAssumption, RoutesAre

LEMMA SettledIs ==
    ASSUME AppInv, Settled PROVE Here.path \in DOMAIN Routes /\ Here.path \notin DOMAIN Moved
<1> DEFINE p == Here.path
<1>1. Redirect(Here) = NoPath
    BY DEF Settled
<1>2. p \notin DOMAIN Moved
    BY <1>1, NoRedirects DEF Redirect, Moved
<1>3. CASE OfClients(p)
  <2>1. ClientRedirect(p, Here.from) = NoPath
      BY <1>1, <1>2, <1>3 DEF Redirect
  <2>2. \A r : ClientHome(r) \in ClientPaths
      BY DEF ClientHome, ClientPaths
  <2>3. p # "/client"
      BY <2>1, <2>2, NoRedirects DEF ClientRedirect, ClientPaths
  <2> QED
      BY <1>2, <1>3, <2>3, RoutesAre DEF OfClients
<1>4. CASE ~OfClients(p)
    BY <1>1, <1>2, <1>4, NoRedirects DEF Redirect
<1> QED
    BY <1>2, <1>3, <1>4

LEMMA WhoIsLetIn ==
    /\ LetIn("any-client") = Roles.client
    /\ \A who \in {"reports", "cases"} : LetIn(who) = ClientSections[who]
    /\ \A who \in {"auditor", "manager"} : who \in LetIn(who)
<1>1. /\ DOMAIN ClientSections = {"reports", "cases"} /\ Roles.staff = {"auditor", "manager"}
      /\ "any-client" \notin {"reports", "cases", "auditor", "manager"}
      /\ {"reports", "cases"} \cap {"auditor", "manager"} = {}
    BY DEF ClientSections, Roles
<1>2. ASSUME NEW who \in {"reports", "cases"} PROVE LetIn(who) = ClientSections[who]
  <2>1. who \in DOMAIN ClientSections /\ who # "any-client" /\ who \notin Roles.staff
      BY <1>1
  <2> QED
      BY <2>1, Zenon DEF LetIn
<1>3. ASSUME NEW who \in {"auditor", "manager"} PROVE who \in LetIn(who)
  <2>1. who \in Roles.staff /\ who # "any-client" /\ who \notin DOMAIN ClientSections
      BY <1>1
  <2>2. LetIn(who) = {who}
      BY <2>1, Zenon DEF LetIn
  <2> QED
      BY <2>2
<1>4. LetIn("any-client") = Roles.client
  <2>1. "any-client" \notin Roles.staff /\ "any-client" \notin DOMAIN ClientSections
      BY <1>1
  <2> QED
      BY <2>1, Zenon DEF LetIn
<1> QED
    BY <1>2, <1>3, <1>4

LEMMA OpenedIs ==
    ASSUME AppInv, Opened, Routes[Here.path].call # "none"
    PROVE  /\ Here.path \in DOMAIN Routes /\ Here.path # "/client/login"
           /\ session[surface] \in AppSession
           /\ Here.path # "/client/messages/new" => Admits(Routes[Here.path].call, session[surface].role)
<1> DEFINE p == Here.path
           r == Routes[p]
           role == session[surface].role
<1>1. Settled /\ Redirect(Here) = NoPath
    BY DEF Opened, Settled
<1>2. p \in DOMAIN Routes /\ p \notin DOMAIN Moved
    BY <1>1, SettledIs
<1>3. FitsWith(p, r.who, r.call) /\ r.call # "none"
    BY <1>2, RoutesAre DEF Fits
<1>4. p # "/client/login"
    BY <1>3 DEF FitsWith
<1>5. p # "/client/messages/new" => \A x \in LetIn(r.who) : Admits(r.call, x)
    BY <1>2, GuardsFitTheCalls
<1> HIDE DEF r, role
<1>6. CASE r.who = "anyone"
  <2>1. p = "/communityhub/moderation" /\ r.call = "clientListCaseResults"
      BY <1>3, <1>6 DEF FitsWith
  <2>2. Client # NoSession /\ Client.role \in ClientSections.cases
      BY <2>1 DEF Opened
  <2>3. session[surface] \in AppSession /\ session[surface].role \in ClientSections.cases
      BY <2>2, SignedInIs
  <2>4. Admits(r.call, session[surface].role)
      BY <2>1, <2>3, GuardsFitTheCalls DEF r
  <2> QED
      BY <1>2, <1>4, <2>3, <2>4 DEF r
<1>7. CASE r.who \in {"auditor", "manager"}
  <2>1. ~OfClients(p) /\ p # "/staff/login"
      BY <1>3, <1>4, <1>7, RoutesAre DEF FitsWith, OfClients, SignedInPaths
  <2>2. StaffRedirect(p) = NoPath
      BY <1>1, <1>2, <2>1 DEF Redirect
  <2>3. Staff # NoSession /\ Staff.role = r.who
    <3>1. Staff # NoSession
        BY <1>7, <2>1, <2>2, NoRedirects DEF StaffRedirect, Roles, r
    <3>2. Staff.role \in {"auditor", "manager"}
        BY <3>1, SignedInIs DEF Roles
    <3>3. RoleHome[Staff.role] # NoPath
        BY <3>2, NoRedirects DEF RoleHome
    <3> QED
        BY <1>7, <2>1, <2>2, <3>1, <3>3 DEF StaffRedirect, Roles, r
  <2>4. session[surface] \in AppSession /\ session[surface].role = r.who
      BY <2>3, SignedInIs
  <2>5. r.who \in LetIn(r.who)
      BY <1>7, WhoIsLetIn
  <2> QED
      BY <1>2, <1>4, <1>5, <2>4, <2>5 DEF r
<1>8. CASE r.who \in {"reports", "cases", "any-client"}
  <2>1. OfClients(p) /\ p # "/client/login" /\ p # "/client"
      BY <1>3, <1>8, RoutesAre DEF FitsWith, OfClients, SignedInPaths
  <2>2. ClientRedirect(p, Here.from) = NoPath
      BY <1>1, <1>2, <2>1 DEF Redirect
  <2>3. Client # NoSession
      BY <2>1, <2>2, NoRedirects DEF ClientRedirect, ClientPaths
  <2>4. session[surface] \in AppSession /\ session[surface] = Client /\ Client.role \in Roles.client
      BY <2>3, SignedInIs
  <2>5. Client.role \in LetIn(r.who)
    <3>1. CASE r.who = "any-client"
        BY <2>4, <3>1, WhoIsLetIn
    <3>2. CASE r.who \in {"reports", "cases"}
      <4>1. Client.role \in ClientSections[r.who]
          BY <3>2 DEF Opened, ClientSections, r
      <4> QED
          BY <3>2, <4>1, WhoIsLetIn
    <3> QED
        BY <1>8, <3>1, <3>2
  <2> QED
      BY <1>2, <1>4, <1>5, <2>4, <2>5 DEF r
<1> QED
    BY <1>3, <1>6, <1>7, <1>8 DEF FitsWith

\* What stands while the address and the sessions do.
LEMMA SettledStays ==
    ASSUME UNCHANGED <<entries, at, session>> PROVE Settled' = Settled /\ Here' = Here
    BY DEF Settled, Here, Redirect, ClientRedirect, StaffRedirect, StaffHome, Staff, Client

LEMMA RedirectIs ==
    ASSUME UNCHANGED session, NEW e PROVE Redirect(e)' = Redirect(e)
    BY DEF Redirect, ClientRedirect, StaffRedirect, StaffHome, Staff, Client

\* The page is left, and nothing else but the address or the session changes.
LEMMA PageIsLeft ==
    ASSUME AppInv, Unmount, UNCHANGED <<surface, issued, alive, ended>>, AppSessions', AppBrowser', hops' = 0
    PROVE  AppInv'
<1>1. AppServer' /\ AppLoads' /\ (shown'.outcome = "done" => shown'.served)
    BY Unmounts
<1>2. AppClaims'
    BY <1>1 DEF AppInv, AppClaims
<1> QED
    BY <1>1, <1>2 DEF AppInv

LEMMA AppFollows ==
    ASSUME AppInv, Follow \/ Back PROVE AppInv'
<1>1. UNCHANGED <<surface, session, issued, alive, ended>> /\ Unmount /\ hops' = 0
    BY DEF Follow, Back, Push
<1>2. AppSessions' /\ AppBrowser /\ surface \in Surfaces
    BY <1>1 DEF AppInv, AppSessions
<1>3. AppBrowser'
  <2>1. CASE Follow
    <3>1. PICK p \in Visited[surface] : entries' = Append(SubSeq(entries, 1, at), Entry(p, NoPath)) /\ at' = at + 1
        BY <2>1 DEF Follow, Push
    <3>2. Entry(p, NoPath) \in AppEntries
        BY <1>2, <3>1 DEF AppEntries, Entry, Address, AppFrom
    <3> QED
        BY <1>2, <3>1, <3>2, Pushed
  <2>2. CASE Back
      BY <1>2, <2>2, LenProperties DEF Back, AppBrowser
  <2> QED
      BY <2>1, <2>2
<1> QED
    BY <1>1, <1>2, <1>3, PageIsLeft

LEMMA AppRedirects ==
    ASSUME AppInv, FollowRedirect PROVE AppInv'
<1>1. /\ ~Settled /\ hops' = hops + 1 /\ UNCHANGED <<surface, session, issued, alive, ended>> /\ Unmount /\ at' = at
    BY DEF FollowRedirect, Replace
<1>2. AppSessions /\ AppSessions' /\ AppBrowser
    BY <1>1 DEF AppInv, AppSessions
<1>3. Here \in AppEntries /\ Here.from \in AppFrom /\ Redirect(Here) # NoPath
    BY <1>1, <1>2, HereIs DEF AppEntries, Settled
<1>4. PICK to : to = Redirect(Here)
    OBVIOUS
<1>5. to \in DOMAIN Routes
  <2>1. MayStay(to)
      BY <1>2, <1>3, <1>4, SentOn
  <2>2. to \in {"/", "/report/status", "/report/confirmation", "/staff/login", "/auditor", "/manager"} \cup ClientPaths
      BY <2>1 DEF MayStay, RoleHome, Roles, SignedInPaths, ClientPaths
  <2> QED
      BY <2>2, RoutesAre
<1>6. PICK e : e = Entry(to, IF to = "/client/login" THEN FromOf(Here.path) ELSE NoPath)
    OBVIOUS
<1>7. e \in AppEntries
  <2>1. to = "/client/login" => FromOf(Here.path) \in AppFrom
      BY <1>3, <1>4, SignInIsLast, FromIs
  <2> QED
      BY <1>5, <1>6, <2>1 DEF AppEntries, Entry, Address, AppFrom
<1>8. entries' = [entries EXCEPT ![at] = e]
    BY <1>4, <1>6 DEF FollowRedirect, Replace
<1>9. AppBrowser' /\ Here' = e
    BY <1>1, <1>2, <1>7, <1>8, Replaced
<1>10. Settled'
  <2>1. Redirect(e) = NoPath
      BY <1>2, <1>3, <1>4, <1>6, OneRedirect
  <2>2. Redirect(e)' = Redirect(e)
      BY <1>1, RedirectIs
  <2> QED
      BY <1>9, <2>1, <2>2 DEF Settled
<1>11. hops = 0
    BY <1>1 DEF AppInv, AppClaims
<1>12. AppServer' /\ AppLoads' /\ (shown'.outcome = "done" => shown'.served)
    BY <1>1, Unmounts
<1>13. AppClaims'
    BY <1>1, <1>10, <1>11, <1>12 DEF AppInv, AppClaims
<1> QED
    BY <1>2, <1>9, <1>12, <1>13 DEF AppInv

\* The session is over, and the page with it.
LEMMA SessionEnds ==
    ASSUME AppInv, session' = [session EXCEPT ![surface] = NoSession], UNCHANGED surface
    PROVE  AppSessions'
    BY DEF AppInv, AppSessions

LEMMA EndsAtSignIn ==
    ASSUME AppInv, EndSession, Here.path # "/client/login" PROVE AppBrowser' /\ Unmount
<1>1. PICK from \in {NoPath, FromOf(Here.path)} :
        Replace(Entry(IF surface = "staff" THEN "/staff/login" ELSE "/client/login", from))
    BY DEF EndSession
<1>2. from \in AppFrom
    BY <1>1, FromIs DEF AppFrom
<1>3. PICK e : e = Entry(IF surface = "staff" THEN "/staff/login" ELSE "/client/login", from)
    OBVIOUS
<1>4. e \in AppEntries
    BY <1>2, <1>3, RoutesAre DEF AppEntries, Entry, Address, ClientPaths
<1> QED
    BY <1>1, <1>3, <1>4, Replaced DEF AppInv, Replace

LEMMA AppSignsOut ==
    ASSUME AppInv, SignOut PROVE AppInv'
<1>1. Settled /\ hops' = 0 /\ UNCHANGED <<surface, issued, alive, ended>>
    BY DEF SignOut
<1>2. session' = [session EXCEPT ![surface] = NoSession]
    BY DEF SignOut, EndSession
<1>3. AppSessions'
    BY <1>1, <1>2, SessionEnds
<1>4. AppBrowser' /\ Unmount
  <2>1. CASE /\ Routes[Here.path].who \in Roles.staff \cup DOMAIN ClientSections \cup {"any-client"}
             /\ EndSession
    <3>1. Routes[Here.path].who # "signed-out"
        BY <2>1 DEF Roles, ClientSections
    <3>2. Here.path # "/client/login"
        BY <1>1, <3>1, SettledIs, RoutesAre DEF Fits, FitsWith
    <3> QED
        BY <2>1, <3>2, EndsAtSignIn
  <2>2. CASE Unmount /\ UNCHANGED <<entries, at>>
      BY <2>2 DEF AppInv, AppBrowser
  <2> QED
      BY <2>1, <2>2 DEF SignOut
<1> QED
    BY <1>1, <1>3, <1>4, PageIsLeft

LEMMA AppExpires ==
    ASSUME AppInv, LoadExpired PROVE AppInv'
<1>1. PICK l \in pageLoads :
        /\ l.heard /\ ended' = [whose |-> session[surface].token, call |-> l.token] /\ EndSession
    BY DEF LoadExpired
<1>2. hops' = 0 /\ UNCHANGED <<surface, issued, alive>>
    BY DEF LoadExpired
<1>3. l.token = session[surface].token /\ Here.path # "/client/login"
    BY <1>1 DEF AppInv, AppLoads, HeardHere
<1>4. AppSessions'
    BY <1>1, <1>2, SessionEnds DEF EndSession
<1>5. AppBrowser' /\ Unmount
    BY <1>1, <1>3, EndsAtSignIn
<1>6. AppServer' /\ AppLoads' /\ (shown'.outcome = "done" => shown'.served)
    BY <1>2, <1>5, Unmounts
<1>7. AppClaims'
    BY <1>1, <1>2, <1>3, <1>6 DEF AppClaims
<1> QED
    BY <1>4, <1>5, <1>6, <1>7 DEF AppInv

\* What is heard stays heard while the address and the sessions stand.
LEMMA LoadsStay ==
    ASSUME AppLoads, UNCHANGED <<surface, entries, at, session>>,
           \A l \in pageLoads' : LoadFits(l) /\ (l.heard => l \in pageLoads \/ HeardHere(l))
    PROVE  AppLoads'
    BY SettledStays DEF AppLoads, LoadFits, HeardHere

LEMMA SessionsStay ==
    ASSUME AppSessions, AppBrowser, UNCHANGED <<surface, entries, at, session>>
    PROVE  AppSessions' /\ AppBrowser'
    BY DEF AppSessions, AppBrowser

LEMMA AppSignsIn ==
    ASSUME AppInv, SubmitSignIn \/ ServeSignIn \/ NotSignedIn \/ Restart PROVE AppInv'
<1>1. /\ UNCHANGED <<surface, entries, at, session, pageLoads, shown, ended>>
      /\ hops' \in {0, hops}
    BY DEF SubmitSignIn, ServeSignIn, NotSignedIn, Restart
<1>2. AppSessions' /\ AppBrowser'
    BY <1>1, SessionsStay DEF AppInv
<1>3. AppLoads'
    BY <1>1, LoadsStay DEF AppInv, AppLoads
<1>4. AppClaims'
    BY <1>1, SettledStays DEF AppInv, AppClaims
<1>5. AppServer'
  <2>1. CASE SubmitSignIn
    <3>1. PICK r \in Roles[surface] : signIns' = signIns \cup {[role |-> r, token |-> 0, here |-> TRUE]}
        BY <2>1 DEF SubmitSignIn
    <3>2. UNCHANGED <<issued, alive>>
        BY <2>1 DEF SubmitSignIn
    <3>3. PICK S : S = [role : Roles[surface], token : Nat, here : BOOLEAN]
        OBVIOUS
    <3>4. [role |-> r, token |-> 0, here |-> TRUE] \in S /\ signIns \subseteq S
        BY <3>1, <3>3 DEF AppInv, AppServer
    <3>5. signIns' \subseteq [role : Roles[surface'], token : Nat, here : BOOLEAN]
        BY <1>1, <3>1, <3>3, <3>4
    <3> QED
        BY <3>2, <3>5 DEF AppInv, AppServer
  <2>2. CASE ServeSignIn
    <3>1. PICK s \in signIns :
            issued' = issued + 1 /\ alive' = alive \cup {issued'}
              /\ signIns' = (signIns \ {s}) \cup {[s EXCEPT !.token = issued']}
        BY <2>2 DEF ServeSignIn
    <3>2. issued' \in Nat /\ alive' \subseteq 1..issued'
        BY <3>1 DEF AppInv, AppServer
    <3>3. [s EXCEPT !.token = issued'] \in [role : Roles[surface], token : Nat, here : BOOLEAN]
        BY <3>2 DEF AppInv, AppServer
    <3> QED
        BY <1>1, <3>1, <3>2, <3>3 DEF AppInv, AppServer
  <2>3. CASE NotSignedIn
      BY <2>3 DEF NotSignedIn, AppInv, AppServer
  <2>4. CASE Restart
      BY <2>4 DEF Restart, AppInv, AppServer
  <2> QED
      BY <2>1, <2>2, <2>3, <2>4
<1> QED
    BY <1>2, <1>3, <1>4, <1>5 DEF AppInv

LEMMA AppSignedIn ==
    ASSUME AppInv, SignedIn PROVE AppInv'
<1>1. PICK s \in signIns :
        /\ session' = [session EXCEPT ![surface] = [token |-> s.token, role |-> s.role]]
        /\ IF surface = "staff"
           THEN entries' = [entries EXCEPT ![at] = Entry(StaffHome(s.role), NoPath)]
           ELSE entries' = entries
        /\ signIns' = {[t EXCEPT !.here = FALSE] : t \in signIns \ {s}}
    BY DEF SignedIn
<1>2. /\ UNCHANGED <<surface, at, issued, alive, ended>> /\ shown' = NothingShown /\ hops' = 0
      /\ pageLoads' = {Unheard(l) : l \in pageLoads}
    BY DEF SignedIn
<1>3. AppSessions /\ AppBrowser /\ surface \in Surfaces /\ s.role \in Roles[surface] /\ s.token \in Nat
    BY DEF AppInv, AppSessions, AppServer
<1>4. AppSessions'
  <2>1. [token |-> s.token, role |-> s.role] \in AppSession
      BY <1>3 DEF AppSession, AppRoles
  <2> QED
      BY <1>1, <1>2, <1>3, <2>1 DEF AppSessions
<1>5. AppBrowser'
  <2>1. CASE surface = "staff"
    <3>1. PICK e : e = Entry(StaffHome(s.role), NoPath)
        OBVIOUS
    <3>2. StaffHome(s.role) \in {"/auditor", "/manager"}
        BY <1>3, <2>1 DEF StaffHome, Roles, RoleHome
    <3>3. e \in AppEntries
        BY <3>1, <3>2, RoutesAre DEF AppEntries, Entry, Address, AppFrom
    <3> QED
        BY <1>1, <1>2, <1>3, <2>1, <3>1, <3>3, Replaced
  <2>2. CASE surface # "staff"
      BY <1>1, <1>2, <1>3, <2>2 DEF AppBrowser
  <2> QED
      BY <2>1, <2>2
<1>6. AppServer' /\ AppLoads'
    BY <1>1, <1>2, UnheardAre, SignInsLeft DEF AppInv
<1>7. AppClaims'
    BY <1>2 DEF AppInv, AppClaims, NothingShown
<1> QED
    BY <1>4, <1>5, <1>6, <1>7 DEF AppInv

LEMMA AppLoadsPage ==
    ASSUME AppInv, Load PROVE AppInv'
<1>1. /\ Opened /\ Routes[Here.path].call # "none" /\ hops' = 0
      /\ UNCHANGED <<surface, entries, at, session, issued, alive, signIns, shown, ended>>
    BY DEF Load
<1>2. PICK l : l = [call |-> Routes[Here.path].call, token |-> session[surface].token, path |-> Here.path,
                    role |-> session[surface].role, heard |-> TRUE, answer |-> [status |-> 0, body |-> "empty"],
                    served |-> FALSE]
    OBVIOUS
<1>3. pageLoads' = {Unheard(k) : k \in pageLoads} \cup {l}
    BY <1>2 DEF Load
<1>4. /\ Here.path \in DOMAIN Routes /\ Here.path # "/client/login" /\ session[surface] \in AppSession
      /\ Here.path # "/client/messages/new" => Admits(Routes[Here.path].call, session[surface].role)
    BY <1>1, OpenedIs
<1>5. LoadFits(l) /\ HeardHere(l)
  <2>1. l \in AppLoad
      BY <1>2, <1>4 DEF AppLoad, AppSession, Address, AppCalls, AppAnswers
  <2>2. l.answer.status = 0
      BY <1>2
  <2> QED
      BY <1>2, <1>4, <2>1, <2>2 DEF LoadFits, HeardHere
<1>6. ASSUME NEW k \in pageLoads PROVE LoadFits(Unheard(k)) /\ ~Unheard(k).heard
    BY UnheardIs DEF AppInv, AppLoads
<1>7. AppLoads'
    BY <1>1, <1>3, <1>5, <1>6, LoadsStay DEF AppInv
<1>8. AppSessions' /\ AppBrowser' /\ AppServer' /\ AppClaims'
    BY <1>1, SessionsStay DEF AppInv, AppServer, AppClaims
<1> QED
    BY <1>7, <1>8 DEF AppInv

LEMMA AppServes ==
    ASSUME AppInv, LoadServed PROVE AppInv'
<1>1. PICK l \in pageLoads : l.answer.status = 0 /\ ServePageLoad(l)
    BY DEF LoadServed
<1>2. PICK a \in Answers :
      /\ \/ /\ a.body = "json"
            /\ a.status \in (IF l.token \notin alive THEN {401}
                             ELSE IF ~Admits(l.call, l.role) THEN {403} ELSE {200, 404})
         \/ a.body = "page" /\ a.status \in {200, 502}
      /\ pageLoads' = (pageLoads \ {l})
           \cup {[l EXCEPT !.answer = a, !.served = a.status = 200 /\ a.body = "json"]}
    BY <1>1 DEF ServePageLoad
<1>3. UNCHANGED <<surface, entries, at, session, issued, alive, signIns, shown, hops, ended>>
    BY <1>1 DEF ServePageLoad
<1>4. LoadFits(l) /\ (l.heard => HeardHere(l))
    BY DEF AppInv, AppLoads
<1>5. PICK b \in BOOLEAN : b = (a.status = 200 /\ a.body = "json")
    OBVIOUS
<1>6. PICK k : k = [l EXCEPT !.answer = a, !.served = b]
    OBVIOUS
<1>7. /\ k \in AppLoad /\ k.call = l.call /\ k.token = l.token /\ k.path = l.path /\ k.role = l.role
      /\ k.heard = l.heard /\ k.answer = a /\ k.served = b
  <2>1. a \in AppAnswers
      BY DEF AppAnswers
  <2>2. PICK j : j = [l EXCEPT !.answer = a]
      OBVIOUS
  <2>3. /\ j \in AppLoad /\ j.call = l.call /\ j.token = l.token /\ j.path = l.path /\ j.role = l.role
        /\ j.heard = l.heard /\ j.answer = a
      BY <1>4, <2>1, <2>2 DEF LoadFits, AppLoad
  <2>4. k = [j EXCEPT !.served = b]
      BY <1>6, <2>2, Zenon
  <2> QED
      BY <2>3, <2>4 DEF AppLoad
<1>8. a.status = 403 => ~Admits(l.call, l.role)
    BY <1>2
<1>9. Parse(a) = "done" => b
    BY <1>2, <1>5 DEF Parse, Ok, Answers
<1>10. LoadFits(k) /\ (k.heard => HeardHere(k))
    BY <1>4, <1>7, <1>8, <1>9 DEF LoadFits, HeardHere
<1>11. pageLoads' = (pageLoads \ {l}) \cup {k}
    BY <1>2, <1>5, <1>6
<1>12. AppLoads'
    BY <1>3, <1>10, <1>11, LoadsStay DEF AppInv, AppLoads
<1>13. AppSessions' /\ AppBrowser' /\ AppServer' /\ AppClaims'
    BY <1>3, SessionsStay, SettledStays DEF AppInv, AppServer, AppClaims
<1> QED
    BY <1>12, <1>13 DEF AppInv

LEMMA AppHears ==
    ASSUME AppInv, LoadHeard \/ LoadDropped PROVE AppInv'
<1>1. /\ UNCHANGED <<surface, entries, at, session, issued, alive, signIns, ended>> /\ hops' = 0
      /\ pageLoads' \subseteq pageLoads
    BY DEF LoadHeard, LoadDropped
<1>2. shown'.outcome = "done" => shown'.served
  <2>1. CASE LoadHeard
    <3>1. PICK l \in pageLoads : l.answer.status # 0 /\ shown' = [outcome |-> Parse(l.answer), served |-> l.served]
        BY <2>1 DEF LoadHeard
    <3> QED
        BY <3>1 DEF AppInv, AppLoads, LoadFits
  <2>2. CASE LoadDropped
      BY <2>2 DEF LoadDropped, AppInv, AppClaims
  <2> QED
      BY <2>1, <2>2
<1>3. AppLoads'
    BY <1>1, LoadsStay DEF AppInv, AppLoads
<1>4. AppSessions' /\ AppBrowser' /\ AppServer' /\ AppClaims'
    BY <1>1, <1>2, SessionsStay DEF AppInv, AppServer, AppClaims
<1> QED
    BY <1>3, <1>4 DEF AppInv

LEMMA AppStep == ASSUME AppInv, AppNext PROVE AppInv'
    BY AppFollows, AppRedirects, AppSignsIn, AppSignedIn, AppSignsOut, AppLoadsPage, AppServes, AppHears, AppExpires
       DEF AppNext

LEMMA AppIdle == ASSUME AppInv, UNCHANGED appVars PROVE AppInv'
<1>1. UNCHANGED <<surface, entries, at, session, issued, alive, signIns, pageLoads, shown, hops, ended>>
    BY DEF appVars
<1>2. AppLoads'
    BY <1>1, LoadsStay DEF AppInv, AppLoads
<1> QED
    BY <1>1, <1>2, SessionsStay, SettledStays DEF AppInv, AppServer, AppClaims

LEMMA AppShown == AppInv => AppTruth
<1> SUFFICES ASSUME AppInv PROVE AppTruth
    OBVIOUS
<1>1. AppTypeOK
  <2>1. \A i \in DOMAIN entries : entries[i].from \in AppFrom
    <3>1. entries \in Seq(AppEntries) /\ DOMAIN entries = 1..Len(entries)
        BY LenProperties DEF AppInv, AppBrowser
    <3>2. \A i \in 1..Len(entries) : entries[i] \in AppEntries
        BY <3>1, ElementOfSeq
    <3> QED
        BY <3>1, <3>2 DEF AppEntries
  <2>2. \A f \in AppFrom : f = NoPath \/ OfClients(f)
      BY RoutesAre DEF AppFrom, SignedInPaths, OfClients
  <2> QED
      BY <2>1, <2>2 DEF AppInv, AppBrowser, AppSessions, AppServer, AppTypeOK
<1>2. RedirectsSettle /\ EndsItsOwnSession /\ ShownWasServed
    BY DEF AppInv, AppClaims, RedirectsSettle, EndsItsOwnSession, ShownWasServed
<1>3. NobodyIsTurnedAway
    BY DEF AppInv, AppLoads, LoadFits, NobodyIsTurnedAway
<1> QED
    BY <1>1, <1>2, <1>3 DEF AppTruth

(***************************************************************************)
(* The lists. Whatever is in the section that is turned: the rows above a  *)
(* row number it, and the slices of the pages hold each number once.       *)
(***************************************************************************)
LEMMA SameSize ==
    /\ \A S : Listing!Cardinality(S) = Cardinality(S)
    /\ \A S : Listing!IsFiniteSet(S) <=> IsFiniteSet(S)
    BY DEF Listing!Cardinality, Cardinality, Listing!IsFiniteSet, IsFiniteSet

\* The numbers of rows in order: every one below how many there are.
LEMMA NumbersAre ==
    ASSUME NEW S, IsFiniteSet(S), NEW Above \in [S -> SUBSET S],
           \A i \in S : i \notin Above[i],
           \A i, j \in S : i # j => i \in Above[j] \/ j \in Above[i],
           \A i, j \in S : i \in Above[j] => Above[i] \subseteq Above[j]
    PROVE  \A n \in 0..(Cardinality(S) - 1) : \E i \in S : Cardinality(Above[i]) = n
<1> DEFINE f == [i \in S |-> Cardinality(Above[i])]
           T == 0..(Cardinality(S) - 1)
<1>1. \A i \in S : IsFiniteSet(Above[i]) /\ Cardinality(Above[i]) \in Nat
    BY FS_Subset, FS_CardinalityType
<1>c. Cardinality(S) \in Nat
    BY FS_CardinalityType
<1>2. ASSUME NEW A \in SUBSET S, NEW B \in SUBSET A, NEW x \in A, x \notin B
      PROVE  Cardinality(B) < Cardinality(A)
  <2>1. IsFiniteSet(A) /\ Cardinality(A) \in Nat /\ Cardinality(B) \in Nat
      BY FS_Subset, FS_CardinalityType
  <2>2. Cardinality(B) <= Cardinality(A) /\ Cardinality(B) # Cardinality(A)
      BY <1>2, <2>1, FS_Subset
  <2> QED
      BY <2>1, <2>2
<1>3. \A i \in S : Cardinality(Above[i]) \in T
  <2> TAKE i \in S
  <2>1. Cardinality(Above[i]) < Cardinality(S)
      BY <1>2
  <2> QED
      BY <1>1, <1>c, <2>1
<1>4. ASSUME NEW i \in S, NEW j \in S, i # j PROVE f[i] # f[j]
  <2>1. ASSUME NEW k \in S, NEW l \in S, k \in Above[l] PROVE Cardinality(Above[k]) < Cardinality(Above[l])
      BY <1>2, <2>1
  <2>2. Cardinality(Above[i]) # Cardinality(Above[j])
    <3>1. Cardinality(Above[i]) < Cardinality(Above[j]) \/ Cardinality(Above[j]) < Cardinality(Above[i])
        BY <1>4, <2>1
    <3> QED
        BY <1>1, <3>1
  <2> QED
      BY <2>2
<1>5. f \in Injection(S, T)
    BY <1>3, <1>4 DEF Injection, IsInjective
<1>6. IsFiniteSet(T) /\ Cardinality(T) = Cardinality(S)
    BY <1>c, FS_Interval
<1> HIDE DEF f, T
<1>7. f \in Surjection(S, T)
    BY <1>5, <1>6, FS_Injection
<1> QED
    BY <1>7 DEF Surjection, f, T

\* How many pages of size z there are for c rows.
LEMMA PagesOf ==
    ASSUME NEW c \in Nat, NEW z \in Nat, z # 0, c # 0
    PROVE  LET l == (c + z - 1) \div z IN
           l \in 1..c /\ (l - 1) * z < c /\ c <= l * z
<1> DEFINE l == (c + z - 1) \div z
<1>1. l \in Nat /\ l * z <= c + z - 1 /\ c + z - 1 < (l + 1) * z
    OBVIOUS
<1> HIDE DEF l
<1>2. (l + 1) * z = l * z + z /\ (l - 1) * z = l * z - z
    BY <1>1
<1>3. (l - 1) * z < c /\ c <= l * z /\ l * z \in Nat
    BY <1>1, <1>2
<1>4. l # 0
    BY <1>3
<1>5. l <= c
  <2> SUFFICES ASSUME l > c PROVE FALSE
      BY <1>1
  <2>1. c * z <= (l - 1) * z
      BY <1>1
  <2>2. c <= c * z
      OBVIOUS
  <2> QED
      BY <1>1, <1>3, <2>1, <2>2
<1> QED
    BY <1>1, <1>3, <1>4, <1>5 DEF l

\* The number a is on one page of l.
LEMMA SliceOf ==
    ASSUME NEW l \in Nat, NEW z \in Nat, z # 0, NEW a \in Nat, a < l * z
    PROVE  \E p \in 1..l : \A q \in 1..l : (q - 1) * z <= a /\ a < q * z <=> q = p
<1> DEFINE d == a \div z
<1>1. d \in Nat /\ d * z <= a /\ a < (d + 1) * z
    OBVIOUS
<1> HIDE DEF d
<1>2. ASSUME NEW m \in Nat, NEW n \in Nat, m * z <= a, a < n * z PROVE m < n
  <2> SUFFICES ASSUME n <= m PROVE FALSE
      OBVIOUS
  <2>1. n * z <= m * z
      OBVIOUS
  <2>2. n * z \in Nat /\ m * z \in Nat
      OBVIOUS
  <2> QED
      BY <1>2, <2>1, <2>2
<1>3. d + 1 \in 1..l
  <2>1. d < l
      BY <1>1, <1>2
  <2> QED
      BY <1>1, <2>1
<1>4. (d + 1) - 1 = d
    BY <1>1
<1>5. ASSUME NEW q \in 1..l, (q - 1) * z <= a, a < q * z PROVE q = d + 1
  <2>1. q \in Nat /\ q - 1 \in Nat
      OBVIOUS
  <2>2. q - 1 < d + 1 /\ d < q
      BY <1>1, <1>2, <1>5, <2>1
  <2> QED
      BY <1>1, <2>1, <2>2
<1> QED
    BY <1>1, <1>3, <1>4, <1>5

ListPager == [page : 1..Cardinality(Ids), size : PageSizes]

ListClaim == [id : Ids \cup {0}, step : {"none", "asked", "sent"}, allow : BOOLEAN]

ListDialog == [open : BOOLEAN, chosen : Clients \cup {"none"}, preset : {"previous-month"} \cup Presets,
               range : BOOLEAN, step : {"none", "generating", "failed"}]

ListServer == records \in [Ids -> ListRow] /\ served \subseteq Clients

ListLoaded == rows \in [Ids -> ListRow] /\ clients \in {{}, served}

ListForms ==
    /\ claim \in ListClaim /\ (claim.step # "none" => claim.id \in Ids)
    /\ dialog \in ListDialog

\* An alert that is listed has a status, and no form changes an alert.
HaveStatus(R) == \A i \in Ids : R[i] # Listing!Absent => R[i].status \in Listing!AlertStatuses

ListAlerts ==
    /\ list = "sos" => HaveStatus(records) /\ HaveStatus(rows)
    /\ claim.step # "none" => list = "cases"
    /\ dialog.open => list = "reports"
    /\ dialog.step = "generating" => dialog.open

ListInv ==
    list \in Listing!ListPage /\ ListServer /\ ListLoaded /\ ListForms /\ ListAlerts /\ pager \in ListPager

LEMMA RowsAre ==
    /\ \A i \in Ids : i \in Nat /\ i # 0
    /\ \A s \in PageSizes : s \in Nat /\ s # 0
    /\ Cardinality(Ids) \in Nat /\ Cardinality(Ids) # 0
<1>1. Cardinality(Ids) \in Nat /\ Cardinality(Ids) # 0
    BY ListAssumption, FS_CardinalityType, FS_EmptySet
<1> QED
    BY <1>1, ListAssumption

LEMMA SmallestIs == Listing!SmallestSize \in PageSizes
<1>1. \E s \in PageSizes : \A t \in PageSizes : s <= t
    BY ListAssumption, RowsAre, LowestIs
<1> QED
    BY <1>1 DEF Listing!SmallestSize

LEMMA SectionIs ==
    /\ \A s : Listing!InSection(s) \subseteq Ids /\ IsFiniteSet(Listing!InSection(s))
    /\ Listing!RowCount = Cardinality(Listing!InSection(Listing!PagedSection))
    /\ Listing!RowCount \in Nat /\ Listing!RowCount <= Cardinality(Ids)
<1>1. \A s : Listing!InSection(s) \subseteq Ids
    BY DEF Listing!InSection, Listing!InList
<1>2. Listing!RowCount = Cardinality(Listing!InSection(Listing!PagedSection))
    BY SameSize DEF Listing!RowCount
<1>3. IsFiniteSet(Ids)
    BY ListAssumption
<1> QED
    BY <1>1, <1>2, <1>3, FS_Subset, FS_CardinalityType

LEMMA BeforeIs ==
    ASSUME rows \in [Ids -> ListRow], NEW i \in Ids, NEW j \in Ids, NEW k \in Ids
    PROVE  /\ i # j => Listing!Before(i, j) \/ Listing!Before(j, i)
           /\ i # j => ~ (Listing!Before(i, j) /\ Listing!Before(j, i))
           /\ i # j /\ j # k /\ i # k /\ Listing!Before(i, j) /\ Listing!Before(j, k) => Listing!Before(i, k)
<1>1. i \in Nat /\ j \in Nat /\ k \in Nat
    BY RowsAre
<1>2. rows[i].tier \in Nat /\ rows[j].tier \in Nat /\ rows[k].tier \in Nat
    BY DEF ListRow
<1> QED
    BY <1>1, <1>2 DEF Listing!Before

LEMMA AboveIs ==
    ASSUME rows \in [Ids -> ListRow]
    PROVE  LET S == Listing!InSection(Listing!PagedSection) IN
           /\ \A i \in S : Listing!RowsAbove(i) \subseteq S /\ i \notin Listing!RowsAbove(i)
           /\ \A i, j \in S : i # j => i \in Listing!RowsAbove(j) \/ j \in Listing!RowsAbove(i)
           /\ \A i, j \in S : i \in Listing!RowsAbove(j) => Listing!RowsAbove(i) \subseteq Listing!RowsAbove(j)
<1> DEFINE S == Listing!InSection(Listing!PagedSection)
<1>1. \A i : Listing!RowsAbove(i) = {j \in S : j # i /\ Listing!Before(j, i)}
    BY DEF Listing!RowsAbove
<1>2. S \subseteq Ids
    BY SectionIs
<1> HIDE DEF S
<1>3. ASSUME NEW i \in S, NEW j \in S, i # j PROVE i \in Listing!RowsAbove(j) \/ j \in Listing!RowsAbove(i)
    BY <1>1, <1>2, <1>3, BeforeIs
<1>4. ASSUME NEW i \in S, NEW j \in S, i \in Listing!RowsAbove(j), NEW k \in Listing!RowsAbove(i)
      PROVE  k \in Listing!RowsAbove(j)
  <2>1. k \in S /\ k # i /\ Listing!Before(k, i) /\ i # j /\ Listing!Before(i, j)
      BY <1>1, <1>4
  <2>2. k \in Ids /\ i \in Ids /\ j \in Ids
      BY <1>2, <2>1
  <2>3. k # j
      BY <2>1, <2>2, BeforeIs
  <2>4. Listing!Before(k, j)
      BY <2>1, <2>2, <2>3, BeforeIs
  <2> QED
      BY <1>1, <2>1, <2>3, <2>4
<1> QED
    BY <1>1, <1>3, <1>4 DEF S

LEMMA AboveCounts ==
    ASSUME rows \in [Ids -> ListRow], NEW i \in Listing!InSection(Listing!PagedSection)
    PROVE  Cardinality(Listing!RowsAbove(i)) \in 0..(Listing!RowCount - 1)
<1> DEFINE S == Listing!InSection(Listing!PagedSection)
           A == Listing!RowsAbove(i)
<1>1. A \subseteq S /\ i \notin A
    BY AboveIs
<1>2. IsFiniteSet(S) /\ Listing!RowCount = Cardinality(S) /\ Listing!RowCount \in Nat
    BY SectionIs
<1>3. i \in S
    OBVIOUS
<1> HIDE DEF S, A
<1>4. IsFiniteSet(A) /\ Cardinality(A) \in Nat /\ Cardinality(A) <= Cardinality(S) /\ Cardinality(A) # Cardinality(S)
    BY <1>1, <1>2, <1>3, FS_Subset, FS_CardinalityType
<1>5. Cardinality(A) \in 0..(Listing!RowCount - 1)
    BY <1>2, <1>4
<1> QED
    BY <1>5 DEF A

LEMMA LastPageIs ==
    ASSUME pager \in ListPager
    PROVE  /\ Listing!LastPage \in 1..Cardinality(Ids)
           /\ Listing!RowCount # 0 => /\ (Listing!LastPage - 1) * pager.size < Listing!RowCount
                                     /\ Listing!RowCount <= Listing!LastPage * pager.size
<1>1. pager.size \in Nat /\ pager.size # 0
    BY RowsAre DEF ListPager
<1>2. Listing!RowCount \in Nat /\ Listing!RowCount <= Cardinality(Ids) /\ Cardinality(Ids) \in Nat /\ Cardinality(Ids) # 0
    BY SectionIs, RowsAre
<1>3. CASE Listing!RowCount = 0
    BY <1>2, <1>3 DEF Listing!LastPage
<1>4. CASE Listing!RowCount # 0
  <2>1. Listing!LastPage = (Listing!RowCount + pager.size - 1) \div pager.size
      BY <1>4 DEF Listing!LastPage
  <2>2. Listing!LastPage \in 1..Listing!RowCount /\ (Listing!LastPage - 1) * pager.size < Listing!RowCount
        /\ Listing!RowCount <= Listing!LastPage * pager.size
      BY <1>1, <1>2, <1>4, <2>1, PagesOf
  <2>3. Listing!LastPage \in 1..Cardinality(Ids)
      BY <1>2, <2>2
  <2> QED
      BY <2>2, <2>3
<1> QED
    BY <1>3, <1>4

LEMMA PageIs ==
    ASSUME pager \in ListPager, rows \in [Ids -> ListRow], NEW p
    PROVE  Listing!PageRows(p) = {i \in Listing!InSection(Listing!PagedSection) :
                                    /\ (p - 1) * pager.size <= Cardinality(Listing!RowsAbove(i))
                                    /\ Cardinality(Listing!RowsAbove(i)) < p * pager.size}
    BY SameSize DEF Listing!PageRows

\* No page up to the last is empty.
LEMMA PagesHold ==
    ASSUME pager \in ListPager, rows \in [Ids -> ListRow], Listing!RowCount > 0, NEW p \in 1..Listing!LastPage
    PROVE  Listing!PageRows(p) # {}
<1> DEFINE S == Listing!InSection(Listing!PagedSection)
           Above == [i \in S |-> Listing!RowsAbove(i)]
           n == (p - 1) * pager.size
<1>1. Above \in [S -> SUBSET S] /\ \A i \in S : i \notin Above[i]
    BY AboveIs
<1>2. /\ \A i, j \in S : i # j => i \in Above[j] \/ j \in Above[i]
      /\ \A i, j \in S : i \in Above[j] => Above[i] \subseteq Above[j]
    BY AboveIs
<1>3. IsFiniteSet(S) /\ Listing!RowCount = Cardinality(S) /\ Listing!RowCount \in Nat
    BY SectionIs
<1>4. pager.size \in Nat /\ pager.size # 0
    BY RowsAre DEF ListPager
<1>5. /\ Listing!LastPage \in Nat
      /\ (Listing!LastPage - 1) * pager.size < Listing!RowCount
    BY <1>3, LastPageIs, RowsAre
<1>6. n \in Nat /\ n < Listing!RowCount
  <2>1. p - 1 \in Nat /\ Listing!LastPage - 1 \in Nat /\ p - 1 <= Listing!LastPage - 1
      BY <1>5
  <2>2. n \in Nat /\ n <= (Listing!LastPage - 1) * pager.size
      BY <1>4, <2>1
  <2> QED
      BY <1>3, <1>4, <1>5, <2>1, <2>2
<1> HIDE DEF S, Above
<1>7. PICK i \in S : Cardinality(Above[i]) = n
    BY <1>1, <1>2, <1>3, <1>6, NumbersAre
<1>8. Above[i] = Listing!RowsAbove(i)
    BY DEF Above
<1>9. n < p * pager.size
    BY <1>4, <1>5
<1>10. n <= Cardinality(Above[i]) /\ Cardinality(Above[i]) < p * pager.size
    BY <1>6, <1>7, <1>9
<1> QED
    BY <1>8, <1>10, PageIs DEF S

LEMMA NoneIsEmpty == ListInv => Listing!NoEmptyPage
<1> SUFFICES ASSUME ListInv, list # "deliveries", Listing!RowCount > 0
             PROVE  Listing!PageRows(Listing!CurrentPage) # {}
    BY DEF Listing!NoEmptyPage
<1>1. pager \in ListPager /\ rows \in [Ids -> ListRow]
    BY DEF ListInv, ListLoaded
<1>2. Listing!LastPage \in 1..Cardinality(Ids) /\ pager.page \in 1..Cardinality(Ids) /\ Cardinality(Ids) \in Nat
    BY <1>1, LastPageIs, RowsAre DEF ListPager
<1>3. Listing!CurrentPage \in 1..Listing!LastPage
    BY <1>2 DEF Listing!CurrentPage
<1> QED
    BY <1>1, <1>3, PagesHold

LEMMA OnePage ==
    ASSUME pager \in ListPager, rows \in [Ids -> ListRow], NEW i \in Listing!InSection(Listing!PagedSection)
    PROVE  Listing!Cardinality({p \in 1..Listing!LastPage : i \in Listing!PageRows(p)}) = 1
<1> DEFINE a == Cardinality(Listing!RowsAbove(i))
<1>1. a \in 0..(Listing!RowCount - 1)
    BY AboveCounts
<1>2. pager.size \in Nat /\ pager.size # 0 /\ Listing!RowCount \in Nat
    BY RowsAre, SectionIs DEF ListPager
<1>3. \A p : i \in Listing!PageRows(p) <=> (p - 1) * pager.size <= a /\ a < p * pager.size
    BY PageIs
<1> HIDE DEF a
<1>4. Listing!RowCount # 0 /\ a \in Nat
    BY <1>1, <1>2
<1>5. Listing!LastPage \in Nat /\ Listing!RowCount <= Listing!LastPage * pager.size
    BY <1>4, LastPageIs, RowsAre
<1>6. a < Listing!LastPage * pager.size
  <2>1. Listing!LastPage * pager.size \in Nat
      BY <1>2, <1>5
  <2> QED
      BY <1>1, <1>2, <1>5, <2>1
<1>7. PICK q \in 1..Listing!LastPage :
         \A p \in 1..Listing!LastPage : (p - 1) * pager.size <= a /\ a < p * pager.size <=> p = q
  <2>1. PICK l \in Nat : l = Listing!LastPage
      BY <1>5
  <2>2. PICK z \in Nat : z = pager.size /\ z # 0
      BY <1>2
  <2>3. a < l * z
      BY <1>6, <2>1, <2>2
  <2>4. \E q \in 1..l : \A p \in 1..l : (p - 1) * z <= a /\ a < p * z <=> p = q
      BY <1>4, <2>2, <2>3, SliceOf
  <2> QED
      BY <2>1, <2>2, <2>4
<1>8. {p \in 1..Listing!LastPage : i \in Listing!PageRows(p)} = {q}
    BY <1>3, <1>7
<1> QED
    BY <1>8, SameSize, FS_Singleton

LEMMA OneSection ==
    ASSUME ListAlerts, NEW i \in Ids, rows[i] # Listing!Absent PROVE Listing!Cardinality(Listing!Sections(i)) = 1
<1>1. \E s : Listing!Sections(i) = {s}
  <2>1. CASE list = "cases"
    <3>1. Listing!Sections(i) = Listing!CaseSections(rows[i])
        BY <2>1 DEF Listing!Sections
    <3>2. Listing!IsWaiting(rows[i]) => Listing!AttentionOf(rows[i]) = Listing!None
        BY DEF Listing!IsWaiting, Listing!AttentionOf
    <3>3. CASE Listing!AttentionOf(rows[i]) # Listing!None
      <4>1. Listing!CaseSections(rows[i]) = {"needing"}
          BY <3>2, <3>3 DEF Listing!CaseSections
      <4> QED
          BY <3>1, <4>1
    <3>4. CASE Listing!IsWaiting(rows[i])
      <4>1. Listing!CaseSections(rows[i]) = {"waiting"}
          BY <3>2, <3>4 DEF Listing!CaseSections
      <4> QED
          BY <3>1, <4>1
    <3>5. CASE Listing!AttentionOf(rows[i]) = Listing!None /\ ~ Listing!IsWaiting(rows[i])
      <4>1. Listing!CaseSections(rows[i]) = {"others"}
          BY <3>5 DEF Listing!CaseSections
      <4> QED
          BY <3>1, <4>1
    <3> QED
        BY <3>3, <3>4, <3>5
  <2>2. CASE list = "messages"
    <3>1. Listing!Sections(i) = Listing!MessageSections(rows[i])
        BY <2>2 DEF Listing!Sections
    <3> QED
        BY <3>1 DEF Listing!MessageSections
  <2>3. CASE list = "sos"
    <3>1. Listing!Sections(i) = Listing!AlertSections(rows[i])
        BY <2>3 DEF Listing!Sections
    <3>2. rows[i].status \in Listing!AlertStatuses
        BY <2>3 DEF ListAlerts, HaveStatus
    <3>3. Listing!AlertSections(rows[i]) = {rows[i].status}
        BY <3>2 DEF Listing!AlertSections
    <3> QED
        BY <3>1, <3>3
  <2>4. CASE list # "cases" /\ list # "messages" /\ list # "sos"
    <3>1. Listing!Sections(i) = {"all"}
        BY <2>4 DEF Listing!Sections
    <3> QED
        BY <3>1
  <2> QED
      BY <2>1, <2>2, <2>3, <2>4
<1> QED
    BY <1>1, SameSize, FS_Singleton

LEMMA AllAreListed == ListInv => Listing!EveryRowIsListed
<1> SUFFICES ASSUME ListInv PROVE Listing!EveryRowIsListed
    OBVIOUS
<1>1. pager \in ListPager /\ rows \in [Ids -> ListRow]
    BY DEF ListInv, ListLoaded
<1>2. \A i \in Listing!InList : i \in Ids /\ rows[i] # Listing!Absent
    BY DEF Listing!InList
<1>3. \A i \in Listing!InList : Listing!Cardinality(Listing!Sections(i)) = 1
    BY <1>2, OneSection DEF ListInv
<1> QED
    BY <1>1, <1>2, <1>3, OnePage DEF Listing!EveryRowIsListed

LEMMA OneChosen ==
    ASSUME clients \subseteq Clients, clients # {}
    PROVE  /\ Listing!Scope \in clients \cup {Listing!ALL}
           /\ clientId \in clients => Listing!Scope = clientId
<1>1. Listing!Cardinality(clients) = Cardinality(clients) /\ IsFiniteSet(clients)
    BY SameSize, ListAssumption, FS_Subset
<1>2. CASE Cardinality(clients) = 1
  <2>1. PICK c : clients = {c}
      BY <1>1, <1>2, FS_Singleton
  <2>2. Listing!Scope = c
      BY <1>1, <1>2, <2>1 DEF Listing!Scope
  <2> QED
      BY <2>1, <2>2
<1>3. CASE Cardinality(clients) # 1
    BY <1>1, <1>3 DEF Listing!Scope
<1> QED
    BY <1>2, <1>3

LEMMA ChosenIs == ListInv => Listing!OnlyTheChosen
<1> SUFFICES ASSUME ListInv, list \in Listing!ScopedPages, clients # {}, clientId \in served, NEW i \in Listing!InList
             PROVE  Listing!ClientOf(rows[i]) = clientId
    BY DEF Listing!OnlyTheChosen
<1>1. clients = served /\ served \subseteq Clients
    BY DEF ListInv, ListLoaded, ListServer
<1>2. Listing!Scope = clientId /\ clientId # Listing!ALL
    BY <1>1, OneChosen, ListAssumption DEF Listing!ALL
<1> QED
    BY <1>2 DEF Listing!InList, Listing!InScope

LEMMA ListShown == ListInv => ListTruth
<1> SUFFICES ASSUME ListInv PROVE ListTruth
    OBVIOUS
<1>1. clients \subseteq served /\ list \in Listing!ListPage
    BY DEF ListInv, ListLoaded
<1>2. pager.page \in 1..Listing!Cardinality(Ids) /\ pager.size \in PageSizes
    BY SameSize DEF ListInv, ListPager
<1>3. claim.id \in Ids \cup {0} /\ dialog.chosen \in Clients \cup {Listing!None}
    BY DEF ListInv, ListForms, ListClaim, ListDialog, Listing!None
<1>4. Listing!ListTypeOK
    BY <1>1, <1>2, <1>3 DEF Listing!ListTypeOK
<1> QED
    BY <1>4, NoneIsEmpty, AllAreListed, ChosenIs DEF ListTruth

LEMMA AbsentIs == Listing!Absent \in ListRow
    BY DEF Listing!Absent, Listing!None, ListRow

LEMMA RowsTyped ==
    ASSUME NEW p \in Listing!ListPage
    PROVE  Listed[p] \cup {Listing!Absent} \subseteq ListRow
<1>1. Listing!Absent \in ListRow
    BY AbsentIs
<1>2. p \in DOMAIN Listed
    BY ListAssumption DEF Listing!ListPage, Listing!ScopedPages, Listing!UnscopedPages, Listing!OwnPages
<1>3. \A r \in Listed[p] : r \in ListRow
    BY <1>2, ListAssumption
<1> QED
    BY <1>1, <1>3

LEMMA UnloadedIs == Listing!Unloaded \in [Ids -> ListRow]
    BY AbsentIs DEF Listing!Unloaded

LEMMA FirstIs == Listing!FirstPage \in ListPager
<1>1. 1 \in 1..Cardinality(Ids)
    BY RowsAre
<1> QED
    BY <1>1, SmallestIs DEF Listing!FirstPage, ListPager

LEMMA NewFormsAre ==
    /\ Listing!NoClaim \in ListClaim /\ Listing!NoClaim.step = "none"
    /\ Listing!NewDialog \in ListDialog
    BY DEF Listing!NoClaim, Listing!NewDialog, Listing!None, ListClaim, ListDialog

LEMMA ListStarts == Listing!ListInit => ListInv
<1> SUFFICES ASSUME Listing!ListInit PROVE ListInv
    OBVIOUS
<1> USE DEF Listing!ListInit
<1>1. ListServer
  <2>1. Listed[list] \cup {Listing!Absent} \subseteq ListRow
      BY RowsTyped
  <2>2. records \in [Ids -> ListRow]
      BY <2>1
  <2> QED
      BY <2>2 DEF ListServer
<1>2. ListLoaded
    BY UnloadedIs DEF ListLoaded
<1>3. ListForms
    BY NewFormsAre DEF ListForms
<1>4. ListAlerts
  <2>1. \A r \in Listed["sos"] : r.status \in Listing!AlertStatuses
      BY ListAssumption DEF Listing!AlertStatuses
  <2>2. list = "sos" => HaveStatus(records)
      BY <2>1 DEF HaveStatus
  <2>3. HaveStatus(rows)
      BY DEF HaveStatus, Listing!Unloaded
  <2> QED
      BY <2>2, <2>3 DEF ListAlerts, Listing!NoClaim, Listing!NewDialog, Listing!None
<1> QED
    BY <1>1, <1>2, <1>3, <1>4, FirstIs DEF ListInv

\* With every change the page stays, or is the first.
LEMMA Rendered ==
    ASSUME pager \in ListPager, Listing!Rerender \/ pager' = [pager EXCEPT !.page = 1] \/ pager' = pager
    PROVE  pager' \in ListPager
<1>1. 1 \in 1..Cardinality(Ids)
    BY RowsAre
<1>2. [pager EXCEPT !.page = 1] \in ListPager
    BY <1>1 DEF ListPager
<1>3. pager' = pager \/ pager' = [pager EXCEPT !.page = 1]
    BY DEF Listing!Rerender
<1> QED
    BY <1>2, <1>3

LEMMA AlertsStay ==
    ASSUME ListAlerts, UNCHANGED <<list, records, rows, claim, dialog>> PROVE ListAlerts'
    BY DEF ListAlerts, HaveStatus

LEMMA ListTurns == ASSUME ListInv, Listing!TurnPage PROVE ListInv'
<1>1. pager \in ListPager
    BY DEF ListInv
<1>2. ASSUME NEW p \in 1..Listing!LastPage PROVE [pager EXCEPT !.page = p] \in ListPager
  <2>1. p \in 1..Cardinality(Ids)
    <3>1. Listing!LastPage \in 1..Cardinality(Ids) /\ Cardinality(Ids) \in Nat
        BY <1>1, LastPageIs, RowsAre
    <3> QED
        BY <3>1
  <2> QED
      BY <1>1, <2>1 DEF ListPager
<1>3. ASSUME NEW s \in PageSizes PROVE [page |-> 1, size |-> s] \in ListPager
    BY RowsAre DEF ListPager
<1>4. pager' \in ListPager
    BY <1>2, <1>3 DEF Listing!TurnPage
<1> QED
    BY <1>4, AlertsStay DEF Listing!TurnPage, ListInv, ListServer, ListLoaded, ListForms

\* The steps that load, choose or filter.
ListShows ==
    \/ Listing!LoadRows \/ Listing!RowsNotLoaded \/ Listing!LoadClients \/ Listing!ChooseClient
    \/ Listing!ShowAllClients \/ Listing!PickView \/ Listing!Search \/ Listing!FilterByStatus \/ Listing!SortBy

LEMMA FiltersTo ==
    ASSUME ListInv, NEW f, Listing!FilterTo(f) PROVE ListInv'
<1>1. pager' \in ListPager
    BY Rendered DEF ListInv, Listing!FilterTo
<1> QED
    BY <1>1, AlertsStay DEF Listing!FilterTo, ListInv, ListServer, ListLoaded, ListForms

LEMMA ListShowing == ASSUME ListInv, ListShows PROVE ListInv'
<1> USE DEF ListInv, ListServer, ListLoaded, ListForms
<1>1. CASE Listing!LoadRows
  <2>1. pager' \in ListPager
      BY <1>1, Rendered DEF Listing!LoadRows
  <2>2. ListAlerts'
      BY <1>1 DEF Listing!LoadRows, ListAlerts, HaveStatus
  <2> QED
      BY <1>1, <2>1, <2>2 DEF Listing!LoadRows
<1>2. CASE Listing!RowsNotLoaded
    BY <1>2, AlertsStay DEF Listing!RowsNotLoaded
<1>3. CASE Listing!LoadClients
  <2>1. pager' \in ListPager
      BY <1>3, Rendered DEF Listing!LoadClients
  <2> QED
      BY <1>3, <2>1, AlertsStay DEF Listing!LoadClients
<1>4. CASE Listing!ChooseClient
  <2>1. pager' \in ListPager
      BY <1>4, Rendered DEF Listing!ChooseClient
  <2> QED
      BY <1>4, <2>1, AlertsStay DEF Listing!ChooseClient
<1>5. CASE Listing!ShowAllClients
  <2>1. pager' \in ListPager
      BY <1>5, Rendered DEF Listing!ShowAllClients
  <2> QED
      BY <1>5, <2>1, AlertsStay DEF Listing!ShowAllClients
<1>6. CASE Listing!PickView
    BY <1>6, FiltersTo DEF Listing!PickView
<1>7. CASE Listing!Search
    BY <1>7, FiltersTo DEF Listing!Search
<1>8. CASE Listing!FilterByStatus
    BY <1>8, FiltersTo DEF Listing!FilterByStatus
<1>9. CASE Listing!SortBy
    BY <1>9, FiltersTo DEF Listing!SortBy
<1> QED
    BY <1>1, <1>2, <1>3, <1>4, <1>5, <1>6, <1>7, <1>8, <1>9 DEF ListShows

\* The steps of the server, and those of the switch of a case.
LEMMA RecordsChange == ASSUME ListInv, Listing!RecordChanges PROVE ListInv'
<1>1. records' \in [Ids -> ListRow]
  <2>1. PICK i \in Ids, r \in Listed[list] \cup {Listing!Absent} : records' = [records EXCEPT ![i] = r]
      BY DEF Listing!RecordChanges
  <2>2. r \in ListRow
      BY <2>1, RowsTyped DEF ListInv
  <2> QED
      BY <2>1, <2>2 DEF ListInv, ListServer
<1>2. ListAlerts'
  <2>1. PICK i \in Ids, r \in Listed[list] \cup {Listing!Absent} : records' = [records EXCEPT ![i] = r]
      BY DEF Listing!RecordChanges
  <2>2. list = "sos" => r = Listing!Absent \/ r.status \in Listing!AlertStatuses
      BY <2>1, ListAssumption DEF Listing!AlertStatuses
  <2>3. list = "sos" => HaveStatus(records')
      BY <2>1, <2>2 DEF ListInv, ListServer, ListAlerts, HaveStatus
  <2> QED
      BY <2>3 DEF ListInv, ListAlerts, HaveStatus, Listing!RecordChanges
<1> QED
    BY <1>1, <1>2 DEF Listing!RecordChanges, ListInv, ListServer, ListLoaded, ListForms

LEMMA ClaimToggled == ASSUME ListInv, Listing!ToggleClaim PROVE ListInv'
<1>1. PICK i \in Listing!InList :
         LET on == rows[i].visibility # "AVAILABLE_TO_AUDITORS" IN
         claim' = [id |-> i, step |-> IF on THEN "asked" ELSE "sent", allow |-> on]
    BY DEF Listing!ToggleClaim
<1>2. i \in Ids
    BY DEF Listing!InList
<1>3. claim' \in ListClaim /\ claim'.id \in Ids
    BY <1>1, <1>2 DEF ListClaim
<1>4. list = "cases"
    BY DEF Listing!ToggleClaim, Listing!Waits
<1>5. ListAlerts'
    BY <1>4 DEF Listing!ToggleClaim, ListInv, ListAlerts
<1> QED
    BY <1>3, <1>5 DEF Listing!ToggleClaim, ListInv, ListServer, ListLoaded, ListForms

LEMMA ClaimConfirmed == ASSUME ListInv, Listing!ConfirmClaim PROVE ListInv'
<1>1. claim \in ListClaim /\ claim.step = "asked" /\ claim.id \in Ids
    BY DEF ListInv, ListForms, Listing!ConfirmClaim
<1>2. [claim EXCEPT !.step = "sent"] \in ListClaim /\ [claim EXCEPT !.step = "sent"].id \in Ids
    BY <1>1 DEF ListClaim
<1>3. claim' = Listing!NoClaim \/ claim' = [claim EXCEPT !.step = "sent"]
    BY DEF Listing!ConfirmClaim, Listing!None
<1>4. claim' \in ListClaim /\ (claim'.step # "none" => claim'.id \in Ids)
    BY <1>2, <1>3, NewFormsAre
<1>5. ListAlerts'
    BY <1>1 DEF Listing!ConfirmClaim, ListInv, ListAlerts, HaveStatus
<1> QED
    BY <1>4, <1>5 DEF Listing!ConfirmClaim, ListInv, ListServer, ListLoaded, ListForms

LEMMA VisibilitySet ==
    ASSUME NEW f \in [Ids -> ListRow], NEW i \in Ids, NEW v \in {"AVAILABLE_TO_AUDITORS", "SUPER_ADMIN_ONLY"}
    PROVE  [f EXCEPT ![i].visibility = v] \in [Ids -> ListRow]
<1>1. [f[i] EXCEPT !.visibility = v] \in ListRow
    BY DEF ListRow
<1>2. [f EXCEPT ![i].visibility = v] = [f EXCEPT ![i] = [f[i] EXCEPT !.visibility = v]]
    BY Zenon
<1> QED
    BY <1>1, <1>2

LEMMA ClaimsSettle == ASSUME ListInv, Listing!ClaimSettled PROVE ListInv'
<1>1. records \in [Ids -> ListRow] /\ claim.id \in Ids
    BY DEF ListInv, ListServer, ListForms, Listing!ClaimSettled
<1>2. records' \in [Ids -> ListRow]
  <2>1. \/ records' = records
        \/ records' = [records EXCEPT ![claim.id].visibility =
                         IF claim.allow THEN "AVAILABLE_TO_AUDITORS" ELSE "SUPER_ADMIN_ONLY"]
      BY Zenon DEF Listing!ClaimSettled
  <2>2. PICK v \in {"AVAILABLE_TO_AUDITORS", "SUPER_ADMIN_ONLY"} :
           v = IF claim.allow THEN "AVAILABLE_TO_AUDITORS" ELSE "SUPER_ADMIN_ONLY"
      OBVIOUS
  <2>3. [records EXCEPT ![claim.id].visibility = v] \in [Ids -> ListRow]
      BY <1>1, VisibilitySet
  <2> QED
      BY <1>1, <2>1, <2>2, <2>3, Zenon
<1>3. ListAlerts'
  <2>1. list = "cases"
      BY DEF ListInv, ListAlerts, Listing!ClaimSettled
  <2> QED
      BY <2>1 DEF ListInv, ListAlerts, Listing!ClaimSettled, Listing!NoClaim, Listing!None
<1> QED
    BY <1>2, <1>3, NewFormsAre DEF Listing!ClaimSettled, ListInv, ListServer, ListLoaded, ListForms

\* A new report, of a Client the page knows.
LEMMA ClientIs ==
    ASSUME ListInv PROVE Listing!ReportClient \in Clients \cup {"none"}
<1>1. dialog.chosen \in Clients \cup {"none"} /\ clients \subseteq Clients
    BY DEF ListInv, ListForms, ListDialog, ListLoaded, ListServer
<1>2. Listing!Selected \in Clients \cup {"none"}
    BY <1>1 DEF Listing!Selected, Listing!None
<1>3. clients # {} => (CHOOSE c \in clients : TRUE) \in Clients
    BY <1>1
<1> QED
    BY <1>1, <1>2, <1>3 DEF Listing!ReportClient, Listing!None

MaySet(d) == d \in ListDialog /\ (d.open => list = "reports") /\ (d.step = "generating" => d.open)

LEMMA DialogSet ==
    ASSUME ListInv, NEW d, MaySet(d), Listing!SetDialog(d) PROVE ListInv'
<1>1. ListAlerts'
    BY DEF Listing!SetDialog, ListInv, ListAlerts, HaveStatus, MaySet
<1> QED
    BY <1>1 DEF Listing!SetDialog, ListInv, ListServer, ListLoaded, ListForms, MaySet

LEMMA Settings ==
    ASSUME MaySet(dialog)
    PROVE  /\ list = "reports" => MaySet([dialog EXCEPT !.open = TRUE])
           /\ dialog.step # "generating" => MaySet([dialog EXCEPT !.open = FALSE])
           /\ \A c \in Clients : MaySet([dialog EXCEPT !.chosen = c])
           /\ \A s \in {"none", "failed"} : MaySet([dialog EXCEPT !.step = s])
           /\ dialog.open => MaySet([dialog EXCEPT !.step = "generating"])
           /\ \A p \in Presets, s \in {"none", dialog.step} : MaySet([dialog EXCEPT !.preset = p, !.step = s])
           /\ \A s \in {"none", dialog.step} : MaySet([dialog EXCEPT !.range = ~dialog.range, !.step = s])
    BY DEF ListDialog, MaySet

ListForm ==
    \/ Listing!OpenGenerate \/ Listing!CloseGenerate \/ Listing!FillGenerate \/ Listing!Generate
    \/ Listing!NotGenerated

LEMMA DialogFilled == ASSUME ListInv, ListForm PROVE ListInv'
<1>1. MaySet(dialog) /\ clients \subseteq Clients
    BY DEF ListInv, ListForms, ListAlerts, ListLoaded, ListServer, MaySet
<1>2. PICK d : MaySet(d) /\ Listing!SetDialog(d)
  <2>1. CASE Listing!OpenGenerate
      BY <1>1, <2>1, Settings DEF Listing!OpenGenerate
  <2>2. CASE Listing!CloseGenerate
      BY <1>1, <2>2, Settings DEF Listing!CloseGenerate
  <2>3. CASE Listing!FillGenerate
    <3> DEFINE s == IF dialog.step = "failed" THEN "none" ELSE dialog.step
    <3>0. s \in {"none", dialog.step}
        OBVIOUS
    <3>1. CASE \E c \in clients : Listing!SetDialog([dialog EXCEPT !.chosen = c])
        BY <1>1, <3>1, Settings
    <3>2. CASE \E p \in Presets : Listing!SetDialog([dialog EXCEPT !.preset = p, !.step = s])
        BY <1>1, <3>0, <3>2, Settings
    <3>3. CASE Listing!SetDialog([dialog EXCEPT !.range = ~dialog.range, !.step = s])
        BY <1>1, <3>0, <3>3, Settings
    <3> QED
        BY <2>3, <3>1, <3>2, <3>3 DEF Listing!FillGenerate, Listing!None
  <2>4. CASE Listing!Generate
    <3>1. PICK s \in {"generating", "failed"} : dialog.open /\ Listing!SetDialog([dialog EXCEPT !.step = s])
        BY <2>4 DEF Listing!Generate
    <3> QED
        BY <1>1, <3>1, Settings
  <2>5. CASE Listing!NotGenerated
      BY <1>1, <2>5, Settings DEF Listing!NotGenerated
  <2> QED
      BY <2>1, <2>2, <2>3, <2>4, <2>5 DEF ListForm
<1> QED
    BY <1>2, DialogSet

LEMMA DraftIs ==
    ASSUME NEW c \in Clients \cup {"none"} PROVE [Listing!Absent EXCEPT !.org = c, !.status = "DRAFT"] \in ListRow
    BY AbsentIs DEF ListRow

LEMMA ReportGenerated == ASSUME ListInv, Listing!Generated PROVE ListInv'
<1>1. PICK i \in Ids :
         /\ records' = [records EXCEPT ![i] = [Listing!Absent EXCEPT !.org = Listing!ReportClient, !.status = "DRAFT"]]
         /\ \/ /\ dialog' = Listing!NewDialog /\ pager' = Listing!FirstPage
               /\ rows' = Listing!Unloaded /\ clients' = {}
            \/ /\ dialog' = [dialog EXCEPT !.step = "failed"]
               /\ UNCHANGED <<pager, rows, clients>>
    BY DEF Listing!Generated
<1>2. records' \in [Ids -> ListRow]
  <2>1. PICK r : r = [Listing!Absent EXCEPT !.org = Listing!ReportClient, !.status = "DRAFT"]
      OBVIOUS
  <2>2. r \in ListRow
      BY <2>1, ClientIs, DraftIs
  <2>3. records' = [records EXCEPT ![i] = r]
      BY <1>1, <2>1
  <2> QED
      BY <2>2, <2>3 DEF ListInv, ListServer
<1>0. dialog \in ListDialog /\ dialog.open /\ list = "reports"
    BY DEF ListInv, ListForms, ListAlerts, Listing!Generated
<1>3. dialog' \in ListDialog /\ (dialog'.step = "generating" => dialog'.open)
  <2>1. [dialog EXCEPT !.step = "failed"] \in ListDialog /\ [dialog EXCEPT !.step = "failed"].step = "failed"
      BY <1>0 DEF ListDialog
  <2>2. Listing!NewDialog.step = "none"
      BY DEF Listing!NewDialog, Listing!None
  <2> QED
      BY <1>1, <2>1, <2>2, NewFormsAre
<1>4. pager' \in ListPager /\ rows' \in [Ids -> ListRow] /\ clients' \in {{}, served}
    BY <1>1, FirstIs, UnloadedIs DEF ListInv, ListLoaded
<1>5. UNCHANGED <<list, served, claim>>
    BY DEF Listing!Generated
<1>6. ListAlerts'
    BY <1>0, <1>3, <1>5 DEF ListInv, ListAlerts
<1> QED
    BY <1>2, <1>3, <1>4, <1>5, <1>6 DEF ListInv, ListServer, ListLoaded, ListForms

LEMMA ListStep == ASSUME ListInv, Listing!ListNext PROVE ListInv'
<1>1. CASE ListShows
    BY <1>1, ListShowing
<1>2. CASE ListForm
    BY <1>2, DialogFilled
<1> QED
    BY <1>1, <1>2, ListTurns, RecordsChange, ClaimToggled, ClaimConfirmed, ClaimsSettle, ReportGenerated
    DEF Listing!ListNext, ListShows, ListForm

LEMMA ListIdle == ASSUME ListInv, UNCHANGED listVars PROVE ListInv'
    BY AlertsStay DEF listVars, ListInv, ListServer, ListLoaded, ListForms

(***************************************************************************)
(* Together: only the page in the tab moves, and each keeps its own.       *)
(***************************************************************************)
OfficeInv ==
    /\ tab \in {"app", "results", "desk", "lists", "history"}
    /\ AppInv /\ ResultsInv /\ DeskInv /\ ListInv /\ HistoryInv

LEMMA OfficeStarts == Init => OfficeInv
    BY AppStarts, ResultsBegin, DeskStarts, ListStarts, HistoryStarts
    DEF Init, OfficeInv, ResultsStart, DeskStart, ListStart, HistoryStart

LEMMA OfficeStep == ASSUME OfficeInv, [Next]_officeVars PROVE OfficeInv'
<1> USE DEF OfficeInv
<1>1. CASE tab = "app" /\ AppNext /\ UNCHANGED <<resultsVars, deskVars, listVars, historyVars>> /\ tab' = tab
    BY <1>1, AppStep, ResultsIdle, DeskIdle, ListIdle, HistoryIdle
<1>2. CASE tab = "results" /\ Portal!ResultsNext /\ UNCHANGED <<appVars, deskVars, listVars, historyVars>> /\ tab' = tab
    BY <1>2, AppIdle, ResultsStep, DeskIdle, ListIdle, HistoryIdle
<1>3. CASE tab = "desk" /\ Desk!DeskNext /\ UNCHANGED <<appVars, resultsVars, listVars, historyVars>> /\ tab' = tab
    BY <1>3, AppIdle, ResultsIdle, DeskStep, ListIdle, HistoryIdle
<1>4. CASE tab = "lists" /\ Listing!ListNext /\ UNCHANGED <<appVars, resultsVars, deskVars, historyVars>> /\ tab' = tab
    BY <1>4, AppIdle, ResultsIdle, DeskIdle, ListStep, HistoryIdle
<1>5. CASE tab = "history" /\ History!HistoryNext /\ UNCHANGED <<appVars, resultsVars, deskVars, listVars>>
           /\ tab' = tab
    BY <1>5, AppIdle, ResultsIdle, DeskIdle, ListIdle, HistoryStep
<1>6. CASE UNCHANGED officeVars
    BY <1>6, AppIdle, ResultsIdle, DeskIdle, ListIdle, HistoryIdle DEF officeVars
<1> QED
    BY <1>1, <1>2, <1>3, <1>4, <1>5, <1>6 DEF Next

LEMMA OfficeShown == OfficeInv => ShownIsTrue
<1> SUFFICES ASSUME OfficeInv PROVE ShownIsTrue
    OBVIOUS
<1>1. AppTruth /\ ResultsTruth /\ DeskTruth /\ ListTruth /\ HistoryTruth
    BY AppShown, ResultsShown, DeskShown, ListShown, HistoryShown DEF OfficeInv
<1>2. tab \in {"app", "results", "desk", "lists", "history"}
    BY DEF OfficeInv
<1>3. CASE tab = "app"
    BY <1>1, <1>3, Zenon DEF ShownIsTrue
<1>4. CASE tab = "results"
    BY <1>1, <1>4, Zenon DEF ShownIsTrue
<1>5. CASE tab = "desk"
    BY <1>1, <1>5, Zenon DEF ShownIsTrue
<1>6. CASE tab = "lists"
    BY <1>1, <1>6, Zenon DEF ShownIsTrue
<1>7. CASE tab = "history"
    BY <1>1, <1>7, Zenon DEF ShownIsTrue
<1> QED
    BY <1>2, <1>3, <1>4, <1>5, <1>6, <1>7

\* Whatever page is open in a tab, and however it got there, what it shows and says
\* is so: for any number of results, rows, entries, Clients and sessions.
THEOREM ShownTrue == Spec => []ShownIsTrue
<1>1. Init => OfficeInv
    BY OfficeStarts
<1>2. OfficeInv /\ [Next]_officeVars => OfficeInv'
    BY OfficeStep
<1>3. OfficeInv => ShownIsTrue
    BY OfficeShown
<1> QED
    BY <1>1, <1>2, <1>3, PTL DEF Spec
=============================================================================
