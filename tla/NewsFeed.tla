------------------------------ MODULE NewsFeed ------------------------------
(***************************************************************************)
(* A news digest: its feeds are fetched side by side and answer in any      *)
(* order, their items are scored, joined and, when a ranker is configured,  *)
(* chosen and reworded by a model, and rendered as messages that split only *)
(* between items.  Links, titles and feeds are names; a text is a sequence  *)
(* of pieces that end with a dot, each with a length and a keyword; what is *)
(* empty, no keyword, link or title, is None.  The header of a message, for *)
(* which room is set aside, is left out.                                    *)
(***************************************************************************)
EXTENDS Nothing, Integers, Sequences, FiniteSets, SequencesExt, FiniteSetsExt

CONSTANTS
  Feeds,                  \* url -> [format, entries]: what a feed serves
  FeedLists,              \* sequences of urls a digest may combine
  Rankings,               \* answers of the model: sequences of [link, length]
  WithRanker,             \* subset of BOOLEAN: the configurations that are checked
  topN, poolMultiplier, maxFeedURLs,
  summaryMaxSentences, digestSummaryMaxLen, maxContentLen,
  Unreadable,             \* a date in no layout that is known
  Window,                 \* a week: how long an item is recent
  MaxHours

VARIABLES
  hours,
  ranker,                 \* a model ranks the items
  digest,                 \* the digest in the making, or None
  sent                    \* the last one: [failed, items, parts, ...], or None

newsVars == <<hours, ranker, digest, sent>>

\* The sentences before the i-th piece: a dot after an abbreviation or an initial ends none.
sentencesBefore(pieces, i) == Cardinality({j \in 1..i - 1 : ~pieces[j].abbreviation})
extractSummary(pieces) ==
  SubSeq(pieces, 1, Cardinality({i \in DOMAIN pieces : sentencesBefore(pieces, i) < summaryMaxSentences}))
LengthOf(pieces) == FoldLeft(LAMBDA n, p : n + p.length, 0, pieces)

\* The first link that is the page's own, or else the first.
pickAtomLink(links) ==
  LET own == SelectSeq(links, LAMBDA l : l.rel \in {None, "alternate"})
  IN IF own # <<>> THEN own[1].href ELSE IF links # <<>> THEN links[1].href ELSE None

parseDate(said) == IF said = Unreadable THEN None ELSE said
\* An entry that says nothing of its publication has the date of its update; an
\* RSS item has its link as it is.
NewsItem(format, e) ==
  [title |-> e.title, titleKeyword |-> e.titleKeyword,
   published |-> parseDate(IF format = "atom" /\ e.published = None THEN e.updated ELSE e.published),
   link |-> IF format = "atom" THEN pickAtomLink(e.links) ELSE e.link,
   summary |-> extractSummary(IF format = "atom" /\ e.summary = <<>> THEN e.content ELSE e.summary)]

Formats == {"rss", "atom"}
parseFeed(feed) == [i \in DOMAIN feed.entries |-> NewsItem(feed.format, feed.entries[i])]

\* Ten for each keyword, and up to seven, by the hour of a week, for an item that is
\* recent; times Window to stay whole.
scoreItem(item, now) ==
  LET keywords == ({item.titleKeyword} \cup {item.summary[i].keyword : i \in DOMAIN item.summary}) \ {None}
      age == Max({0, now - item.published})
  IN 10 * Window * Cardinality(keywords)
     + IF item.published = None THEN 0 ELSE IF age < Window THEN 7 * (Window - age) ELSE 0

storyOf(item) == IF item.link # None THEN item.link ELSE item.title

Before(items, i, j) == items[i].score > items[j].score \/ (items[i].score = items[j].score /\ i < j)
\* What is in S in the order of a relation: the n-th has n - 1 before it.
inSequence(S, before) ==
  [n \in 1..Cardinality(S) |-> CHOOSE i \in S : Cardinality({j \in S : <<j, i>> \in before}) = n - 1]
sortedBy(items, kept) ==
  LET order == inSequence(kept, {p \in kept \X kept : Before(items, p[1], p[2])})
  IN [n \in DOMAIN order |-> items[order[n]]]

\* Mutant: a story may come twice.
sortOnly(items) == sortedBy(items, {i \in DOMAIN items : storyOf(items[i]) # None})
\* The first item of each story, best score first, ties in the order they came.
dedupAndSort(items) ==
  sortedBy(items, {i \in DOMAIN items : storyOf(items[i]) # None
                     /\ \A k \in 1..i - 1 : storyOf(items[k]) # storyOf(items[i])})

Phases == {"fetching", "merged", "ranking", "rendering"}

ASSUME NewsAssumption ==
  /\ {None, Unreadable} \cap Int = {} /\ None # Unreadable
  /\ topN \in Nat \ {0} /\ {poolMultiplier, maxFeedURLs, summaryMaxSentences, Window, MaxHours} \subseteq Nat
  /\ \A list \in FeedLists : list \in Seq(DOMAIN Feeds)
  /\ \A picks \in Rankings : picks \in Seq(Range(picks))
  /\ \A url \in DOMAIN Feeds :
       /\ Feeds[url].entries \in Seq(Range(Feeds[url].entries))
       /\ \A e \in Range(Feeds[url].entries) :
            /\ e.published \in {None, Unreadable} \cup Int /\ e.summary \in Seq(Range(e.summary))
            /\ Feeds[url].format = "atom" =>
                 e.updated \in {None, Unreadable} \cup Int /\ e.content \in Seq(Range(e.content))

NewsTypeOK ==
  /\ hours \in 0..MaxHours /\ ranker \in WithRanker
  /\ digest # None =>
       /\ digest.phase \in Phases /\ digest.list \in FeedLists
       /\ digest.got \in [DOMAIN digest.list -> {"waiting", "failed", "items"}]
  /\ sent # None => sent.list \in FeedLists /\ \A i \in DOMAIN sent.parts : sent.parts[i] # <<>>

NewsInit ==
  /\ hours = 0 /\ ranker \in WithRanker /\ digest = None /\ sent = None

NewsPass ==
  /\ hours < MaxHours /\ hours' = hours + 1
  /\ UNCHANGED <<ranker, digest, sent>>

Sent(list, got, scored, items, parts, failed) ==
  /\ sent' = [list |-> list, got |-> got, scored |-> scored, items |-> items, parts |-> parts, failed |-> failed]
  /\ digest' = None

\* parseFeedURLs has dropped what is empty; no url, or too many, is an error.
BeginFetch ==
  /\ digest = None
  /\ \E list \in FeedLists :
       IF Len(list) \in 1..maxFeedURLs
       THEN /\ digest' = [phase |-> "fetching", list |-> list, items |-> <<>>, scored |-> None,
                          got |-> [i \in DOMAIN list |-> "waiting"]]
            /\ sent' = None
       ELSE Sent(list, <<>>, None, <<>>, <<>>, TRUE)
  /\ UNCHANGED <<hours, ranker>>

\* One of the goroutines; a feed in another format, as one that is down, has failed.
fetchAndParse ==
  /\ digest # None /\ digest.phase = "fetching"
  /\ \E i \in DOMAIN digest.list :
       /\ digest.got[i] = "waiting"
       /\ \E got \in {"failed"} \cup (IF Feeds[digest.list[i]].format \in Formats THEN {"items"} ELSE {}) :
            digest' = [digest EXCEPT !.got[i] = got]
  /\ UNCHANGED <<hours, ranker, sent>>

\* The items of the feeds that answered, in the order of the list, each with the
\* feed it is of.
ItemsOf(list, i) ==
  LET items == parseFeed(Feeds[list[i]])
  IN [n \in DOMAIN items |-> [item |-> items[n], feed |-> i]]
collected(list, got) ==
  FlattenSeq([i \in DOMAIN list |-> IF got[i] = "items" THEN ItemsOf(list, i) ELSE <<>>])
Scored(items) ==
  [n \in DOMAIN items |->
     [title |-> items[n].item.title, link |-> items[n].item.link, feed |-> items[n].feed, place |-> n,
      length |-> LengthOf(items[n].item.summary), score |-> scoreItem(items[n].item, hours)]]

Merge ==
  /\ digest # None /\ digest.phase = "fetching" /\ \A i \in DOMAIN digest.list : digest.got[i] # "waiting"
  /\ IF \A i \in DOMAIN digest.list : digest.got[i] = "failed"
     THEN Sent(digest.list, digest.got, None, <<>>, <<>>, TRUE)
     ELSE /\ LET scored == Scored(collected(digest.list, digest.got))
             IN digest' = [digest EXCEPT !.phase = "merged", !.scored = scored, !.items = dedupAndSort(scored)]
          /\ UNCHANGED sent
  /\ UNCHANGED <<hours, ranker>>

firstOf(items, n) == SubSeq(items, 1, Min({n, Len(items)}))

rankNews ==
  /\ digest # None /\ digest.phase = "merged"
  /\ digest' = [digest EXCEPT !.phase = IF ranker /\ digest.items # <<>> THEN "ranking" ELSE "rendering"]
  /\ UNCHANGED <<hours, ranker, sent>>

\* Rank: what the model picked of the pool it was shown, by link, with its words.
Meant(pool, pick) == {i \in DOMAIN pool : pool[i].link = pick.link}
Reworded(pool, pick) ==
  LET item == pool[CHOOSE i \in Meant(pool, pick) : TRUE]
  IN IF pick.length = None THEN item ELSE [item EXCEPT !.length = pick.length]
Picked(pool, picks) ==
  LET known == {k \in DOMAIN picks : picks[k].link # None /\ Meant(pool, picks[k]) # {}}
      order == inSequence(known, {p \in known \X known : p[1] < p[2]})
  IN firstOf([n \in DOMAIN order |-> Reworded(pool, picks[order[n]])], topN)

\* A model that fails, or picks nothing that is there, leaves the order as it is.
Rank ==
  /\ digest # None /\ digest.phase = "ranking"
  /\ \E picks \in Rankings \cup {<<>>} :
       LET ranked == Picked(firstOf(digest.items, topN * poolMultiplier), picks)
       IN digest' = [digest EXCEPT !.phase = "rendering", !.items = IF ranked = <<>> THEN @ ELSE ranked]
  /\ UNCHANGED <<hours, ranker, sent>>

blockLength(item) == 1 + Min({item.length, digestSummaryMaxLen})
PartLength(part) ==
  LET upto[n \in 0..Len(part)] == IF n = 0 THEN 0 ELSE upto[n - 1] + blockLength(part[n])
  IN upto[Len(part)]

\* Items are packed until the next one does not fit.
Packed(parts, item) ==
  IF parts # <<>> /\ PartLength(Last(parts)) + blockLength(item) <= maxContentLen
  THEN Append(Front(parts), Append(Last(parts), item)) ELSE Append(parts, <<item>>)
renderNewsDigest(items) ==
  LET upto[n \in 0..Len(items)] == IF n = 0 THEN <<>> ELSE Packed(upto[n - 1], items[n])
  IN upto[Len(items)]

evaluateNewsDigest ==
  /\ digest # None /\ digest.phase = "rendering"
  /\ LET items == firstOf(digest.items, topN)
     IN Sent(digest.list, digest.got, digest.scored, items, renderNewsDigest(items), FALSE)
  /\ UNCHANGED <<hours, ranker>>

NewsNext ==
  \/ NewsPass \/ BeginFetch \/ fetchAndParse \/ Merge \/ rankNews \/ Rank \/ evaluateNewsDigest

NewsSpec == NewsInit /\ [][NewsNext]_newsVars

\* A digest fails only when no feed answered.
FailsTogether ==
  sent # None /\ Len(sent.list) \in 1..maxFeedURLs =>
    (sent.failed <=> \A i \in DOMAIN sent.list : sent.got[i] = "failed")

\* The messages hold the items, all of them and in order, none longer than Telegram
\* takes unless it is one item.
PartsAreWhole ==
  sent # None =>
    /\ FlattenSeq(sent.parts) = sent.items
    /\ \A i \in DOMAIN sent.parts : PartLength(sent.parts[i]) <= maxContentLen \/ Len(sent.parts[i]) = 1

\* An item comes before another by its score and then by the place of its feed in
\* the list, never by which feed was faster.
Precedes(a, b) == a.score > b.score \/ (a.score = b.score /\ a.place < b.place)
Told(item) == \E n \in DOMAIN sent.items : storyOf(sent.items[n]) = storyOf(item) /\ sent.items[n].place <= item.place

\* Without a model's choice the digest has the best topN stories, each once, in
\* their order: what is missing has its story told by an earlier item, has neither
\* link nor title, or comes after a full digest's last.
BestAreChosen ==
  sent # None /\ ~sent.failed /\ ~ranker =>
    /\ \A m, n \in DOMAIN sent.items :
         m < n => Precedes(sent.items[m], sent.items[n]) /\ storyOf(sent.items[m]) # storyOf(sent.items[n])
    /\ \A k \in DOMAIN sent.scored :
         LET item == sent.scored[k] IN
         \/ storyOf(item) = None \/ Told(item)
         \/ Len(sent.items) = topN
            /\ \E j \in 1..k : /\ storyOf(sent.scored[j]) = storyOf(item)
                                /\ Precedes(Last(sent.items), sent.scored[j])

\* With a model's choice it still has only items of feeds that answered, topN at most.
NothingInvented ==
  sent # None =>
    /\ Len(sent.items) <= topN
    /\ \A n \in DOMAIN sent.items :
         /\ sent.got[sent.items[n].feed] = "items"
         /\ \E k \in DOMAIN sent.scored : sent.scored[k].place = sent.items[n].place
              /\ sent.scored[k].link = sent.items[n].link

DigestIsFaithful == FailsTogether /\ PartsAreWhole /\ BestAreChosen /\ NothingInvented
=============================================================================
