----------------------------- MODULE MCOutside -----------------------------
(* What the parts of Outside read, on a small scale.                         *)
EXTENDS Outside, TLC

Polls == {None} \cup [n : {0, 1, 7, 48, 90}, unit : {"minute", "hour"}]
MCTexts ==
  {[PlainText EXCEPT !.rate = [asset |-> a, move |-> m, amount |-> n], !.every = p] :
     a \in {"EUR", "btc", "gold"}, m \in {"above", "below", "rises", "falls"}, n \in {0, 150, 200, 40000}, p \in Polls}
  \cup {[PlainText EXCEPT !.words = w \cup {"weather"}, !.limit = l, !.city = c, !.time = t] :
     w \in SUBSET {"night", "temperature", "rain", "if"}, l \in {None} \cup [move : {"above", "below"}, degrees : {-10, 200}],
     c \in {None, "Omsk"}, t \in {None, 2}}
  \cup {[PlainText EXCEPT !.words = w \cup {"weather", "forecast"}, !.repeat = r, !.time = 2] :
     w \in SUBSET {"tomorrow", "every morning", "rain", "if"}, r \in {None, [period |-> "day", at |-> 2]}}
  \cup {[PlainText EXCEPT !.show = [lead |-> [n |-> n, unit |-> u], title |-> "KVN", channel |-> "First"]] : n \in {0, 3, 60}, u \in Units}
  \cup {[PlainText EXCEPT !.words = w, !.urls = [i \in 1..n |-> i], !.count = k, !.time = 3, !.every = p, !.onceIn = o,
                      !.repeat = [period |-> "day", at |-> 3], !.price = c] :
     w \in {{}, {"cheaper"}, {"digest"}, {"cheaper", "every hour"}}, n \in {0, 2, 11}, k \in {0, 5}, p \in {None, [n |-> 7, unit |-> "hour"]},
     o \in {None, [n |-> 2, unit |-> "hour"]},
     c \in {None} \cup [rule : {"below", "while below", "changes"}, amount : {0, 4000}]}
  \cup {[PlainText EXCEPT !.once = [word |-> w, date |-> d, at |-> 2], !.repeat = r] :
     w \in {"none", "today", "tomorrow", "day after"}, d \in {None, -1, 3}, r \in {None, [period |-> "workday", at |-> 2]}}

MCChannels == <<<<2, "First HD">>, <<1, "First">>, <<3, "News">>>>
MCSimilar == {<<"First HD", "First">>, <<"First HD", "HD">>}
MCBroadcasts ==
  {[at |-> t, title |-> "KVN"] : t \in {2, 3, 4, 7}}
    \cup {[at |-> 4, title |-> "KVN again"], [at |-> 6, title |-> "News"]}
MCQueries ==
  {[asset |-> "fiat", base |-> "EUR", quote |-> "RUB", metric |-> "rate"],
   [asset |-> "crypto", base |-> "bitcoin", quote |-> "RUB", metric |-> "change_24h"],
   [asset |-> "fiat", base |-> "EUR", quote |-> "EUR", metric |-> "rate"]}
MCUnhyphenated == [n \in Places |-> IF n = "Saint-Petersburg" THEN "Saint Petersburg" ELSE None]
MCTemperature == [h \in 0..60 |-> ((h * 7) % 31) - 15]
WeatherQuery(name, kind, day, condition, period) ==
  [name |-> name, kind |-> kind, day |-> day, date |-> 1, condition |-> condition, period |-> period]
MCWeatherQueries ==
  {WeatherQuery("Moscow", "metric", "next_night", "", "night"),
   WeatherQuery("Saint-Petersburg", "metric", "today", "", ""),
   WeatherQuery("Moscow", "event", "tomorrow", "rain", ""),
   WeatherQuery("Nowhere", "event", "today", "", ""),
   WeatherQuery("Tver", "event", "date", "", ""),
   WeatherQuery("Tver", "metric", "date", "", "night")}

Text(whole, rest) == [whole |-> whole, rest |-> rest]
Of(price) == [price |-> price, number |-> TRUE]
Garbage == [price |-> Text(1, <<Dot>>), number |-> FALSE]
Node(type, offers) == [type |-> type, offers |-> offers]
Blank == [jsonld |-> <<>>, properties |-> <<>>, names |-> <<>>, microdata |-> <<>>, script |-> <<>>]
MCContent ==
  [product |-> [Blank EXCEPT !.script = <<Text(20, <<>>)>>,
     !.jsonld = <<Node("breadcrumbs", None), Node("service", <<Of(Text(99, <<>>))>>),
                  Node("product", <<Garbage, Of(Text(5, <<>>))>>),
                  Node("product", <<Of(None), Of(Text(3190, <<5, 0>>)), Of(Text(3200, <<>>)), Garbage>>)>>],
   meta |-> [Blank EXCEPT !.microdata = <<Text(24, <<>>)>>, !.jsonld = <<Node("product", <<Garbage, Of(Text(5, <<>>))>>)>>,
     !.properties = <<[key |-> "og:price:amount", text |-> Text(24, <<>>)]>>,
     !.names = <<[key |-> "product:price:amount", text |-> Text(19, <<9, 9>>)]>>],
   microdata |-> [Blank EXCEPT !.microdata = <<Text(0, <<>>), Text(24, <<0, Dot, 1>>), Text(25, <<>>)>>],
   script |-> [Blank EXCEPT !.script = <<Text(5, <<>>), Text(999, <<0>>)>>,
     !.properties = <<[key |-> "og:price:amount", text |-> Text(0, <<>>)]>>],
   blank |-> Blank]

Piece(length, keyword, abbreviation) == [length |-> length, keyword |-> keyword, abbreviation |-> abbreviation]
Item(title, link, dated, summary) ==
  [title |-> title, titleKeyword |-> None, link |-> link, published |-> dated, summary |-> summary]
Entry(title, keyword, links, dated, updated, summary, content) ==
  [title |-> title, titleKeyword |-> keyword, links |-> links, published |-> dated, updated |-> updated,
   summary |-> summary, content |-> content]
MCFeeds ==
  [rss |-> [format |-> "rss", entries |->
     <<Item("A", "a", 0, <<Piece(3, None, FALSE)>>),
       Item("B", "b", None, <<Piece(1, None, TRUE), Piece(1, "war", FALSE), Piece(2, None, FALSE)>>),
       Item(None, None, 0, <<>>)>>],
   atom |-> [format |-> "atom", entries |->
     <<Entry("A again", None, <<[href |-> "x", rel |-> "enclosure"], [href |-> "a", rel |-> "alternate"]>>, None, 0,
             <<>>, <<Piece(1, "war", FALSE), Piece(1, "crisis", FALSE)>>),
       Entry("C", "war", <<[href |-> "c", rel |-> "self"]>>, 0, None,
             <<Piece(1, None, FALSE), Piece(1, None, FALSE), Piece(1, None, FALSE), Piece(1, "dead", FALSE)>>, <<>>),
       Entry("D", None, <<>>, Unreadable, 0, <<Piece(1, None, FALSE)>>, <<>>)>>],
   page |-> [format |-> "html", entries |-> <<>>]]
MCFeedLists ==
  {<<>>, <<"rss">>, <<"rss", "atom">>, <<"atom", "rss", "page">>, <<"rss", "rss", "atom">>,
   <<"rss", "rss", "atom", "page">>}
MCRankings ==
  {<<[link |-> "c", length |-> 5], [link |-> "a", length |-> None], [link |-> "unknown", length |-> None]>>,
   <<[link |-> "unknown", length |-> 2]>>,
   <<[link |-> "b", length |-> 1], [link |-> "b", length |-> 1], [link |-> "a", length |-> 1], [link |-> "c", length |-> 1]>>}
=============================================================================
