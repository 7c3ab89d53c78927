------------------------------- MODULE Prices -------------------------------
(***************************************************************************)
(* The price provider: a product page is fetched like a browser would, by   *)
(* plain requests that share one cookie jar or in a headless tab that waits *)
(* out a challenge, and the first source of the page that has a usable      *)
(* price decides.  The shop, its guard and its pages are its own.           *)
(***************************************************************************)
EXTENDS Nothing, Integers, Sequences, SequencesExt, FiniteSetsExt

CONSTANTS
  Pages, Content,         \* what a shop may show: names, and what each page prints
  Guards,                 \* subset of {"open", "cookie", "closed", "challenge"}
  maxFetchAttempts,
  TabTimeout, Reserve,    \* of a headless tab and kept for reading it: 30 s, 3 s
  Headless                \* subset of BOOLEAN: the configurations that are checked

VARIABLES
  headless,
  shop,                   \* [guard, page]
  jar,                    \* the shop's cookie is in the jar that samples share
  visiting,               \* the sample on its way, or None
  measured,               \* what the last sample came to, or None
  visits,                 \* history: what the requests of this sample met with
  forgotten               \* history: the shop's cookie expired while it was on its way

priceVars == <<headless, shop, jar, visiting, measured, visits, forgotten>>

(***************************************************************************)
(* A price as printed is [whole, rest]: the number up to the first dot or   *)
(* comma, and the digits and dots after it; what is no number is dropped.   *)
(***************************************************************************)
Dot == -1
ParsePrice(text) ==
  LET dec == SubSeq(text.rest, 1, Min({2, Len(text.rest)}))
      digits == Dot \notin Range(dec)
  IN IF text.whole = None THEN None
     ELSE IF dec = <<>> \/ ~digits THEN text.whole * 100
     ELSE text.whole * 100 + dec[1] * 10 + (IF Len(dec) = 2 THEN dec[2] ELSE 0)

usable(text) == text # None /\ ParsePrice(text) # None /\ ParsePrice(text) > 0
FirstUsable(texts) ==
  LET i == SelectInSeq(texts, usable) IN IF i = 0 THEN None ELSE ParsePrice(texts[i])

\* An offer is [price, number]: a price or None, and whether JSON takes it for a
\* number.  One that it does not ends the offers of its node.
Decoded(offers) ==
  LET bad == SelectInSeq(offers, LAMBDA offer : ~offer.number)
      until == IF bad = 0 THEN Len(offers) ELSE bad - 1
  IN [i \in 1..until |-> offers[i].price]

\* Mutant: the offers of any node count.
priceFromAnyNode(node) == IF node.offers # None THEN FirstUsable(Decoded(node.offers)) ELSE None
\* Only a product has offers that count.
priceFromNode(node) ==
  IF node.type = "product" /\ node.offers # None THEN FirstUsable(Decoded(node.offers)) ELSE None
\* Of the nodes of a page's JSON-LD blocks, one after another, the first with a price.
extractJSONLD(page) ==
  LET i == SelectInSeq(page.jsonld, LAMBDA node : priceFromNode(node) # None)
  IN IF i = 0 THEN None ELSE priceFromNode(page.jsonld[i])

\* A property counts before a name, and its first occurrence only.
collectMetas(page, key) ==
  LET metas == page.properties \o page.names
      i == SelectInSeq(metas, LAMBDA m : m.key = key)
  IN IF i = 0 THEN None ELSE metas[i].text
priceMeta(page) ==
  LET product == collectMetas(page, "product:price:amount")
  IN IF product # None THEN product ELSE collectMetas(page, "og:price:amount")
extractOGMeta(page) ==
  IF ~usable(priceMeta(page)) THEN None ELSE ParsePrice(priceMeta(page))

\* Of either order of the attributes the first only.
extractMicrodata(page) == FirstUsable(page.microdata)

\* A price in a script must be one of a shop: from 10 to 10 000 000 roubles.
sane(text) == usable(text) /\ ParsePrice(text) >= 1000 /\ ParsePrice(text) <= 1000000000
extractScriptJSON(page) ==
  LET i == SelectInSeq(page.script, sane) IN IF i = 0 THEN None ELSE ParsePrice(page.script[i])

extractPrice(page) ==
  LET found == <<extractJSONLD(page), extractOGMeta(page), extractMicrodata(page), extractScriptJSON(page)>>
      i == SelectInSeq(found, LAMBDA p : p # None)
  IN IF i = 0 THEN None ELSE found[i]

\* What a page prints as a price of its product, in each of the places that are
\* looked at, one place after another.
Printed(page) ==
  LET Products == {n \in Range(page.jsonld) : n.type = "product" /\ n.offers # None}
      Prices(texts) == {ParsePrice(t) : t \in {t \in texts : usable(t)}}
  IN <<Prices(UNION {Range(Decoded(node.offers)) : node \in Products}),
       Prices({priceMeta(page)} \ {None}),
       Prices(Range(page.microdata)),
       Prices({t \in Range(page.script) : sane(t)})>>
PrintedText == [whole : {None} \cup Nat, rest : Seq(0..9 \cup {Dot})]
Offer == [price : {None} \cup PrintedText, number : BOOLEAN]
ASSUME ShopAssumption ==
  \A p \in Pages :
    /\ Content[p].jsonld \in Seq([type : STRING, offers : {None} \cup Seq(Offer)])
    /\ Content[p].properties \in Seq([key : STRING, text : PrintedText])
    /\ Content[p].names \in Seq([key : STRING, text : PrintedText])
    /\ Content[p].microdata \in Seq(PrintedText) /\ Content[p].script \in Seq(PrintedText)
\* What a guarded shop shows a browser before its pages.
Challenges == {"qrator", "servicepipe"}
ASSUME PricesAssumption ==
  /\ maxFetchAttempts \in Nat \ {0} /\ TabTimeout \in Nat /\ Reserve \in Nat
  /\ Headless \subseteq BOOLEAN /\ Pages \cap Challenges = {}

FetchSteps == {"url", "page", "root", "again", "loaded", "waiting", "renewed", "settled"}

PricesTypeOK ==
  /\ headless \in Headless /\ shop.guard \in Guards /\ shop.page \in Pages /\ jar \in BOOLEAN
  /\ visiting # None => visiting.step \in FetchSteps /\ visiting.attempt \in 1..maxFetchAttempts
                        /\ visiting.left \in 0..TabTimeout

PricesInit ==
  /\ headless \in Headless
  /\ shop \in [guard : Guards, page : Pages]
  /\ jar = FALSE /\ visiting = None /\ measured = None /\ visits = <<>> /\ forgotten = FALSE

ShopChanges ==
  /\ \E page \in Pages : page # shop.page /\ shop' = [shop EXCEPT !.page = page]
  /\ UNCHANGED <<headless, jar, visiting, measured, visits, forgotten>>

BeginSample ==
  /\ visiting = None
  /\ visiting' = [step |-> "url", attempt |-> 1, cancelled |-> FALSE, left |-> TabTimeout,
                    tab |-> None, cookie |-> FALSE, budget |-> 0]
  /\ measured' = None /\ visits' = <<>> /\ forgotten' = FALSE
  /\ UNCHANGED <<headless, shop, jar>>

Visit(what) == visits' = Append(visits, what)

Ends(available, value, status, page) ==
  /\ measured' = [available |-> available, value |-> value, status |-> status, page |-> page,
                  error |-> ~available /\ status \notin {"moved", "denied", "gone"}, left |-> visiting.left]
  /\ visiting' = None

\* Without a usable price a sample says 0, which the evaluator passes over.
Measured(page) ==
  LET price == IF page \in Pages THEN extractPrice(Content[page]) ELSE None
  IN Ends(TRUE, IF price = None THEN 0 ELSE price, "none", page)

\* An address that is not one of a shop, or whose host is not found, though only
\* for a moment, ends the sample at once.
validateURL ==
  /\ visiting # None /\ visiting.step = "url"
  /\ \/ visiting' = [visiting EXCEPT !.step = "page"] /\ UNCHANGED measured
     \/ Ends(FALSE, 0, "none", None)
  /\ UNCHANGED <<headless, shop, jar, visits, forgotten>>

Plain == visiting # None /\ visiting.step # "url" /\ ~headless

\* The evaluation runs out of its time, or the process stops.
CancelSample ==
  /\ Plain /\ ~visiting.cancelled
  /\ visiting' = [visiting EXCEPT !.cancelled = TRUE]
  /\ UNCHANGED <<headless, shop, jar, measured, visits, forgotten>>

\* What the shop answers a plain request with; a broken shop may answer anything.
statuses ==
  (IF shop.guard \in {"closed", "challenge"} \/ (shop.guard = "cookie" /\ ~jar) THEN {"denied"} ELSE {"ok"})
    \cup {"moved", "gone", "broken"}

\* A timeout or a DNS failure that may pass is tried again, twice at most and not
\* when the sample is cancelled; a body that breaks off is not.
NetworkFails ==
  /\ Plain
  /\ \E got \in IF visiting.cancelled THEN {"cancelled"} ELSE {"temporary", "lost"} :
       /\ Visit([asked |-> visiting.step, got |-> got])
       /\ IF got = "temporary" /\ visiting.attempt < maxFetchAttempts
          THEN visiting' = [visiting EXCEPT !.attempt = @ + 1] /\ UNCHANGED measured
          ELSE IF visiting.step = "root"
               THEN visiting' = [visiting EXCEPT !.step = "again", !.attempt = 1] /\ UNCHANGED measured
               ELSE Ends(FALSE, 0, "none", None)
  /\ UNCHANGED <<headless, shop, jar, forgotten>>

\* The root of the shop is visited for its cookie; how that goes does not matter.
warmSession ==
  /\ Plain /\ visiting.step = "root" /\ ~visiting.cancelled
  /\ \E greets \in BOOLEAN :
       /\ jar' = (jar \/ (greets /\ shop.guard = "cookie"))
       /\ Visit([asked |-> "root", got |-> IF greets THEN "ok" ELSE "broken"])
  /\ visiting' = [visiting EXCEPT !.step = "again", !.attempt = 1]
  /\ UNCHANGED <<headless, shop, measured, forgotten>>

\* Only a 200 ("ok") has a body; a redirect that was not followed has none and no error.
fetchBody ==
  /\ Plain /\ visiting.step \in {"page", "again"} /\ ~visiting.cancelled
  /\ \E status \in statuses :
       /\ Visit([asked |-> visiting.step, got |-> status])
       /\ CASE status = "ok" -> Measured(shop.page)
            [] status = "denied" /\ visiting.step = "page" ->
                 visiting' = [visiting EXCEPT !.step = "root", !.attempt = 1] /\ UNCHANGED measured
            [] OTHER -> Ends(FALSE, 0, status, None)
  /\ UNCHANGED <<headless, shop, jar, forgotten>>

\* The shop forgets whom it greeted.
CookieExpires ==
  /\ jar /\ jar' = FALSE
  /\ forgotten' = (forgotten \/ visiting # None)
  /\ UNCHANGED <<headless, shop, visiting, measured, visits>>

(***************************************************************************)
(* The headless tab, which has no cookie at first.  The shop lets it pass   *)
(* the challenge at some time, or never, by showing the page or only by a   *)
(* cookie, with which a second visit shows it.                              *)
(***************************************************************************)
Tab == visiting # None /\ visiting.step # "url" /\ headless

\* Navigate and wait for the document: the challenge of a guarded shop, or the page.
Navigate ==
  /\ Tab /\ visiting.step = "page"
  /\ \E shown \in (IF shop.guard = "challenge" THEN Challenges ELSE {shop.page}) :
       visiting' = [visiting EXCEPT !.step = "loaded", !.tab = shown]
  /\ UNCHANGED <<headless, shop, jar, measured, visits, forgotten>>

\* A page is given a moment for its price widgets; a challenge all that is left but
\* the reserve, and the reserve at least.
DetectChallenge ==
  /\ Tab /\ visiting.step = "loaded"
  /\ \/ /\ visiting.tab \in Challenges
        /\ visiting' = [visiting EXCEPT !.step = "waiting",
                          !.budget = Max({Reserve, visiting.left - Reserve})]
     \/ /\ visiting.tab \notin Challenges /\ visiting.left > 0
        /\ visiting' = [visiting EXCEPT !.step = "settled", !.left = @ - 1]
  /\ UNCHANGED <<headless, shop, jar, measured, visits, forgotten>>

\* The challenge shows the page, only sets its cookie, or its time is up.
ChallengeEnds ==
  /\ Tab /\ visiting.step = "waiting"
  /\ \/ visiting' = [visiting EXCEPT !.step = "renewed", !.tab = shop.page]
     \/ ~visiting.cookie /\ visiting' = [visiting EXCEPT !.cookie = TRUE]
     \/ visiting.budget = 0 /\ visiting' = [visiting EXCEPT !.step = "renewed"]
  /\ UNCHANGED <<headless, shop, jar, measured, visits, forgotten>>

\* ServicePipe's page is asked for once more: with its cookie it is the page.
NavigateAgain ==
  /\ Tab /\ visiting.step = "renewed"
  /\ visiting' = [visiting EXCEPT !.step = "settled",
                    !.tab = IF @ = "servicepipe" /\ visiting.cookie THEN shop.page ELSE @]
  /\ UNCHANGED <<headless, shop, jar, measured, visits, forgotten>>

ReadTab ==
  /\ Tab /\ visiting.step = "settled"
  /\ Measured(visiting.tab)
  /\ UNCHANGED <<headless, shop, jar, visits, forgotten>>

\* Time passes in the tab; all of it fails at its deadline, and it may before, also
\* when the sample is cancelled.
TabTime ==
  /\ Tab
  /\ \/ /\ visiting.left > 0
        /\ visiting.step = "waiting" => visiting.budget > 0
        /\ visiting' = [visiting EXCEPT !.left = @ - 1,
                          !.budget = IF visiting.step = "waiting" THEN @ - 1 ELSE @]
        /\ UNCHANGED measured
     \/ Ends(FALSE, 0, "none", None)
  /\ UNCHANGED <<headless, shop, jar, visits, forgotten>>

PricesNext ==
  \/ ShopChanges \/ BeginSample \/ validateURL \/ CancelSample \/ NetworkFails \/ warmSession \/ fetchBody \/ CookieExpires
  \/ Navigate \/ DetectChallenge \/ ChallengeEnds \/ NavigateAgain \/ ReadTab \/ TabTime

PricesSpec == PricesInit /\ [][PricesNext]_priceVars

\* A price that is reported is printed by a page of the shop that this sample was
\* shown, as a price of its product, where no place that goes before prints any.
PriceIsTrue ==
  measured # None /\ measured.value > 0 =>
    /\ measured.page \in Pages
    /\ LET printed == Printed(Content[measured.page])
       IN \E n \in 1..4 : measured.value \in printed[n] /\ \A m \in 1..n - 1 : printed[m] = {}

\* A plain sample is given up before it asked the shop for anything, or for a failure
\* that lasts or will not pass, or when it is cancelled; it is refused only by a
\* page that is gone, or by a shop that was greeted and asked again, and by one that
\* wants its cookie only when it gave none or forgot it.
RefusalIsDue ==
  LET last == visits[Len(visits)]
      Lasted == Len(visits) >= maxFetchAttempts
                /\ \A i \in Len(visits) - maxFetchAttempts + 1..Len(visits) : visits[i].got = "temporary"
      greeted == [asked |-> "root", got |-> "ok"] \in Range(visits)
  IN measured # None /\ ~headless /\ ~measured.available =>
       /\ measured.error => visits = <<>> \/ last.got \in {"lost", "broken", "cancelled"} \/ Lasted
       /\ ~measured.error => visits # <<>> /\ last.got = measured.status
       /\ measured.status = "denied" =>
            /\ last.asked = "again" /\ \E i \in DOMAIN visits : visits[i].asked = "root"
            /\ shop.guard = "cookie" /\ greeted => forgotten

\* A tab is read with a challenge in it only when all its time but the reserve went
\* by waiting it out.
ChallengeIsWaitedOut ==
  measured # None /\ measured.available /\ measured.page \in Challenges => measured.left <= Reserve

SampleIsHonest == PriceIsTrue /\ RefusalIsDue /\ ChallengeIsWaitedOut
=============================================================================
