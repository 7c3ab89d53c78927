CONSTANTS
  None = None
  Channels <- MCChannels
  Similar <- MCSimilar
  Coverage = 6
  epgBatchSize = 2
  UpdateInterval = 3
  Timeout = 2
  MaxTime = 10
  MaxFaults = 2
  NumModels = 3
  maxServerRetries = 2
  timeout = 4
  MaxNow = 14
  NoPause = NoPause
  Pauses = {0, 9}
  Fiat = {"EUR"}
  Crypto = {"btc"}
  RateScale = 100
  PercentScale = 10
  MaxInt64 = 30000
  HourLength = 2
  DayLength = 4
  Morning = 1
  threshold = 85
  Texts <- MCTexts
  Broadcasts <- MCBroadcasts
  Wanted = {"KVN", "KVN again"}
  Week = 4
  Zone = 1
  Lookahead = 4
  channelIndexTTL = 2
  MaxClock = 4
  ListedFrom = 1
  Askers = {a1, a2}
  Queries <- MCQueries
  CurrencyCodes = {"EUR", "RUB"}
  CoinIDs = {"bitcoin"}
  fiatCacheTTL = 3
  cryptoCacheTTL = 1
  RequestTimeout = 2
  MaxMoment = 5
  NoRate = NoRate
  DayHours = 4
  NightEnds = 2
  Places = {"Moscow", "Saint-Petersburg", "Nowhere", "Tver"}
  Known = {"Moscow", "Saint Petersburg", "Tver"}
  Unhyphenated <- MCUnhyphenated
  maxCachedLocations = 2
  MaxForecastDays = 2
  RainyDays = {1}
  ShortDays = {1}
  LongDays = {0}
  Temperature <- MCTemperature
  MaxHalfHour = 17
  WeatherQueries <- MCWeatherQueries
  Pages = {"product", "meta", "microdata", "script", "blank"}
  Content <- MCContent
  Guards = {"open", "cookie", "closed", "challenge"}
  maxFetchAttempts = 3
  TabTimeout = 6
  Reserve = 2
  Headless = {TRUE, FALSE}
  Feeds <- MCFeeds
  FeedLists <- MCFeedLists
  Rankings <- MCRankings
  WithRanker = {TRUE, FALSE}
  Unreadable = Unreadable
  topN = 3
  poolMultiplier = 1
  maxFeedURLs = 3
  summaryMaxSentences = 3
  digestSummaryMaxLen = 4
  maxContentLen = 6
  Window = 2
  MaxHours = 2
SPECIFICATION OutsideSpec
CHECK_DEADLOCK FALSE
INVARIANTS OutsideTypeOK GuideIsWhole GuideIsRecent FallsBack UnderstoodAlike PolledInTime WindowIsComplete RateIsRecent ForecastFits SampleIsHonest DigestIsFaithful
