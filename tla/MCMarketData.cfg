CONSTANTS
  Users = {u1, u2}
  Calls <- MCCalls
  Refill = 2
  Token = 3
  PerSecond = 2
  Interval = 2
  Zero = Zero
  Symbols = {"Si-12.26", "RIZ6", "other"}
  Listings <- MCListings
  Candles <- MCCandles
  SecurityIds <- MCSecurityIds
SPECIFICATION FairMarketSpec
INVARIANTS MarketTypeOK RateRespected AnswersAskedFor
PROPERTIES CookieKept GetReturns MarketReturns
