SPECIFICATION TracksSpec
CONSTANTS
    LastDay = 7
    Markets <- mcMarkets
    Symbols <- mcSymbols
    MarketOf <- mcMarketOf
    Unsupported = {9}
    Close <- mcClose
    Volume <- mcVolume
    Amount <- mcAmount
    Net <- mcNet
    Short = 2
    Trend = 3
    Lag = 1
    LongHorizon = 5
    ShortHorizon = 3
    MinTurnover = 300
    MinPrice = 20
    TrackLimit = 3
    Settings <- mcSettings
    None = None
    Stocks <- avStocks
    ExchangeOf <- avExchangeOf
    Listing <- avListing
    Dates <- avDays
    MonthOf <- avMonthOf
    BarOf <- avBarOf
    FinMindAmount = FALSE
    MinBars = 3
    SwingBars = 3
    BreakoutBars = 2
    Lookback = 4
    MaxAge = 1
    AvwapSettings <- avSettings
PROPERTIES UniverseIsRight AveragesAreRight
CHECK_DEADLOCK FALSE
