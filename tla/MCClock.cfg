SPECIFICATION ClockSpec
CONSTANTS
    RTC_MAX_FREQ = 1024
    RTC_BASE_FREQ = 2
    OSC = 32768
    RATE_LOW = 6
    RATE_HIGH = 15
    Freqs = {0, 1, 2, 3, 512, 1000, 1024, 2048}
    SLOTS = 3
    CELLS = 3
    USHORT = 8
    Locations = {1, 2, 3}
    Blinks <- MCBlinks
    LiveScreen <- MCLiveScreen
INVARIANTS CounterBelowMax OneReadPerTick ListIsAllocated CountdownInPhase 
PROPERTIES RatesAgree RtcReadReturns
