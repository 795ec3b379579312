--------------------------------- MODULE Rtc ---------------------------------
(***************************************************************************)
(* The real-time clock (rtc.c, with RTC_VT_EN): the chip interrupts at     *)
(* RTC_MAX_FREQ, the handler divides that down to the frequency the last   *)
(* open or write chose, and rtc_read waits for the flag the handler sets.  *)
(* One program at a time makes calls; calls enter with interrupts off.     *)
(***************************************************************************)
EXTENDS Integers

CONSTANTS
    RTC_MAX_FREQ, RTC_BASE_FREQ,
    OSC,                \* 32768, the frequency the chip divides
    RATE_LOW, RATE_HIGH,    \* the rates rtc_set_rate tries, 6 and 15
    Freqs               \* values programs write

ASSUME RtcAssumption ==
    /\ RTC_MAX_FREQ \in Nat /\ RTC_BASE_FREQ \in Nat /\ OSC \in Nat
    /\ RTC_BASE_FREQ >= 1 /\ RTC_BASE_FREQ <= RTC_MAX_FREQ
    /\ RATE_LOW \in Nat /\ RATE_HIGH \in Nat /\ 1 <= RATE_LOW /\ RATE_LOW <= RATE_HIGH
    /\ Freqs \subseteq Nat

VARIABLES
    rtc_interrupt_occurred, rtc_counter, rtc_max_count,
    \* the chip: the rate in register A (0 until set), and whether register C holds an
    \* interrupt that has not been acknowledged; the interrupt request it raised
    rate, regC, irq,
    intr,       \* the interrupt flag of the CPU
    pc,         \* "boot", "user", or the step of rtc_read
    ret,        \* what the last call returned
    unused      \* history: whether the divided clock ticked since the last rtc_read returned

chip == <<rate, regC, irq>>
vars == <<rtc_interrupt_occurred, rtc_counter, rtc_max_count, chip, intr, pc, ret, unused>>

-------------------------------------------------------------------------------
\* 0 for a frequency the chip cannot make.
rtc_set_rate(freq) ==
    LET fits == {i \in RATE_LOW..RATE_HIGH : freq = OSC \div 2^(i - 1)}
    IN  IF fits = {} THEN 0 ELSE CHOOSE i \in fits : \A j \in fits : i <= j

\* Mutant: any frequency in the range.
Accepted_AnyRate(freq) == freq >= RTC_BASE_FREQ /\ freq <= RTC_MAX_FREQ

\* What rtc_write accepts: (freq - 1) & freq is 0 for the powers of two.
Accepted(freq) ==
    /\ freq >= RTC_BASE_FREQ /\ freq <= RTC_MAX_FREQ
    /\ \E j \in 0..30 : freq = 2^j

rtc_init ==
    /\ pc = "boot" /\ pc' = "user"
    /\ rtc_max_count' = RTC_MAX_FREQ \div RTC_BASE_FREQ
    /\ rate' = rtc_set_rate(RTC_MAX_FREQ)
    /\ intr' = TRUE
    /\ UNCHANGED <<rtc_interrupt_occurred, rtc_counter, regC, irq, ret, unused>>

\* Mutant: the counter keeps running from where it is.
SetFreq_KeepsCounter(freq) ==
    rtc_max_count' = RTC_MAX_FREQ \div freq /\ UNCHANGED rtc_counter

\* The new period starts from zero.
SetFreq(freq) == rtc_max_count' = RTC_MAX_FREQ \div freq /\ rtc_counter' = 0

rtc_write(freq, nbytes) ==
    /\ pc = "user"
    /\ IF nbytes = 4 /\ Accepted(freq)
       THEN SetFreq(freq) /\ ret' = nbytes
       ELSE ret' = -1 /\ UNCHANGED <<rtc_max_count, rtc_counter>>
    /\ UNCHANGED <<rtc_interrupt_occurred, chip, intr, pc, unused>>

rtc_open ==
    /\ pc = "user"
    /\ rtc_max_count' = RTC_MAX_FREQ \div RTC_BASE_FREQ
    /\ rtc_interrupt_occurred' = FALSE
    /\ ret' = 0
    /\ UNCHANGED <<rtc_counter, chip, intr, pc, unused>>

\* The system call enters with interrupts off.
ReadEnter ==
    /\ pc = "user" /\ pc' = "enter"
    /\ intr' = FALSE
    /\ UNCHANGED <<rtc_interrupt_occurred, rtc_counter, rtc_max_count, chip, ret, unused>>

ReadSti ==
    /\ pc = "enter" /\ pc' = "wait"
    /\ intr' = TRUE
    /\ UNCHANGED <<rtc_interrupt_occurred, rtc_counter, rtc_max_count, chip, ret, unused>>

\* The wait loop sees the flag.
ReadWait ==
    /\ pc = "wait" /\ rtc_interrupt_occurred
    /\ pc' = "clear"
    /\ UNCHANGED <<rtc_interrupt_occurred, rtc_counter, rtc_max_count, chip, intr, ret,
                   unused>>

\* Mutant: the flag is left set.
ReadClear_Kept ==
    /\ pc = "clear" /\ pc' = "user" /\ ret' = 0 /\ unused' = FALSE
    /\ UNCHANGED <<rtc_interrupt_occurred, rtc_counter, rtc_max_count, chip, intr>>

\* The flag is cleared and the call returns; a tick since the loop is lost with it.
ReadClear ==
    /\ pc = "clear" /\ pc' = "user"
    /\ rtc_interrupt_occurred' = FALSE
    /\ ret' = 0
    /\ unused' = FALSE
    /\ UNCHANGED <<rtc_counter, rtc_max_count, chip, intr>>

\* A period of the chip ends: it interrupts, unless the last interrupt has not been
\* acknowledged, by a read of register C, in which case this one is lost.
Raise ==
    /\ rate # 0
    /\ regC' = TRUE /\ irq' = (irq \/ ~regC)
    /\ UNCHANGED <<rtc_interrupt_occurred, rtc_counter, rtc_max_count, rate, intr, pc, ret,
                   unused>>

Due == rtc_counter + 1 >= rtc_max_count

\* Mutant: register C is not read.
Acknowledge_Missing == UNCHANGED regC

\* Reading register C lets the chip interrupt again.
Acknowledge == regC' = FALSE

rtc_handler ==
    /\ irq /\ intr
    /\ IF Due
       THEN rtc_interrupt_occurred' = TRUE /\ rtc_counter' = 0 /\ unused' = TRUE
       ELSE rtc_counter' = rtc_counter + 1 /\ UNCHANGED <<rtc_interrupt_occurred, unused>>
    /\ Acknowledge /\ irq' = FALSE
    /\ UNCHANGED <<rtc_max_count, rate, intr, pc, ret>>

-------------------------------------------------------------------------------
Init ==
    /\ rtc_interrupt_occurred = FALSE /\ rtc_counter = 0
    /\ rtc_max_count = RTC_MAX_FREQ \div RTC_BASE_FREQ
    /\ rate = 0 /\ regC = FALSE /\ irq = FALSE /\ intr = FALSE
    /\ pc = "boot" /\ ret = 0 /\ unused = FALSE

ReadSteps == ReadSti \/ ReadWait \/ ReadClear

Next ==
    \/ rtc_init
    \/ \E freq \in Freqs, nbytes \in {3, 4} : rtc_write(freq, nbytes)
    \/ rtc_open
    \/ ReadEnter
    \/ ReadSteps
    \/ Raise
    \/ rtc_handler

\* The chip never stops, an enabled interrupt is taken, and a call that has begun goes on.
Spec == Init /\ [][Next]_vars /\ WF_vars(Raise) /\ WF_vars(rtc_handler) /\ WF_vars(ReadSteps)

-------------------------------------------------------------------------------
\* Whatever rate was chosen while the counter was running, it stays below the period: the
\* next tick is never further away than one period of the rate now set.
CounterBelowMax == rtc_counter < rtc_max_count

\* No two reads return on one tick, however the tick falls between the steps of a read.
OneReadPerTick == rtc_interrupt_occurred \/ pc = "clear" => unused

\* Every frequency rtc_write accepts is one the chip could be set to, and no other: the
\* virtualised clock and the build without RTC_VT_EN accept the same writes.
RatesAgree == [][\A f \in Freqs : rtc_write(f, 4) => (ret' = 4 <=> rtc_set_rate(f) # 0)]_vars

\* Every rtc_read returns, whichever rates are set before it and however its steps fall
\* between the interrupts.
RtcReadReturns == (pc = "enter") ~> (pc = "user")

===============================================================================
