--------------------------- MODULE InterruptsProofs ---------------------------
(***************************************************************************)
(* For every depth to which handlers nest: every interrupt let through     *)
(* finds its gate, only the clock's handler is ever interrupted, and the   *)
(* controllers have in service exactly the lines of the innermost handler. *)
(***************************************************************************)
EXTENDS Interrupts, TLAPS

Handlers == [irq : Devices, step : {"body", "return", "iret"}]

Service(h) ==
    IF h.step = "body" THEN {h.irq} \cup (IF h.irq < 8 THEN {} ELSE {Cascade}) ELSE {}

Gates == idt = Present

\* The gates are in place before the first step of entry that enables interrupts, and no
\* handler or system call runs before that step.
BootInv ==
    /\ boot \in 0..7
    /\ boot >= 2 => Gates
    /\ intr \/ stack # <<>> \/ call => boot >= 3
    /\ lost = FALSE

\* Interrupts are on in a handler only between the end of the clock's and its popfl, when
\* nothing is in service.
NestInv ==
    /\ stack \in Seq(Handlers) /\ intr \in BOOLEAN
    /\ OnlyRtcIsNested
    /\ stack # <<>> /\ intr => Last(stack) = [irq |-> RTC_IRQ, step |-> "return"]
    /\ stack # <<>> /\ ~intr => Last(stack) # [irq |-> RTC_IRQ, step |-> "return"]
    /\ isr = IF stack = <<>> THEN {} ELSE Service(Last(stack))

IntInv == BootInv /\ NestInv

-------------------------------------------------------------------------------
\* A handler is entered on top of the ones that run.
LEMMA PushHandler ==
    ASSUME NEW s \in Seq(Handlers), NEW h \in Handlers
    PROVE  /\ Append(s, h) \in Seq(Handlers) /\ Append(s, h) # <<>> /\ Last(Append(s, h)) = h
           /\ Len(Append(s, h)) = Len(s) + 1
           /\ \A j \in 1..Len(s) : Append(s, h)[j] = s[j]
  BY DEF Last

\* A prefix of a sequence, element by element.
LEMMA PrefixIs ==
    ASSUME NEW S, NEW s \in Seq(S), NEW k \in Nat, k <= Len(s)
    PROVE  /\ SubSeq(s, 1, k) \in Seq(S) /\ Len(SubSeq(s, 1, k)) = k
           /\ \A j \in 1..k : SubSeq(s, 1, k)[j] = s[j]
<1>1. Len(s) \in Nat /\ \A j \in 1..Len(s) : s[j] \in S
  OBVIOUS
<1>2. SubSeq(s, 1, k) = [j \in 1..k |-> s[j]]
  BY <1>1
<1>3. [j \in 1..k |-> s[j]] \in Seq(S)
  BY <1>1
<1>4. Len([j \in 1..k |-> s[j]]) = k
  OBVIOUS
<1> QED
  BY <1>2, <1>3, <1>4

\* The innermost handler returns to the one it interrupted.
LEMMA PopHandler ==
    ASSUME NEW s \in Seq(Handlers), s # <<>>
    PROVE  /\ Front(s) \in Seq(Handlers) /\ Len(Front(s)) = Len(s) - 1
           /\ \A j \in 1..(Len(s) - 1) : Front(s)[j] = s[j]
           /\ Front(s) # <<>> => Last(Front(s)) = s[Len(s) - 1] /\ Len(s) - 1 \in 1..(Len(s) - 1)
<1>0. Len(s) - 1 \in Nat /\ Len(s) - 1 <= Len(s)
  OBVIOUS
<1>1. /\ Front(s) \in Seq(Handlers) /\ Len(Front(s)) = Len(s) - 1
      /\ \A j \in 1..(Len(s) - 1) : Front(s)[j] = s[j]
  BY <1>0, PrefixIs DEF Front
<1> HIDE DEF Front
<1>2. Front(s) # <<>> => Len(s) - 1 \in 1..(Len(s) - 1)
  BY <1>1
<1> QED
  BY <1>1, <1>2 DEF Last

\* The innermost handler is replaced; the ones it interrupted stay.
LEMMA ReplaceLast ==
    ASSUME NEW s \in Seq(Handlers), s # <<>>, NEW h \in Handlers
    PROVE  /\ Append(Front(s), h) \in Seq(Handlers) /\ Append(Front(s), h) # <<>>
           /\ Last(Append(Front(s), h)) = h /\ Len(Append(Front(s), h)) = Len(s)
           /\ \A j \in 1..(Len(s) - 1) : Append(Front(s), h)[j] = s[j]
<1>1. Front(s) \in Seq(Handlers) /\ Len(Front(s)) = Len(s) - 1 /\ Len(s) \in Nat
  BY PopHandler
<1>2. \A j \in 1..(Len(s) - 1) : Front(s)[j] = s[j]
  BY PopHandler
<1> QED
  BY <1>1, <1>2, PushHandler

\* Nothing is in service, and nothing enabled, when the boot loader hands over.
LEMMA IntInit == Init => IntInv
<1> SUFFICES ASSUME Init PROVE IntInv
  OBVIOUS
<1>1. stack = <<>> /\ Len(stack) = 0 /\ stack \in Seq(Handlers)
  BY DEF Init
<1>2. OnlyRtcIsNested
  BY <1>1 DEF OnlyRtcIsNested
<1>3. NestInv
  BY <1>1, <1>2, Zenon DEF Init, NestInv
<1>4. BootInv
  BY DEF Init, BootInv
<1> QED
  BY <1>3, <1>4 DEF IntInv

\* entry goes on with no handler running: the order of its steps sets the gates first.
LEMMA BootStepInv ==
    ASSUME IntInv, BootStep
    PROVE  IntInv'
<1>1. boot \in 0..6 /\ boot' = boot + 1 /\ stack = <<>> /\ UNCHANGED <<call, stack, lost>>
  BY DEF BootStep, Booted, BootOrder, IntInv, BootInv
<1>2. /\ boot = 0 => BootOrder[boot + 1] = "i8259_init"
      /\ boot = 1 => BootOrder[boot + 1] = "idt_init"
      /\ boot = 2 => BootOrder[boot + 1] = "rtc_set_rate"
      /\ boot = 3 => BootOrder[boot + 1] = "rtc_enable"
      /\ boot = 4 => BootOrder[boot + 1] = "keyboard_init"
      /\ boot = 5 => BootOrder[boot + 1] = "page_init"
      /\ boot = 6 => BootOrder[boot + 1] = "sti"
  BY <1>1 DEF BootOrder
<1>3. PICK s : /\ s = BootOrder[boot + 1]
               /\ idt' = IF s = "idt_init" THEN Present ELSE idt
               /\ intr' = (intr \/ s \in {"rtc_set_rate", "rtc_enable", "sti"})
               /\ isr' = {} \/ isr' = isr
  BY DEF BootStep
<1>4. boot' >= 2 => idt' = Present
  BY <1>1, <1>2, <1>3 DEF IntInv, BootInv, Gates
<1>5. intr' => boot' >= 3
  <2>1. boot < 2 => s \notin {"rtc_set_rate", "rtc_enable", "sti"}
    BY <1>1, <1>2, <1>3
  <2>2. intr => boot >= 3
    BY DEF IntInv, BootInv
  <2>3. intr' => intr \/ s \in {"rtc_set_rate", "rtc_enable", "sti"}
    BY <1>3, Zenon
  <2> QED
    BY <1>1, <2>1, <2>2, <2>3
<1>6. BootInv'
  BY <1>1, <1>4, <1>5 DEF IntInv, BootInv, Gates
<1>7. NestInv'
  BY <1>1, <1>3 DEF IntInv, NestInv, OnlyRtcIsNested
<1> QED
  BY <1>6, <1>7 DEF IntInv

\* An interrupt is taken: interrupts were on, so the handler interrupted, if any, is the
\* clock's behind its end of interrupt, nothing is in service, and the gates are set.
LEMMA DeliverInv ==
    ASSUME IntInv, NEW irq \in Devices, Deliver(irq)
    PROVE  IntInv'
<1> DEFINE h == [irq |-> irq, step |-> "body"]
<1>1. /\ intr /\ intr' = FALSE /\ stack' = Append(stack, h) /\ h \in Handlers
      /\ UNCHANGED <<mask, idt, boot, call>>
  BY DEF Deliver, Handlers
<1>2. stack \in Seq(Handlers) /\ boot >= 3 /\ idt = Present /\ boot \in 0..7
  BY <1>1 DEF IntInv, NestInv, BootInv, Gates
<1>3. lost' = FALSE
  <2>1. Vector(irq) \in Present
    BY DEF Devices, KEYBOARD_IRQ, RTC_IRQ, Vector, Present
  <2> QED
    BY <1>2, <2>1, Zenon DEF Deliver, IntInv, BootInv
<1>4. BootInv'
  BY <1>1, <1>2, <1>3 DEF BootInv, Gates
<1>5. /\ stack' \in Seq(Handlers) /\ stack' # <<>> /\ Last(stack') = h
      /\ Len(stack') = Len(stack) + 1 /\ Len(stack) \in Nat
      /\ \A j \in 1..Len(stack) : stack'[j] = stack[j]
  BY <1>1, <1>2, PushHandler
<1>6. OnlyRtcIsNested'
  <2> SUFFICES ASSUME NEW j \in 1..(Len(stack') - 1)
               PROVE  stack'[j] = [irq |-> RTC_IRQ, step |-> "return"]
    BY DEF OnlyRtcIsNested
  <2>1. j \in 1..Len(stack) /\ stack'[j] = stack[j]
    BY <1>5
  <2>2. CASE j = Len(stack)
    BY <1>1, <2>1, <2>2 DEF IntInv, NestInv, Last
  <2>3. CASE j \in 1..(Len(stack) - 1)
    BY <2>1, <2>3 DEF IntInv, NestInv, OnlyRtcIsNested
  <2> QED
    BY <1>5, <2>1, <2>2, <2>3
<1>7. isr = {}
  BY <1>1 DEF IntInv, NestInv, Service
<1>8. isr' = Service(h)
  BY <1>7 DEF Deliver, Service
<1>9. h # [irq |-> RTC_IRQ, step |-> "return"]
  OBVIOUS
<1> HIDE DEF h
<1>10. NestInv'
  BY <1>1, <1>5, <1>6, <1>8, <1>9, Zenon DEF NestInv
<1> QED
  BY <1>4, <1>10 DEF IntInv

\* A step of the innermost handler that leaves the nest as it is: its new state must fit
\* the interrupt flag, and the lines in service must be those of its new state.
LEMMA HandlerStep ==
    ASSUME IntInv, NEW h \in Handlers, stack # <<>>, stack' = Append(Front(stack), h),
           intr' \in BOOLEAN, intr' <=> h = [irq |-> RTC_IRQ, step |-> "return"],
           isr' = Service(h), UNCHANGED <<idt, boot, call, lost>>
    PROVE  IntInv'
<1>0. stack \in Seq(Handlers)
  BY DEF IntInv, NestInv
<1>1. /\ stack' \in Seq(Handlers) /\ stack' # <<>> /\ Last(stack') = h
      /\ Len(stack') = Len(stack)
      /\ \A j \in 1..(Len(stack) - 1) : stack'[j] = stack[j]
  BY <1>0, ReplaceLast
<1>2. OnlyRtcIsNested'
  BY <1>1 DEF IntInv, NestInv, OnlyRtcIsNested
<1>3. NestInv'
  BY <1>1, <1>2, Zenon DEF NestInv
<1>4. BootInv'
  <2>1. boot \in 0..7 /\ boot >= 3 /\ (boot >= 2 => idt = Present) /\ lost = FALSE
    BY DEF IntInv, BootInv, Gates
  <2> QED
    BY <2>1 DEF BootInv, Gates
<1> QED
  BY <1>3, <1>4 DEF IntInv

\* The end of a handler's work: the end of interrupt takes its lines, and nothing else,
\* out of service; the clock's handler enables interrupts.
LEMMA HandlerEndInv ==
    ASSUME IntInv, HandlerEnd
    PROVE  IntInv'
<1> DEFINE h == Last(stack)
           g == [h EXCEPT !.step = "return"]
<1>1. stack # <<>> /\ h.step = "body" /\ stack' = Append(Front(stack), g)
  BY DEF HandlerEnd, Step
<1>2. h \in Handlers /\ isr = Service(h)
  BY <1>1 DEF IntInv, NestInv, Last
<1>3. g = [irq |-> h.irq, step |-> "return"] /\ g \in Handlers
  BY <1>2 DEF Handlers
<1>4. isr' = {}
  <2>1. h.irq \in {1, 8}
    BY <1>2 DEF Handlers, Devices, KEYBOARD_IRQ, RTC_IRQ
  <2>2. isr' = send_eoi(isr, h.irq)
    BY DEF HandlerEnd
  <2> HIDE DEF h
  <2> QED
    BY <1>1, <1>2, <2>1, <2>2 DEF Service, send_eoi
<1>5. Service(g) = {}
  BY <1>3 DEF Service
<1>6. intr' = (h.irq = RTC_IRQ) /\ UNCHANGED <<idt, boot, call, lost>>
  BY DEF HandlerEnd
<1>7. intr' <=> g = [irq |-> RTC_IRQ, step |-> "return"]
  BY <1>3, <1>6, Zenon
<1> HIDE DEF g, h
<1> QED
  BY <1>1, <1>3, <1>4, <1>5, <1>6, <1>7, HandlerStep

\* popfl: interrupts go off again before the handler's iret.
LEMMA PopFlagsInv ==
    ASSUME IntInv, PopFlags
    PROVE  IntInv'
<1> DEFINE h == Last(stack)
           g == [h EXCEPT !.step = "iret"]
<1>1. stack # <<>> /\ h.step = "return" /\ stack' = Append(Front(stack), g)
  BY DEF PopFlags, Step
<1>2. h \in Handlers /\ isr = Service(h)
  BY <1>1 DEF IntInv, NestInv, Last
<1>3. g.step = "iret" /\ g \in Handlers
  BY <1>2 DEF Handlers
<1>4. Service(h) = {} /\ Service(g) = {}
  BY <1>1, <1>3 DEF Service
<1>5. intr' = FALSE /\ isr' = isr /\ UNCHANGED <<idt, boot, call, lost>>
  BY DEF PopFlags
<1>6. g # [irq |-> RTC_IRQ, step |-> "return"]
  BY <1>3
<1> HIDE DEF g, h
<1> QED
  BY <1>1, <1>2, <1>3, <1>4, <1>5, <1>6, HandlerStep, Zenon

\* iret: what was interrupted is the clock's handler, with interrupts on, or no handler.
LEMMA IretInv ==
    ASSUME IntInv, Iret
    PROVE  IntInv'
<1>1. /\ stack # <<>> /\ Last(stack).step = "iret" /\ stack' = Front(stack) /\ intr' = TRUE
      /\ UNCHANGED <<isr, idt, boot, call, lost>> /\ stack \in Seq(Handlers)
  BY DEF Iret, IntInv, NestInv
<1>2. /\ stack' \in Seq(Handlers) /\ Len(stack') = Len(stack) - 1 /\ Len(stack) \in Nat
      /\ \A j \in 1..(Len(stack) - 1) : stack'[j] = stack[j]
      /\ stack' # <<>> => Last(stack') = stack[Len(stack) - 1] /\ Len(stack) - 1 \in 1..(Len(stack) - 1)
  BY <1>1, PopHandler
<1>3. OnlyRtcIsNested'
  BY <1>2 DEF IntInv, NestInv, OnlyRtcIsNested
<1>4. stack' # <<>> => Last(stack') = [irq |-> RTC_IRQ, step |-> "return"]
  BY <1>2 DEF IntInv, NestInv, OnlyRtcIsNested
<1>5. isr' = {}
  BY <1>1 DEF IntInv, NestInv, Service
<1>6. isr' = IF stack' = <<>> THEN {} ELSE Service(Last(stack'))
  BY <1>4, <1>5 DEF Service
<1>7. NestInv'
  BY <1>1, <1>2, <1>3, <1>4, <1>6 DEF NestInv
<1>8. BootInv'
  <2>1. boot \in 0..7 /\ boot >= 3 /\ (boot >= 2 => idt = Present) /\ lost = FALSE
    BY <1>1 DEF IntInv, BootInv, Gates
  <2> QED
    BY <1>1, <2>1 DEF BootInv, Gates
<1> QED
  BY <1>7, <1>8 DEF IntInv

\* Every step preserves the invariant.
LEMMA IntNext == IntInv /\ [Next]_vars => IntInv'
<1> SUFFICES ASSUME IntInv, [Next]_vars PROVE IntInv'
  OBVIOUS
<1>1. CASE BootStep
  BY <1>1, BootStepInv
<1>2. CASE HandlerEnd
  BY <1>2, HandlerEndInv
<1>3. CASE PopFlags
  BY <1>3, PopFlagsInv
<1>4. CASE Iret
  BY <1>4, IretInv
<1>5. CASE CallEnd \/ SystemCall
  <2>1. boot = 7 \/ call
    BY <1>5 DEF CallEnd, SystemCall, Booted, BootOrder
  <2>2. /\ stack = <<>> /\ stack' = <<>> /\ isr' = isr /\ intr' \in BOOLEAN
        /\ UNCHANGED <<idt, boot, lost>>
    BY <1>5, Zenon DEF CallEnd, SystemCall
  <2>3. boot \in 0..7 /\ boot >= 3 /\ (boot >= 2 => idt = Present) /\ lost = FALSE
    BY <2>1 DEF IntInv, BootInv, Gates
  <2>4. BootInv'
    BY <2>2, <2>3 DEF BootInv, Gates
  <2>5. NestInv'
    BY <2>2 DEF IntInv, NestInv, OnlyRtcIsNested
  <2> QED
    BY <2>4, <2>5 DEF IntInv
<1>6. CASE \E irq \in Devices : Raise(irq)
  BY <1>6 DEF Raise, IntInv, BootInv, Gates, NestInv, OnlyRtcIsNested
<1>7. CASE \E irq \in Devices : Deliver(irq)
  BY <1>7, DeliverInv
<1>8. CASE UNCHANGED vars
  BY <1>8 DEF vars, IntInv, BootInv, Gates, NestInv, OnlyRtcIsNested
<1> QED
  BY <1>1, <1>2, <1>3, <1>4, <1>5, <1>6, <1>7, <1>8 DEF Next, Cpu

\* The inductive invariant holds of every reachable state.
LEMMA IntInvariance == Spec => []IntInv
  BY IntInit, IntNext, PTL DEF Spec

\* entry (kernel.c) enables interrupts twice before it means to, inside rtc_init; none of
\* the interrupts this lets through finds the IDT unfilled.
THEOREM NoInterruptLost == Spec => []GatesFirst
<1>1. IntInv => GatesFirst
  BY DEF IntInv, BootInv, GatesFirst
<1> QED
  BY <1>1, IntInvariance, PTL

\* However deep the handlers nest, every interrupted one is the clock's, behind its end of
\* interrupt: keyboard_handler always runs to its end.
THEOREM NestsOnlyClock == Spec => []OnlyRtcIsNested
<1>1. IntInv => OnlyRtcIsNested
  BY DEF IntInv, NestInv
<1> QED
  BY <1>1, IntInvariance, PTL

\* The lines in service are those of the innermost handler before its send_eoi, and none
\* otherwise: every end of interrupt is sent once, and for the right lines.
THEOREM ServiceInStep == Spec => []ServiceMatchesHandlers
<1>1. IntInv => ServiceMatchesHandlers
  <2> SUFFICES ASSUME IntInv PROVE ServiceMatchesHandlers
    OBVIOUS
  <2>1. stack \in Seq(Handlers) /\ Len(stack) \in Nat
    BY DEF IntInv, NestInv
  <2>2. \A j \in 1..Len(stack) : stack[j].step = "body" => j = Len(stack)
    <3> SUFFICES ASSUME NEW j \in 1..Len(stack), j # Len(stack) PROVE stack[j].step # "body"
      OBVIOUS
    <3>1. j \in 1..(Len(stack) - 1)
      BY <2>1
    <3>2. stack[j] = [irq |-> RTC_IRQ, step |-> "return"]
      BY <3>1 DEF IntInv, NestInv, OnlyRtcIsNested
    <3> QED
      BY <3>2
  <2>3. isr = IF stack # <<>> /\ Last(stack).step = "body"
              THEN {Last(stack).irq} \cup (IF Last(stack).irq < 8 THEN {} ELSE {Cascade})
              ELSE {}
    BY DEF IntInv, NestInv, Service
  <2> QED
    BY <2>2, <2>3 DEF ServiceMatchesHandlers
<1> QED
  BY <1>1, IntInvariance, PTL

===============================================================================
