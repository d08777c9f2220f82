--------------------------- MODULE ThrottleProofs ---------------------------
(* Proofs about Throttle, for any number of callers, any rates, and any      *)
(* length of a minute.                                                       *)
EXTENDS Throttle, SequenceTheorems, TLAPS

\* g_last_call is the last slot, and none is later.
LastInv ==
    /\ g_last_call = NoCall <=> slots = <<>>
    /\ slots # <<>> => \A i \in 1..Len(slots) : slots[i].at <= g_last_call

\* A caller holds a slot of its own from its reservation to its return.
Hold(c) ==
    /\ slot[c] \in 0..Len(slots)
    /\ pc[c] \in {"idle", "throttle", "reserve"} => slot[c] = 0
    /\ pc[c] = "sleep" => slot[c] # 0 /\ wake[c] = slots[slot[c]].at
    /\ pc[c] \in {"send", "backoff"} /\ slot[c] # 0 => slots[slot[c]].at <= now

HoldInv ==
    /\ \A c \in Callers : Hold(c)
    /\ \A c, d \in Callers : c # d /\ slot[c] # 0 => slot[c] # slot[d]

\* A slot has carried as many requests as its holder was answered 429.
Counted(c) ==
    /\ pc[c] \in {"idle", "throttle", "reserve", "sleep"} => attempt[c] = 0
    /\ pc[c] = "send" => attempt[c] <= MAX_RETRIES
    /\ slot[c] # 0 => slots[slot[c]].sent = attempt[c]

CountInv == ResendsBounded /\ \A c \in Callers : Counted(c)

IInv == TypeOK /\ LastInv /\ SlotsSpaced /\ HoldInv /\ CountInv

-----------------------------------------------------------------------------
(* What the actions do to the history of slots *)

\* Truncating a minute into intervals leaves a natural number.
LEMMA IntervalNat == \A r \in Nat \ {0} : Minute \div r \in Nat
  BY MinuteAssumption

\* The next slot is a moment from now on, an interval after the last one.
LEMMA NextSlotSpaced ==
  ASSUME TypeOK, NEW c \in Callers
  PROVE  /\ NextSlot(c) \in Nat
         /\ NextSlot(c) >= now
         /\ g_last_call # NoCall => NextSlot(c) >= g_last_call + interval[c]
  BY NoCallAssumption DEF TypeOK, NextSlot

\* Sending changes no slot's time or spacing, and reserves none.
LEMMA SentKeepsSlots ==
  ASSUME TypeOK, HoldInv, NEW c \in Callers, Sent(c)
  PROVE  /\ slots' \in Seq(Slot)
         /\ Len(slots') = Len(slots)
         /\ slots' = <<>> <=> slots = <<>>
         /\ \A i \in 1..Len(slots) :
               slots'[i].at = slots[i].at /\ slots'[i].gap = slots[i].gap
<1> DEFINE k == slot[c]
<1>1. CASE k = 0
  BY <1>1 DEF Sent, TypeOK
<1>2. CASE k # 0
  <2>1. k \in 1..Len(slots) /\ slots \in Seq(Slot)
    BY <1>2 DEF HoldInv, Hold, TypeOK
  <2>2. slots' = [slots EXCEPT ![k] = [slots[k] EXCEPT !.sent = @ + 1]]
    BY <1>2 DEF Sent
  <2>3. [slots[k] EXCEPT !.sent = @ + 1] \in Slot
    <3>1. slots[k] \in Slot
      BY <2>1
    <3>2. QED
      BY <3>1 DEF Slot
  <2>4. slots' \in Seq(Slot) /\ Len(slots') = Len(slots)
    BY <2>1, <2>2, <2>3
  <2>5. \A i \in 1..Len(slots) : slots'[i].at = slots[i].at /\ slots'[i].gap = slots[i].gap
    <3>1. /\ slots'[k] = [slots[k] EXCEPT !.sent = @ + 1]
          /\ \A i \in 1..Len(slots) : i # k => slots'[i] = slots[i]
      BY <2>1, <2>2
    <3>2. slots'[k].at = slots[k].at /\ slots'[k].gap = slots[k].gap
      <4>1. slots[k] \in Slot BY <2>1
      <4> QED BY <3>1, <4>1 DEF Slot
    <3> QED BY <3>1, <3>2
  <2>6. slots' = <<>> <=> slots = <<>>
    BY <2>1, <2>4, EmptySeq
  <2>7. QED
    BY <2>4, <2>5, <2>6
<1>3. QED
  BY <1>1, <1>2

\* A reservation appends its slot.
LEMMA ReserveAppends ==
  ASSUME TypeOK, NEW c \in Callers, Reserve(c)
  PROVE  /\ slots' \in Seq(Slot)
         /\ Len(slots') = Len(slots) + 1
         /\ slots' # <<>>
         /\ slots'[Len(slots) + 1] = [at |-> NextSlot(c), gap |-> interval[c], sent |-> 0]
         /\ \A i \in 1..Len(slots) : slots'[i] = slots[i]
<1> DEFINE s == [at |-> NextSlot(c), gap |-> interval[c], sent |-> 0]
<1>1. s \in Slot
  BY NextSlotSpaced DEF TypeOK, Slot
<1>2. slots' = Append(slots, s) /\ slots \in Seq(Slot)
  BY DEF Reserve, TypeOK
<1>3. QED
  BY <1>1, <1>2, AppendProperties

-----------------------------------------------------------------------------
(* The invariant is inductive *)

USE DEF Goto, Return, caller, Positions

\* Initially every variable has its type, and no slot is reserved.
LEMMA InitIInv == Init => IInv
<1> SUFFICES ASSUME Init PROVE IInv
  OBVIOUS
<1>1. slots \in Seq(Slot) /\ Len(slots) = 0
  BY EmptySeq DEF Init
<1>2. TypeOK
  BY <1>1, RateAssumption, RetryAssumption DEF Init, TypeOK
<1>3. LastInv /\ SlotsSpaced /\ HoldInv
  BY <1>1, NoCallAssumption DEF Init, LastInv, SlotsSpaced, HoldInv, Hold
<1>4. CountInv
  BY <1>1, RetryAssumption DEF Init, CountInv, Counted, ResendsBounded
<1>5. QED
  BY <1>2, <1>3, <1>4 DEF IInv

\* Returning keeps the types of the locals it resets.
LEMMA ReturnTypes ==
  ASSUME TypeOK, NEW c \in Callers, Return(c)
  PROVE  /\ pc' \in [Callers -> Positions] /\ interval' \in [Callers -> Nat]
         /\ slot' \in [Callers -> Nat] /\ wake' \in [Callers -> Nat]
         /\ attempt' \in [Callers -> Nat] /\ delay' \in [Callers -> Nat]
  BY RetryAssumption DEF TypeOK

\* Every step of Next keeps every variable in its type.
LEMMA NextTypeOK == TypeOK /\ HoldInv /\ [Next]_vars => TypeOK'
<1> SUFFICES ASSUME TypeOK, HoldInv, [Next]_vars PROVE TypeOK'
  OBVIOUS
<1> USE DEF TypeOK
<1>1. ASSUME NEW c \in Callers, Call(c) PROVE TypeOK'
  BY <1>1, KindAssumption DEF Call
<1>2. ASSUME NEW c \in Callers, LoadRate(c) PROVE TypeOK'
  <2>1. interval' \in [Callers -> Nat]
    BY <1>2, IntervalNat DEF LoadRate
  <2>2. QED
    BY <1>2, <2>1 DEF LoadRate
<1>3. ASSUME NEW c \in Callers, Reserve(c) PROVE TypeOK'
  <2>1. slots' \in Seq(Slot)
    BY <1>3, ReserveAppends
  <2>2. NextSlot(c) \in Nat /\ Len(slots) + 1 \in Nat
    BY NextSlotSpaced
  <2>3. QED
    BY <1>3, <2>1, <2>2 DEF Reserve
<1>4. ASSUME NEW c \in Callers, Wake(c) PROVE TypeOK'
  BY <1>4 DEF Wake
<1>5. ASSUME NEW c \in Callers, SendAnswered(c) PROVE TypeOK'
  <2>1. slots' \in Seq(Slot)
    BY <1>5, SentKeepsSlots DEF SendAnswered
  <2>2. QED
    BY <1>5, <2>1, ReturnTypes DEF SendAnswered
<1>6. ASSUME NEW c \in Callers, SendLimited(c) PROVE TypeOK'
  <2>1. slots' \in Seq(Slot)
    BY <1>6, SentKeepsSlots DEF SendLimited
  <2>2. now + delay[c] \in Nat /\ 2 * delay[c] \in Nat /\ attempt[c] + 1 \in Nat
    OBVIOUS
  <2>3. QED
    BY <1>6, <2>1, <2>2 DEF SendLimited
<1>7. ASSUME NEW c \in Callers, Retry(c) PROVE TypeOK'
  <2>1. CASE Goto(c, "send") /\ UNCHANGED <<interval, slot, wake, attempt, delay>>
    BY <1>7, <2>1 DEF Retry
  <2>2. CASE Return(c)
    BY <1>7, <2>2, ReturnTypes DEF Retry
  <2>3. QED
    BY <1>7, <2>1, <2>2 DEF Retry
<1>8. CASE SetRequestsPerMinute
  BY <1>8, RateAssumption DEF SetRequestsPerMinute
<1>9. CASE Tick
  BY <1>9 DEF Tick
<1>10. CASE UNCHANGED vars
  BY <1>10 DEF vars
<1>11. QED
  BY <1>1, <1>2, <1>3, <1>4, <1>5, <1>6, <1>7, <1>8, <1>9, <1>10 DEF Next, Step

\* A step reserves one slot, or none.
LEMMA SlotsChange ==
  ASSUME TypeOK, HoldInv, [Next]_vars
  PROVE  \/ \E c \in Callers : Reserve(c)
         \/ /\ g_last_call' = g_last_call
            /\ Len(slots') = Len(slots)
            /\ slots' = <<>> <=> slots = <<>>
            /\ \A i \in 1..Len(slots) :
                  slots'[i].at = slots[i].at /\ slots'[i].gap = slots[i].gap
<1>1. ASSUME NEW c \in Callers, SendAnswered(c) \/ SendLimited(c)
      PROVE  /\ g_last_call' = g_last_call
             /\ Len(slots') = Len(slots)
             /\ slots' = <<>> <=> slots = <<>>
             /\ \A i \in 1..Len(slots) :
                   slots'[i].at = slots[i].at /\ slots'[i].gap = slots[i].gap
  BY <1>1, SentKeepsSlots DEF SendAnswered, SendLimited
<1>2. ASSUME NEW c \in Callers, Call(c) \/ LoadRate(c) \/ Wake(c) \/ Retry(c)
      PROVE  UNCHANGED <<slots, g_last_call>>
  BY <1>2 DEF Call, LoadRate, Wake, Retry
<1>3. CASE SetRequestsPerMinute \/ Tick \/ UNCHANGED vars
  BY <1>3 DEF SetRequestsPerMinute, Tick, vars
<1>4. QED
  BY <1>1, <1>2, <1>3 DEF Next, Step

\* The reserved slot comes after every other one.
LEMMA NextSpaced ==
  TypeOK /\ HoldInv /\ LastInv /\ SlotsSpaced /\ [Next]_vars => LastInv' /\ SlotsSpaced'
<1> SUFFICES ASSUME TypeOK, HoldInv, LastInv, SlotsSpaced, [Next]_vars
             PROVE  LastInv' /\ SlotsSpaced'
  OBVIOUS
<1> DEFINE n == Len(slots)
<1>1. n \in Nat /\ slots \in Seq(Slot) /\ \A i \in 1..n : slots[i].at \in Nat /\ slots[i].gap \in Nat
  <2>1. slots \in Seq(Slot)
    BY DEF TypeOK
  <2>2. \A i \in 1..Len(slots) : slots[i] \in Slot
    BY <2>1
  <2>3. QED
    BY <2>1, <2>2 DEF Slot
<1>2. ASSUME NEW c \in Callers, Reserve(c) PROVE LastInv' /\ SlotsSpaced'
  <2>1. g_last_call' = NextSlot(c) /\ NextSlot(c) \in Nat
    BY <1>2, NextSlotSpaced DEF Reserve
  <2>2. /\ Len(slots') = n + 1 /\ slots' # <<>>
        /\ slots'[n + 1].at = NextSlot(c) /\ slots'[n + 1].gap = interval[c]
        /\ \A i \in 1..n : slots'[i] = slots[i]
    <3>1. slots'[n + 1] = [at |-> NextSlot(c), gap |-> interval[c], sent |-> 0]
      BY <1>2, ReserveAppends
    <3>2. QED
      BY <1>2, <3>1, ReserveAppends
  <2>3. \A i \in 1..n : slots[i].at + interval[c] <= NextSlot(c)
    <3> SUFFICES ASSUME NEW i \in 1..n PROVE slots[i].at + interval[c] <= NextSlot(c)
      OBVIOUS
    <3>1. slots # <<>> /\ g_last_call # NoCall /\ slots[i].at <= g_last_call
      BY <1>1 DEF LastInv
    <3>2. g_last_call \in Nat /\ interval[c] \in Nat /\ slots[i].at \in Nat
      BY <1>1, <3>1 DEF TypeOK
    <3>3. QED
      BY <2>1, <3>1, <3>2, NextSlotSpaced
  <2>4. interval[c] \in Nat
    BY DEF TypeOK
  <2>5. LastInv'
    <3>1. \A i \in 1..(n + 1) : slots'[i].at <= NextSlot(c)
      <4> SUFFICES ASSUME NEW i \in 1..(n + 1) PROVE slots'[i].at <= NextSlot(c)
        OBVIOUS
      <4>1. CASE i = n + 1
        BY <2>1, <2>2, <4>1
      <4>2. CASE i # n + 1
        <5>1. i \in 1..n /\ slots[i].at \in Nat
          BY <1>1, <4>2
        <5>2. QED
          BY <2>1, <2>2, <2>3, <2>4, <5>1
      <4>3. QED
        BY <4>1, <4>2
    <3>2. NextSlot(c) # NoCall
      BY <2>1, NoCallAssumption
    <3>3. QED
      BY <2>1, <2>2, <3>1, <3>2 DEF LastInv
  <2>6. SlotsSpaced'
    <3> SUFFICES ASSUME NEW i \in 1..(n + 1), NEW j \in 1..(n + 1), i < j
                 PROVE  slots'[i].at + slots'[j].gap <= slots'[j].at
      BY <2>2 DEF SlotsSpaced
    <3>1. CASE j = n + 1
      BY <1>1, <2>2, <2>3, <3>1
    <3>2. CASE j # n + 1
      BY <1>1, <2>2, <3>2 DEF SlotsSpaced
    <3>3. QED
      BY <3>1, <3>2
  <2>7. QED
    BY <2>5, <2>6
<1>3. CASE /\ g_last_call' = g_last_call
           /\ Len(slots') = Len(slots)
           /\ slots' = <<>> <=> slots = <<>>
           /\ \A i \in 1..Len(slots) :
                 slots'[i].at = slots[i].at /\ slots'[i].gap = slots[i].gap
  BY <1>1, <1>3 DEF LastInv, SlotsSpaced
<1>4. QED
  BY <1>2, <1>3, SlotsChange

\* Callers keep the slots they hold while one of them sends, retries or returns.
LEMMA HoldStep ==
  ASSUME TypeOK, HoldInv, NEW c \in Callers,
         now' = now, Len(slots') = Len(slots),
         \A i \in 1..Len(slots) : slots'[i].at = slots[i].at,
         \A d \in Callers \ {c} : pc'[d] = pc[d] /\ slot'[d] = slot[d] /\ wake'[d] = wake[d],
         \/ pc'[c] = "idle" /\ slot'[c] = 0
         \/ /\ pc[c] \in {"send", "backoff"} /\ pc'[c] \in {"send", "backoff"}
            /\ slot'[c] = slot[c]
  PROVE  HoldInv'
<1>1. Len(slots) \in Nat
  BY DEF TypeOK
<1>2. ASSUME NEW d \in Callers \ {c} PROVE Hold(d)'
  BY <1>1, <1>2 DEF HoldInv, Hold
<1>3. Hold(c)'
  BY <1>1 DEF HoldInv, Hold
<1>4. \A d, e \in Callers : d # e /\ slot'[d] # 0 => slot'[d] # slot'[e]
  BY DEF HoldInv
<1>5. QED
  BY <1>2, <1>3, <1>4 DEF HoldInv

\* Callers keep the slots they reserved until they return.
LEMMA NextHoldInv == TypeOK /\ HoldInv /\ [Next]_vars => HoldInv'
<1> SUFFICES ASSUME TypeOK, HoldInv, [Next]_vars PROVE HoldInv'
  OBVIOUS
<1>0. Len(slots) \in Nat
  BY DEF TypeOK
<1>1. ASSUME NEW c \in Callers, Call(c) PROVE HoldInv'
  BY <1>1 DEF Call, TypeOK, HoldInv, Hold
<1>2. ASSUME NEW c \in Callers, LoadRate(c) PROVE HoldInv'
  BY <1>2 DEF LoadRate, TypeOK, HoldInv, Hold
<1>3. ASSUME NEW c \in Callers, Reserve(c) PROVE HoldInv'
  <2>1. /\ Len(slots') = Len(slots) + 1
        /\ slots'[Len(slots) + 1].at = NextSlot(c)
        /\ \A i \in 1..Len(slots) : slots'[i].at = slots[i].at
    <3>1. slots'[Len(slots) + 1] = [at |-> NextSlot(c), gap |-> interval[c], sent |-> 0]
      BY <1>3, ReserveAppends
    <3>2. QED
      BY <1>3, <3>1, ReserveAppends
  <2>2. now' = now
    BY <1>3 DEF Reserve
  <2>3. pc'[c] = "sleep" /\ wake'[c] = NextSlot(c) /\ slot'[c] = Len(slots) + 1
    BY <1>3 DEF Reserve, TypeOK
  <2>4. \A d \in Callers \ {c} : pc'[d] = pc[d] /\ slot'[d] = slot[d] /\ wake'[d] = wake[d]
    BY <1>3 DEF Reserve, TypeOK
  <2>5. Hold(c)'
    BY <1>0, <2>1, <2>3 DEF Hold
  <2>6. ASSUME NEW d \in Callers \ {c} PROVE Hold(d)'
    BY <1>0, <2>1, <2>2, <2>4 DEF HoldInv, Hold
  <2>7. \A d \in Callers : slot[d] <= Len(slots)
    BY <1>0 DEF HoldInv, Hold
  <2>8. \A d, e \in Callers : d # e /\ slot'[d] # 0 => slot'[d] # slot'[e]
    BY <1>0, <2>3, <2>4, <2>7 DEF HoldInv
  <2>9. QED
    BY <2>5, <2>6, <2>8 DEF HoldInv
<1>4. ASSUME NEW c \in Callers, Wake(c) PROVE HoldInv'
  BY <1>4 DEF Wake, TypeOK, HoldInv, Hold
<1>5. ASSUME NEW c \in Callers, SendAnswered(c) PROVE HoldInv'
  <2>1. Sent(c) /\ now' = now
    BY <1>5 DEF SendAnswered
  <2>2. /\ pc'[c] = "idle" /\ slot'[c] = 0
        /\ \A d \in Callers \ {c} : pc'[d] = pc[d] /\ slot'[d] = slot[d] /\ wake'[d] = wake[d]
    BY <1>5 DEF SendAnswered, TypeOK
  <2>3. QED
    BY <2>1, <2>2, SentKeepsSlots, HoldStep
<1>6. ASSUME NEW c \in Callers, SendLimited(c) PROVE HoldInv'
  <2>1. Sent(c) /\ now' = now /\ pc[c] = "send"
    BY <1>6 DEF SendLimited
  <2>2. /\ pc'[c] = "backoff" /\ slot'[c] = slot[c]
        /\ \A d \in Callers \ {c} : pc'[d] = pc[d] /\ slot'[d] = slot[d] /\ wake'[d] = wake[d]
    BY <1>6 DEF SendLimited, TypeOK
  <2>3. QED
    BY <2>1, <2>2, SentKeepsSlots, HoldStep
<1>7. ASSUME NEW c \in Callers, Retry(c) PROVE HoldInv'
  <2>1. slots' = slots /\ now' = now /\ pc[c] = "backoff"
    BY <1>7 DEF Retry
  <2>2. /\ \/ pc'[c] = "idle" /\ slot'[c] = 0
           \/ pc'[c] = "send" /\ slot'[c] = slot[c]
        /\ \A d \in Callers \ {c} : pc'[d] = pc[d] /\ slot'[d] = slot[d] /\ wake'[d] = wake[d]
    BY <1>7 DEF Retry, TypeOK
  <2>3. QED
    BY <2>1, <2>2, HoldStep
<1>8. CASE SetRequestsPerMinute \/ UNCHANGED vars
  BY <1>8 DEF SetRequestsPerMinute, vars, HoldInv, Hold
<1>9. CASE Tick
  <2>1. UNCHANGED <<pc, slot, wake, slots>> /\ now' = now + 1
    BY <1>9 DEF Tick
  <2>2. \A i \in 1..Len(slots) : slots[i] \in Slot
    BY DEF TypeOK
  <2>3. \A c \in Callers : slot[c] # 0 => slots[slot[c]].at \in Nat
    BY <1>0, <2>2 DEF HoldInv, Hold, Slot
  <2>4. now \in Nat
    BY DEF TypeOK
  <2>5. QED
    BY <2>1, <2>3, <2>4 DEF HoldInv, Hold
<1>10. QED
  BY <1>1, <1>2, <1>3, <1>4, <1>5, <1>6, <1>7, <1>8, <1>9 DEF Next, Step

\* Sending adds one to the caller's own slot.
LEMMA SentCounts ==
  ASSUME TypeOK, HoldInv, NEW c \in Callers, Sent(c), NEW i \in 1..Len(slots)
  PROVE  slots'[i].sent = IF i = slot[c] THEN slots[i].sent + 1 ELSE slots[i].sent
<1>1. slots[i] \in Slot
  BY DEF TypeOK
<1>2. CASE slot[c] = 0
  BY <1>2 DEF Sent
<1>3. CASE slot[c] # 0
  <2>1. slots' = [slots EXCEPT ![slot[c]] = [slots[slot[c]] EXCEPT !.sent = @ + 1]]
    BY <1>3 DEF Sent
  <2>2. i \in DOMAIN slots
    BY DEF TypeOK
  <2>3. QED
    BY <1>1, <2>1, <2>2 DEF Slot
<1>4. QED
  BY <1>2, <1>3

\* The other callers count as before while one sends in its own slot.
LEMMA OthersCounted ==
  ASSUME TypeOK, HoldInv, CountInv, NEW c \in Callers, NEW d \in Callers \ {c},
         Sent(c), pc'[d] = pc[d], slot'[d] = slot[d], attempt'[d] = attempt[d]
  PROVE  Counted(d)'
<1>1. slot[d] \in 0..Len(slots) /\ Len(slots) \in Nat
  BY DEF HoldInv, Hold, TypeOK
<1>2. slot[d] # 0 => slot[d] # slot[c]
  BY DEF HoldInv
<1>3. slot[d] # 0 => slots'[slot[d]].sent = slots[slot[d]].sent
  BY <1>1, <1>2, SentCounts
<1>4. QED
  BY <1>3 DEF CountInv, Counted

\* A request that may leave keeps the bound of its slot.
LEMMA SentBounded ==
  ASSUME TypeOK, HoldInv, CountInv, NEW c \in Callers, pc[c] = "send", Sent(c)
  PROVE  ResendsBounded'
<1>1. Len(slots') = Len(slots)
  BY SentKeepsSlots
<1>2. attempt[c] \in Nat /\ attempt[c] <= MAX_RETRIES /\ MAX_RETRIES \in Nat
  BY RetryAssumption DEF CountInv, Counted, TypeOK
<1>3. slot[c] # 0 => slots[slot[c]].sent = attempt[c]
  BY DEF CountInv, Counted
<1>4. ASSUME NEW i \in 1..Len(slots) PROVE slots'[i].sent <= MAX_RETRIES + 1
  <2>1. CASE i = slot[c]
    <3>1. slot[c] # 0
      BY <1>4, <2>1 DEF TypeOK
    <3>2. QED
      BY <1>2, <1>3, <2>1, <3>1, SentCounts
  <2>2. CASE i # slot[c]
    BY <1>4, <2>2, SentCounts DEF CountInv, ResendsBounded
  <2>3. QED
    BY <2>1, <2>2
<1>5. QED
  BY <1>1, <1>4 DEF ResendsBounded

\* Requests are counted by the loop that sends them.
LEMMA NextCountInv == TypeOK /\ HoldInv /\ CountInv /\ [Next]_vars => CountInv'
<1> SUFFICES ASSUME TypeOK, HoldInv, CountInv, [Next]_vars PROVE CountInv'
  OBVIOUS
<1>0. MAX_RETRIES \in Nat /\ Len(slots) \in Nat
  BY RetryAssumption DEF TypeOK
<1>1. ASSUME NEW c \in Callers, Call(c) PROVE CountInv'
  <2>1. slots' = slots /\ slot' = slot /\ attempt' = attempt /\ pc[c] = "idle"
    BY <1>1 DEF Call
  <2>2. \A d \in Callers : pc'[d] = pc[d] \/ d = c
    BY <1>1 DEF Call, TypeOK
  <2>3. attempt[c] = 0
    BY <2>1 DEF CountInv, Counted
  <2>4. QED
    BY <1>0, <2>1, <2>2, <2>3 DEF CountInv, Counted, ResendsBounded
<1>2. ASSUME NEW c \in Callers, LoadRate(c) PROVE CountInv'
  <2>1. slots' = slots /\ slot' = slot /\ attempt' = attempt /\ pc[c] = "throttle"
    BY <1>2 DEF LoadRate
  <2>2. \A d \in Callers : pc'[d] = pc[d] \/ d = c
    BY <1>2 DEF LoadRate, TypeOK
  <2>3. attempt[c] = 0
    BY <2>1 DEF CountInv, Counted
  <2>4. QED
    BY <1>0, <2>1, <2>2, <2>3 DEF CountInv, Counted, ResendsBounded
<1>3. ASSUME NEW c \in Callers, Reserve(c) PROVE CountInv'
  <2>1. /\ Len(slots') = Len(slots) + 1
        /\ slots'[Len(slots) + 1] = [at |-> NextSlot(c), gap |-> interval[c], sent |-> 0]
        /\ \A i \in 1..Len(slots) : slots'[i] = slots[i]
    BY <1>3, ReserveAppends
  <2>2. pc'[c] = "sleep" /\ slot'[c] = Len(slots) + 1 /\ attempt' = attempt /\ pc[c] = "reserve"
    BY <1>3 DEF Reserve, TypeOK
  <2>3. Counted(c)'
    BY <2>1, <2>2 DEF CountInv, Counted
  <2>4. ASSUME NEW d \in Callers \ {c} PROVE Counted(d)'
    <3>1. pc'[d] = pc[d] /\ slot'[d] = slot[d]
      BY <1>3 DEF Reserve, TypeOK
    <3>2. slot[d] \in 0..Len(slots)
      BY DEF HoldInv, Hold
    <3>3. QED
      BY <1>0, <2>1, <2>2, <3>1, <3>2 DEF CountInv, Counted
  <2>5. ResendsBounded'
    BY <1>0, <2>1 DEF CountInv, ResendsBounded
  <2>6. QED
    BY <2>3, <2>4, <2>5 DEF CountInv
<1>4. ASSUME NEW c \in Callers, Wake(c) PROVE CountInv'
  <2>1. slots' = slots /\ slot' = slot /\ attempt' = attempt /\ pc[c] = "sleep"
    BY <1>4 DEF Wake
  <2>2. \A d \in Callers : pc'[d] = pc[d] \/ d = c
    BY <1>4 DEF Wake, TypeOK
  <2>3. attempt[c] = 0
    BY <2>1 DEF CountInv, Counted
  <2>4. QED
    BY <1>0, <2>1, <2>2, <2>3 DEF CountInv, Counted, ResendsBounded
<1>5. ASSUME NEW c \in Callers, SendAnswered(c) PROVE CountInv'
  <2>1. Sent(c) /\ pc[c] = "send"
    BY <1>5 DEF SendAnswered
  <2>2. /\ pc'[c] = "idle" /\ slot'[c] = 0 /\ attempt'[c] = 0
        /\ \A d \in Callers \ {c} :
              pc'[d] = pc[d] /\ slot'[d] = slot[d] /\ attempt'[d] = attempt[d]
    BY <1>5 DEF SendAnswered, TypeOK
  <2>3. QED
    BY <2>1, <2>2, SentBounded, OthersCounted DEF CountInv, Counted
<1>6. ASSUME NEW c \in Callers, SendLimited(c) PROVE CountInv'
  <2>1. Sent(c) /\ pc[c] = "send"
    BY <1>6 DEF SendLimited
  <2>2. /\ pc'[c] = "backoff" /\ slot'[c] = slot[c] /\ attempt'[c] = attempt[c] + 1
        /\ \A d \in Callers \ {c} :
              pc'[d] = pc[d] /\ slot'[d] = slot[d] /\ attempt'[d] = attempt[d]
    BY <1>6 DEF SendLimited, TypeOK
  <2>3. slot[c] # 0 => slots'[slot[c]].sent = slots[slot[c]].sent + 1
    BY <1>0, <2>1, SentCounts DEF HoldInv, Hold
  <2>4. Counted(c)'
    BY <2>2, <2>3 DEF CountInv, Counted
  <2>5. QED
    BY <2>1, <2>2, <2>4, SentBounded, OthersCounted DEF CountInv
<1>7. ASSUME NEW c \in Callers, Retry(c) PROVE CountInv'
  <2>1. slots' = slots
    BY <1>7 DEF Retry
  <2>2. /\ \/ pc'[c] = "idle" /\ slot'[c] = 0 /\ attempt'[c] = 0
           \/ pc'[c] = "send" /\ slot'[c] = slot[c] /\ attempt'[c] = attempt[c]
              /\ attempt[c] <= MAX_RETRIES
        /\ \A d \in Callers \ {c} :
              pc'[d] = pc[d] /\ slot'[d] = slot[d] /\ attempt'[d] = attempt[d]
    BY <1>7 DEF Retry, TypeOK
  <2>3. QED
    BY <2>1, <2>2 DEF CountInv, Counted, ResendsBounded
<1>8. CASE SetRequestsPerMinute \/ Tick \/ UNCHANGED vars
  BY <1>8 DEF SetRequestsPerMinute, Tick, vars, CountInv, Counted, ResendsBounded
<1>9. QED
  BY <1>1, <1>2, <1>3, <1>4, <1>5, <1>6, <1>7, <1>8 DEF Next, Step

\* The invariant holds in every state.
THEOREM Invariance == Spec => []IInv
<1>1. IInv /\ [Next]_vars => IInv'
  BY NextTypeOK, NextSpaced, NextHoldInv, NextCountInv DEF IInv
<1>2. QED
  BY <1>1, InitIInv, PTL DEF Spec

\* Every variable keeps its type.
THEOREM TypeCorrectness == Spec => []TypeOK
  BY Invariance, PTL DEF IInv

\* Slots are spaced by their callers' intervals, whatever races.
THEOREM SlotsAreSpaced == Spec => []SlotsSpaced
  BY Invariance, PTL DEF IInv

\* Nobody sends before a slot of their own has come.
THEOREM SlotsAreAwaited == Spec => []SlotsAwaited
<1>1. IInv => SlotsAwaited
  BY DEF IInv, HoldInv, Hold, SlotsAwaited
<1>2. QED
  BY <1>1, Invariance, PTL

\* A slot carries its call's request and at most MAX_RETRIES resends.
THEOREM ResendsAreBounded == Spec => []ResendsBounded
  BY Invariance, PTL DEF IInv, CountInv
=============================================================================
