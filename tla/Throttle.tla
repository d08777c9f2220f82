------------------------------ MODULE Throttle ------------------------------
(* The requests-per-minute throttle and the 429 retries of                    *)
(* core/api/requests.cc: callers reserve slots under g_last_call_mutex, sleep *)
(* until theirs comes, send, and back off when Qobuz answers 429.             *)
(* g_last_call_mutex is held for the reservation only, which is one action;   *)
(* the rate is loaded before it.                                              *)
EXTENDS Naturals, Sequences

CONSTANTS
    Callers,       \* threads making API requests
    Kinds,         \* "get": retry_with_backoff, "post": execute_post
    Minute,        \* a minute in clock units (the code counts microseconds)
    Rates,         \* values given to set_requests_per_minute
    MAX_RETRIES,   \* 3 in the code
    BaseBackoff,   \* BASE_BACKOFF_MS in clock units
    NoCall,        \* g_last_call is empty
    MaxCalls,      \* bound: requests of each caller
    IdleUntil      \* bound: the clock stops here unless somebody sleeps

ASSUME KindAssumption == Kinds \subseteq {"get", "post"}
ASSUME MinuteAssumption == Minute \in Nat \ {0}
ASSUME RateAssumption == Rates \subseteq Nat
ASSUME RetryAssumption == MAX_RETRIES \in Nat /\ BaseBackoff \in Nat
ASSUME NoCallAssumption == NoCall \notin Nat
ASSUME BoundAssumption == MaxCalls \in Nat /\ IdleUntil \in Nat

VARIABLES
    now,             \* the steady clock
    rpm,             \* g_requests_per_minute
    g_last_call,     \* the slot reserved last
    pc,              \* where each caller is
    kind,            \* the request it makes
    interval,        \* the spacing it loaded
    slot,            \* history: number of the slot it reserved, 0 without one
    wake,            \* when its sleep ends
    attempt,         \* how often it was answered 429
    delay,           \* BASE_BACKOFF_MS << attempt, its next backoff
    calls,           \* how many requests it made (bound)
    slots            \* history: the slots reserved, in order, each with its
                     \* time, its spacing and the requests sent in it

caller == <<pc, kind, interval, slot, wake, attempt, delay, calls>>
vars == <<now, rpm, g_last_call, caller, slots>>

Positions == {"idle", "throttle", "reserve", "sleep", "send", "backoff"}
Slot == [at : Nat, gap : Nat, sent : Nat]

TypeOK ==
    /\ now \in Nat /\ rpm \in Nat
    /\ g_last_call \in Nat \cup {NoCall}
    /\ pc \in [Callers -> Positions]
    /\ kind \in [Callers -> {"get", "post"}]
    /\ interval \in [Callers -> Nat]
    /\ slot \in [Callers -> Nat]
    /\ wake \in [Callers -> Nat]
    /\ attempt \in [Callers -> Nat]
    /\ delay \in [Callers -> Nat]
    /\ calls \in [Callers -> Nat]
    /\ slots \in Seq(Slot)

Init ==
    /\ now = 0 /\ rpm \in Rates
    /\ g_last_call = NoCall
    /\ pc = [c \in Callers |-> "idle"]
    /\ kind = [c \in Callers |-> "get"]
    /\ interval = [c \in Callers |-> 0]
    /\ slot = [c \in Callers |-> 0]
    /\ wake = [c \in Callers |-> 0]
    /\ attempt = [c \in Callers |-> 0]
    /\ delay = [c \in Callers |-> BaseBackoff]
    /\ calls = [c \in Callers |-> 0]
    /\ slots = <<>>

Goto(c, p) == pc' = [pc EXCEPT ![c] = p]

\* A GET goes through retry_with_backoff and its throttle, a POST does not.
Call(c) ==
    /\ pc[c] = "idle" /\ calls[c] < MaxCalls
    /\ \E k \in Kinds :
          /\ kind' = [kind EXCEPT ![c] = k]
          /\ Goto(c, IF k = "get" THEN "throttle" ELSE "send")
    /\ calls' = [calls EXCEPT ![c] = @ + 1]
    /\ UNCHANGED <<now, rpm, g_last_call, interval, slot, wake, attempt, delay, slots>>

\* throttle() loads the rate: 0 is no limit, and the interval is truncated.
LoadRate(c) ==
    /\ pc[c] = "throttle"
    /\ interval' = [interval EXCEPT ![c] = IF rpm = 0 THEN 0 ELSE Minute \div rpm]
    /\ Goto(c, IF rpm = 0 THEN "send" ELSE "reserve")
    /\ UNCHANGED <<now, rpm, g_last_call, kind, slot, wake, attempt, delay, calls, slots>>

\* The first moment, from now on, an interval after the last slot.
NextSlot(c) ==
    IF g_last_call # NoCall /\ g_last_call + interval[c] > now
    THEN g_last_call + interval[c]
    ELSE now

\* Mutant: the reservation remembers when it was made, not the slot it took.
ReserveNow(c) ==
    /\ pc[c] = "reserve"
    /\ g_last_call' = now
    /\ wake' = [wake EXCEPT ![c] = NextSlot(c)]
    /\ slots' = Append(slots, [at |-> NextSlot(c), gap |-> interval[c], sent |-> 0])
    /\ slot' = [slot EXCEPT ![c] = Len(slots) + 1]
    /\ Goto(c, "sleep")
    /\ UNCHANGED <<now, rpm, kind, interval, attempt, delay, calls>>

\* Mutant: the caller sleeps until the slot before its own.
ReservePrevious(c) ==
    /\ pc[c] = "reserve"
    /\ g_last_call' = NextSlot(c)
    /\ wake' = [wake EXCEPT ![c] = g_last_call]
    /\ slots' = Append(slots, [at |-> NextSlot(c), gap |-> interval[c], sent |-> 0])
    /\ slot' = [slot EXCEPT ![c] = Len(slots) + 1]
    /\ Goto(c, "sleep")
    /\ UNCHANGED <<now, rpm, kind, interval, attempt, delay, calls>>

\* The slot is reserved before it is slept for, so that no later caller takes it.
Reserve(c) ==
    /\ pc[c] = "reserve"
    /\ g_last_call' = NextSlot(c)
    /\ wake' = [wake EXCEPT ![c] = NextSlot(c)]
    /\ slots' = Append(slots, [at |-> NextSlot(c), gap |-> interval[c], sent |-> 0])
    /\ slot' = [slot EXCEPT ![c] = Len(slots) + 1]
    /\ Goto(c, "sleep")
    /\ UNCHANGED <<now, rpm, kind, interval, attempt, delay, calls>>

\* Mutant: the caller does not sleep.
WakeAtOnce(c) ==
    /\ pc[c] = "sleep"
    /\ Goto(c, "send")
    /\ UNCHANGED <<now, rpm, g_last_call, kind, interval, slot, wake, attempt, delay, calls, slots>>

\* sleep_for never returns early.
Wake(c) ==
    /\ pc[c] = "sleep" /\ wake[c] <= now
    /\ Goto(c, "send")
    /\ UNCHANGED <<now, rpm, g_last_call, kind, interval, slot, wake, attempt, delay, calls, slots>>

\* The request leaves, in the caller's slot if it has one.
Sent(c) == slots' = IF slot[c] = 0 THEN slots ELSE [slots EXCEPT ![slot[c]].sent = @ + 1]

\* The call is over and its locals are gone.
Return(c) ==
    /\ Goto(c, "idle")
    /\ interval' = [interval EXCEPT ![c] = 0]
    /\ slot' = [slot EXCEPT ![c] = 0]
    /\ wake' = [wake EXCEPT ![c] = 0]
    /\ attempt' = [attempt EXCEPT ![c] = 0]
    /\ delay' = [delay EXCEPT ![c] = BaseBackoff]

\* Any answer but a 429, or a transport error, ends the call; a POST ends it
\* whatever the answer.
SendAnswered(c) ==
    /\ pc[c] = "send"
    /\ Sent(c)
    /\ Return(c)
    /\ UNCHANGED <<now, rpm, g_last_call, kind, calls>>

\* Mutant: a 429 is neither counted nor slept on.
SendLimitedUncounted(c) ==
    /\ pc[c] = "send" /\ kind[c] = "get"
    /\ Sent(c)
    /\ wake' = [wake EXCEPT ![c] = now]
    /\ Goto(c, "backoff")
    /\ UNCHANGED <<now, rpm, g_last_call, kind, interval, slot, attempt, delay, calls>>

\* Qobuz answers 429: sleep, the longer the more often, even after the last.
SendLimited(c) ==
    /\ pc[c] = "send" /\ kind[c] = "get"
    /\ Sent(c)
    /\ wake' = [wake EXCEPT ![c] = now + delay[c]]
    /\ delay' = [delay EXCEPT ![c] = 2 * @]
    /\ attempt' = [attempt EXCEPT ![c] = @ + 1]
    /\ Goto(c, "backoff")
    /\ UNCHANGED <<now, rpm, g_last_call, kind, interval, slot, calls>>

\* Mutant: one resend too many.
RetryOnceMore(c) ==
    /\ pc[c] = "backoff" /\ wake[c] <= now
    /\ \/ /\ attempt[c] <= MAX_RETRIES + 1
          /\ Goto(c, "send")
          /\ UNCHANGED <<interval, slot, wake, attempt, delay>>
       \/ /\ attempt[c] > MAX_RETRIES + 1
          /\ Return(c)
    /\ UNCHANGED <<now, rpm, g_last_call, kind, calls, slots>>

\* The loop sends again, without another slot, or gives up.
Retry(c) ==
    /\ pc[c] = "backoff" /\ wake[c] <= now
    /\ \/ /\ attempt[c] <= MAX_RETRIES
          /\ Goto(c, "send")
          /\ UNCHANGED <<interval, slot, wake, attempt, delay>>
       \/ /\ attempt[c] > MAX_RETRIES
          /\ Return(c)
    /\ UNCHANGED <<now, rpm, g_last_call, kind, calls, slots>>

\* set_requests_per_minute, at any time, from any thread.
SetRequestsPerMinute ==
    /\ rpm' \in Rates \ {rpm}
    /\ UNCHANGED <<now, g_last_call, caller, slots>>

Sleeping(c) == pc[c] \in {"sleep", "backoff"} /\ now < wake[c]

Tick ==
    /\ now < IdleUntil \/ \E c \in Callers : Sleeping(c)
    /\ now' = now + 1
    /\ UNCHANGED <<rpm, g_last_call, caller, slots>>

Step(c) == \/ LoadRate(c) \/ Reserve(c) \/ Wake(c)
           \/ SendAnswered(c) \/ SendLimited(c) \/ Retry(c)

Next == \/ \E c \in Callers : Call(c) \/ Step(c)
        \/ SetRequestsPerMinute \/ Tick

Spec == Init /\ [][Next]_vars

\* Threads run, requests are answered and the clock advances.
FairSpec == Spec /\ WF_vars(Tick) /\ \A c \in Callers : WF_vars(Step(c))

-----------------------------------------------------------------------------
(* Properties *)

\* Reservations never crowd: a slot is at least its caller's interval after
\* every slot reserved before it, whatever raced and however the rate changed.
SlotsSpaced ==
    \A i, j \in 1..Len(slots) : i < j => slots[i].at + slots[j].gap <= slots[j].at

\* Nobody sends before a slot of their own has come.
SlotsAwaited ==
    \A c \in Callers : pc[c] = "send" /\ slot[c] # 0 =>
        /\ slots[slot[c]].at <= now
        /\ \A d \in Callers \ {c} : slot[d] # slot[c]

\* Resends leave outside the rate, in the slot of their call.  They exceed it by a
\* bounded factor: whatever Qobuz answers and whoever races, a slot carries one
\* request and at most MAX_RETRIES resends.
ResendsBounded == \A i \in 1..Len(slots) : slots[i].sent <= MAX_RETRIES + 1

\* A limited call ends: at most MAX_RETRIES resends, each after a finite sleep.
CallsEnd == \A c \in Callers : pc[c] # "idle" ~> pc[c] = "idle"
=============================================================================
