------------------------------ MODULE Requests ------------------------------
(***************************************************************************)
(* What a request meets before its route: the sliding window of each       *)
(* address (luna/api/middleware/rate_limit.py), then the token             *)
(* (middleware/auth.py), in the order luna/api/app.py stacks them.  Neither *)
(* awaits anything before the route, so a request comes in one step; while *)
(* its route runs others come and go, and its answer is a second step.     *)
(*                                                                         *)
(* Time is counted in halves of a second.  A limit of 0 and authentication  *)
(* switched off, which let everybody pass, are left out.                   *)
(***************************************************************************)
EXTENDS Integers, Sequences, FiniteSetsExt, Functions

CONSTANTS
    Addresses,          \* IP addresses
    TrustedProxies,     \* those whose X-Forwarded-For is believed
    Rpm,                \* rate_limit_rpm
    WindowSeconds,      \* _WINDOW_SECONDS
    SweepInterval,      \* _SWEEP_INTERVAL
    MaxInFlight,        \* requests in flight (bound)
    MaxTime             \* halves of a second (bound)

ASSUME RequestsAssumption ==
    /\ TrustedProxies \subseteq Addresses
    /\ {Rpm, WindowSeconds, SweepInterval, MaxInFlight, MaxTime} \subseteq Nat \ {0}

VARIABLES
    clock,          \* time.monotonic
    token,          \* TokenAuthMiddleware._token: is there one
    window,         \* _window: the times of the addresses it has entries for
    counted,        \* _request_count modulo SweepInterval
    inFlight,       \* how many requests of each Passage are between the two
    granted,        \* when the last requests of each address passed
    dueAt           \* when an address that was refused was told to come back

requestVars == <<clock, token, window, counted, inFlight, granted, dueAt>>

-----------------------------------------------------------------------------
(* An address and what the token made of its request. *)
Passage == Addresses \X {"route", "401"}

Never == -1
Span == 2 * WindowSeconds

(* _client_ip *)
ClientIp(direct, forwarded) ==
    IF direct \in TrustedProxies /\ forwarded # "none" THEN forwarded ELSE direct

(* _purge_expired: from the left, up to the first that has not expired. *)
Expired(t) == t < clock - Span
PurgeExpired(times) ==
    LET live == {i \in DOMAIN times : ~Expired(times[i])} IN
    IF live = {} THEN <<>> ELSE SubSeq(times, Min(live), Len(times))

(* The default of the dictionary. *)
Entry(table, address) == IF address \in DOMAIN table THEN table[address] ELSE <<>>
Put(table, address, times) ==
    [a \in DOMAIN table \cup {address} |-> IF a = address THEN times ELSE table[a]]

(* _sweep_stale_entries *)
Stale(times) == times = <<>> \/ Expired(times[Len(times)])
SweepStaleEntries(table) == [a \in {b \in DOMAIN table : ~Stale(table[b])} |-> table[a]]

Swept == IF (counted + 1) % SweepInterval = 0 THEN SweepStaleEntries(window) ELSE window

(* Seconds, rounded down and one more.                                     *)
(* Mutant: rounded down only. *)
RetryRounded(oldest) == Max({1, (Span - (clock - oldest)) \div 2})

RetryAfter(oldest) == Max({1, (Span - (clock - oldest)) \div 2 + 1})

(* TokenAuthMiddleware.dispatch *)
Dispatch(path, bearer) == IF path = "health" \/ (token /\ bearer) THEN "route" ELSE "401"

-----------------------------------------------------------------------------
RequestsInit ==
    /\ clock = 0
    /\ token \in BOOLEAN
    /\ window = [a \in {} |-> <<>>]
    /\ counted = 0
    /\ inFlight = [p \in Passage |-> 0]
    /\ granted = [a \in Addresses |-> <<>>]
    /\ dueAt = [a \in Addresses |-> Never]

TimePasses ==
    /\ clock < MaxTime
    /\ clock' = clock + 1
    /\ UNCHANGED <<token, window, counted, inFlight, granted, dueAt>>

(* As many as the property needs. *)
Latest(times) == IF Len(times) > Rpm + 1 THEN Tail(times) ELSE times

(* RateLimitMiddleware.dispatch, before the route. *)
Limit(address, answer) ==
    LET times == PurgeExpired(Entry(Swept, address)) IN
    IF Len(times) >= Rpm
    THEN /\ window' = Put(Swept, address, times)
         /\ dueAt' = [dueAt EXCEPT ![address] = clock + 2 * RetryAfter(times[1])]
         /\ UNCHANGED <<inFlight, granted>>
    ELSE /\ window' = Put(Swept, address, Append(times, clock))
         /\ inFlight' = [inFlight EXCEPT ![<<address, answer>>] = @ + 1]
         /\ granted' = [granted EXCEPT ![address] = Latest(Append(@, clock))]
         /\ dueAt' = [dueAt EXCEPT ![address] = Never]

Arrive ==
    /\ SumFunction(inFlight) < MaxInFlight
    /\ \E direct \in Addresses, forwarded \in Addresses \cup {"none"},
         path \in {"health", "status"}, bearer \in BOOLEAN :
            Limit(ClientIp(direct, forwarded), Dispatch(path, bearer))
    /\ counted' = (counted + 1) % SweepInterval
    /\ UNCHANGED <<clock, token>>

(* The header of the answer looks the address up again, which makes an      *)
(* entry where there is none.                                              *)
Reply(p) ==
    /\ inFlight[p] > 0
    /\ inFlight' = [inFlight EXCEPT ![p] = @ - 1]
    /\ window' = Put(window, p[1], Entry(window, p[1]))
    /\ UNCHANGED <<clock, token, counted, granted, dueAt>>

RequestsNext == TimePasses \/ Arrive \/ \E p \in Passage : Reply(p)

RequestsSpec == RequestsInit /\ [][RequestsNext]_requestVars

-----------------------------------------------------------------------------
(* Between any two moments a window apart an address passes Rpm times at    *)
(* most, though its entry is swept, purged and made again while requests   *)
(* are in flight, and those the token refuses count.                       *)
WindowHolds ==
    \A a \in Addresses : \A i \in DOMAIN granted[a] :
        i + Rpm \in DOMAIN granted[a] => granted[a][i + Rpm] - granted[a][i] > Span

(* Retry-After is true: who was refused, and comes back when told, passes, *)
(* if no other request of that address has.                                *)
RetryIsTrue ==
    \A a \in Addresses :
        dueAt[a] # Never /\ clock >= dueAt[a] => Len(PurgeExpired(Entry(window, a))) < Rpm

LimitIsFair == WindowHolds /\ RetryIsTrue
=============================================================================
