------------------------------ MODULE RateLimit ------------------------------
(***************************************************************************)
(* The rate limit of one scope: request threads of one API process, the    *)
(* limiter they share, its fixed windows in memory or in Redis, and time.  *)
(* A thread of the memory backend reads the clock before it takes the      *)
(* lock; the commands sent to Redis are one transaction with Redis's own   *)
(* clock.                                                                  *)
(***************************************************************************)
EXTENDS Integers

CONSTANTS
    Clients,   \* what get_identifier tells apart
    Threads,   \* threads of the process
    Limit,     \* requests per window
    Window,    \* window_seconds
    MaxTime,   \* BOUND: the clock stops here
    MaxCount   \* BOUND: requests that begin while a window is live

ASSUME RateLimitAssumption ==
    /\ Limit \in Nat \ {0}
    /\ Window \in Nat \ {0}
    /\ MaxTime \in Nat
    /\ MaxCount \in Nat

VARIABLES
    now,       \* time.time(), and the clock of Redis
    service,   \* the backend of the limiter that lru_cache keeps
    store,     \* per backend and client: the window's counter and its end
    request,   \* what a thread is doing
    admitted,  \* HISTORY: admissions by the end of the window that counted them
    mark,      \* HISTORY: where the stretch of time begins that is measured, any
    stretch    \* HISTORY: admissions in the window_seconds from mark on; those of
               \* the memory backend by the process that runs now

vars == <<now, service, store, request, admitted, mark, stretch>>

Backends == {"memory", "redis"}
Time == 0..MaxTime
Horizon == 0..(MaxTime + Window)

Bucket == [count : Nat, expires : Horizon]
NoBucket == [count |-> 0, expires |-> 0]

NoRequest == [pc |-> "idle"]
Request == [pc : {"building", "ready", "clocked"}, client : Clients, via : Backends, read : Time]

TypeOK ==
    /\ now \in Time
    /\ service \in Backends \cup {"none"}
    /\ store \in [Backends -> [Clients -> Bucket]]
    /\ request \in [Threads -> Request \cup {NoRequest}]
    /\ admitted \in [Backends -> [Clients -> [Horizon -> Nat]]]
    /\ mark \in Time
    /\ stretch \in [Backends -> [Clients -> Nat]]

-----------------------------------------------------------------------------
(* One window *)

\* Mutant of Incremented: the expired window is emptied and keeps its end.
KeptEnd(b, time) ==
    IF b.expires <= time
      THEN [count |-> 1, expires |-> IF b.count = 0 THEN time + Window ELSE b.expires]
      ELSE [b EXCEPT !.count = @ + 1]

\* Mutant of Incremented: every request moves the end.
MovedEnd(b, time) ==
    IF b.expires <= time THEN [count |-> 1, expires |-> time + Window]
                         ELSE [count |-> b.count + 1, expires |-> time + Window]

\* Mutant of Incremented: every request adds a window to what is left.
AddedEnd(b, time) ==
    IF b.expires <= time THEN [count |-> 1, expires |-> time + Window]
                         ELSE [count |-> b.count + 1, expires |-> b.expires + Window]

\* Mutant of Incremented: a window begins where the last one ended.
AlignedEnd(b, time) ==
    IF b.expires <= time THEN [count |-> 1, expires |-> b.expires + Window]
                         ELSE [b EXCEPT !.count = @ + 1]

Incremented(b, time) ==
    IF b.expires <= time THEN [count |-> 1, expires |-> time + Window]
                         ELSE [b EXCEPT !.count = @ + 1]

\* Mutant of Allowed: off by one.
AllowedBelow(b) == b.count < Limit

Allowed(b) == b.count <= Limit

Measuring == mark <= now /\ now < mark + Window

\* The increment of backend s for client c at a clock reading, and its answer.
Counted(s, c, time) ==
    LET b == Incremented(store[s][c], time)
    IN  /\ store' = [store EXCEPT ![s][c] = b]
        /\ IF Allowed(b)
             THEN /\ admitted' = [admitted EXCEPT ![s][c][b.expires] = @ + 1]
                  /\ stretch' = IF Measuring THEN [stretch EXCEPT ![s][c] = @ + 1] ELSE stretch
             ELSE UNCHANGED <<admitted, stretch>>
        /\ UNCHANGED mark

-----------------------------------------------------------------------------
(* The threads *)

NoBuckets == [c \in Clients |-> NoBucket]

Init ==
    /\ now = 0
    /\ service = "none"
    /\ store = [s \in Backends |-> NoBuckets]
    /\ request = [t \in Threads |-> NoRequest]
    /\ admitted = [s \in Backends |-> [c \in Clients |-> [e \in Horizon |-> 0]]]
    /\ mark \in Time
    /\ stretch = [s \in Backends |-> [c \in Clients |-> 0]]

Done(t) == request' = [request EXCEPT ![t] = NoRequest]

\* The dependency resolves the limiter: the cached one, or a new one.
Arrive(t, c) ==
    /\ request[t] = NoRequest
    /\ \A s \in Backends : store[s][c].expires <= now \/ store[s][c].count < MaxCount
    /\ request' = [request EXCEPT ![t] =
           [pc |-> IF service = "none" THEN "building" ELSE "ready", client |-> c,
            via |-> IF service = "none" THEN "memory" ELSE service, read |-> 0]]
    /\ UNCHANGED <<now, service, store, admitted, mark, stretch>>

\* The ping answers or not. lru_cache keeps the limiter of the first thread that
\* is done; another one that was building meanwhile uses its own once.
Build(t) ==
    /\ request[t].pc = "building"
    /\ \E s \in Backends :
        /\ request' = [request EXCEPT ![t].pc = "ready", ![t].via = s]
        /\ service' = IF service = "none" THEN s ELSE service
    /\ UNCHANGED <<now, store, admitted, mark, stretch>>

ReadClock(t) ==
    /\ request[t].pc = "ready"
    /\ request[t].via = "memory"
    /\ request' = [request EXCEPT ![t].pc = "clocked", ![t].read = now]
    /\ UNCHANGED <<now, service, store, admitted, mark, stretch>>

CountInMemory(t) ==
    /\ request[t].pc = "clocked"
    /\ Counted("memory", request[t].client, request[t].read)
    /\ Done(t)
    /\ UNCHANGED <<now, service>>

CountInRedis(t) ==
    /\ request[t].pc = "ready"
    /\ request[t].via = "redis"
    /\ Counted("redis", request[t].client, now)
    /\ Done(t)
    /\ UNCHANGED <<now, service>>

\* A RedisError, before or after the transaction, fails the request.
RedisFails(t) ==
    /\ request[t].pc = "ready"
    /\ request[t].via = "redis"
    /\ LET c == request[t].client
       IN  store' \in {store, [store EXCEPT !["redis"][c] = Incremented(@, now)]}
    /\ Done(t)
    /\ UNCHANGED <<now, service, admitted, mark, stretch>>

\* ASSUMED of the scheduler: a thread that read the clock has the lock before a
\* window has passed, so no window is over at its beginning.
Tick ==
    /\ now < MaxTime
    /\ \A t \in Threads : request[t].pc = "clocked" => now + 1 - request[t].read < Window
    /\ now' = now + 1
    /\ UNCHANGED <<service, store, request, admitted, mark, stretch>>

\* The process dies and starts again: the windows in memory are lost, and the new
\* process admits anew. The histories of the memory backend are those of one life
\* of the process and begin anew with it; those of Redis go on.
Restart ==
    /\ service # "none"
    /\ service' = "none"
    /\ store' = [store EXCEPT !["memory"] = NoBuckets]
    /\ request' = [t \in Threads |-> NoRequest]
    /\ admitted' = [admitted EXCEPT !["memory"] = [c \in Clients |-> [e \in Horizon |-> 0]]]
    /\ stretch' = [stretch EXCEPT !["memory"] = [c \in Clients |-> 0]]
    /\ UNCHANGED <<now, mark>>

Serve(t) ==
    \/ \E c \in Clients : Arrive(t, c)
    \/ Build(t)
    \/ ReadClock(t)
    \/ CountInMemory(t)
    \/ CountInRedis(t)
    \/ RedisFails(t)

Next == Tick \/ Restart \/ \E t \in Threads : Serve(t)

Spec == Init /\ [][Next]_vars

-----------------------------------------------------------------------------
(* Properties *)

\* No interleaving of threads admits more than Limit requests of a client in one
\* window of one backend, though a thread may get the lock almost a window later
\* than it read the clock (Tick) and others count and begin windows meanwhile.
WindowLimit ==
    \A s \in Backends, c \in Clients, e \in Horizon : admitted[s][c][e] <= Limit

\* A client is refused only by a window that has admitted Limit requests. (In
\* Redis a request that failed after its transaction is counted as well.)
FullBeforeDenial ==
    \A c \in Clients :
        LET b == store["memory"][c]
        IN  admitted["memory"][c][b.expires] = IF Allowed(b) THEN b.count ELSE Limit

\* The end of a live window stays where it is, whatever comes: a client that is
\* refused and keeps trying is not refused for longer.
LiveWindowsEnd ==
    [][service' # "none" =>
        \A s \in Backends, c \in Clients :
            store[s][c].expires > now => store'[s][c].expires = store[s][c].expires]_vars

\* What "per minute" (the settings) comes to over any stretch of time as long as a
\* window: two windows of Redis may share it, across restarts of the API, and three
\* of the memory backend within one life of the process, whose threads read the
\* clock up to a window before they have the lock. The first of them has counted
\* the request it began with before. A process that starts again forgets what the
\* last one admitted in the stretch: there is no bound across restarts in memory.
RollingLimit ==
    \A s \in Backends, c \in Clients :
        stretch[s][c] <= (IF s = "memory" THEN 3 ELSE 2) * Limit - 1
=============================================================================
