-------------------------- MODULE RateLimitProofs --------------------------
(* Proofs about RateLimit for any clients, threads, limit, window and time. *)
EXTENDS RateLimit, TLAPS

\* An increment counts on in a live window or begins a later one.
LEMMA IncrementedBucket ==
    ASSUME NEW b \in Bucket, NEW time \in Time
    PROVE  /\ Incremented(b, time) \in Bucket
           /\ \/ /\ b.expires > time
                 /\ Incremented(b, time).expires = b.expires
                 /\ Incremented(b, time).count = b.count + 1
              \/ /\ b.expires <= time
                 /\ Incremented(b, time).expires > b.expires
                 /\ Incremented(b, time).expires = time + Window
                 /\ Incremented(b, time).count = 1
    <1>1. b.count \in Nat /\ b.expires \in Horizon /\ time + Window \in Horizon /\ time \in Nat
          /\ Window \in Nat \ {0} /\ MaxTime \in Nat /\ b.expires \in Nat
        BY RateLimitAssumption DEF RateLimitAssumption, Bucket, Horizon, Time
    <1>2. CASE b.expires <= time
        <2>1. Incremented(b, time) = [count |-> 1, expires |-> time + Window]
            BY <1>2 DEF Incremented
        <2>. QED
            BY <1>1, <1>2, <2>1 DEF Bucket
    <1>3. CASE ~(b.expires <= time)
        <2>1. Incremented(b, time) = [b EXCEPT !.count = @ + 1]
            BY <1>3 DEF Incremented
        <2>2. Incremented(b, time) = [count |-> b.count + 1, expires |-> b.expires]
            BY <2>1 DEF Bucket
        <2>. QED
            BY <1>1, <1>3, <2>2 DEF Bucket
    <1>. QED
        BY <1>2, <1>3

\* One value of a table, and one counter of a table of counters, is replaced.
LEMMA Replaced ==
    ASSUME NEW S, NEW C, NEW V, NEW f \in [S -> [C -> V]], NEW s \in S, NEW c \in C, NEW v \in V,
           NEW g, g = [f EXCEPT ![s][c] = v]
    PROVE  /\ g \in [S -> [C -> V]]
           /\ g[s][c] = v
           /\ \A s1 \in S, c1 \in C : s1 # s \/ c1 # c => g[s1][c1] = f[s1][c1]
    OBVIOUS

LEMMA Bumped ==
    ASSUME NEW S, NEW C, NEW E, NEW f \in [S -> [C -> [E -> Nat]]],
           NEW s \in S, NEW c \in C, NEW e \in E, NEW g, g = [f EXCEPT ![s][c][e] = @ + 1]
    PROVE  /\ g \in [S -> [C -> [E -> Nat]]]
           /\ g[s][c][e] = f[s][c][e] + 1
           /\ \A e1 \in E : e1 # e => g[s][c][e1] = f[s][c][e1]
           /\ \A s1 \in S, c1 \in C : s1 # s \/ c1 # c => g[s1][c1] = f[s1][c1]
    <1>. DEFINE h == [f[s][c] EXCEPT ![e] = f[s][c][e] + 1]
    <1>1. f[s][c] \in [E -> Nat] /\ f[s][c][e] \in Nat
        OBVIOUS
    <1>2. h \in [E -> Nat] /\ h[e] = f[s][c][e] + 1 /\ \A e1 \in E : e1 # e => h[e1] = f[s][c][e1]
        BY <1>1
    <1>3. g = [f EXCEPT ![s][c] = h]
        OBVIOUS
    <1>. HIDE DEF h
    <1>4. /\ g \in [S -> [C -> [E -> Nat]]] /\ g[s][c] = h
          /\ \A s1 \in S, c1 \in C : s1 # s \/ c1 # c => g[s1][c1] = f[s1][c1]
        BY <1>2, <1>3, Replaced
    <1>. QED
        BY <1>2, <1>4

\* What is admitted in the window of a bucket follows its counter; later windows
\* have admitted nothing yet.
WindowOK(s, c) ==
    LET b == store[s][c]
    IN  /\ \A e \in Horizon : e > b.expires => admitted[s][c][e] = 0
        /\ \A e \in Horizon : admitted[s][c][e] <= Limit
        /\ admitted[s][c][b.expires] <= b.count
        /\ s = "memory" =>
              admitted[s][c][b.expires] = IF Allowed(b) THEN b.count ELSE Limit

\* Clocks are read before they are used.
ReadsArePast == \A t \in Threads : request[t].pc = "clocked" => request[t].read <= now

RateInv ==
    /\ TypeOK
    /\ ReadsArePast
    /\ \A s \in Backends, c \in Clients : WindowOK(s, c)

\* A counted request keeps the invariant of every window.
LEMMA CountedStep ==
    ASSUME TypeOK, \A s \in Backends, c \in Clients : WindowOK(s, c),
           NEW s \in Backends, NEW c \in Clients, NEW time \in Time, Counted(s, c, time)
    PROVE  /\ store' \in [Backends -> [Clients -> Bucket]]
           /\ admitted' \in [Backends -> [Clients -> [Horizon -> Nat]]]
           /\ stretch' \in [Backends -> [Clients -> Nat]] /\ mark' = mark
           /\ \A s1 \in Backends, c1 \in Clients : WindowOK(s1, c1)'
           /\ \A s1 \in Backends, c1 \in Clients :
                 store[s1][c1].expires > time => store'[s1][c1].expires = store[s1][c1].expires
    <1>. DEFINE b == store[s][c]
                n == Incremented(b, time)
    <1>1. b \in Bucket
        BY DEF TypeOK
    <1>2. /\ n \in Bucket
          /\ \/ b.expires > time /\ n.expires = b.expires /\ n.count = b.count + 1
             \/ b.expires <= time /\ n.expires > b.expires /\ n.count = 1
        BY <1>1, IncrementedBucket
    <1>3. /\ store' = [store EXCEPT ![s][c] = n]
          /\ IF Allowed(n)
               THEN /\ admitted' = [admitted EXCEPT ![s][c][n.expires] = @ + 1]
                    /\ stretch' = IF Measuring THEN [stretch EXCEPT ![s][c] = @ + 1] ELSE stretch
               ELSE UNCHANGED <<admitted, stretch>>
          /\ mark' = mark
        BY DEF Counted
    <1>4. /\ n.expires \in Horizon /\ n.count \in Nat /\ b.expires \in Horizon /\ b.count \in Nat
          /\ time \in Int /\ n.expires \in Int /\ b.expires \in Int /\ \A e \in Horizon : e \in Int
        <2>. HIDE DEF b, n
        <2>. QED
            BY <1>1, <1>2 DEF Bucket, Horizon, Time
    <1>5. Limit \in Nat \ {0}
        BY RateLimitAssumption DEF RateLimitAssumption
    <1>6. /\ store' \in [Backends -> [Clients -> Bucket]]
          /\ store'[s][c] = n
          /\ \A s1 \in Backends, c1 \in Clients : s1 # s \/ c1 # c => store'[s1][c1] = store[s1][c1]
        <2>. HIDE DEF n
        <2>. QED
            BY <1>2, <1>3, Replaced DEF TypeOK
    <1>7. stretch' \in [Backends -> [Clients -> Nat]] /\ mark' = mark
        <2>. HIDE DEF n
        <2>1. stretch \in [Backends -> [Clients -> Nat]]
            BY DEF TypeOK
        <2>2. [stretch EXCEPT ![s][c] = @ + 1] \in [Backends -> [Clients -> Nat]]
            BY <2>1
        <2>. QED
            BY <1>3, <2>1, <2>2
    <1>8. /\ admitted' \in [Backends -> [Clients -> [Horizon -> Nat]]]
          /\ \A s1 \in Backends, c1 \in Clients : s1 # s \/ c1 # c => admitted'[s1][c1] = admitted[s1][c1]
          /\ \A e \in Horizon : e # n.expires => admitted'[s][c][e] = admitted[s][c][e]
          /\ Allowed(n) => admitted'[s][c][n.expires] = admitted[s][c][n.expires] + 1
          /\ ~Allowed(n) => admitted'[s][c][n.expires] = admitted[s][c][n.expires]
        <2>. HIDE DEF n
        <2>1. CASE Allowed(n)
            <3>1. admitted \in [Backends -> [Clients -> [Horizon -> Nat]]]
                BY DEF TypeOK
            <3>2. admitted' = [admitted EXCEPT ![s][c][n.expires] = @ + 1]
                BY <1>3, <2>1
            <3>3. n.expires \in Horizon
                BY <1>4
            <3>. QED
                BY <2>1, <3>1, <3>2, <3>3, Bumped
        <2>2. CASE ~Allowed(n)
            BY <1>3, <2>2 DEF TypeOK
        <2>. QED
            BY <2>1, <2>2
    <1>. HIDE DEF n
    <1>9. ASSUME NEW s1 \in Backends, NEW c1 \in Clients, s1 # s \/ c1 # c
          PROVE  WindowOK(s1, c1)'
        <2>1. store'[s1][c1] = store[s1][c1] /\ admitted'[s1][c1] = admitted[s1][c1] /\ WindowOK(s1, c1)
            BY <1>6, <1>8, <1>9
        <2>. QED
            BY <2>1 DEF WindowOK, Allowed
    <1>10. WindowOK(s, c)'
        <2>. DEFINE a == admitted[s][c]
        <2>1. /\ \A e \in Horizon : e > b.expires => a[e] = 0
              /\ \A e \in Horizon : a[e] <= Limit /\ a[e] \in Nat
              /\ a[b.expires] <= b.count
              /\ s = "memory" /\ b.count <= Limit => a[b.expires] = b.count
              /\ s = "memory" /\ ~(b.count <= Limit) => a[b.expires] = Limit
            BY DEF WindowOK, TypeOK, Allowed
        <2>. HIDE DEF a, b
        <2>2. /\ a[n.expires] <= n.count - 1
              /\ s = "memory" /\ n.count <= Limit => a[n.expires] = n.count - 1
              /\ s = "memory" /\ ~(n.count <= Limit) => a[n.expires] = Limit
            <3>1. CASE n.expires = b.expires /\ n.count = b.count + 1
                BY <1>4, <1>5, <2>1, <3>1
            <3>2. CASE n.expires > b.expires /\ n.count = 1
                BY <1>4, <1>5, <2>1, <3>2
            <3>. QED
                BY <1>2, <3>1, <3>2
        <2>3. \A e \in Horizon : e > n.expires => a[e] = 0
            BY <1>2, <1>4, <2>1
        <2>4. \A e \in Horizon : e > n.expires => admitted'[s][c][e] = 0
            BY <1>4, <1>8, <2>3 DEF a
        <2>5. \A e \in Horizon : e # n.expires => admitted'[s][c][e] <= Limit
            BY <1>8, <2>1 DEF a
        <2>6. /\ admitted'[s][c][n.expires] <= Limit
              /\ admitted'[s][c][n.expires] <= n.count
              /\ s = "memory" /\ n.count <= Limit => admitted'[s][c][n.expires] = n.count
              /\ s = "memory" /\ ~(n.count <= Limit) => admitted'[s][c][n.expires] = Limit
            <3>1. a[n.expires] \in Nat /\ a[n.expires] <= Limit
                BY <1>4, <2>1
            <3>2. CASE n.count <= Limit
                <4>1. admitted'[s][c][n.expires] = a[n.expires] + 1
                    BY <1>8, <3>2 DEF Allowed, a
                <4>. QED
                    BY <1>4, <1>5, <2>2, <3>1, <3>2, <4>1
            <3>3. CASE ~(n.count <= Limit)
                <4>1. admitted'[s][c][n.expires] = a[n.expires]
                    BY <1>8, <3>3 DEF Allowed, a
                <4>. QED
                    BY <1>4, <1>5, <2>2, <3>1, <3>3, <4>1
            <3>. QED
                BY <3>2, <3>3
        <2>. QED
            BY <1>4, <1>6, <2>4, <2>5, <2>6 DEF WindowOK, Allowed
    <1>11. \A s1 \in Backends, c1 \in Clients :
              store[s1][c1].expires > time => store'[s1][c1].expires = store[s1][c1].expires
        <2>1. b.expires > time => n.expires = b.expires
            <3>. HIDE DEF b
            <3>. QED
                BY <1>2, <1>4
        <2>. QED
            BY <1>6, <2>1
    <1>. QED
        BY <1>6, <1>7, <1>8, <1>9, <1>10, <1>11

LEMMA InitRate == Init => RateInv
    <1>. SUFFICES ASSUME Init PROVE RateInv
        OBVIOUS
    <1>1. 0 \in Time /\ 0 \in Horizon /\ NoBucket \in Bucket /\ Limit \in Nat
        BY RateLimitAssumption DEF RateLimitAssumption, Time, Horizon, Bucket, NoBucket
    <1>2. TypeOK
        BY <1>1 DEF Init, TypeOK, NoBuckets
    <1>3. ReadsArePast
        BY DEF Init, ReadsArePast, NoRequest
    <1>4. \A s \in Backends, c \in Clients : WindowOK(s, c)
        BY <1>1 DEF Init, WindowOK, NoBuckets, NoBucket, Allowed
    <1>. QED
        BY <1>2, <1>3, <1>4 DEF RateInv

\* Steps that leave the windows alone.
LEMMA WindowsFrame ==
    ASSUME \A s \in Backends, c \in Clients : WindowOK(s, c), UNCHANGED <<store, admitted>>
    PROVE  \A s \in Backends, c \in Clients : WindowOK(s, c)'
    BY DEF WindowOK, Allowed

LEMMA NextRate == RateInv /\ [Next]_vars => RateInv'
    <1>. SUFFICES ASSUME RateInv, [Next]_vars PROVE RateInv'
        OBVIOUS
    <1>0. /\ TypeOK /\ ReadsArePast /\ \A s \in Backends, c \in Clients : WindowOK(s, c)
          /\ 0 \in Time /\ 0 \in Horizon /\ Time \subseteq Nat /\ "memory" \in Backends
        BY RateLimitAssumption DEF RateInv, Time, Horizon, Backends, RateLimitAssumption
    <1>1. CASE Tick
        <2>1. now' \in Time /\ now' > now
            BY <1>0, <1>1, RateLimitAssumption DEF Tick, TypeOK, Time, RateLimitAssumption
        <2>3. TypeOK'
            BY <1>0, <1>1, <2>1 DEF Tick, TypeOK
        <2>4. ReadsArePast'
            <3>1. ASSUME NEW t \in Threads, request[t].pc = "clocked" PROVE request[t].read <= now'
                <4>1. request[t] \in Request
                    BY <1>0, <3>1 DEF TypeOK, NoRequest
                <4>2. request[t].read \in Nat /\ now \in Nat /\ now' \in Nat /\ request[t].read <= now
                    BY <1>0, <2>1, <3>1, <4>1 DEF Request, ReadsArePast, TypeOK
                <4>. QED
                    BY <2>1, <4>2
            <3>. QED
                BY <1>1, <3>1 DEF Tick, ReadsArePast
        <2>. QED
            BY <1>0, <1>1, <2>3, <2>4, WindowsFrame DEF Tick, RateInv
    <1>2. CASE Restart
        <2>1. /\ store' = [store EXCEPT !["memory"] = NoBuckets]
              /\ admitted' = [admitted EXCEPT !["memory"] = [c \in Clients |-> [e \in Horizon |-> 0]]]
              /\ stretch' = [stretch EXCEPT !["memory"] = [c \in Clients |-> 0]]
              /\ now' = now /\ mark' = mark /\ service' = "none" /\ request' = [t \in Threads |-> NoRequest]
            BY <1>2 DEF Restart
        <2>2. NoBuckets \in [Clients -> Bucket]
            BY <1>0 DEF NoBuckets, NoBucket, Bucket
        <2>3. TypeOK'
            BY <1>0, <2>1, <2>2 DEF TypeOK
        <2>4. ReadsArePast'
            BY <2>1 DEF ReadsArePast, NoRequest
        <2>5. ASSUME NEW s \in Backends, NEW c \in Clients PROVE WindowOK(s, c)'
            <3>1. CASE s = "memory"
                <4>1. store'[s][c] = NoBucket /\ \A e \in Horizon : admitted'[s][c][e] = 0
                    BY <1>0, <2>1, <3>1 DEF TypeOK, NoBuckets
                <4>. QED
                    BY <1>0, <4>1, RateLimitAssumption DEF WindowOK, NoBucket, Allowed, RateLimitAssumption
            <3>2. CASE s # "memory"
                <4>1. store'[s] = store[s] /\ admitted'[s] = admitted[s]
                    BY <1>0, <2>1, <3>2 DEF TypeOK
                <4>. QED
                    BY <1>0, <3>2, <4>1 DEF WindowOK
            <3>. QED
                BY <3>1, <3>2
        <2>. QED
            BY <2>3, <2>4, <2>5 DEF RateInv
    <1>3. ASSUME NEW t \in Threads, Serve(t) PROVE RateInv'
        <2>0. request[t] # NoRequest => request[t] \in Request
            BY <1>0 DEF TypeOK
        <2>a. ASSUME request' = [request EXCEPT ![t] = NoRequest], now' = now
              PROVE  request' \in [Threads -> Request \cup {NoRequest}] /\ ReadsArePast'
            BY <1>0, <2>a DEF TypeOK, ReadsArePast, NoRequest
        <2>1. ASSUME NEW c \in Clients, Arrive(t, c) PROVE RateInv'
            <3>1. PICK r \in Request : r.pc # "clocked" /\ request' = [request EXCEPT ![t] = r]
                <4>. DEFINE r == [pc |-> IF service = "none" THEN "building" ELSE "ready", client |-> c,
                                  via |-> IF service = "none" THEN "memory" ELSE service, read |-> 0]
                <4>1. service = "none" \/ service \in Backends
                    BY <1>0 DEF TypeOK
                <4>2. r \in Request /\ r.pc # "clocked"
                    BY <1>0, <4>1 DEF Request
                <4>3. request' = [request EXCEPT ![t] = r]
                    BY <2>1 DEF Arrive
                <4>. QED
                    BY <4>2, <4>3
            <3>2. TypeOK' /\ ReadsArePast'
                BY <1>0, <2>1, <3>1 DEF Arrive, TypeOK, ReadsArePast
            <3>. QED
                BY <1>0, <2>1, <3>2, WindowsFrame DEF Arrive, RateInv
        <2>2. CASE Build(t)
            <3>1. PICK s \in Backends :
                      /\ request' = [request EXCEPT ![t].pc = "ready", ![t].via = s]
                      /\ service' = IF service = "none" THEN s ELSE service
                BY <2>2 DEF Build
            <3>2. request[t] \in Request
                BY <2>0, <2>2 DEF Build, NoRequest
            <3>3. [request[t] EXCEPT !.pc = "ready", !.via = s] \in Request
                BY <3>2 DEF Request
            <3>4. request' \in [Threads -> Request \cup {NoRequest}] /\ request'[t].pc = "ready"
                  /\ \A u \in Threads \ {t} : request'[u] = request[u]
                BY <1>0, <3>1, <3>2, <3>3 DEF TypeOK, Request
            <3>5. TypeOK' /\ ReadsArePast'
                BY <1>0, <2>2, <3>1, <3>4 DEF Build, TypeOK, ReadsArePast
            <3>. QED
                BY <1>0, <2>2, <3>5, WindowsFrame DEF Build, RateInv
        <2>3. CASE ReadClock(t)
            <3>1. request[t] \in Request
                BY <2>0, <2>3 DEF ReadClock, NoRequest
            <3>2. [request[t] EXCEPT !.pc = "clocked", !.read = now] \in Request /\ now \in Nat
                BY <1>0, <3>1 DEF Request, TypeOK
            <3>3. request' \in [Threads -> Request \cup {NoRequest}] /\ request'[t].read = now
                  /\ \A u \in Threads \ {t} : request'[u] = request[u]
                BY <1>0, <2>3, <3>1, <3>2 DEF ReadClock, TypeOK, Request
            <3>4. TypeOK' /\ ReadsArePast'
                BY <1>0, <2>3, <3>2, <3>3 DEF ReadClock, TypeOK, ReadsArePast
            <3>. QED
                BY <1>0, <2>3, <3>4, WindowsFrame DEF ReadClock, RateInv
        <2>4. CASE CountInMemory(t)
            <3>1. request[t] \in Request /\ request[t].client \in Clients /\ request[t].read \in Time
                BY <2>0, <2>4 DEF CountInMemory, NoRequest, Request
            <3>. QED
                BY <1>0, <2>4, <2>a, <3>1, CountedStep DEF CountInMemory, Done, RateInv, TypeOK
        <2>5. CASE CountInRedis(t)
            <3>1. request[t] \in Request /\ request[t].client \in Clients /\ now \in Time
                BY <1>0, <2>0, <2>5 DEF CountInRedis, NoRequest, Request, TypeOK
            <3>2. "redis" \in Backends
                BY DEF Backends
            <3>. QED
                BY <1>0, <2>5, <2>a, <3>1, <3>2, CountedStep DEF CountInRedis, Done, RateInv, TypeOK
        <2>6. CASE RedisFails(t)
            <3>1. request[t] \in Request /\ request[t].client \in Clients /\ now \in Time
                BY <1>0, <2>0, <2>6 DEF RedisFails, NoRequest, Request, TypeOK
            <3>. DEFINE c == request[t].client
                        b == store["redis"][c]
                        n == Incremented(b, now)
            <3>2. "redis" \in Backends /\ b \in Bucket
                BY <1>0, <3>1 DEF TypeOK, Backends
            <3>3. n \in Bucket /\ \/ n.expires = b.expires /\ n.count = b.count + 1
                                  \/ n.expires > b.expires /\ n.count = 1
                BY <3>1, <3>2, IncrementedBucket
            <3>4. store' = store \/ store' = [store EXCEPT !["redis"][c] = n]
                BY <2>6 DEF RedisFails
            <3>. HIDE DEF n
            <3>5. /\ store' \in [Backends -> [Clients -> Bucket]]
                  /\ \A s1 \in Backends, c1 \in Clients :
                        store'[s1][c1] = store[s1][c1] \/ (s1 = "redis" /\ c1 = c /\ store'[s1][c1] = n)
                <4>1. CASE store' = store
                    BY <1>0, <4>1 DEF TypeOK
                <4>2. CASE store' = [store EXCEPT !["redis"][c] = n]
                    BY <1>0, <3>1, <3>2, <3>3, <4>2, Replaced DEF TypeOK
                <4>. QED
                    BY <3>4, <4>1, <4>2
            <3>6. admitted' = admitted /\ request' = [request EXCEPT ![t] = NoRequest] /\ now' = now
                  /\ service' = service /\ mark' = mark /\ stretch' = stretch
                BY <2>6 DEF RedisFails, Done
            <3>7. TypeOK' /\ ReadsArePast'
                BY <1>0, <2>a, <3>5, <3>6 DEF TypeOK
            <3>8. ASSUME NEW s1 \in Backends, NEW c1 \in Clients PROVE WindowOK(s1, c1)'
                <4>1. CASE store'[s1][c1] = store[s1][c1]
                    BY <1>0, <3>6, <4>1 DEF WindowOK
                <4>2. CASE s1 = "redis" /\ c1 = c /\ store'[s1][c1] = n
                    <5>1. /\ b.expires \in Horizon /\ n.expires \in Horizon /\ \A e \in Horizon : e \in Int
                          /\ b.expires \in Int /\ n.expires \in Int /\ b.count \in Nat /\ n.count \in Nat
                        <6>. HIDE DEF b
                        <6>. QED
                            BY <3>2, <3>3 DEF Bucket, Horizon
                    <5>2. /\ \A e \in Horizon : e > b.expires => admitted[s1][c1][e] = 0
                          /\ \A e \in Horizon : admitted[s1][c1][e] <= Limit /\ admitted[s1][c1][e] \in Nat
                          /\ admitted[s1][c1][b.expires] <= b.count
                        BY <1>0, <4>2 DEF WindowOK, TypeOK
                    <5>3. /\ \A e \in Horizon : e > n.expires => admitted[s1][c1][e] = 0
                          /\ admitted[s1][c1][n.expires] <= n.count
                        <6>. HIDE DEF b
                        <6>1. CASE n.expires = b.expires /\ n.count = b.count + 1
                            BY <5>1, <5>2, <6>1
                        <6>2. CASE n.expires > b.expires /\ n.count = 1
                            BY <5>1, <5>2, <6>2
                        <6>. QED
                            BY <3>3, <6>1, <6>2
                    <5>. QED
                        BY <3>6, <4>2, <5>2, <5>3 DEF WindowOK
                <4>. QED
                    BY <3>5, <4>1, <4>2
            <3>. QED
                BY <3>7, <3>8 DEF RateInv
        <2>. QED
            BY <1>3, <2>1, <2>2, <2>3, <2>4, <2>5, <2>6 DEF Serve
    <1>4. CASE UNCHANGED vars
        <2>1. TypeOK' /\ ReadsArePast'
            BY <1>0, <1>4 DEF vars, TypeOK, ReadsArePast
        <2>. QED
            BY <1>0, <1>4, <2>1, WindowsFrame DEF vars, RateInv
    <1>. QED
        BY <1>1, <1>2, <1>3, <1>4 DEF Next

\* For any limit and window, and any number of threads that have the lock within a
\* window of reading the clock.
THEOREM WindowsAreLimited == Spec => []WindowLimit
    <1>1. RateInv => WindowLimit
        BY DEF RateInv, WindowOK, WindowLimit
    <1>. QED
        BY <1>1, InitRate, NextRate, PTL DEF Spec

\* The memory backend loses no count and invents none.
THEOREM RefusalsAreEarned == Spec => []FullBeforeDenial
    <1>1. RateInv => FullBeforeDenial
        BY DEF RateInv, WindowOK, FullBeforeDenial, Backends
    <1>. QED
        BY <1>1, InitRate, NextRate, PTL DEF Spec

\* No request, stale reading or failure of Redis moves the end of a live window.
THEOREM LiveWindowsKeepTheirEnd == Spec => LiveWindowsEnd
    <1>. DEFINE Kept == \A s \in Backends, c \in Clients :
                            store[s][c].expires > now => store'[s][c].expires = store[s][c].expires
    <1>1. ASSUME RateInv, [Next]_vars, service' # "none" PROVE Kept
        <2>0. /\ TypeOK /\ ReadsArePast /\ \A s \in Backends, c \in Clients : WindowOK(s, c)
              /\ \A s \in Backends, c \in Clients : store[s][c].expires \in Int
              /\ now \in Time /\ now \in Int /\ \A i \in Time : i \in Int
            BY <1>1, RateLimitAssumption
            DEF RateInv, TypeOK, Bucket, Horizon, Time, RateLimitAssumption
        <2>1. CASE UNCHANGED store
            BY <2>1
        <2>2. ASSUME NEW t \in Threads, CountInMemory(t) PROVE Kept
            <3>1. request[t] \in Request
                BY <2>0, <2>2 DEF TypeOK, CountInMemory, NoRequest
            <3>2. /\ request[t].client \in Clients /\ request[t].read \in Time
                  /\ request[t].read \in Int /\ request[t].read <= now /\ "memory" \in Backends
                BY <2>0, <2>2, <3>1 DEF Request, ReadsArePast, CountInMemory, Backends
            <3>3. \A s \in Backends, c \in Clients :
                      store[s][c].expires > request[t].read => store'[s][c].expires = store[s][c].expires
                BY <2>0, <2>2, <3>2, CountedStep DEF CountInMemory
            <3>. QED
                BY <2>0, <3>2, <3>3
        <2>3. ASSUME NEW t \in Threads, CountInRedis(t) PROVE Kept
            <3>1. request[t].client \in Clients /\ "redis" \in Backends
                BY <2>0, <2>3 DEF TypeOK, CountInRedis, Request, NoRequest, Backends
            <3>. QED
                BY <2>0, <2>3, <3>1, CountedStep DEF CountInRedis
        <2>4. ASSUME NEW t \in Threads, RedisFails(t) PROVE Kept
            <3>. DEFINE c == request[t].client
                        n == Incremented(store["redis"][c], now)
            <3>1. c \in Clients /\ "redis" \in Backends /\ store["redis"][c] \in Bucket
                BY <2>0, <2>4 DEF TypeOK, RedisFails, Request, NoRequest, Backends
            <3>2. n \in Bucket /\ (store["redis"][c].expires > now => n.expires = store["redis"][c].expires)
                BY <2>0, <3>1, IncrementedBucket
            <3>3. store' = store \/ store' = [store EXCEPT !["redis"][c] = n]
                BY <2>4 DEF RedisFails
            <3>. HIDE DEF n
            <3>4. CASE store' = [store EXCEPT !["redis"][c] = n]
                <4>1. /\ store'["redis"][c] = n
                      /\ \A s \in Backends, c1 \in Clients :
                            s # "redis" \/ c1 # c => store'[s][c1] = store[s][c1]
                    BY <2>0, <3>1, <3>2, <3>4, Replaced DEF TypeOK
                <4>. QED
                    BY <3>2, <4>1
            <3>. QED
                BY <2>1, <3>3, <3>4
        <2>. QED
            BY <1>1, <2>1, <2>2, <2>3, <2>4
            DEF Next, Tick, Restart, Serve, Arrive, Build, ReadClock, vars
    <1>2. RateInv /\ [Next]_vars => [service' # "none" => Kept]_vars
        BY <1>1
    <1>. QED
        BY <1>2, InitRate, NextRate, PTL DEF Spec, LiveWindowsEnd

\* For every limit, window and set of threads: the buckets of both backends hold
\* counts and window ends, and the readings of requests are times.
THEOREM RateTypesCorrect == Spec => []TypeOK
    BY InitRate, NextRate, PTL DEF Spec, RateInv

-----------------------------------------------------------------------------
(* The rolling limit *)

\* A thread that waits for the lock read the clock less than a window ago.
ReadsAreFresh == \A t \in Threads : request[t].pc = "clocked" => now < request[t].read + Window

\* What x admissions in the measured stretch mean for a window of the memory
\* backend that ends at e, has counted k requests and admitted a of them. While the
\* stretch lasts, the window's end says how many windows went before it in there.
MemoryRoll(x, e, k, a) ==
    /\ e > 0 => k > 0
    /\ x <= 3 * Limit - 1
    /\ now < mark => x = 0
    /\ now < mark + Window =>
        /\ e < mark => x <= Limit - 1 /\ (x = 0 \/ x < k)
        /\ e = mark => x <= a
        /\ mark < e /\ e < mark + Window => x <= Limit - 1 + a
        /\ e = mark + Window => x <= Limit + a
        /\ e > mark + Window => x <= 2 * Limit - 1 + a

\* In Redis a request is counted at the time it is admitted: one window less.
RedisRoll(x, e, k, a) ==
    /\ e > 0 => k > 0
    /\ x <= 2 * Limit - 1
    /\ now < mark => x = 0
    /\ now < mark + Window =>
        /\ e <= mark => x = 0
        /\ mark < e /\ e < mark + Window => x <= Limit - 1 /\ (x = 0 \/ x < k)
        /\ e = mark + Window => x <= a
        /\ e > mark + Window => x <= Limit - 1 + a

Roll(s, x, e, k, a) == IF s = "memory" THEN MemoryRoll(x, e, k, a) ELSE RedisRoll(x, e, k, a)

RollOK(s, c) ==
    LET b == store[s][c]
    IN  Roll(s, stretch[s][c], b.expires, b.count, admitted[s][c][b.expires])

RollInv ==
    /\ RateInv
    /\ ReadsAreFresh
    /\ \A s \in Backends, c \in Clients : RollOK(s, c)

\* How a count made from a reading of the clock changes the numbers of a window.
\* The new end, counter, admissions and measured admissions are f, l, d and y.
NewNumbers(time, x, e, k, a, y, f, l, d) ==
    /\ \/ e > time /\ f = e /\ l = k + 1
       \/ e <= time /\ f = time + Window /\ l = 1
    /\ LET old == IF e > time THEN a ELSE 0
       IN  \/ l <= Limit /\ d = old + 1 /\ y = IF Measuring THEN x + 1 ELSE x
           \/ d = old /\ y = x

\* Time only makes less of it bind.
LEMMA RollsOn ==
    ASSUME TypeOK, now' \in Nat, now' >= now, mark' = mark, NEW s \in Backends, NEW c \in Clients,
           RollOK(s, c), store'[s][c] = store[s][c], stretch'[s][c] = stretch[s][c],
           admitted'[s][c] = admitted[s][c]
    PROVE  RollOK(s, c)'
    <1>. DEFINE b == store[s][c]
                x == stretch[s][c]
                a == admitted[s][c][b.expires]
    <1>1. now \in Nat /\ mark \in Nat /\ Window \in Nat
        BY RateLimitAssumption DEF TypeOK, Time, RateLimitAssumption
    <1>2. RollOK(s, c)' <=> Roll(s, x, b.expires, b.count, a)'
        BY DEF RollOK, Roll, MemoryRoll, RedisRoll
    <1>3. Roll(s, x, b.expires, b.count, a)
        BY DEF RollOK
    <1>. QED
        BY <1>1, <1>2, <1>3 DEF Roll, MemoryRoll, RedisRoll, RollOK

\* A count at a reading that is recent (memory) or the time itself (Redis).
Timely(s, time) ==
    IF s = "memory" THEN time <= now /\ now < time + Window ELSE time = now

NumbersOf(s, c, time) ==
    NewNumbers(time, stretch[s][c], store[s][c].expires, store[s][c].count,
               admitted[s][c][store[s][c].expires],
               stretch'[s][c], store'[s][c].expires, store'[s][c].count,
               admitted'[s][c][store'[s][c].expires])

LEMMA NumbersRoll ==
    ASSUME RateInv, RateInv', now' = now, mark' = mark,
           NEW s \in Backends, NEW c \in Clients, NEW time \in Time, Timely(s, time),
           RollOK(s, c), NumbersOf(s, c, time)
    PROVE  RollOK(s, c)'
    <1>. DEFINE x == stretch[s][c]
                b == store[s][c]
                a == admitted[s][c][b.expires]
                y == stretch'[s][c]
                n == store'[s][c]
                d == admitted'[s][c][n.expires]
    <1>1. b \in Bucket /\ n \in Bucket /\ x \in Nat /\ y \in Nat
        BY DEF RateInv, TypeOK
    <1>2. /\ b.expires \in Horizon /\ n.expires \in Horizon /\ b.count \in Nat /\ n.count \in Nat
          /\ b.expires \in Nat /\ n.expires \in Nat
        <2>. HIDE DEF b, n
        <2>. QED
            BY <1>1, RateLimitAssumption DEF Bucket, Horizon, RateLimitAssumption
    <1>3. a \in Nat /\ d \in Nat /\ a <= Limit /\ d <= Limit
        BY <1>2 DEF RateInv, TypeOK, WindowOK
    <1>4. now \in Nat /\ mark \in Nat /\ time \in Nat
        BY DEF RateInv, TypeOK, Time
    <1>5. Roll(s, x, b.expires, b.count, a)
          /\ NewNumbers(time, x, b.expires, b.count, a, y, n.expires, n.count, d)
        BY DEF RollOK, NumbersOf
    <1>6. RollOK(s, c)' <=> Roll(s, y, n.expires, n.count, d)
        BY DEF RollOK, Roll, MemoryRoll, RedisRoll
    <1>. HIDE DEF x, a, b, y, n, d
    <1>7. PICK x1 \in Nat, e1 \in Nat, k1 \in Nat, a1 \in Nat,
               y1 \in Nat, f1 \in Nat, l1 \in Nat, d1 \in Nat :
              /\ x1 = x /\ e1 = b.expires /\ k1 = b.count /\ a1 = a
              /\ y1 = y /\ f1 = n.expires /\ l1 = n.count /\ d1 = d
        BY <1>1, <1>2, <1>3
    <1>8. /\ Roll(s, x1, e1, k1, a1) /\ NewNumbers(time, x1, e1, k1, a1, y1, f1, l1, d1)
          /\ a1 <= Limit /\ d1 <= Limit
        BY <1>3, <1>5, <1>7
    <1>. DEFINE z1 == IF Measuring THEN x1 + 1 ELSE x1
    <1>9. \/ /\ e1 > time /\ f1 = e1 /\ l1 = k1 + 1
             /\ (l1 <= Limit /\ d1 = a1 + 1 /\ y1 = z1) \/ (d1 = a1 /\ y1 = x1)
          \/ /\ e1 <= time /\ f1 = time + Window /\ l1 = 1
             /\ (d1 = 1 /\ y1 = z1) \/ (d1 = 0 /\ y1 = x1)
        BY <1>4, <1>7, <1>8 DEF NewNumbers
    <1>10. Limit \in Nat \ {0} /\ Window \in Nat \ {0}
        BY RateLimitAssumption DEF RateLimitAssumption
    <1>11. CASE s = "memory"
        <2>1. MemoryRoll(x1, e1, k1, a1) /\ time <= now /\ now < time + Window
            BY <1>8, <1>11 DEF Roll, Timely
        <2>2. MemoryRoll(y1, f1, l1, d1)
            BY <1>4, <1>8, <1>9, <1>10, <2>1 DEF MemoryRoll, Measuring
        <2>. QED
            BY <1>6, <1>7, <1>11, <2>2 DEF Roll
    <1>12. CASE s # "memory"
        <2>1. RedisRoll(x1, e1, k1, a1) /\ time = now
            BY <1>8, <1>12 DEF Roll, Timely
        <2>2. RedisRoll(y1, f1, l1, d1)
            BY <1>4, <1>8, <1>9, <1>10, <2>1 DEF RedisRoll, Measuring
        <2>. QED
            BY <1>6, <1>7, <1>12, <2>2 DEF Roll
    <1>. QED
        BY <1>11, <1>12

LEMMA CountedRolls ==
    ASSUME RateInv, RateInv', now' = now, \A s \in Backends, c \in Clients : RollOK(s, c),
           NEW s \in Backends, NEW c \in Clients, NEW time \in Time, Timely(s, time),
           Counted(s, c, time)
    PROVE  \A s1 \in Backends, c1 \in Clients : RollOK(s1, c1)'
    <1>. DEFINE b == store[s][c]
                n == Incremented(b, time)
                a == admitted[s][c]
    <1>0. /\ store \in [Backends -> [Clients -> Bucket]] /\ stretch \in [Backends -> [Clients -> Nat]]
          /\ admitted \in [Backends -> [Clients -> [Horizon -> Nat]]] /\ b \in Bucket /\ now \in Nat
        BY DEF RateInv, TypeOK, Time
    <1>1. /\ n \in Bucket
          /\ \/ b.expires > time /\ n.expires = b.expires /\ n.count = b.count + 1
             \/ b.expires <= time /\ n.expires > b.expires /\ n.expires = time + Window /\ n.count = 1
        BY <1>0, IncrementedBucket
    <1>2. /\ store' = [store EXCEPT ![s][c] = n]
          /\ mark' = mark
          /\ \/ /\ Allowed(n)
                /\ admitted' = [admitted EXCEPT ![s][c][n.expires] = @ + 1]
                /\ stretch' = IF Measuring THEN [stretch EXCEPT ![s][c] = @ + 1] ELSE stretch
             \/ admitted' = admitted /\ stretch' = stretch
        BY DEF Counted
    <1>3. n.expires \in Horizon /\ b.expires \in Horizon /\ \A e \in Horizon : e \in Nat
        <2>. HIDE DEF n, b
        <2>. QED
            BY <1>0, <1>1, RateLimitAssumption DEF Bucket, Horizon, RateLimitAssumption
    <1>4. IF b.expires > time THEN a[n.expires] = a[b.expires] ELSE a[n.expires] = 0
        <2>1. \A e \in Horizon : e > b.expires => a[e] = 0
            BY DEF RateInv, WindowOK
        <2>. HIDE DEF a, b, n
        <2>. QED
            BY <1>1, <1>3, <2>1 DEF Time
    <1>. HIDE DEF n
    <1>5. /\ store'[s][c] = n
          /\ \A s1 \in Backends, c1 \in Clients : s1 # s \/ c1 # c =>
                /\ store'[s1][c1] = store[s1][c1] /\ stretch'[s1][c1] = stretch[s1][c1]
                /\ admitted'[s1][c1] = admitted[s1][c1]
          /\ \/ /\ n.count <= Limit
                /\ admitted'[s][c][n.expires] = a[n.expires] + 1
                /\ stretch'[s][c] = IF Measuring THEN stretch[s][c] + 1 ELSE stretch[s][c]
             \/ admitted'[s][c][n.expires] = a[n.expires] /\ stretch'[s][c] = stretch[s][c]
        <2>1. /\ store'[s][c] = n
              /\ \A s1 \in Backends, c1 \in Clients : s1 # s \/ c1 # c => store'[s1][c1] = store[s1][c1]
            BY <1>0, <1>1, <1>2, Replaced
        <2>2. CASE admitted' = admitted /\ stretch' = stretch
            BY <2>1, <2>2
        <2>3. CASE /\ Allowed(n)
                   /\ admitted' = [admitted EXCEPT ![s][c][n.expires] = @ + 1]
                   /\ stretch' = IF Measuring THEN [stretch EXCEPT ![s][c] = @ + 1] ELSE stretch
            <3>1. /\ admitted'[s][c][n.expires] = a[n.expires] + 1
                  /\ \A s1 \in Backends, c1 \in Clients : s1 # s \/ c1 # c => admitted'[s1][c1] = admitted[s1][c1]
                BY <1>0, <1>3, <2>3, Bumped
            <3>2. /\ stretch'[s][c] = IF Measuring THEN stretch[s][c] + 1 ELSE stretch[s][c]
                  /\ \A s1 \in Backends, c1 \in Clients : s1 # s \/ c1 # c => stretch'[s1][c1] = stretch[s1][c1]
                BY <1>0, <2>3
            <3>. QED
                BY <2>1, <2>3, <3>1, <3>2 DEF Allowed
        <2>. QED
            BY <1>2, <2>2, <2>3
    <1>6. NumbersOf(s, c, time)
        <2>1. \/ b.expires > time /\ n.expires = b.expires /\ n.count = b.count + 1
              \/ b.expires <= time /\ n.expires = time + Window /\ n.count = 1
            BY <1>1
        <2>2. a[n.expires] = IF b.expires > time THEN a[b.expires] ELSE 0
            BY <1>4
        <2>. QED
            BY <1>5, <2>1, <2>2 DEF NumbersOf, NewNumbers
    <1>7. RollOK(s, c)'
        BY <1>2, <1>6, NumbersRoll
    <1>8. ASSUME NEW s1 \in Backends, NEW c1 \in Clients, s1 # s \/ c1 # c
          PROVE  RollOK(s1, c1)'
        <2>1. now' \in Nat /\ now' >= now
            BY <1>0
        <2>2. store'[s1][c1] = store[s1][c1] /\ stretch'[s1][c1] = stretch[s1][c1]
              /\ admitted'[s1][c1] = admitted[s1][c1]
            BY <1>5, <1>8
        <2>. QED
            BY <1>2, <2>1, <2>2, RollsOn DEF RateInv
    <1>. QED
        BY <1>7, <1>8

LEMMA InitRoll == Init => RollInv
    <1>. SUFFICES ASSUME Init PROVE RollInv
        OBVIOUS
    <1>1. RateInv
        BY InitRate
    <1>2. ReadsAreFresh
        BY DEF Init, ReadsAreFresh, NoRequest
    <1>3. ASSUME NEW s \in Backends, NEW c \in Clients PROVE RollOK(s, c)
        <2>1. 0 \in Horizon /\ mark \in Nat /\ now = 0 /\ Limit \in Nat \ {0} /\ Window \in Nat \ {0}
            BY RateLimitAssumption DEF Init, Horizon, Time, RateLimitAssumption
        <2>2. /\ store[s][c].expires = 0 /\ store[s][c].count = 0 /\ stretch[s][c] = 0
              /\ admitted[s][c][0] = 0
            BY <2>1 DEF Init, NoBuckets, NoBucket
        <2>. QED
            BY <2>1, <2>2 DEF RollOK, Roll, MemoryRoll, RedisRoll
    <1>. QED
        BY <1>1, <1>2, <1>3 DEF RollInv

\* A step that leaves the time, the windows and the measurement alone.
LEMMA RollFrame ==
    ASSUME RollInv, UNCHANGED <<now, mark, store, admitted, stretch>>
    PROVE  \A s \in Backends, c \in Clients : RollOK(s, c)'
    BY DEF RollInv, RollOK, Roll, MemoryRoll, RedisRoll

LEMMA NextRoll == RollInv /\ [Next]_vars => RollInv'
    <1>. SUFFICES ASSUME RollInv, [Next]_vars PROVE RollInv'
        OBVIOUS
    <1>0. /\ RateInv /\ RateInv' /\ TypeOK /\ ReadsArePast /\ ReadsAreFresh
          /\ \A s \in Backends, c \in Clients : RollOK(s, c)
          /\ now \in Nat /\ Window \in Nat \ {0} /\ Limit \in Nat \ {0}
        BY NextRate, RateLimitAssumption DEF RollInv, RateInv, TypeOK, Time, RateLimitAssumption
    <1>1. CASE Tick
        <2>1. now' \in Nat /\ now' >= now /\ mark' = mark
            BY <1>0, <1>1 DEF Tick
        <2>2. ReadsAreFresh'
            <3>1. ASSUME NEW t \in Threads, request[t].pc = "clocked" PROVE now' < request[t].read + Window
                <4>1. request[t].read \in Nat
                    BY <1>0, <3>1 DEF TypeOK, NoRequest, Request, Time
                <4>2. now + 1 - request[t].read < Window /\ now' = now + 1
                    BY <1>1, <3>1 DEF Tick
                <4>. QED
                    BY <1>0, <4>1, <4>2
            <3>. QED
                BY <1>1, <3>1 DEF Tick, ReadsAreFresh
        <2>3. ASSUME NEW s \in Backends, NEW c \in Clients PROVE RollOK(s, c)'
            BY <1>0, <1>1, <2>1, RollsOn DEF Tick
        <2>. QED
            BY <1>0, <2>2, <2>3 DEF RollInv
    <1>2. CASE Restart
        <2>1. ReadsAreFresh'
            BY <1>2 DEF Restart, ReadsAreFresh, NoRequest
        <2>2. /\ store' = [store EXCEPT !["memory"] = NoBuckets]
              /\ admitted' = [admitted EXCEPT !["memory"] = [c \in Clients |-> [e \in Horizon |-> 0]]]
              /\ stretch' = [stretch EXCEPT !["memory"] = [c \in Clients |-> 0]]
              /\ now' = now /\ mark' = mark
            BY <1>2 DEF Restart
        <2>3. ASSUME NEW s \in Backends, NEW c \in Clients PROVE RollOK(s, c)'
            <3>1. CASE s = "memory"
                <4>1. 0 \in Horizon
                    BY <1>0, <2>2, RateLimitAssumption DEF Horizon, TypeOK, Time, RateLimitAssumption
                <4>2. /\ store'[s][c] = NoBucket /\ stretch'[s][c] = 0
                      /\ \A e \in Horizon : admitted'[s][c][e] = 0
                    BY <1>0, <2>2, <3>1 DEF TypeOK, NoBuckets
                <4>3. /\ store'[s][c].expires = 0 /\ store'[s][c].count = 0
                      /\ admitted'[s][c][store'[s][c].expires] = 0
                    BY <4>1, <4>2 DEF NoBucket
                <4>. QED
                    <5>1. MemoryRoll(0, 0, 0, 0)'
                        <6>1. /\ Limit \in Nat \ {0} /\ Window \in Nat \ {0} /\ mark \in Nat /\ now \in Nat
                              /\ mark' = mark /\ now' = now
                            BY <1>0, <2>2 DEF TypeOK, Time
                        <6>. QED
                            BY <6>1 DEF MemoryRoll
                    <5>2. stretch'[s][c] = 0
                        BY <4>2
                    <5>3. LET b == store[s][c]
                          IN  MemoryRoll(stretch[s][c], b.expires, b.count, admitted[s][c][b.expires])'
                        BY <4>3, <5>1, <5>2 DEF MemoryRoll
                    <5>. QED
                        BY <3>1, <5>3 DEF RollOK, Roll, MemoryRoll
            <3>2. CASE s # "memory"
                <4>1. store'[s] = store[s] /\ admitted'[s] = admitted[s] /\ stretch'[s] = stretch[s]
                    BY <1>0, <2>2, <3>2 DEF TypeOK
                <4>. QED
                    BY <1>0, <2>2, <4>1, RollsOn
            <3>. QED
                BY <3>1, <3>2
        <2>. QED
            BY <1>0, <2>1, <2>3 DEF RollInv
    <1>3. ASSUME NEW t \in Threads, Serve(t) PROVE RollInv'
        <2>0. request[t] # NoRequest => request[t] \in Request
            BY <1>0 DEF TypeOK
        <2>a. ASSUME now' = now, \A u \in Threads \ {t} : request'[u] = request[u],
                     request'[t].pc = "clocked" => request'[t].read = now
              PROVE  ReadsAreFresh'
            BY <1>0, <2>a DEF ReadsAreFresh
        <2>1. ASSUME NEW c \in Clients, Arrive(t, c) PROVE RollInv'
            <3>1. /\ \A u \in Threads \ {t} : request'[u] = request[u]
                  /\ request'[t].pc # "clocked" /\ now' = now
                BY <1>0, <2>1 DEF Arrive, TypeOK
            <3>. QED
                BY <1>0, <2>1, <2>a, <3>1, RollFrame DEF Arrive, RollInv
        <2>2. CASE Build(t)
            <3>1. PICK s \in Backends : request' = [request EXCEPT ![t].pc = "ready", ![t].via = s]
                BY <2>2 DEF Build
            <3>2. request[t] \in Request
                BY <2>0, <2>2 DEF Build, NoRequest
            <3>3. /\ \A u \in Threads \ {t} : request'[u] = request[u]
                  /\ request'[t].pc # "clocked" /\ now' = now
                BY <1>0, <2>2, <3>1, <3>2 DEF Build, TypeOK, Request
            <3>. QED
                BY <1>0, <2>2, <2>a, <3>3, RollFrame DEF Build, RollInv
        <2>3. CASE ReadClock(t)
            <3>1. request[t] \in Request
                BY <2>0, <2>3 DEF ReadClock, NoRequest
            <3>2. /\ \A u \in Threads \ {t} : request'[u] = request[u]
                  /\ request'[t].read = now /\ now' = now
                BY <1>0, <2>3, <3>1 DEF ReadClock, TypeOK, Request
            <3>. QED
                BY <1>0, <2>3, <2>a, <3>2, RollFrame DEF ReadClock, RollInv
        <2>b. ASSUME Done(t), now' = now PROVE ReadsAreFresh'
            <3>1. /\ \A u \in Threads \ {t} : request'[u] = request[u]
                  /\ request'[t].pc # "clocked"
                BY <1>0, <2>b DEF Done, TypeOK, NoRequest
            <3>. QED
                BY <2>a, <2>b, <3>1
        <2>4. CASE CountInMemory(t)
            <3>1. /\ request[t] \in Request /\ request[t].client \in Clients /\ request[t].read \in Time
                  /\ "memory" \in Backends /\ request[t].pc = "clocked"
                BY <2>0, <2>4 DEF CountInMemory, NoRequest, Request, Backends
            <3>2. Timely("memory", request[t].read)
                BY <1>0, <3>1 DEF Timely, ReadsArePast, ReadsAreFresh
            <3>. QED
                BY <1>0, <2>4, <2>b, <3>1, <3>2, CountedRolls DEF CountInMemory, RollInv
        <2>5. CASE CountInRedis(t)
            <3>1. request[t].client \in Clients /\ now \in Time /\ "redis" \in Backends
                BY <1>0, <2>0, <2>5 DEF CountInRedis, NoRequest, Request, TypeOK, Backends
            <3>2. Timely("redis", now)
                BY DEF Timely
            <3>. QED
                BY <1>0, <2>5, <2>b, <3>1, <3>2, CountedRolls DEF CountInRedis, RollInv
        <2>6. CASE RedisFails(t)
            <3>0. PICK c \in Clients : c = request[t].client
                BY <2>0, <2>6 DEF RedisFails, NoRequest, Request
            <3>. DEFINE b == store["redis"][c]
                        n == Incremented(b, now)
            <3>1. now \in Time /\ "redis" \in Backends /\ b \in Bucket
                BY <1>0 DEF TypeOK, Backends
            <3>2. /\ store' = store \/ store' = [store EXCEPT !["redis"][c] = n]
                  /\ admitted' = admitted /\ stretch' = stretch /\ mark' = mark /\ now' = now /\ Done(t)
                BY <2>6, <3>0 DEF RedisFails
            <3>3. CASE store' = store
                BY <1>0, <2>b, <3>2, <3>3, RollFrame DEF RollInv
            <3>4. CASE store' = [store EXCEPT !["redis"][c] = n]
                <4>1. /\ n \in Bucket
                      /\ \/ b.expires > now /\ n.expires = b.expires /\ n.count = b.count + 1
                         \/ /\ b.expires <= now /\ n.expires > b.expires
                            /\ n.expires = now + Window /\ n.count = 1
                    BY <3>1, IncrementedBucket
                <4>2. n.expires \in Horizon /\ b.expires \in Horizon /\ \A e \in Horizon : e \in Nat
                    <5>. HIDE DEF n, b
                    <5>. QED
                        BY <1>0, <3>1, <4>1, RateLimitAssumption DEF Bucket, Horizon, RateLimitAssumption
                <4>3. admitted["redis"][c][n.expires] =
                          IF b.expires > now THEN admitted["redis"][c][b.expires] ELSE 0
                    <5>1. \A e \in Horizon : e > b.expires => admitted["redis"][c][e] = 0
                        BY <1>0, <3>1 DEF RateInv, WindowOK
                    <5>. HIDE DEF b, n
                    <5>. QED
                        BY <1>0, <4>1, <4>2, <5>1
                <4>. HIDE DEF n
                <4>4. /\ store'["redis"][c] = n
                      /\ \A s1 \in Backends, c1 \in Clients :
                            s1 # "redis" \/ c1 # c => store'[s1][c1] = store[s1][c1]
                    BY <1>0, <3>1, <3>4, <4>1, Replaced DEF TypeOK
                <4>5. NumbersOf("redis", c, now)
                    <5>1. \/ b.expires > now /\ n.expires = b.expires /\ n.count = b.count + 1
                          \/ b.expires <= now /\ n.expires = now + Window /\ n.count = 1
                        BY <4>1
                    <5>2. store'["redis"][c] = n
                        BY <4>4
                    <5>3. QED
                        <6>1. stretch'["redis"][c] = stretch["redis"][c]
                              /\ admitted'["redis"][c][n.expires] = admitted["redis"][c][n.expires]
                            BY <3>2
                        <6>2. store'["redis"][c].expires = n.expires /\ store'["redis"][c].count = n.count
                            BY <5>2
                        <6>. QED
                            BY <4>3, <5>1, <5>2, <6>1, <6>2 DEF NumbersOf, NewNumbers
                <4>6. RollOK("redis", c)'
                    BY <1>0, <3>1, <3>2, <4>5, NumbersRoll DEF Timely
                <4>7. ASSUME NEW s1 \in Backends, NEW c1 \in Clients, s1 # "redis" \/ c1 # c
                      PROVE  RollOK(s1, c1)'
                    <5>1. now' \in Nat /\ now' >= now
                        BY <1>0, <3>2
                    <5>2. QED
                        <6>1. /\ store'[s1][c1] = store[s1][c1] /\ stretch'[s1][c1] = stretch[s1][c1]
                              /\ admitted'[s1][c1] = admitted[s1][c1] /\ mark' = mark
                            BY <3>2, <4>4, <4>7
                        <6>. QED
                            BY <1>0, <5>1, <6>1, RollsOn
                <4>. QED
                    BY <1>0, <2>b, <3>2, <4>6, <4>7 DEF RollInv
            <3>. QED
                BY <3>2, <3>3, <3>4
        <2>. QED
            BY <1>3, <2>1, <2>2, <2>3, <2>4, <2>5, <2>6 DEF Serve
    <1>4. CASE UNCHANGED vars
        BY <1>0, <1>4, RollFrame DEF vars, RollInv, ReadsAreFresh
    <1>. QED
        BY <1>1, <1>2, <1>3, <1>4 DEF Next

\* Whatever stretch of window_seconds is measured, when threads have the lock within a
\* window of reading the clock: two windows of Redis share it, or three of the memory
\* backend that one life of the process begins, and the first has counted a request
\* before it.
THEOREM MinutesAreLimited == Spec => []RollingLimit
    <1>1. RollInv => RollingLimit
        BY DEF RollInv, RollOK, Roll, MemoryRoll, RedisRoll, RollingLimit, Backends
    <1>. QED
        BY <1>1, InitRoll, NextRoll, PTL DEF Spec
=============================================================================
