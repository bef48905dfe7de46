--------------------------- MODULE AccountsProofs ---------------------------
(***************************************************************************)
(* Proofs about Accounts, for every number of users, requests and keys,    *)
(* every limit and every window.  What each request has read is placed by  *)
(* the step it has reached; roles, the signing key and the login limiter   *)
(* each have an invariant of their own on top of that.                     *)
(***************************************************************************)
EXTENDS Accounts, SequenceTheorems, WellFoundedInduction, TLAPS

-----------------------------------------------------------------------------
(* Buckets.                                                                *)

\* A set of numbers has a least one.
LEMMA Least ==
  ASSUME NEW I, I \subseteq Nat, I # {}
  PROVE  \E m \in I : \A i \in I : m <= i
  <1>1. IsWellFoundedOn(OpToRel(<, Nat), Nat)
    BY NatLessThanWellFounded
  <1>2. PICK m \in I : \A i \in I : <<i, m>> \notin OpToRel(<, Nat)
    BY <1>1, WFMin
  <1>3. \A i \in I : ~(i < m)
    BY <1>2 DEF OpToRel
  <1>4. m \in Nat /\ \A i \in I : i \in Nat
    BY <1>2
  <1>5. \A i \in I : m <= i
    BY <1>3, <1>4
  <1>6. QED
    BY <1>2, <1>5

\* The hits of b that new leaves out are at least a window older than now.
Dropped(b, new, now) ==
    /\ new \in Seq(Nat)
    /\ Len(new) <= Len(b)
    /\ \A i \in 1..Len(new) : new[i] = b[(Len(b) - Len(new)) + i]
    /\ \A i \in 1..(Len(b) - Len(new)) : b[i] + Window <= now

\* The window is a number of ticks.
LEMMA WindowType == Window \in Nat \ {0}
  BY LimiterAssumption DEF Window

\* Pruning drops a prefix of old hits, and stops at a hit of the window.
LEMMA PruneFacts ==
  ASSUME NEW b \in Seq(Nat), NEW now \in Nat
  PROVE  /\ Dropped(b, _prune(b, now), now)
         /\ _prune(b, now) # <<>> => _prune(b, now)[1] + Window > now
  <1> DEFINE I == {i \in 1..Len(b) : b[i] > now - Window}
  <1>1. _prune(b, now) = IF I = {} THEN <<>>
                         ELSE IF Min(I) = 0 THEN <<>> ELSE SubSeq(b, Min(I), Len(b))
    BY DEF _prune, SelectInSeq
  <1>2. Window \in Nat /\ \A i \in 1..Len(b) : b[i] \in Nat
    BY WindowType
  <1>6. I \subseteq Nat /\ \A i : i \in I <=> i \in 1..Len(b) /\ b[i] > now - Window
    OBVIOUS
  <1>7. \A i \in 1..Len(b) : i \notin I => b[i] + Window <= now
    BY <1>2, <1>6
  <1> HIDE DEF I
  <1>3. CASE I = {}
    <2>1. \A i \in 1..Len(b) : b[i] + Window <= now
      BY <1>3, <1>7
    <2>2. QED
      BY <1>1, <1>3, <2>1 DEF Dropped
  <1>4. CASE I # {}
    <2>1. PICK m \in I : \A i \in I : m <= i
      BY <1>4, <1>6, Least
    <2>2. Min(I) = m
      <3>1. \A i \in I : i \in Nat
        BY <1>6
      <3>2. \A x \in I : (\A i \in I : x <= i) => x = m
        BY <2>1, <3>1
      <3>3. QED
        BY <2>1, <3>2 DEF Min
    <2>3. m \in 1..Len(b) /\ b[m] > now - Window
      BY <1>6
    <2>10. \A i \in 1..(m - 1) : i \in 1..Len(b) /\ i \notin I
      BY <2>1, <2>3
    <2>4. _prune(b, now) = SubSeq(b, m, Len(b))
      BY <1>1, <1>4, <2>2, <2>3 
    <2> DEFINE new == SubSeq(b, m, Len(b))
    <2>5. /\ new \in Seq(Nat)
          /\ Len(new) = Len(b) - m + 1
          /\ \A i \in 1..Len(new) : new[i] = b[m + i - 1]
      BY <2>3
    <2> HIDE DEF new
    <2>6. \A i \in 1..Len(new) : new[i] = b[(Len(b) - Len(new)) + i]
      BY <2>3, <2>5
    <2>7. \A i \in 1..(Len(b) - Len(new)) : b[i] + Window <= now
      BY <1>7, <2>3, <2>5, <2>10
    <2>8. new[1] + Window > now
      <3>1. 1 \in 1..Len(new) /\ m + 1 - 1 = m
        BY <2>3, <2>5
      <3>2. new[1] = b[m] /\ b[m] \in Nat
        BY <1>2, <2>3, <2>5, <3>1
      <3>3. QED
        BY <1>2, <2>3, <3>2
    <2>9. QED
      BY <2>3, <2>4, <2>5, <2>6, <2>7, <2>8 DEF new, Dropped
  <1>5. QED
    BY <1>3, <1>4

\* A bucket that is not full, or whose oldest hit is a window old, lets the
\* next one through.
LEMMA CheckPasses ==
  ASSUME NEW b \in Seq(Nat), NEW now \in Nat, Len(b) <= Limit,
         Len(b) < Limit \/ b[1] + Window <= now
  PROVE  check(b, now)
  <1> DEFINE new == _prune(b, now)
  <1>1. Dropped(b, new, now) /\ (new # <<>> => new[1] + Window > now)
    BY PruneFacts
  <1> HIDE DEF new
  <1>2. Limit \in Nat \ {0} /\ Window \in Nat
    BY LimiterAssumption, WindowType
  <1>3. Len(new) < Limit
    <2>1. SUFFICES ASSUME Len(new) = Limit PROVE FALSE
      BY <1>1, <1>2 DEF Dropped
    <2>2. Len(b) = Limit /\ new # <<>> /\ new[1] = b[1]
      BY <1>1, <1>2, <2>1 DEF Dropped
    <2>3. b[1] \in Nat
      BY <1>2, <2>2
    <2>4. QED
      BY <1>1, <1>2, <2>2, <2>3
  <1>4. QED
    BY <1>3 DEF new, check

\* Waiting for retry_after's seconds is waiting for the oldest hit to leave
\* the window.
LEMMA RetryCovers ==
  ASSUME NEW b \in Seq(Nat), NEW now \in Nat, _prune(b, now) # <<>>
  PROVE  /\ retry_after(b, now) \in Nat
         /\ _prune(b, now)[1] + Window <= now + Second * retry_after(b, now)
  <1> DEFINE new == _prune(b, now)
             x == Window - (now - new[1])
             whole == x \div Second + 1
  <1>1. Dropped(b, new, now) /\ new[1] + Window > now
    BY PruneFacts
  <1>2. retry_after(b, now) = Max({1, whole})
    BY DEF retry_after
  <1> HIDE DEF new
  <1>3. Window \in Nat /\ Second \in Nat \ {0} /\ new[1] \in Nat
    <2>1. new # <<>>
      BY DEF new
    <2>2. QED
      BY <1>1, <2>1, LimiterAssumption, WindowType DEF Dropped
  <1>4. x \in Int /\ x > 0
    BY <1>1, <1>3
  <1>5. whole \in Nat /\ Second * whole > x
    <2> HIDE DEF x
    <2>1. \A y \in Nat, s \in Nat \ {0} : y \div s + 1 \in Nat /\ s * (y \div s + 1) > y
      OBVIOUS
    <2>2. QED
      BY <1>3, <1>4, <2>1
  <1>6. Max({1, whole}) = IF whole > 1 THEN whole ELSE 1
    <2> HIDE DEF whole
    <2>1. QED
      BY <1>5 DEF Max
  <1>7. retry_after(b, now) \in Nat /\ Second * retry_after(b, now) >= Second * whole
    <2> HIDE DEF whole
    <2>1. CASE whole > 1
      BY <1>2, <1>3, <1>5, <1>6, <2>1
    <2>2. CASE ~(whole > 1)
      <3>1. whole = 1 \/ whole = 0
        BY <1>5, <2>2
      <3>2. retry_after(b, now) = 1
        BY <1>2, <1>6, <2>2
      <3>3. Second * 1 >= Second * 0 /\ Second * 1 >= Second * 1
        BY <1>3
      <3>4. QED
        BY <3>1, <3>2, <3>3
    <2>3. QED
      BY <2>1, <2>2
  <1> DEFINE wait == Second * retry_after(b, now)
             most == Second * whole
  <1>8. wait \in Int /\ most \in Int /\ wait >= most /\ most > x
    BY <1>3, <1>5, <1>7, SMTT(40)
  <1> HIDE DEF wait, most, whole
  <1>9. new[1] + Window <= now + wait
    BY <1>3, <1>8
  <1>10. QED
    BY <1>7, <1>9 DEF new, wait

-----------------------------------------------------------------------------
(* The tables and the requests.                                            *)

Kinds == {"none", "login", "page", "create", "create_admin", "reset_password", "set_role"}

Steps == {"idle", "hit", "refused", "verify", "reset", "load", "write", "fill", "install", "ready",
          "rehash", "work", "insert", "write_role"}

Cookie == [uid : 1..MaxUsers, key : Keys]

Request == [kind : Kinds, step : Steps, by : 0..MaxUsers, to : 0..MaxUsers,
            name : Names \cup {None}, role : {"admin", "player"},
            password : Passwords \cup {None}, seen : User \cup Cookie \cup {None},
            key : Keys \cup {None}, now : Nat]

\* The variables but request hold values of their types, and a cookie belongs
\* to a user.
DataOK ==
    /\ world \in Worlds
    /\ users \in Seq(User) /\ Len(users) <= MaxUsers
    /\ keyFile \in Keys \cup {None}
    /\ serializer \in Keys \cup {None}
    /\ cookies \subseteq Cookie
    /\ \A c \in cookies : c.uid \in DOMAIN users
    /\ hits \in [1..MaxUsers -> Seq(Nat)]
    /\ clock \in Nat
    /\ accepted \in [1..MaxUsers -> Seq([read : Nat, at : Nat])]
    /\ told \in [1..MaxUsers -> Nat \cup {None}]
    /\ raced \subseteq {"first use", "demotions", "rehash"}

\* The steps of get_serializer().
Signing == {"load", "write", "fill", "install", "ready"}

\* What a request has read by the step it has reached, while uids are the
\* users, key signs and time is the clock's.
Placed(q, uids, key, time) ==
    /\ q.now <= time
    /\ q.kind = "none" => q.step = "idle"
    /\ q.kind = "login" => q.to \in uids /\ q.password \in Passwords
    /\ q.step \in {"hit", "refused", "verify", "reset", "rehash"} => q.kind = "login"
    /\ q.kind = "login" /\ q.step \in Signing \cup {"reset", "rehash"} =>
         q.seen \in User /\ q.seen.password = q.password
    /\ q.kind # "login" /\ q.step \in Signing => q.seen \in Cookie /\ q.by \in uids
    /\ q.kind = "create" => uids # {}
    /\ q.step = "ready" => key # None
    /\ q.step \in {"write", "fill", "install"} => q.key \in Keys
    /\ q.step = "insert" =>
         /\ q.kind \in {"create", "create_admin"}
         /\ q.name \in Names
         /\ q.kind = "create_admin" => q.role = "admin"
    /\ q.step = "write_role" => q.to \in uids /\ q.seen \in User

CoreInv ==
    /\ DataOK
    /\ request \in [Requests -> Request]
    /\ \A r \in Requests : Placed(request[r], DOMAIN users, serializer, clock)

\* Users stay, a serializer once loaded stays, and time goes on.
Later ==
    /\ DOMAIN users \subseteq DOMAIN users'
    /\ serializer # None => serializer' # None
    /\ clock <= clock'

\* The users are numbered within the bound.
LEMMA UserIds ==
  ASSUME CoreInv, NEW uid \in DOMAIN users
  PROVE  uid \in 1..MaxUsers /\ uid \in 0..MaxUsers /\ users[uid] \in User
  <1>1. users \in Seq(User) /\ Len(users) <= MaxUsers
    BY DEF CoreInv, DataOK
  <1>2. uid \in 1..Len(users) /\ Len(users) \in Nat /\ MaxUsers \in Nat
    BY <1>1, AccountsAssumption
  <1>3. users[uid] \in User
    BY <1>1, <1>2
  <1> HIDE DEF User
  <1>4. QED
    BY <1>1, <1>2, <1>3

\* What a user has in the limiter.
LEMMA UserHits ==
  ASSUME CoreInv, NEW uid \in DOMAIN users
  PROVE  hits[uid] \in Seq(Nat) /\ accepted[uid] \in Seq([read : Nat, at : Nat])
  <1>1. uid \in 1..MaxUsers
    BY UserIds
  <1>2. hits \in [1..MaxUsers -> Seq(Nat)]
        /\ accepted \in [1..MaxUsers -> Seq([read : Nat, at : Nat])]
    BY DEF CoreInv, DataOK
  <1>3. QED
    BY <1>1, <1>2

\* The limiter's variables and the clock have their types.
LEMMA LimiterTypes ==
  ASSUME CoreInv
  PROVE  /\ hits \in [1..MaxUsers -> Seq(Nat)]
         /\ accepted \in [1..MaxUsers -> Seq([read : Nat, at : Nat])]
         /\ told \in [1..MaxUsers -> Nat \cup {None}]
  BY DEF CoreInv, DataOK

\* The clock is a number.
LEMMA ClockType ==
  ASSUME CoreInv
  PROVE  clock \in Nat
  BY DEF CoreInv, DataOK

\* Where no user goes, and the serializer and the clock stay.
LEMMA MoreLater ==
  ASSUME CoreInv, DOMAIN users \subseteq DOMAIN users', serializer' = serializer, clock' = clock
  PROVE  Later
  <1>1. clock <= clock
    BY ClockType
  <1>2. QED
    BY <1>1, Zenon DEF Later

\* A step that leaves users, serializer and clock alone goes on from them.
LEMMA StillLater ==
  ASSUME CoreInv, UNCHANGED <<users, serializer, clock>>
  PROVE  Later
  BY MoreLater

\* What a request has read remains so.
LEMMA PlacedLater ==
  ASSUME NEW q \in Request, NEW uids, NEW key, NEW time \in Nat,
         NEW uids2, NEW key2, NEW time2 \in Nat, uids \subseteq uids2,
         key # None => key2 # None, time <= time2, Placed(q, uids, key, time)
  PROVE  Placed(q, uids2, key2, time2)
  <1>1. q.now \in Nat
    BY DEF Request
  <1>2. q.now <= time2
    BY <1>1 DEF Placed
  <1>3. QED
    BY <1>2 DEF Placed

\* A step of one request.
LEMMA OneMoves ==
  ASSUME CoreInv, NEW r \in Requests, NEW new \in Request,
         Placed(new, DOMAIN users', serializer', clock'),
         request' = [request EXCEPT ![r] = new], DataOK', Later
  PROVE  CoreInv'
  <1>1. request' \in [Requests -> Request]
    BY DEF CoreInv
  <1>2. ASSUME NEW q \in Requests PROVE Placed(request'[q], DOMAIN users', serializer', clock')
    <2>1. CASE q = r
      BY <2>1 DEF CoreInv
    <2>2. CASE q # r
      <3>1. request'[q] = request[q] /\ request[q] \in Request
        BY <2>2 DEF CoreInv
      <3>2. Placed(request[q], DOMAIN users, serializer, clock) /\ clock \in Nat /\ clock' \in Nat
        BY DEF CoreInv, DataOK
      <3>3. Placed(request[q], DOMAIN users', serializer', clock')
        BY <3>1, <3>2, PlacedLater DEF Later
      <3>4. QED
        BY <3>1, <3>3
    <2>3. QED
      BY <2>1, <2>2
  <1>3. QED
    BY <1>1, <1>2 DEF CoreInv

\* A step of one request that reads only.
LEMMA OneReads ==
  ASSUME CoreInv, NEW r \in Requests, NEW new \in Request,
         Placed(new, DOMAIN users, serializer, clock),
         request' = [request EXCEPT ![r] = new], DataOK',
         UNCHANGED <<users, serializer, clock>>
  PROVE  CoreInv'
  <1>1. Later
    BY StillLater
  <1>2. QED
    BY <1>1, OneMoves

\* A request that has ended has read nothing.
LEMMA IdlePlaced ==
  ASSUME NEW uids, NEW key, NEW time \in Nat
  PROVE  Idle \in Request /\ Placed(Idle, uids, key, time)
  BY AccountsAssumption DEF Idle, Request, Kinds, Steps, Placed, Signing

\* A request ends.
LEMMA OneEnds ==
  ASSUME CoreInv, NEW r \in Requests, End(r), DataOK', Later
  PROVE  CoreInv'
  <1>1. Idle \in Request /\ Placed(Idle, DOMAIN users', serializer', clock')
    BY IdlePlaced DEF DataOK
  <1> HIDE DEF Idle
  <1>2. QED
    BY <1>1, OneMoves DEF End

\* A request goes on to a step where no more is asked of what it has read.
LEMMA GoesOn ==
  ASSUME CoreInv, NEW r \in Requests, NEW step \in Steps, Goto(r, step), DataOK', Later,
         Placed([request[r] EXCEPT !.step = step], DOMAIN users', serializer', clock')
  PROVE  CoreInv'
  <1>1. [request[r] EXCEPT !.step = step] \in Request
    BY DEF CoreInv, Request
  <1>2. request' = [request EXCEPT ![r] = [request[r] EXCEPT !.step = step]]
    BY DEF Goto, CoreInv
  <1>3. QED
    BY <1>1, <1>2, OneMoves

-----------------------------------------------------------------------------
(* Each step keeps the core invariant.                                     *)

\* A login comes in.
LEMMA LoginCore ==
  ASSUME CoreInv, NEW r \in Requests, login(r)
  PROVE  CoreInv'
  <1>1. PICK uid \in DOMAIN users, password \in Passwords :
          request' = [request EXCEPT ![r] = [Idle EXCEPT !.kind = "login", !.step = "hit",
                                               !.to = uid, !.password = password, !.now = clock]]
    BY DEF login
  <1> DEFINE new == [Idle EXCEPT !.kind = "login", !.step = "hit", !.to = uid,
                                 !.password = password, !.now = clock]
  <1>2. uid \in 0..MaxUsers /\ clock \in Nat
    BY UserIds, ClockType
  <1>3. new \in Request
    <2>1. Idle \in Request
      BY IdlePlaced, <1>2
    <2> HIDE DEF Idle
    <2>2. QED
      BY <1>2, <2>1 DEF Request, Kinds, Steps
  <1>4. Placed(new, DOMAIN users, serializer, clock)
    BY <1>2 DEF Placed, Idle, Signing
  <1>5. DataOK' /\ UNCHANGED <<users, serializer, clock>>
    BY DEF login, CoreInv, DataOK, dbVars, limiterVars
  <1> HIDE DEF new
  <1>6. QED
    BY <1>1, <1>3, <1>4, <1>5, OneReads DEF new

\* The attempt takes its place in the bucket, or is refused.
LEMMA HitCore ==
  ASSUME CoreInv, NEW r \in Requests, login_hit(r)
  PROVE  CoreInv'
  <1> DEFINE q == request[r]
             uid == q.to
             now == q.now
  <1>1. q \in Request /\ Placed(q, DOMAIN users, serializer, clock) /\ q.step = "hit"
    BY DEF CoreInv, login_hit
  <1>2. q.kind = "login" /\ uid \in DOMAIN users /\ now \in Nat
    BY <1>1 DEF Placed, Request
  <1>3. uid \in 1..MaxUsers /\ hits[uid] \in Seq(Nat) /\ clock \in Nat
        /\ accepted[uid] \in Seq([read : Nat, at : Nat])
    BY <1>2, UserIds, UserHits, ClockType
  <1>4. hit(hits[uid], now) \in Seq(Nat)
    <2>1. _prune(hits[uid], now) \in Seq(Nat)
      BY <1>2, <1>3, PruneFacts DEF Dropped
    <2>2. QED
      BY <1>2, <2>1 DEF hit
  <1>5. hits' \in [1..MaxUsers -> Seq(Nat)]
    BY <1>4 DEF login_hit, CoreInv, DataOK
  <1>6. UNCHANGED <<world, users, keyFile, cookies, serializer, clock, raced>> /\ Later
    BY StillLater DEF login_hit, dbVars
  <1>7. CASE check(hits[uid], now)
    <2>1. /\ Goto(r, "verify")
          /\ accepted' = [accepted EXCEPT ![uid] = Recently(uid, [read |-> now, at |-> clock])]
          /\ told' = [told EXCEPT ![uid] = None]
      BY <1>7 DEF login_hit
    <2>2. Recently(uid, [read |-> now, at |-> clock]) \in Seq([read : Nat, at : Nat])
      <3> DEFINE E == [read : Nat, at : Nat]
                 entry == [read |-> now, at |-> clock]
                 all == Append(accepted[uid], entry)
      <3>1. entry \in E
        BY <1>2, <1>3
      <3> HIDE DEF E, entry
      <3>2. all \in Seq(E) /\ all # <<>>
        BY <1>3, <3>1, AppendProperties DEF E
      <3>3. Tail(all) \in Seq(E)
        BY <3>2, HeadTailProperties
      <3>4. QED
        BY <3>2, <3>3 DEF Recently, E, entry
    <2>3. DataOK'
      BY <1>5, <1>6, <2>1, <2>2 DEF CoreInv, DataOK
    <2>4. Placed([q EXCEPT !.step = "verify"], DOMAIN users', serializer', clock')
      BY <1>1, <1>2, <1>6 DEF Placed, Signing, Request
    <2>5. QED
      BY <1>6, <2>1, <2>3, <2>4, GoesOn DEF Steps
  <1>8. CASE ~check(hits[uid], now)
    <2> DEFINE new == [q EXCEPT !.step = "refused", !.now = clock]
    <2>1. request' = [request EXCEPT ![r] = new] /\ UNCHANGED <<accepted, told>>
      BY <1>8 DEF login_hit, CoreInv
    <2>2. new \in Request
      BY <1>1, <1>3 DEF Request, Steps
    <2>3. DataOK'
      BY <1>5, <1>6, <2>1 DEF CoreInv, DataOK
    <2>4. Placed(new, DOMAIN users', serializer', clock')
      BY <1>1, <1>2, <1>3, <1>6 DEF Placed, Signing, Request
    <2> HIDE DEF new
    <2>5. QED
      BY <1>6, <2>1, <2>2, <2>3, <2>4, OneMoves
  <1>9. QED
    BY <1>7, <1>8

\* A refused attempt says how long to wait.
LEMMA RefusedCore ==
  ASSUME CoreInv, NEW r \in Requests, login_refused(r)
  PROVE  CoreInv'
  <1> DEFINE q == request[r]
             uid == q.to
             now == q.now
             live == _prune(hits[uid], now)
  <1>1. q \in Request /\ Placed(q, DOMAIN users, serializer, clock) /\ q.step = "refused"
    BY DEF CoreInv, login_refused
  <1>2. q.kind = "login" /\ uid \in DOMAIN users /\ now \in Nat
    BY <1>1 DEF Placed, Request
  <1>3. uid \in 1..MaxUsers /\ hits[uid] \in Seq(Nat) /\ clock \in Nat
    BY <1>2, UserIds, UserHits, ClockType
  <1>4. live \in Seq(Nat)
    BY <1>2, <1>3, PruneFacts DEF Dropped
  <1>5. clock + Second * retry_after(hits[uid], now) \in Nat
    <2>1. retry_after(hits[uid], now) \in Nat
      <3>1. CASE live = <<>>
        BY <3>1 DEF retry_after
      <3>2. CASE live # <<>>
        BY <1>2, <1>3, <3>2, RetryCovers
      <3>3. QED
        BY <3>1, <3>2
    <2>2. \A a, b, c \in Nat : a + b * c \in Nat
      OBVIOUS
    <2>3. QED
      BY <1>3, <2>1, <2>2, LimiterAssumption
  <1>6. hits' \in [1..MaxUsers -> Seq(Nat)]
    BY <1>4 DEF login_refused, CoreInv, DataOK
  <1>7. told' \in [1..MaxUsers -> Nat \cup {None}]
    BY <1>5 DEF login_refused, CoreInv, DataOK
  <1>8. UNCHANGED <<world, users, keyFile, cookies, serializer, clock, accepted, raced>> /\ End(r)
    BY DEF login_refused, dbVars
  <1>9. DataOK' /\ Later
    BY <1>6, <1>7, <1>8, StillLater DEF CoreInv, DataOK
  <1>10. QED
    BY <1>8, <1>9, OneEnds

\* Where request alone changes, the other variables keep their types.
LEMMA OthersStay ==
  ASSUME CoreInv, UNCHANGED <<world, users, keyFile, serializer, cookies, hits, clock, accepted, told>>,
         raced' \subseteq {"first use", "demotions", "rehash"}
  PROVE  DataOK' /\ Later
  <1>1. Later
    BY StillLater
  <1>2. DataOK'
    BY DEF CoreInv, DataOK
  <1>3. QED
    BY <1>1, <1>2

\* The password is right or wrong.
LEMMA VerifyCore ==
  ASSUME CoreInv, NEW r \in Requests, verify(r)
  PROVE  CoreInv'
  <1> DEFINE q == request[r]
             user == users[q.to]
  <1>1. q \in Request /\ Placed(q, DOMAIN users, serializer, clock) /\ q.step = "verify"
    BY DEF CoreInv, verify
  <1>2. q.kind = "login" /\ q.to \in DOMAIN users /\ user \in User
    BY <1>1, UserIds DEF Placed
  <1>3. DataOK' /\ Later /\ UNCHANGED <<users, serializer, clock>>
    <2>1. UNCHANGED <<world, users, keyFile, serializer, cookies, hits, clock, accepted, told, raced>>
      BY DEF verify, dbVars, limiterVars
    <2>2. raced' \subseteq {"first use", "demotions", "rehash"}
      BY <2>1 DEF CoreInv, DataOK
    <2>3. QED
      BY <2>1, <2>2, OthersStay
  <1>4. CASE user.password # q.password
    BY <1>3, <1>4, OneEnds DEF verify
  <1>5. CASE user.password = q.password
    <2> DEFINE new == [q EXCEPT !.step = "reset", !.seen = user]
    <2>1. request' = [request EXCEPT ![r] = new]
      BY <1>5 DEF verify, CoreInv
    <2>2. new \in Request
      BY <1>1, <1>2 DEF Request, Steps
    <2>3. Placed(new, DOMAIN users', serializer', clock')
      BY <1>1, <1>2, <1>3, <1>5 DEF Placed, Signing, Request
    <2> HIDE DEF new
    <2>4. QED
      BY <1>3, <2>1, <2>2, <2>3, OneMoves
  <1>6. QED
    BY <1>4, <1>5

\* A successful login empties the bucket.
LEMMA ResetCore ==
  ASSUME CoreInv, NEW r \in Requests, login_reset(r)
  PROVE  CoreInv'
  <1> DEFINE q == request[r]
  <1>1. q \in Request /\ Placed(q, DOMAIN users, serializer, clock) /\ q.step = "reset"
    BY DEF CoreInv, login_reset
  <1>2. UNCHANGED <<world, users, keyFile, cookies, serializer, clock, raced>>
    BY DEF login_reset, dbVars
  <1>3. hits' \in [1..MaxUsers -> Seq(Nat)]
    <2>1. <<>> \in Seq(Nat)
      OBVIOUS
    <2>2. hits' = [hits EXCEPT ![q.to] = <<>>]
      BY DEF login_reset
    <2>3. QED
      BY <2>1, <2>2, LimiterTypes
  <1>4. accepted' \in [1..MaxUsers -> Seq([read : Nat, at : Nat])]
    <2>1. <<>> \in Seq([read : Nat, at : Nat])
      OBVIOUS
    <2>2. accepted' = [accepted EXCEPT ![q.to] = <<>>]
      BY DEF login_reset
    <2>3. QED
      BY <2>1, <2>2, LimiterTypes
  <1>5. told' \in [1..MaxUsers -> Nat \cup {None}]
    BY LimiterTypes DEF login_reset
  <1>6. DataOK' /\ Later
    BY <1>2, <1>3, <1>4, <1>5, StillLater DEF CoreInv, DataOK
  <1>7. AfterKey \in Steps /\ Goto(r, AfterKey)
    BY DEF AfterKey, Steps, login_reset
  <1>8. Placed([q EXCEPT !.step = AfterKey], DOMAIN users', serializer', clock')
    BY <1>1, <1>2 DEF Placed, Signing, Request, AfterKey
  <1>9. QED
    BY <1>6, <1>7, <1>8, GoesOn

\* The key file is read.
LEMMA LoadCore ==
  ASSUME CoreInv, NEW r \in Requests, load(r)
  PROVE  CoreInv'
  <1> DEFINE q == request[r]
  <1>1. q \in Request /\ Placed(q, DOMAIN users, serializer, clock) /\ q.step = "load"
    BY DEF CoreInv, load
  <1>2. DataOK' /\ Later /\ UNCHANGED <<users, serializer, clock>>
    <2>1. UNCHANGED <<world, users, keyFile, serializer, cookies, hits, clock, accepted, told>>
      BY DEF load, dbVars, limiterVars
    <2>2. raced' \subseteq {"first use", "demotions", "rehash"}
      BY DEF CoreInv, DataOK, load
    <2>3. QED
      BY <2>1, <2>2, OthersStay
  <1>3. \E step \in {"install", "write"}, key \in Keys :
          request' = [request EXCEPT ![r] = [q EXCEPT !.step = step, !.key = key]]
    <2>1. CASE keyFile # None
      BY <2>1 DEF load, CoreInv, DataOK
    <2>2. CASE keyFile = None
      <3>1. (CHOOSE k \in FreshKeys : TRUE) \in Keys
        BY <2>2 DEF load, FreshKeys
      <3>2. QED
        BY <2>2, <3>1 DEF load, CoreInv
    <2>3. QED
      BY <2>1, <2>2
  <1>4. PICK step \in {"install", "write"}, key \in Keys :
          request' = [request EXCEPT ![r] = [q EXCEPT !.step = step, !.key = key]]
    BY <1>3
  <1> DEFINE new == [q EXCEPT !.step = step, !.key = key]
  <1>5. new \in Request
    BY <1>1 DEF Request, Steps
  <1>6. Placed(new, DOMAIN users', serializer', clock')
    BY <1>1, <1>2 DEF Placed, Signing, Request
  <1> HIDE DEF new
  <1>7. QED
    BY <1>2, <1>4, <1>5, <1>6, OneMoves DEF new

\* The key file is emptied, and a new key written.
LEMMA KeyFileCore ==
  ASSUME CoreInv, NEW r \in Requests, truncate(r) \/ fill(r)
  PROVE  CoreInv'
  <1> DEFINE q == request[r]
  <1>1. q \in Request /\ Placed(q, DOMAIN users, serializer, clock) /\ q.step \in {"write", "fill"}
    BY DEF CoreInv, truncate, fill
  <1>2. UNCHANGED <<world, users, serializer, cookies, hits, clock, accepted, told, raced>>
    BY DEF truncate, fill, limiterVars
  <1>3. keyFile' \in Keys \cup {None}
    BY <1>1 DEF truncate, fill, Placed
  <1>4. DataOK' /\ Later
    BY <1>2, <1>3, StillLater DEF CoreInv, DataOK
  <1>5. PICK step \in {"fill", "install"} : Goto(r, step)
    BY DEF truncate, fill
  <1>6. Placed([q EXCEPT !.step = step], DOMAIN users', serializer', clock')
    BY <1>1, <1>2 DEF Placed, Signing, Request
  <1>7. QED
    BY <1>4, <1>5, <1>6, GoesOn DEF Steps

\* The serializer is there, or is installed.
LEMMA SerializerCore ==
  ASSUME CoreInv, NEW r \in Requests, get_serializer(r)
  PROVE  CoreInv'
  <1> DEFINE q == request[r]
             new == [q EXCEPT !.step = "ready", !.key = None]
  <1>1. q \in Request /\ Placed(q, DOMAIN users, serializer, clock) /\ q.step = "install"
    BY DEF CoreInv, get_serializer
  <1>2. q.key \in Keys /\ serializer' = q.key /\ serializer' # None
    BY <1>1, AccountsAssumption DEF get_serializer, Placed
  <1>3. UNCHANGED <<world, users, keyFile, cookies, hits, clock, accepted, told, raced>>
    BY DEF get_serializer, dbVars, limiterVars
  <1>4. DataOK'
    BY <1>2, <1>3 DEF CoreInv, DataOK
  <1>5. Later
    BY <1>2, <1>3, ClockType DEF Later
  <1>6. request' = [request EXCEPT ![r] = new]
    BY DEF get_serializer, CoreInv
  <1>7. new \in Request
    BY <1>1 DEF Request, Steps
  <1>8. Placed(new, DOMAIN users', serializer', clock')
    BY <1>1, <1>2, <1>3 DEF Placed, Signing, Request
  <1> HIDE DEF new
  <1>9. QED
    BY <1>4, <1>5, <1>6, <1>7, <1>8, OneMoves

\* A cookie is signed.
LEMMA IssueCore ==
  ASSUME CoreInv, NEW r \in Requests, issue_session(r)
  PROVE  CoreInv'
  <1> DEFINE q == request[r]
             cookie == CookieOf(q.to, serializer)
  <1>1. q \in Request /\ Placed(q, DOMAIN users, serializer, clock)
        /\ q.kind = "login" /\ q.step = "ready"
    BY DEF CoreInv, issue_session
  <1>2. q.to \in DOMAIN users /\ q.to \in 1..MaxUsers /\ serializer \in Keys
    BY <1>1, UserIds DEF Placed, CoreInv, DataOK
  <1>3. cookie \in Cookie /\ cookie.uid \in DOMAIN users
    BY <1>2 DEF CookieOf, Cookie
  <1>4. UNCHANGED <<world, users, keyFile, serializer, hits, clock, accepted, told, raced>>
        /\ cookies' = cookies \cup {cookie}
    BY DEF issue_session, limiterVars
  <1> HIDE DEF cookie
  <1>5. DataOK' /\ Later
    BY <1>3, <1>4, StillLater DEF CoreInv, DataOK
  <1>6. CASE q.seen.stale
    <2>1. Goto(r, "rehash")
      BY <1>6 DEF issue_session
    <2>2. Placed([q EXCEPT !.step = "rehash"], DOMAIN users', serializer', clock')
      BY <1>1, <1>4 DEF Placed, Signing, Request
    <2>3. QED
      BY <1>5, <2>1, <2>2, GoesOn DEF Steps
  <1>7. CASE ~q.seen.stale
    BY <1>5, <1>7, OneEnds DEF issue_session
  <1>8. QED
    BY <1>6, <1>7

Table(table) == table \in Seq(User) /\ Len(table) <= MaxUsers

\* A write of one row leaves the users who they are.
LEMMA RowTable ==
  ASSUME CoreInv, NEW uid \in DOMAIN users, NEW row \in User
  PROVE  /\ Table([users EXCEPT ![uid] = row])
         /\ DOMAIN [users EXCEPT ![uid] = row] = DOMAIN users
  <1>1. users \in Seq(User) /\ Len(users) <= MaxUsers
    BY DEF CoreInv, DataOK
  <1> HIDE DEF User
  <1>2. uid \in 1..Len(users)
    BY <1>1
  <1>3. QED
    BY <1>1, <1>2, ExceptSeq DEF Table

\* A request ends with a write to the table of users.
LEMMA RowCore ==
  ASSUME CoreInv, NEW r \in Requests, End(r),
         Table(users'), DOMAIN users \subseteq DOMAIN users',
         UNCHANGED <<world, keyFile, serializer, cookies, hits, clock, accepted, told>>,
         raced' \subseteq {"first use", "demotions", "rehash"}
  PROVE  CoreInv'
  <1>1. DataOK'
    BY DEF CoreInv, DataOK, Table
  <1>2. Later
    BY MoreLater, Zenon
  <1>3. QED
    BY <1>1, <1>2, OneEnds

\* An outdated hash is replaced.
LEMMA RehashCore ==
  ASSUME CoreInv, NEW r \in Requests, commit_rehash(r)
  PROVE  CoreInv'
  <1> DEFINE q == request[r]
             row == [users[q.to] EXCEPT !.password = q.password, !.stale = FALSE]
  <1>1. q \in Request /\ Placed(q, DOMAIN users, serializer, clock) /\ q.step = "rehash"
    BY DEF CoreInv, commit_rehash
  <1>2. q.to \in DOMAIN users /\ q.password \in Passwords /\ users[q.to] \in User
    BY <1>1, UserIds DEF Placed
  <1>3. row \in User
    BY <1>2 DEF User
  <1>4. users' = [users EXCEPT ![q.to] = row]
    BY DEF commit_rehash
  <1>5. raced' \subseteq {"first use", "demotions", "rehash"}
    BY DEF commit_rehash, CoreInv, DataOK
  <1>6. End(r) /\ UNCHANGED <<world, keyFile, serializer, cookies, hits, clock, accepted, told>>
    BY DEF commit_rehash, limiterVars
  <1> HIDE DEF row, User
  <1>7. Table(users') /\ DOMAIN users \subseteq DOMAIN users'
    BY <1>2, <1>3, <1>4, RowTable
  <1>8. QED
    BY <1>5, <1>6, <1>7, RowCore

\* A cookie is forgotten by its browser.
LEMMA LogoutCore ==
  ASSUME CoreInv, NEW c \in cookies, logout(c)
  PROVE  CoreInv'
  <1>1. UNCHANGED <<world, users, keyFile, serializer, request, hits, clock, accepted, told, raced>>
        /\ cookies' = cookies \ {c}
    BY DEF logout, limiterVars
  <1>2. QED
    BY <1>1 DEF CoreInv, DataOK

\* An Admin request, or a command, comes in.
LEMMA BeginCore ==
  ASSUME CoreInv, NEW r \in Requests, begin(r)
  PROVE  CoreInv'
  <1>1. PICK kind \in world.kinds \ {"login", "logout", "create_admin"}, c \in cookies :
          request' = [request EXCEPT ![r] = [Idle EXCEPT !.kind = kind, !.step = AfterKey,
                                               !.by = c.uid, !.seen = c]]
    BY DEF begin
  <1> DEFINE new == [Idle EXCEPT !.kind = kind, !.step = AfterKey, !.by = c.uid, !.seen = c]
  <1>2. kind \in {"page", "create", "reset_password", "set_role"}
    BY WorldsAssumption DEF CoreInv, DataOK
  <1>3. c \in Cookie /\ c.uid \in DOMAIN users /\ c.uid \in 0..MaxUsers
    BY UserIds DEF CoreInv, DataOK
  <1>4. AfterKey \in {"load", "ready"} /\ (AfterKey = "ready" => serializer # None)
    BY DEF AfterKey
  <1>5. new \in Request
    <2>1. Idle \in Request
      BY IdlePlaced, ClockType
    <2> HIDE DEF Idle
    <2>2. QED
      BY <1>2, <1>3, <1>4, <2>1 DEF Request, Kinds, Steps
  <1>6. Placed(new, DOMAIN users, serializer, clock)
    BY <1>2, <1>3, <1>4, ClockType DEF Placed, Signing, Idle
  <1>7. UNCHANGED <<world, users, keyFile, serializer, cookies, hits, clock, accepted, told, raced>>
    BY DEF begin, dbVars, limiterVars
  <1>8. DataOK'
    BY <1>7 DEF CoreInv, DataOK
  <1> HIDE DEF new
  <1>9. QED
    BY <1>1, <1>5, <1>6, <1>7, <1>8, OneReads DEF new

\* The role of the cookie is looked up.
LEMMA AdminCore ==
  ASSUME CoreInv, NEW r \in Requests, require_admin(r)
  PROVE  CoreInv'
  <1> DEFINE q == request[r]
             new == [q EXCEPT !.step = "work", !.seen = None]
  <1>1. q \in Request /\ Placed(q, DOMAIN users, serializer, clock)
        /\ q.kind # "login" /\ q.step = "ready"
    BY DEF CoreInv, require_admin
  <1>2. UNCHANGED <<world, users, keyFile, serializer, cookies, hits, clock, accepted, told, raced>>
    BY DEF require_admin, dbVars, limiterVars
  <1>3. raced' \subseteq {"first use", "demotions", "rehash"}
    BY <1>2 DEF CoreInv, DataOK
  <1>4. DataOK' /\ Later
    BY <1>2, <1>3, OthersStay
  <1>5. End(r) \/ request' = [request EXCEPT ![r] = new]
    BY DEF require_admin, CoreInv
  <1>6. new \in Request
    BY <1>1 DEF Request, Steps
  <1>7. Placed(new, DOMAIN users', serializer', clock')
    BY <1>1, <1>2 DEF Placed, Signing, Request
  <1> HIDE DEF new
  <1>8. QED
    BY <1>4, <1>5, <1>6, <1>7, OneMoves, OneEnds

\* create-admin looks for an Admin.
LEMMA CmdCore ==
  ASSUME CoreInv, NEW r \in Requests, cmd_create_admin(r)
  PROVE  CoreInv'
  <1> DEFINE new == [Idle EXCEPT !.kind = "create_admin", !.step = "work"]
  <1>1. request' = [request EXCEPT ![r] = new]
        /\ UNCHANGED <<world, users, keyFile, serializer, cookies, hits, clock, accepted, told, raced>>
    BY DEF cmd_create_admin, dbVars, limiterVars
  <1>2. new \in Request
    <2>1. Idle \in Request
      BY IdlePlaced, ClockType
    <2> HIDE DEF Idle
    <2>2. QED
      BY <2>1 DEF Request, Kinds, Steps
  <1>3. Placed(new, DOMAIN users, serializer, clock)
    BY ClockType DEF Placed, Signing, Idle
  <1> HIDE DEF new
  <1>4. DataOK'
    BY <1>1 DEF CoreInv, DataOK
  <1>5. QED
    BY <1>1, <1>2, <1>3, <1>4, OneReads

\* A name is looked up before the account is made.
LEMMA CreateCore ==
  ASSUME CoreInv, NEW r \in Requests, create_user(r)
  PROVE  CoreInv'
  <1> DEFINE q == request[r]
  <1>1. q \in Request /\ Placed(q, DOMAIN users, serializer, clock)
        /\ q.kind \in {"create", "create_admin"} /\ q.step = "work"
    BY DEF CoreInv, create_user
  <1>2. UNCHANGED <<world, users, keyFile, serializer, cookies, hits, clock, accepted, told, raced>>
    BY DEF create_user, dbVars, limiterVars
  <1>3. raced' \subseteq {"first use", "demotions", "rehash"}
    BY <1>2 DEF CoreInv, DataOK
  <1>4. DataOK' /\ Later
    BY <1>2, <1>3, OthersStay
  <1>5. \/ End(r)
        \/ \E name \in Names, role \in {"admin", "player"} :
             /\ q.kind = "create_admin" => role = "admin"
             /\ request' = [request EXCEPT ![r].step = "insert", ![r].name = name, ![r].role = role]
    BY DEF create_user
  <1>6. CASE End(r)
    BY <1>4, <1>6, OneEnds
  <1>7. ASSUME NEW name \in Names, NEW role \in {"admin", "player"},
               q.kind = "create_admin" => role = "admin",
               request' = [request EXCEPT ![r].step = "insert", ![r].name = name, ![r].role = role]
        PROVE  CoreInv'
    <2> DEFINE new == [q EXCEPT !.step = "insert", !.name = name, !.role = role]
    <2>1. request' = [request EXCEPT ![r] = new]
      BY <1>7 DEF CoreInv
    <2>2. new \in Request
      BY <1>1 DEF Request, Steps
    <2>3. Placed(new, DOMAIN users', serializer', clock')
      BY <1>1, <1>2, <1>7 DEF Placed, Signing, Request
    <2> HIDE DEF new
    <2>4. QED
      BY <1>4, <2>1, <2>2, <2>3, OneMoves
  <1>8. QED
    BY <1>5, <1>6, <1>7

\* The account is inserted.
LEMMA InsertCore ==
  ASSUME CoreInv, NEW r \in Requests, insert_user(r)
  PROVE  CoreInv'
  <1> DEFINE q == request[r]
  <1>1. q \in Request /\ Placed(q, DOMAIN users, serializer, clock) /\ q.step = "insert"
    BY DEF CoreInv, insert_user
  <1>2. users \in Seq(User) /\ Len(users) <= MaxUsers
    BY DEF CoreInv, DataOK
  <1>3. UNCHANGED <<world, keyFile, serializer, cookies, hits, clock, accepted, told, raced>> /\ End(r)
    BY DEF insert_user, limiterVars
  <1>4. /\ users' \in Seq(User) /\ Len(users') <= MaxUsers
        /\ DOMAIN users \subseteq DOMAIN users'
    <2>1. CASE Taken(q.name)
      BY <1>2, <2>1 DEF insert_user
    <2>2. CASE ~Taken(q.name)
      <3>1. PICK password \in Passwords :
              users' = Append(users, [name |-> q.name, role |-> q.role,
                                      password |-> password, stale |-> FALSE])
        BY <2>2 DEF insert_user
      <3> DEFINE row == [name |-> q.name, role |-> q.role, password |-> password, stale |-> FALSE]
      <3>2. row \in User
        BY <1>1 DEF Placed, Request, User
      <3> HIDE DEF row, User
      <3>3. Len(users) < MaxUsers /\ Len(users) \in Nat /\ MaxUsers \in Nat
        BY <1>2, <2>2, AccountsAssumption DEF insert_user
      <3>4. users' = Append(users, row)
        BY <3>1 DEF row
      <3>5. users' \in Seq(User) /\ Len(users') = Len(users) + 1
        BY <1>2, <3>2, <3>4, AppendProperties
      <3>6. DOMAIN users = 1..Len(users) /\ DOMAIN users' = 1..Len(users')
        BY <1>2, <3>5
      <3>7. QED
        BY <3>3, <3>5, <3>6
    <2>3. QED
      BY <2>1, <2>2
  <1>5. DataOK'
    BY <1>3, <1>4 DEF CoreInv, DataOK
  <1>6. Later
    BY <1>3, <1>4, ClockType DEF Later
  <1>7. QED
    BY <1>3, <1>5, <1>6, OneEnds

\* An operator or an Admin resets a password.
LEMMA PasswordCore ==
  ASSUME CoreInv, NEW r \in Requests, reset_password(r)
  PROVE  CoreInv'
  <1>1. PICK uid \in DOMAIN users, password \in Passwords :
          users' = [users EXCEPT ![uid] = [@ EXCEPT !.password = password, !.stale = FALSE]]
    BY DEF reset_password
  <1> DEFINE row == [users[uid] EXCEPT !.password = password, !.stale = FALSE]
  <1>2. users[uid] \in User
    BY UserIds
  <1>3. row \in User
    BY <1>2 DEF User
  <1>4. users' = [users EXCEPT ![uid] = row]
    BY <1>1
  <1>5. End(r) /\ UNCHANGED <<world, keyFile, serializer, cookies, hits, clock, accepted, told, raced>>
    BY DEF reset_password, limiterVars
  <1>6. raced' \subseteq {"first use", "demotions", "rehash"}
    BY <1>5 DEF CoreInv, DataOK
  <1> HIDE DEF row, User
  <1>7. Table(users') /\ DOMAIN users \subseteq DOMAIN users'
    BY <1>3, <1>4, RowTable
  <1>8. QED
    BY <1>5, <1>6, <1>7, RowCore

\* The Admins are counted before a role changes.
LEMMA SetRoleCore ==
  ASSUME CoreInv, NEW r \in Requests, set_role(r)
  PROVE  CoreInv'
  <1> DEFINE q == request[r]
  <1>1. q \in Request /\ Placed(q, DOMAIN users, serializer, clock)
        /\ q.kind = "set_role" /\ q.step = "work"
    BY DEF CoreInv, set_role
  <1>2. UNCHANGED <<world, users, keyFile, serializer, cookies, hits, clock, accepted, told, raced>>
    BY DEF set_role, dbVars, limiterVars
  <1>3. raced' \subseteq {"first use", "demotions", "rehash"}
    BY <1>2 DEF CoreInv, DataOK
  <1>4. DataOK' /\ Later
    BY <1>2, <1>3, OthersStay
  <1>5. \/ End(r)
        \/ \E uid \in DOMAIN users, role \in {"admin", "player"} :
             request' = [request EXCEPT ![r].step = "write_role", ![r].to = uid,
                                        ![r].role = role, ![r].seen = users[uid]]
    BY DEF set_role
  <1>6. CASE End(r)
    BY <1>4, <1>6, OneEnds
  <1>7. ASSUME NEW uid \in DOMAIN users, NEW role \in {"admin", "player"},
               request' = [request EXCEPT ![r].step = "write_role", ![r].to = uid,
                                          ![r].role = role, ![r].seen = users[uid]]
        PROVE  CoreInv'
    <2> DEFINE new == [q EXCEPT !.step = "write_role", !.to = uid, !.role = role, !.seen = users[uid]]
    <2>1. request' = [request EXCEPT ![r] = new]
      BY <1>7 DEF CoreInv
    <2>2. uid \in 0..MaxUsers /\ users[uid] \in User
      BY UserIds
    <2>3. new \in Request
      BY <1>1, <2>2 DEF Request, Steps
    <2>4. Placed(new, DOMAIN users', serializer', clock')
      BY <1>1, <1>2, <2>2 DEF Placed, Signing, Request
    <2> HIDE DEF new
    <2>5. QED
      BY <1>4, <2>1, <2>3, <2>4, OneMoves
  <1>8. QED
    BY <1>5, <1>6, <1>7

\* The role is written.
LEMMA WriteRoleCore ==
  ASSUME CoreInv, NEW r \in Requests, write_role(r)
  PROVE  CoreInv'
  <1> DEFINE q == request[r]
             row == [users[q.to] EXCEPT !.role = q.role]
  <1>1. q \in Request /\ Placed(q, DOMAIN users, serializer, clock) /\ q.step = "write_role"
    BY DEF CoreInv, write_role
  <1>2. q.to \in DOMAIN users /\ users[q.to] \in User
    BY <1>1, UserIds DEF Placed
  <1>3. row \in User
    BY <1>1, <1>2 DEF User, Request
  <1>4. raced' \subseteq {"first use", "demotions", "rehash"}
    BY DEF write_role, CoreInv, DataOK
  <1>5. End(r) /\ UNCHANGED <<world, keyFile, serializer, cookies, hits, clock, accepted, told>>
    BY DEF write_role, limiterVars
  <1>6. CASE q.seen.role = q.role
    <2>1. users' = users
      BY <1>6 DEF write_role
    <2>2. QED
      BY <1>4, <1>5, <2>1, OthersStay, OneEnds
  <1>7. CASE q.seen.role # q.role
    <2>1. users' = [users EXCEPT ![q.to] = row]
      BY <1>7 DEF write_role
    <2> HIDE DEF row, User
    <2>2. Table(users') /\ DOMAIN users \subseteq DOMAIN users'
      BY <1>2, <1>3, <2>1, RowTable
    <2>3. QED
      BY <1>4, <1>5, <2>2, RowCore
  <1>8. QED
    BY <1>6, <1>7

\* Time passes.
LEMMA TickCore ==
  ASSUME CoreInv, tick
  PROVE  CoreInv'
  <1>1. clock \in Nat /\ clock' = clock + 1
    BY ClockType DEF tick
  <1>2. UNCHANGED <<world, users, keyFile, serializer, cookies, request, hits, accepted, told, raced>>
    BY DEF tick, dbVars
  <1>3. clock' \in Nat /\ clock <= clock'
    BY <1>1
  <1>6. DataOK'
    BY <1>2, <1>3 DEF CoreInv, DataOK
  <1>4. ASSUME NEW q \in Requests PROVE Placed(request'[q], DOMAIN users', serializer', clock')
    <2>1. request[q] \in Request /\ Placed(request[q], DOMAIN users, serializer, clock)
      BY DEF CoreInv
    <2>2. Placed(request[q], DOMAIN users', serializer', clock')
      BY <1>1, <1>2, <1>3, <2>1, PlacedLater
    <2>3. QED
      BY <1>2, <2>2
  <1>5. QED
    BY <1>2, <1>4, <1>6 DEF CoreInv

\* A restart loses the requests, the serializer and the buckets.
LEMMA RestartCore ==
  ASSUME CoreInv, restart
  PROVE  CoreInv'
  <1>1. UNCHANGED <<world, users, keyFile, cookies, clock, raced>> /\ serializer' = None
    BY DEF restart, dbVars
  <1>2. /\ hits' \in [1..MaxUsers -> Seq(Nat)]
        /\ accepted' \in [1..MaxUsers -> Seq([read : Nat, at : Nat])]
        /\ told' \in [1..MaxUsers -> Nat \cup {None}]
    <2>1. DOMAIN hits = 1..MaxUsers
      BY LimiterTypes
    <2>2. <<>> \in Seq(Nat) /\ <<>> \in Seq([read : Nat, at : Nat])
      OBVIOUS
    <2>3. QED
      BY <2>1, <2>2 DEF restart
  <1>3. DataOK'
    BY <1>1, <1>2 DEF CoreInv, DataOK
  <1>4. Idle \in Request /\ Placed(Idle, DOMAIN users', serializer', clock')
    BY <1>3, IdlePlaced DEF DataOK
  <1> HIDE DEF Idle
  <1>5. request' = [r \in Requests |-> Idle]
    BY DEF restart
  <1>6. QED
    BY <1>3, <1>4, <1>5 DEF CoreInv

\* Every step keeps the core invariant.
LEMMA CoreNext ==
  ASSUME CoreInv, [Next]_vars
  PROVE  CoreInv'
  <1>1. CASE UNCHANGED vars
    BY <1>1 DEF vars, CoreInv, DataOK
  <1>2. CASE Next
    <2>1. ASSUME NEW r \in Requests,
                 \/ login(r) \/ login_hit(r) \/ login_refused(r) \/ verify(r) \/ login_reset(r)
                 \/ load(r) \/ truncate(r) \/ fill(r) \/ get_serializer(r)
                 \/ issue_session(r) \/ commit_rehash(r)
          PROVE  CoreInv'
      BY <2>1, LoginCore, HitCore, RefusedCore, VerifyCore, ResetCore, LoadCore, KeyFileCore,
         SerializerCore, IssueCore, RehashCore
    <2>2. ASSUME NEW r \in Requests,
                 \/ begin(r) \/ require_admin(r) \/ cmd_create_admin(r)
                 \/ create_user(r) \/ insert_user(r) \/ reset_password(r)
                 \/ set_role(r) \/ write_role(r)
          PROVE  CoreInv'
      BY <2>2, BeginCore, AdminCore, CmdCore, CreateCore, InsertCore, PasswordCore, SetRoleCore,
         WriteRoleCore
    <2>3. QED
      BY <1>2, <2>1, <2>2, LogoutCore, TickCore, RestartCore DEF Next
  <1>3. QED
    BY <1>1, <1>2

\* The core invariant holds at first.
LEMMA CoreInit ==
  ASSUME Init
  PROVE  CoreInv
  <1> DEFINE key == IF world.fresh THEN None ELSE CHOOSE k \in Keys : TRUE
  <1>1. world \in Worlds /\ users \in Seq(User) /\ Len(users) <= MaxUsers
    BY WorldsAssumption DEF Init
  <1>2. (CHOOSE k \in Keys : TRUE) \in Keys
    BY AccountsAssumption
  <1>3. keyFile = key /\ serializer = key /\ key \in Keys \cup {None}
        /\ cookies = IF world.fresh THEN {} ELSE {CookieOf(uid, key) : uid \in DOMAIN users}
    BY <1>2 DEF Init
  <1>4. cookies \subseteq Cookie /\ \A c \in cookies : c.uid \in DOMAIN users
    <2>1. CASE world.fresh
      BY <1>3, <2>1
    <2>2. CASE ~world.fresh
      <3>1. key \in Keys
        BY <1>2, <2>2
      <3> HIDE DEF key
      <3>2. \A uid \in DOMAIN users : uid \in 1..MaxUsers
        BY <1>1, AccountsAssumption
      <3>3. QED
        BY <1>3, <2>2, <3>1, <3>2 DEF CookieOf, Cookie
    <2>3. QED
      BY <2>1, <2>2
  <1>5. /\ hits \in [1..MaxUsers -> Seq(Nat)]
        /\ accepted \in [1..MaxUsers -> Seq([read : Nat, at : Nat])]
        /\ told \in [1..MaxUsers -> Nat \cup {None}]
        /\ clock \in Nat /\ raced = {}
    BY DEF Init
  <1>6. DataOK
    BY <1>1, <1>3, <1>4, <1>5 DEF DataOK
  <1>7. Idle \in Request /\ Placed(Idle, DOMAIN users, serializer, clock)
    BY <1>5, IdlePlaced
  <1>8. request = [r \in Requests |-> Idle]
    BY DEF Init
  <1> HIDE DEF Idle
  <1>9. QED
    BY <1>6, <1>7, <1>8 DEF CoreInv

\* Whatever the requests, every variable holds a value of its type, and what a
\* request has read is what the step it has reached needs.
THEOREM Typed == Spec => []CoreInv
  BY CoreInit, CoreNext, PTL DEF Spec

-----------------------------------------------------------------------------
(* How requests move.                                                      *)

\* The steps that write the key file or hand its key over, and the one that
\* writes a role.
Noted == {"write", "fill", "install", "write_role"}

\* A step of r alone, which takes it to one of steps.
Takes(r, steps) ==
    /\ \A q \in Requests \ {r} : request'[q] = request[q]
    /\ request'[r].step \in steps

\* A request that ends has become idle.
LEMMA EndTakes ==
  ASSUME CoreInv, NEW r \in Requests, End(r)
  PROVE  Takes(r, {"idle"}) /\ request'[r] = Idle
  BY DEF CoreInv, End, Takes, Idle

\* A request that goes to a step is at that step.
LEMMA GotoTakes ==
  ASSUME CoreInv, NEW r \in Requests, NEW step, Goto(r, step)
  PROVE  Takes(r, {step})
  BY DEF CoreInv, Goto, Takes, Request

\* A request that is replaced is at the step of its replacement.
LEMMA MoveTakes ==
  ASSUME CoreInv, NEW r \in Requests, NEW new, request' = [request EXCEPT ![r] = new]
  PROVE  Takes(r, {new.step}) /\ request'[r] = new
  BY DEF CoreInv, Takes

\* Most steps write neither the key file nor a role, nor get ready to.
Plain(r) ==
    \/ login(r) \/ login_hit(r) \/ login_refused(r) \/ verify(r) \/ login_reset(r)
    \/ issue_session(r) \/ commit_rehash(r)
    \/ begin(r) \/ require_admin(r) \/ cmd_create_admin(r)
    \/ create_user(r) \/ insert_user(r) \/ reset_password(r) \/ write_role(r)

\* No plain step gets a request to one where something is noted.
LEMMA PlainTakes ==
  ASSUME CoreInv, NEW r \in Requests, Plain(r)
  PROVE  Takes(r, Steps \ Noted)
  <1> DEFINE q == request[r]
  <1>1. \A steps : Takes(r, steps) /\ steps \subseteq Steps \ Noted => Takes(r, Steps \ Noted)
    BY DEF Takes
  <1>2. ASSUME End(r) PROVE Takes(r, Steps \ Noted)
    BY <1>1, <1>2, EndTakes DEF Steps, Noted
  <1>3. ASSUME NEW step \in Steps \ Noted, Goto(r, step) PROVE Takes(r, Steps \ Noted)
    BY <1>1, <1>3, GotoTakes
  <1>4. ASSUME NEW new, request' = [request EXCEPT ![r] = new], new.step \in Steps \ Noted
        PROVE  Takes(r, Steps \ Noted)
    <2>1. Takes(r, {new.step})
      BY <1>4, MoveTakes
    <2>2. QED
      BY <1>1, <1>4, <2>1
  <1>5. {"idle", "hit", "refused", "verify", "reset", "load", "ready", "rehash", "work", "insert"}
          \subseteq Steps \ Noted
    BY DEF Steps, Noted
  <1>6. AfterKey \in {"load", "ready"}
    BY DEF AfterKey
  <1> HIDE DEF Steps, Noted
  <1>7. CASE login(r)
    <2>1. PICK uid \in DOMAIN users, password \in Passwords :
            request' = [request EXCEPT ![r] = [Idle EXCEPT !.kind = "login", !.step = "hit",
                                                 !.to = uid, !.password = password, !.now = clock]]
      BY <1>7 DEF login
    <2> DEFINE new == [Idle EXCEPT !.kind = "login", !.step = "hit",
                                   !.to = uid, !.password = password, !.now = clock]
    <2>2. new.step = "hit"
      BY DEF Idle
    <2> HIDE DEF new
    <2>3. QED
      BY <1>4, <1>5, <2>1, <2>2 DEF new
  <1>8. CASE login_hit(r)
    <2> DEFINE new == [q EXCEPT !.step = "refused", !.now = clock]
    <2>1. Goto(r, "verify") \/ request' = [request EXCEPT ![r] = new]
      BY <1>8 DEF login_hit, CoreInv
    <2>2. new.step = "refused"
      BY DEF CoreInv, Request
    <2> HIDE DEF new
    <2>3. QED
      BY <1>3, <1>4, <1>5, <2>1, <2>2
  <1>9. CASE verify(r)
    <2> DEFINE new == [q EXCEPT !.step = "reset", !.seen = users[q.to]]
    <2>1. End(r) \/ request' = [request EXCEPT ![r] = new]
      BY <1>9 DEF verify, CoreInv
    <2>2. new.step = "reset"
      BY DEF CoreInv, Request
    <2> HIDE DEF new
    <2>3. QED
      BY <1>2, <1>4, <1>5, <2>1, <2>2
  <1>10. CASE begin(r)
    <2>1. PICK kind \in world.kinds, c \in cookies :
            request' = [request EXCEPT ![r] = [Idle EXCEPT !.kind = kind, !.step = AfterKey,
                                                 !.by = c.uid, !.seen = c]]
      BY <1>10 DEF begin
    <2> DEFINE new == [Idle EXCEPT !.kind = kind, !.step = AfterKey, !.by = c.uid, !.seen = c]
    <2>2. new.step = AfterKey
      BY DEF Idle
    <2> HIDE DEF new
    <2>3. QED
      BY <1>4, <1>5, <1>6, <2>1, <2>2 DEF new
  <1>11. CASE require_admin(r)
    <2> DEFINE new == [q EXCEPT !.step = "work", !.seen = None]
    <2>1. End(r) \/ request' = [request EXCEPT ![r] = new]
      BY <1>11 DEF require_admin, CoreInv
    <2>2. new.step = "work"
      BY DEF CoreInv, Request
    <2> HIDE DEF new
    <2>3. QED
      BY <1>2, <1>4, <1>5, <2>1, <2>2
  <1>12. CASE cmd_create_admin(r)
    <2> DEFINE new == [Idle EXCEPT !.kind = "create_admin", !.step = "work"]
    <2>1. request' = [request EXCEPT ![r] = new] /\ new.step = "work"
      BY <1>12 DEF cmd_create_admin, Idle
    <2> HIDE DEF new
    <2>2. QED
      BY <1>4, <1>5, <2>1
  <1>13. CASE create_user(r)
    <2>1. CASE End(r)
      BY <1>2, <2>1
    <2>2. CASE ~End(r)
      <3>1. PICK name \in Names, role \in {"admin", "player"} :
              request' = [request EXCEPT ![r].step = "insert", ![r].name = name, ![r].role = role]
        BY <1>13, <2>2 DEF create_user
      <3> DEFINE new == [q EXCEPT !.step = "insert", !.name = name, !.role = role]
      <3>2. request' = [request EXCEPT ![r] = new] /\ new.step = "insert"
        BY <3>1 DEF CoreInv, Request
      <3> HIDE DEF new
      <3>3. QED
        BY <1>4, <1>5, <3>2
    <2>3. QED
      BY <2>1, <2>2
  <1>14. CASE issue_session(r) \/ login_reset(r)
    BY <1>2, <1>3, <1>5, <1>6, <1>14 DEF issue_session, login_reset
  <1>15. CASE \/ login_refused(r) \/ commit_rehash(r) \/ insert_user(r) \/ reset_password(r)
              \/ write_role(r)
    BY <1>2, <1>15 DEF login_refused, commit_rehash, insert_user, reset_password, write_role
  <1>16. QED
    BY <1>7, <1>8, <1>9, <1>10, <1>11, <1>12, <1>13, <1>14, <1>15 DEF Plain

\* The steps of get_serializer(), and of set_role() as far as the write.
LEMMA NotedTakes ==
  ASSUME CoreInv, NEW r \in Requests
  PROVE  /\ load(r) \/ fill(r) => Takes(r, {"write", "install"})
         /\ truncate(r) => Takes(r, {"fill"})
         /\ get_serializer(r) => Takes(r, {"ready"})
         /\ set_role(r) => Takes(r, {"idle", "write_role"})
  <1> DEFINE q == request[r]
  <1>1. request \in [Requests -> Request] /\ q \in Request
    BY DEF CoreInv
  <1>2. ASSUME load(r) PROVE Takes(r, {"write", "install"})
    <2>1. \E key : \/ request' = [request EXCEPT ![r].step = "write", ![r].key = key]
                   \/ request' = [request EXCEPT ![r].step = "install", ![r].key = key]
      BY <1>2 DEF load
    <2>2. QED
      BY <1>1, <2>1 DEF Takes, Request
  <1>3. ASSUME fill(r) PROVE Takes(r, {"write", "install"})
    BY <1>1, <1>3 DEF fill, Goto, Takes, Request
  <1>4. truncate(r) => Takes(r, {"fill"})
    BY <1>1 DEF truncate, Goto, Takes, Request
  <1>5. get_serializer(r) => Takes(r, {"ready"})
    BY <1>1 DEF get_serializer, Takes, Request
  <1>6. ASSUME set_role(r) PROVE Takes(r, {"idle", "write_role"})
    <2>1. \/ End(r)
          \/ \E uid, role :
               request' = [request EXCEPT ![r].step = "write_role", ![r].to = uid,
                                          ![r].role = role, ![r].seen = users[uid]]
      BY <1>6 DEF set_role
    <2>2. CASE End(r)
      BY <2>2, EndTakes DEF Takes
    <2>3. ASSUME NEW uid, NEW role,
                 request' = [request EXCEPT ![r].step = "write_role", ![r].to = uid,
                                            ![r].role = role, ![r].seen = users[uid]]
          PROVE  Takes(r, {"idle", "write_role"})
      BY <1>1, <2>3 DEF Takes, Request
    <2>4. QED
      BY <2>1, <2>2, <2>3
  <1>7. QED
    BY <1>2, <1>3, <1>4, <1>5, <1>6

-----------------------------------------------------------------------------
(* Roles.                                                                  *)

\* While no demotion raced with another, whoever is about to be demoted leaves
\* another Admin behind.
RoleInv ==
    "demotions" \notin raced =>
        /\ AnAdmin \/ users = <<>>
        /\ \A r \in Requests : Demoting(r) => OtherAdmins(request[r].to) # {}

Admins == {uid \in DOMAIN users : users[uid].role = "admin"}

\* No race is forgotten.
LEMMA RacesStay ==
  ASSUME [Next]_vars
  PROVE  raced \subseteq raced'
  BY ZenonT(40) DEF Next, vars, login, login_hit, login_refused, verify, login_reset, load, truncate, fill,
         get_serializer, issue_session, commit_rehash, begin, require_admin, cmd_create_admin,
         create_user, insert_user, reset_password, set_role, write_role, logout, tick, restart

\* Admins that stay still outnumber whoever is about to be demoted.
LEMMA RolesKept ==
  ASSUME RoleInv, raced \subseteq raced', Admins \subseteq Admins',
         users = <<>> => users' = <<>> \/ Admins' # {},
         \A q \in Requests : Demoting(q)' => Demoting(q) /\ request'[q].to = request[q].to
  PROVE  RoleInv'
  <1>1. SUFFICES ASSUME "demotions" \notin raced' PROVE RoleInv'
    BY DEF RoleInv
  <1>2. AnAdmin \/ users = <<>>
    BY <1>1 DEF RoleInv
  <1>3. AnAdmin' \/ users' = <<>>
    <2>1. (AnAdmin => Admins # {}) /\ (Admins' # {} => AnAdmin')
      BY DEF AnAdmin, Admins
    <2>2. QED
      BY <1>2, <2>1
  <1>4. ASSUME NEW q \in Requests, Demoting(q)'
        PROVE  OtherAdmins(request[q].to)' # {}
    <2>1. OtherAdmins(request[q].to) # {} /\ request'[q].to = request[q].to
      BY <1>1, <1>4 DEF RoleInv
    <2>2. OtherAdmins(request[q].to) = Admins \ {request[q].to}
          /\ OtherAdmins(request[q].to)' = Admins' \ {request'[q].to}
      BY DEF OtherAdmins, Admins
    <2>3. QED
      BY <2>1, <2>2
  <1>5. QED
    BY <1>3, <1>4 DEF RoleInv

\* A step that takes its request elsewhere demotes nobody new.
LEMMA NoDemotion ==
  ASSUME NEW r \in Requests, NEW steps, Takes(r, steps), "write_role" \notin steps
  PROVE  \A q \in Requests : Demoting(q)' => Demoting(q) /\ request'[q].to = request[q].to
  BY DEF Takes, Demoting

\* Every step keeps an Admin, or notes the race that removed the last.
LEMMA RoleNext ==
  ASSUME CoreInv, RoleInv, [Next]_vars
  PROVE  RoleInv'
  <1>1. raced \subseteq raced'
    BY RacesStay
  <1>2. ASSUME users' = users,
               \A q \in Requests : Demoting(q)' => Demoting(q) /\ request'[q].to = request[q].to
        PROVE  RoleInv'
    <2>1. Admins' = Admins
      BY <1>2 DEF Admins
    <2>2. QED
      BY <1>1, <1>2, <2>1, RolesKept
  <1>3. ASSUME NEW r \in Requests, NEW steps, Takes(r, steps), "write_role" \notin steps,
               users' = users
        PROVE  RoleInv'
    BY <1>2, <1>3, NoDemotion
  <1>4. CASE UNCHANGED vars
    <2>1. users' = users /\ request' = request
      BY <1>4 DEF vars
    <2>2. \A q \in Requests : Demoting(q)' => Demoting(q) /\ request'[q].to = request[q].to
      BY <2>1 DEF Demoting
    <2>3. QED
      BY <1>2, <2>1, <2>2
  <1>5. CASE tick \/ \E c \in cookies : logout(c)
    <2>1. users' = users /\ request' = request
      BY <1>5 DEF tick, logout, dbVars
    <2>2. \A q \in Requests : Demoting(q)' => Demoting(q) /\ request'[q].to = request[q].to
      BY <2>1 DEF Demoting
    <2>3. QED
      BY <1>2, <2>1, <2>2
  <1>6. CASE restart
    <2>1. users' = users /\ request' = [r \in Requests |-> Idle]
      BY <1>6 DEF restart, dbVars
    <2>2. \A q \in Requests : ~Demoting(q)'
      BY <2>1 DEF Demoting, Idle
    <2>3. QED
      BY <1>2, <2>1, <2>2
  <1>7. ASSUME NEW r \in Requests,
               \/ load(r) \/ truncate(r) \/ fill(r) \/ get_serializer(r)
        PROVE  RoleInv'
    <2>1. users' = users
      BY <1>7 DEF load, truncate, fill, get_serializer, dbVars
    <2>2. \E steps : Takes(r, steps) /\ "write_role" \notin steps
      <3>1. \/ Takes(r, {"write", "install"}) \/ Takes(r, {"fill"}) \/ Takes(r, {"ready"})
        BY <1>7, NotedTakes
      <3>2. QED
        BY <3>1
    <2>3. QED
      BY <1>3, <2>1, <2>2
  <1>8. ASSUME NEW r \in Requests,
               \/ login(r) \/ login_hit(r) \/ login_refused(r) \/ verify(r) \/ login_reset(r)
               \/ issue_session(r) \/ begin(r) \/ require_admin(r) \/ cmd_create_admin(r)
               \/ create_user(r)
        PROVE  RoleInv'
    <2>1. users' = users
      BY <1>8 DEF login, login_hit, login_refused, verify, login_reset, issue_session, begin,
                  require_admin, cmd_create_admin, create_user, dbVars
    <2>2. Takes(r, Steps \ Noted) /\ "write_role" \notin Steps \ Noted
      BY <1>8, PlainTakes DEF Plain, Noted
    <2>3. QED
      BY <1>3, <2>1, <2>2
  <1>9. ASSUME NEW r \in Requests, commit_rehash(r) \/ reset_password(r)
        PROVE  RoleInv'
    <2>1. Takes(r, Steps \ Noted) /\ "write_role" \notin Steps \ Noted
      BY <1>9, PlainTakes DEF Plain, Noted
    <2>2. PICK uid, password :
            users' = [users EXCEPT ![uid] = [users[uid] EXCEPT !.password = password, !.stale = FALSE]]
      BY <1>9 DEF commit_rehash, reset_password
    <2>3. \A u \in DOMAIN users : users[u] \in User
      BY UserIds
    <2>4. DOMAIN users' = DOMAIN users /\ \A u \in DOMAIN users : users'[u].role = users[u].role
      BY <2>2, <2>3 DEF User
    <2>5. Admins' = Admins
      BY <2>4 DEF Admins
    <2>6. users = <<>> => users' = <<>> \/ Admins' # {}
      BY <2>2
    <2>7. QED
      BY <1>1, <2>1, <2>5, <2>6, NoDemotion, RolesKept
  <1>10. ASSUME NEW r \in Requests, insert_user(r)
         PROVE  RoleInv'
    <2> DEFINE q == request[r]
    <2>1. q \in Request /\ Placed(q, DOMAIN users, serializer, clock) /\ q.step = "insert"
      BY <1>10 DEF CoreInv, insert_user
    <2>2. Takes(r, Steps \ Noted) /\ "write_role" \notin Steps \ Noted
      BY <1>10, PlainTakes DEF Plain, Noted
    <2>3. CASE users' = users
      BY <1>3, <2>2, <2>3
    <2>4. CASE users' # users
      <3>1. PICK password \in Passwords :
              users' = Append(users, [name |-> q.name, role |-> q.role,
                                      password |-> password, stale |-> FALSE])
        BY <1>10, <2>4 DEF insert_user
      <3> DEFINE row == [name |-> q.name, role |-> q.role, password |-> password, stale |-> FALSE]
      <3>2. row \in User /\ row.role = q.role
        BY <2>1 DEF Placed, Request, User
      <3>3. users \in Seq(User) /\ users' = Append(users, row)
        BY <3>1 DEF CoreInv, DataOK
      <3> HIDE DEF row, User
      <3>4. /\ DOMAIN users = 1..Len(users) /\ Len(users) \in Nat
            /\ DOMAIN users' = 1..(Len(users) + 1)
            /\ \A u \in 1..Len(users) : users'[u] = users[u]
            /\ users'[Len(users) + 1] = row
        BY <3>2, <3>3, AppendProperties
      <3>5. Admins \subseteq Admins'
        BY <3>4 DEF Admins
      <3>6. users = <<>> => Admins' # {}
        <4>1. SUFFICES ASSUME users = <<>> PROVE Admins' # {}
          OBVIOUS
        <4>2. q.kind = "create_admin" /\ q.role = "admin"
          BY <2>1, <4>1 DEF Placed
        <4>3. 1 \in DOMAIN users' /\ users'[1] = row
          BY <3>4, <4>1
        <4>4. QED
          BY <3>2, <4>2, <4>3 DEF Admins
      <3>7. QED
        BY <1>1, <2>2, <3>5, <3>6, NoDemotion, RolesKept
    <2>5. QED
      BY <2>3, <2>4
  <1>11. ASSUME NEW r \in Requests, set_role(r)
         PROVE  RoleInv'
    <2> DEFINE q == request[r]
    <2>1. users' = users /\ raced' = raced /\ q \in Request
      BY <1>11 DEF set_role, dbVars, CoreInv
    <2>2. \A p \in Requests \ {r} : request'[p] = request[p]
      BY <1>11, NotedTakes DEF Takes
    <2>3. \/ request'[r] = Idle
          \/ \E uid \in DOMAIN users, role \in {"admin", "player"} :
               /\ ~(role # "admin" /\ (uid = q.by \/ OtherAdmins(uid) = {}))
               /\ request'[r] = [q EXCEPT !.step = "write_role", !.to = uid,
                                          !.role = role, !.seen = users[uid]]
      BY <1>11 DEF set_role, End, CoreInv
    <2>4. CASE request'[r] = Idle
      <3>1. Takes(r, {"idle"})
        BY <2>2, <2>4 DEF Takes, Idle
      <3>2. QED
        BY <1>3, <2>1, <3>1
    <2>5. ASSUME NEW uid \in DOMAIN users, NEW role \in {"admin", "player"},
                 ~(role # "admin" /\ (uid = q.by \/ OtherAdmins(uid) = {})),
                 request'[r] = [q EXCEPT !.step = "write_role", !.to = uid,
                                         !.role = role, !.seen = users[uid]]
          PROVE  RoleInv'
      <3>1. request'[r].to = uid /\ request'[r].role = role
        BY <2>1, <2>5 DEF Request
      <3>2. Demoting(r)' => OtherAdmins(request'[r].to) # {}
        BY <2>5, <3>1 DEF Demoting
      <3>3. \A x : OtherAdmins(x)' = OtherAdmins(x)
        BY <2>1 DEF OtherAdmins
      <3>4. \A p \in Requests \ {r} : Demoting(p)' => Demoting(p) /\ request'[p].to = request[p].to
        BY <2>2 DEF Demoting
      <3>5. AnAdmin' = AnAdmin
        BY <2>1 DEF AnAdmin
      <3>6. QED
        BY <2>1, <3>2, <3>3, <3>4, <3>5 DEF RoleInv
    <2>6. QED
      BY <2>3, <2>4, <2>5
  <1>12. ASSUME NEW r \in Requests, write_role(r)
         PROVE  RoleInv'
    <2> DEFINE q == request[r]
    <2>1. q \in Request /\ Placed(q, DOMAIN users, serializer, clock) /\ q.step = "write_role"
      BY <1>12 DEF CoreInv, write_role
    <2>2. Takes(r, Steps \ Noted) /\ "write_role" \notin Steps \ Noted
      BY <1>12, PlainTakes DEF Plain, Noted
    <2>3. CASE users' = users
      BY <1>3, <2>2, <2>3
    <2>4. CASE users' # users
      <3>1. users' = [users EXCEPT ![q.to].role = q.role]
        BY <1>12, <2>4 DEF write_role
      <3>2. q.to \in DOMAIN users /\ \A u \in DOMAIN users : users[u] \in User
        BY <2>1, UserIds DEF Placed
      <3>3. /\ DOMAIN users' = DOMAIN users
            /\ users'[q.to].role = q.role
            /\ \A u \in DOMAIN users \ {q.to} : users'[u].role = users[u].role
        BY <3>1, <3>2 DEF User
      <3>4. CASE q.role = "admin"
        <4>1. Admins \subseteq Admins' /\ Admins' # {}
          BY <3>2, <3>3, <3>4 DEF Admins
        <4>2. QED
          BY <1>1, <2>2, <4>1, NoDemotion, RolesKept
      <3>5. CASE q.role # "admin"
        <4>1. SUFFICES ASSUME "demotions" \notin raced' PROVE RoleInv'
          BY DEF RoleInv
        <4>2. Demoting(r)
          BY <2>1, <3>5 DEF Demoting
        <4>3. \A p \in Requests \ {r} : ~Demoting(p)
          BY <1>12, <4>1, <4>2 DEF write_role
        <4>4. \A p \in Requests : ~Demoting(p)'
          BY <2>2, <4>3 DEF Takes, Demoting
        <4>5. OtherAdmins(q.to) # {}
          BY <1>1, <4>1, <4>2 DEF RoleInv
        <4>6. AnAdmin'
          BY <3>3, <4>5 DEF OtherAdmins, AnAdmin
        <4>7. QED
          BY <4>4, <4>6 DEF RoleInv
      <3>6. QED
        BY <3>4, <3>5
    <2>5. QED
      BY <2>3, <2>4
  <1>13. QED
    BY <1>4, <1>5, <1>6, <1>7, <1>8, <1>9, <1>10, <1>11, <1>12 DEF Next

\* There is an Admin to begin with, or none is promised.
LEMMA RoleInit ==
  ASSUME Init
  PROVE  RoleInv
  <1>1. world \in Worlds /\ users = world.users /\ request = [r \in Requests |-> Idle]
    BY DEF Init
  <1>2. AnAdmin \/ users = <<>>
    BY <1>1, WorldsAssumption DEF AnAdmin
  <1>3. \A r \in Requests : ~Demoting(r)
    BY <1>1 DEF Demoting, Idle
  <1>4. QED
    BY <1>2, <1>3 DEF RoleInv

\* Someone can still administrate as long as no demotion is written between
\* the count and the write of another, whatever is requested, by however many
\* requests at a time.
THEOREM AnAdminRemains == Spec => []AdminRemainsApart
  <1>1. RoleInv => AdminRemainsApart
    BY DEF RoleInv, AdminRemainsApart
  <1>2. QED
    BY <1>1, RoleInit, RoleNext, Typed, PTL DEF Spec

-----------------------------------------------------------------------------
(* The signing key.                                                        *)

\* The steps between generating a key and having written it.
Writing == {"write", "fill"}

\* While no first use raced with another, one request at most is writing the
\* key file, nothing was signed before that, and everything after is signed
\* with the key on disk.
KeyInv ==
    "first use" \notin raced =>
        /\ \A c \in cookies : c.key = keyFile
        /\ serializer \in {None, keyFile}
        /\ \A r \in Requests : request[r].step \in Writing => keyFile = None
        /\ \A r, q \in Requests :
             request[r].step \in Writing /\ request[q].step \in Writing => r = q
        /\ \A r \in Requests : request[r].step = "install" => request[r].key = keyFile

\* The conjuncts of KeyInv, after a step of r.
LEMMA KeyParts ==
  ASSUME NEW r \in Requests,
         \A c \in cookies' : c.key = keyFile',
         serializer' \in {None, keyFile'},
         \A p \in Requests \ {r} : request'[p] = request[p],
         \A p \in Requests \ {r} : request[p].step \in Writing =>
            keyFile' = None /\ request'[r].step \notin Writing,
         \A p, q \in Requests \ {r} :
            request[p].step \in Writing /\ request[q].step \in Writing => p = q,
         \A p \in Requests \ {r} : request[p].step = "install" => request[p].key = keyFile',
         request'[r].step \in Writing => keyFile' = None,
         request'[r].step = "install" => request'[r].key = keyFile'
  PROVE  KeyInv'
  <1>1. \A q \in Requests : request'[q].step \in Writing => keyFile' = None
    OBVIOUS
  <1>2. \A p, q \in Requests :
           request'[p].step \in Writing /\ request'[q].step \in Writing => p = q
    OBVIOUS
  <1>3. \A q \in Requests : request'[q].step = "install" => request'[q].key = keyFile'
    OBVIOUS
  <1>4. QED
    BY <1>1, <1>2, <1>3 DEF KeyInv

\* No request gets to writing the key file or to installing a key.
Settled ==
    \A q \in Requests : request'[q].step \in Writing \cup {"install"} => request'[q] = request[q]

\* No cookie but those the serializer has signed.
Signed ==
    \A c \in cookies' : c \in cookies \/ (c.key = serializer /\ serializer # None)

\* What does not touch the key file, the serializer or a request that is about
\* to leaves the key as it was.
LEMMA KeyKept ==
  ASSUME KeyInv, raced \subseteq raced', keyFile' = keyFile, serializer' \in {None, serializer},
         Signed, Settled
  PROVE  KeyInv'
  BY DEF KeyInv, Writing, Signed, Settled

\* A step that takes its request elsewhere.
LEMMA NoWriting ==
  ASSUME NEW r \in Requests, NEW steps, Takes(r, steps), steps \cap (Writing \cup {"install"}) = {}
  PROVE  Settled
  BY DEF Takes, Settled

\* Every step keeps one key behind serializer and cookies, or notes the race.
LEMMA KeyNext ==
  ASSUME CoreInv, KeyInv, [Next]_vars
  PROVE  KeyInv'
  <1>1. raced \subseteq raced'
    BY RacesStay
  <1>2. (Steps \ Noted) \cap (Writing \cup {"install"}) = {}
    BY DEF Noted, Writing
  <1>3. CASE UNCHANGED vars \/ tick \/ \E c \in cookies : logout(c)
    <2>1. /\ keyFile' = keyFile /\ serializer' = serializer /\ request' = request
          /\ cookies' \subseteq cookies
      BY <1>3 DEF vars, tick, logout, dbVars
    <2>2. Signed /\ Settled
      BY <2>1 DEF Signed, Settled
    <2>3. QED
      BY <1>1, <2>1, <2>2, KeyKept
  <1>4. CASE restart
    <2>1. /\ keyFile' = keyFile /\ serializer' = None /\ cookies' = cookies
          /\ request' = [r \in Requests |-> Idle]
      BY <1>4 DEF restart, dbVars
    <2>2. Signed /\ Settled
      BY <2>1 DEF Idle, Writing, Signed, Settled
    <2>3. QED
      BY <1>1, <2>1, <2>2, KeyKept
  <1>5. ASSUME NEW r \in Requests, Plain(r), ~issue_session(r)
        PROVE  KeyInv'
    <2>1. keyFile' = keyFile /\ serializer' = serializer /\ cookies' = cookies
      BY <1>5 DEF Plain, login, login_hit, login_refused, verify, login_reset, commit_rehash, begin,
                  require_admin, cmd_create_admin, create_user, insert_user, reset_password,
                  write_role, dbVars
    <2>2. Takes(r, Steps \ Noted)
      BY <1>5, PlainTakes
    <2>3. Settled
      BY <1>2, <2>2, NoWriting
    <2>4. Signed
      BY <2>1 DEF Signed
    <2>5. QED
      BY <1>1, <2>1, <2>3, <2>4, KeyKept
  <1>6. ASSUME NEW r \in Requests, issue_session(r)
        PROVE  KeyInv'
    <2>1. Takes(r, Steps \ Noted)
      BY <1>6, PlainTakes DEF Plain
    <2>2. Placed(request[r], DOMAIN users, serializer, clock) /\ request[r].step = "ready"
      BY <1>6 DEF CoreInv, issue_session
    <2>3. serializer # None
      BY <2>2 DEF Placed
    <2>4. keyFile' = keyFile /\ serializer' = serializer
      BY <1>6 DEF issue_session
    <2>5. Signed
      BY <1>6, <2>3 DEF issue_session, CookieOf, Signed
    <2>6. Settled
      BY <1>2, <2>1, NoWriting
    <2>7. QED
      BY <1>1, <2>4, <2>5, <2>6, KeyKept
  <1>7. ASSUME NEW r \in Requests, set_role(r)
        PROVE  KeyInv'
    <2>1. keyFile' = keyFile /\ serializer' = serializer /\ cookies' = cookies
      BY <1>7 DEF set_role, dbVars
    <2>2. Takes(r, {"idle", "write_role"})
      BY <1>7, NotedTakes
    <2>3. {"idle", "write_role"} \cap (Writing \cup {"install"}) = {}
      BY DEF Writing
    <2>4. Settled
      BY <2>2, <2>3, NoWriting
    <2>5. Signed
      BY <2>1 DEF Signed
    <2>6. QED
      BY <1>1, <2>1, <2>4, <2>5, KeyKept
  <1>8. \A c \in cookies : c.key \in Keys
    BY DEF CoreInv, DataOK, Cookie
  <1>9. \A q \in Requests : request[q].step \in Writing \cup {"install"} => request[q].key \in Keys
    BY DEF CoreInv, Placed, Writing
  <1>16. ASSUME "first use" \notin raced'
         PROVE  /\ \A c \in cookies : c.key = keyFile
                /\ serializer \in {None, keyFile}
                /\ \A q \in Requests : request[q].step \in Writing => keyFile = None
                /\ \A p, q \in Requests :
                     request[p].step \in Writing /\ request[q].step \in Writing => p = q
                /\ \A q \in Requests : request[q].step = "install" => request[q].key = keyFile
    BY <1>1, <1>16 DEF KeyInv
  <1>10. ASSUME NEW r \in Requests, load(r), "first use" \notin raced'
         PROVE  KeyInv'
    <2> DEFINE q == request[r]
    <2>1. /\ keyFile' = keyFile /\ serializer' = serializer /\ cookies' = cookies
          /\ q \in Request /\ q.step = "load"
      BY <1>10 DEF load, dbVars, CoreInv
    <2>2. \A p \in Requests \ {r} : request'[p] = request[p]
      BY <1>10, NotedTakes DEF Takes
    <2>3. CASE keyFile # None
      <3>1. request'[r].step = "install" /\ request'[r].key = keyFile
        BY <1>10, <2>1, <2>3, ZenonT(40) DEF load, CoreInv, Request
      <3>2. QED
        <4>1. request'[r].step \notin Writing
          BY <3>1 DEF Writing
        <4>2. QED
          BY <1>10, <1>16, <2>1, <2>2, <2>3, <3>1, <4>1, KeyParts
    <2>4. CASE keyFile = None
      <3>1. request'[r].step = "write"
        BY <1>10, <2>1, <2>4, ZenonT(40) DEF load, CoreInv, Request
      <3>2. \A p \in Requests \ {r} : request[p].step \notin Writing
        BY <1>10, <2>4 DEF load, Generating, Writing
      <3>3. QED
        BY <1>10, <1>16, <2>1, <2>2, <2>4, <3>1, <3>2, KeyParts
    <2>5. QED
      BY <2>3, <2>4
  <1>11. ASSUME NEW r \in Requests, truncate(r), "first use" \notin raced'
         PROVE  KeyInv'
    <2>1. /\ keyFile' = None /\ serializer' = serializer /\ cookies' = cookies
          /\ request[r].step \in Writing
      BY <1>11 DEF truncate, Writing
    <2>2. keyFile = None
      BY <1>1, <1>11, <2>1 DEF KeyInv
    <2>3. (\A p \in Requests \ {r} : request'[p] = request[p]) /\ request'[r].step = "fill"
      BY <1>11, NotedTakes DEF Takes
    <2>4. QED
      BY <1>11, <1>16, <2>1, <2>2, <2>3, KeyParts
  <1>12. ASSUME NEW r \in Requests, fill(r), "first use" \notin raced'
         PROVE  KeyInv'
    <2>1. /\ keyFile' = request[r].key /\ serializer' = serializer /\ cookies' = cookies
          /\ request[r].step \in Writing
      BY <1>12 DEF fill, Writing
    <2>2. keyFile = None /\ \A p \in Requests \ {r} : request[p].step \notin Writing
      BY <1>1, <1>12, <2>1 DEF KeyInv
    <2>3. cookies = {} /\ serializer = None /\ \A p \in Requests : request[p].step # "install"
      BY <1>1, <1>8, <1>9, <1>12, <2>2, AccountsAssumption DEF KeyInv
    <2>4. (\A p \in Requests \ {r} : request'[p] = request[p])
          /\ request'[r].step = "install" /\ request'[r].key = request[r].key
      BY <1>12 DEF fill, Goto, CoreInv, Request
    <2>5. QED
      BY <2>1, <2>2, <2>3, <2>4 DEF KeyInv, Writing
  <1>13. ASSUME NEW r \in Requests, get_serializer(r), "first use" \notin raced'
         PROVE  KeyInv'
    <2>1. /\ keyFile' = keyFile /\ serializer' = request[r].key /\ cookies' = cookies
          /\ request[r].step = "install"
      BY <1>13 DEF get_serializer, dbVars
    <2>2. request[r].key = keyFile
      BY <1>1, <1>13, <2>1 DEF KeyInv
    <2>3. (\A p \in Requests \ {r} : request'[p] = request[p]) /\ request'[r].step = "ready"
      BY <1>13, NotedTakes DEF Takes
    <2>4. QED
      <3>1. request'[r].step \notin Writing
        BY <2>3 DEF Writing
      <3>2. QED
        BY <1>13, <1>16, <2>1, <2>2, <2>3, <3>1, KeyParts
  <1>14. ASSUME "first use" \in raced' PROVE KeyInv'
    BY <1>14 DEF KeyInv
  <1>15. QED
    BY <1>3, <1>4, <1>5, <1>6, <1>7, <1>10, <1>11, <1>12, <1>13, <1>14 DEF Next, Plain

\* No key is written or installed at first.
LEMMA KeyInit ==
  ASSUME Init
  PROVE  KeyInv
  <1> DEFINE key == IF world.fresh THEN None ELSE CHOOSE k \in Keys : TRUE
  <1>1. keyFile = key /\ serializer = key /\ request = [r \in Requests |-> Idle]
        /\ cookies = IF world.fresh THEN {} ELSE {CookieOf(uid, key) : uid \in DOMAIN users}
    BY DEF Init
  <1> HIDE DEF key
  <1>2. \A c \in cookies : c.key = key
    BY <1>1 DEF CookieOf
  <1>3. \A r \in Requests : request[r].step = "idle"
    BY <1>1 DEF Idle
  <1>4. QED
    BY <1>1, <1>2, <1>3 DEF KeyInv, Writing

\* Every session that was issued is signed with the key on disk, and the
\* serializer, once loaded, has that key: no restart at any step logs anyone
\* out, unless two requests generated a key at the same time.
THEOREM SessionsAreKept == Spec => []SessionsSurvive
  <1>1. CoreInv /\ KeyInv => SessionsSurvive
    BY DEF KeyInv, SessionsSurvive
  <1>2. QED
    BY <1>1, KeyInit, KeyNext, Typed, PTL DEF Spec

-----------------------------------------------------------------------------
(* Passwords.                                                              *)

\* r resets a password.
Resets(r) ==
    request[r].kind = "reset_password" /\ request[r].step = "work" /\ request'[r] = Idle

\* What a step may do to a password.
LEMMA PasswordStep ==
  ASSUME CoreInv, Next, NEW uid \in DOMAIN users
  PROVE  \/ users'[uid].password = users[uid].password
         \/ "rehash" \in raced'
         \/ \E r \in Requests : Resets(r)
  <1>1. \A u \in DOMAIN users : users[u] \in User
    BY UserIds
  <1>2. CASE users' = users
    BY <1>2
  <1>3. ASSUME NEW r \in Requests, reset_password(r) PROVE Resets(r)
    BY <1>3 DEF reset_password, Resets, End, CoreInv
  <1>4. ASSUME NEW r \in Requests, write_role(r)
        PROVE  users'[uid].password = users[uid].password
    BY <1>1, <1>4 DEF write_role, User
  <1>5. ASSUME NEW r \in Requests, insert_user(r)
        PROVE  users'[uid].password = users[uid].password
    <2>1. users \in Seq(User)
      BY DEF CoreInv, DataOK
    <2>2. uid \in 1..Len(users)
      BY <2>1
    <2>3. \A row : Append(users, row)[uid] = users[uid]
      BY <2>1, <2>2
    <2>4. QED
      BY <1>5, <2>3 DEF insert_user
  <1>6. ASSUME NEW r \in Requests, commit_rehash(r)
        PROVE  users'[uid].password = users[uid].password \/ "rehash" \in raced'
    <2> DEFINE q == request[r]
    <2>1. q \in Request /\ Placed(q, DOMAIN users, serializer, clock) /\ q.step = "rehash"
      BY <1>6 DEF CoreInv, commit_rehash
    <2>2. q.to \in DOMAIN users /\ q.seen.password = q.password
      BY <2>1 DEF Placed
    <2>3. CASE uid # q.to
      BY <1>6, <2>3 DEF commit_rehash
    <2>4. CASE uid = q.to
      <3>1. users'[uid].password = q.password
        BY <1>1, <1>6, <2>4 DEF commit_rehash, User
      <3>2. users[uid].password = q.seen.password \/ "rehash" \in raced'
        BY <1>6, <2>4 DEF commit_rehash
      <3>3. QED
        BY <2>2, <3>1, <3>2
    <2>5. QED
      BY <2>3, <2>4
  <1>7. ASSUME NEW r \in Requests,
               \/ login(r) \/ login_hit(r) \/ login_refused(r) \/ verify(r) \/ login_reset(r)
               \/ load(r) \/ truncate(r) \/ fill(r) \/ get_serializer(r) \/ issue_session(r)
               \/ begin(r) \/ require_admin(r) \/ cmd_create_admin(r) \/ create_user(r) \/ set_role(r)
        PROVE  users' = users
    BY <1>7 DEF login, login_hit, login_refused, verify, login_reset, load, truncate, fill,
                get_serializer, issue_session, begin, require_admin, cmd_create_admin, create_user,
                set_role, dbVars
  <1>8. (\E c \in cookies : logout(c)) \/ tick \/ restart => users' = users
    BY DEF logout, tick, restart, dbVars
  <1>9. QED
    BY <1>2, <1>3, <1>4, <1>5, <1>6, <1>7, <1>8 DEF Next

\* A password changes only when an Admin resets it.  What is stored and what
\* was verified are related by the step of the login: the hash a login renews
\* is the hash of the password that was there, unless a reset came between.
THEOREM OnlyResetsChange == Spec => PasswordByReset
  <1>1. ASSUME CoreInv, [Next]_vars
        PROVE  [\A uid \in DOMAIN users :
                  \/ users'[uid].password = users[uid].password
                  \/ "rehash" \in raced'
                  \/ \E r \in Requests : Resets(r)]_vars
    BY <1>1, PasswordStep
  <1>2. ASSUME CoreInv, [Next]_vars
        PROVE  [\A uid \in DOMAIN users :
                  users'[uid].password = users[uid].password
                  \/ "rehash" \in raced'
                  \/ \E r \in Requests : /\ request[r].kind = "reset_password"
                                         /\ request[r].step = "work" /\ request'[r] = Idle]_vars
    BY <1>1, <1>2 DEF Resets
  <1>3. QED
    BY <1>2, Typed, PTL DEF Spec, PasswordByReset

-----------------------------------------------------------------------------
(* The login limiter.                                                      *)

Entry == [read : Nat, at : Nat]

\* The bucket holds the latest of the attempts let through, and those before
\* them are a window old.
Latest(bucket, entries, time) ==
    /\ Len(bucket) <= Limit
    /\ Len(entries) <= Limit + 1
    /\ Len(bucket) <= Len(entries)
    /\ \A i \in 1..Len(bucket) : bucket[i] = entries[(Len(entries) - Len(bucket)) + i].read
    /\ \A i \in 1..(Len(entries) - Len(bucket)) : entries[i].read + Window <= time

\* Limit + 1 attempts are more than a window apart.
Spread(entries) ==
    Len(entries) > Limit => entries[1].read + Window <= entries[Limit + 1].at

\* Who was told to wait finds a free place, or one that is free by then.
Promised(bucket, when) ==
    Len(bucket) < Limit \/ bucket[1] + Window <= when

\* What the limiter has on one user.
Limited(bucket, entries, when, time) ==
    /\ Latest(bucket, entries, time)
    /\ Spread(entries)
    /\ when # None => Promised(bucket, when)

LimiterInv ==
    \A uid \in 1..MaxUsers : Limited(hits[uid], accepted[uid], told[uid], clock)

\* Time makes nothing younger.
LEMMA LimitedLater ==
  ASSUME NEW b \in Seq(Nat), NEW e \in Seq(Entry), NEW when, NEW time \in Nat, NEW later \in Nat,
         time <= later, Limited(b, e, when, time)
  PROVE  Limited(b, e, when, later)
  <1>1. Window \in Nat /\ Len(b) \in Nat /\ Len(e) \in Nat
    BY WindowType
  <1>2. ASSUME NEW i \in 1..(Len(e) - Len(b)) PROVE e[i].read \in Nat
    <2>1. i \in 1..Len(e)
      BY <1>1
    <2> HIDE DEF Entry
    <2>2. e[i] \in Entry
      BY <2>1
    <2>3. QED
      BY <2>2 DEF Entry
  <1>3. \A i \in 1..(Len(e) - Len(b)) : e[i].read + Window <= later
    BY <1>1, <1>2 DEF Limited, Latest
  <1>4. Latest(b, e, later)
    BY <1>3 DEF Limited, Latest
  <1>5. QED
    BY <1>4 DEF Limited

\* Dropping old hits keeps the bucket the latest of the entries, and promises
\* kept.
LEMMA LatestPruned ==
  ASSUME NEW b \in Seq(Nat), NEW e \in Seq(Entry), NEW now \in Nat, NEW time \in Nat, now <= time,
         Latest(b, e, time)
  PROVE  Latest(_prune(b, now), e, time)
  <1> DEFINE new == _prune(b, now)
  <1>1. Dropped(b, new, now)
    BY PruneFacts
  <1> HIDE DEF new
  <1>2. new \in Seq(Nat) /\ Len(new) \in Nat /\ Len(b) \in Nat /\ Len(e) \in Nat
        /\ Len(new) <= Len(b) /\ Len(b) <= Len(e) /\ Len(b) <= Limit /\ Len(e) <= Limit + 1
    BY <1>1 DEF Dropped, Latest
  <1>3. Limit \in Nat /\ Window \in Nat
    BY LimiterAssumption, WindowType
  <1>4. ASSUME NEW i \in 1..Len(new)
        PROVE  new[i] = e[(Len(e) - Len(new)) + i].read
    <2> DEFINE j == (Len(b) - Len(new)) + i
    <2>1. new[i] = b[j] /\ j \in 1..Len(b)
      BY <1>1, <1>2 DEF Dropped
    <2>2. b[j] = e[(Len(e) - Len(b)) + j].read
      BY <2>1 DEF Latest
    <2>3. (Len(e) - Len(b)) + j = (Len(e) - Len(new)) + i
      BY <1>2
    <2>4. QED
      BY <2>1, <2>2, <2>3
  <1>5. ASSUME NEW i \in 1..(Len(e) - Len(new))
        PROVE  e[i].read + Window <= time
    <2>1. CASE i <= Len(e) - Len(b)
      BY <1>2, <2>1 DEF Latest
    <2>2. CASE i > Len(e) - Len(b)
      <3> DEFINE j == i - (Len(e) - Len(b))
      <3>1. j \in 1..(Len(b) - Len(new)) /\ j \in 1..Len(b) /\ (Len(e) - Len(b)) + j = i
        BY <1>2, <2>2
      <3>2. b[j] = e[i].read
        BY <3>1 DEF Latest
      <3>3. b[j] + Window <= now /\ b[j] \in Nat
        BY <1>1, <3>1, SMTT(40) DEF Dropped
      <3>4. QED
        BY <1>3, <3>2, <3>3
    <2>3. QED
      BY <1>2, <2>1, <2>2
  <1>6. QED
    BY <1>2, <1>3, <1>4, <1>5 DEF Latest, new

\* Pruning a bucket keeps what was promised to who waits.
LEMMA PromisedPruned ==
  ASSUME NEW b \in Seq(Nat), NEW now \in Nat, NEW when, Len(b) <= Limit, Promised(b, when)
  PROVE  Promised(_prune(b, now), when)
  <1> DEFINE new == _prune(b, now)
  <1>1. Dropped(b, new, now)
    BY PruneFacts
  <1> HIDE DEF new
  <1>2. Limit \in Nat \ {0} /\ new \in Seq(Nat) /\ Len(new) <= Len(b)
    BY <1>1, LimiterAssumption DEF Dropped
  <1>3. CASE Len(new) < Limit
    BY <1>3 DEF Promised, new
  <1>4. CASE ~(Len(new) < Limit)
    <2>1. Len(new) = Limit /\ Len(b) = Limit
      BY <1>2, <1>4
    <2>2. new[1] = b[1]
      BY <1>1, <1>2, <2>1 DEF Dropped
    <2>3. QED
      BY <1>2, <2>1, <2>2 DEF Promised, new
  <1>5. QED
    BY <1>3, <1>4

\* The message promises a free place.
LEMMA RetryPromises ==
  ASSUME NEW b \in Seq(Nat), NEW now \in Nat, NEW time \in Nat, now <= time
  PROVE  Promised(_prune(b, now), time + Second * retry_after(b, now))
  <1> DEFINE new == _prune(b, now)
             wait == Second * retry_after(b, now)
  <1>1. CASE new = <<>>
    BY <1>1, LimiterAssumption DEF Promised
  <1>2. CASE new # <<>>
    <2>1. retry_after(b, now) \in Nat /\ new[1] + Window <= now + wait
      BY <1>2, RetryCovers
    <2>2. Dropped(b, new, now)
      BY PruneFacts
    <2>3. wait \in Nat
      <3>1. \A x, y \in Nat : x * y \in Nat
        OBVIOUS
      <3>2. QED
        BY <2>1, <3>1, LimiterAssumption
    <2> HIDE DEF new, wait
    <2>4. new[1] \in Nat /\ Window \in Nat
      BY <1>2, <2>2, WindowType DEF Dropped
    <2>5. new[1] + Window <= time + wait
      BY <2>1, <2>3, <2>4
    <2>6. QED
      BY <2>5 DEF Promised, new, wait
  <1>3. QED
    BY <1>1, <1>2

\* An attempt that is let through: when it is one more than the limit since
\* the last success, the first of them was a window old when the lock was
\* taken.
LEMMA LatestHit ==
  ASSUME NEW b \in Seq(Nat), NEW e \in Seq(Entry), NEW now \in Nat, NEW time \in Nat, now <= time,
         Latest(b, e, time), check(b, now),
         NEW all, all = Append(e, [read |-> now, at |-> time]),
         NEW last, last = IF Len(all) > Limit + 1 THEN Tail(all) ELSE all
  PROVE  Latest(Append(_prune(b, now), now), last, time) /\ Spread(last)
  <1> DEFINE kept == _prune(b, now)
             new == Append(kept, now)
             entry == [read |-> now, at |-> time]
  <1>1. Latest(kept, e, time) /\ Len(kept) < Limit
    BY LatestPruned DEF check
  <1>2. kept \in Seq(Nat)
    BY PruneFacts DEF Dropped
  <1>3. entry \in Entry /\ entry.read = now /\ entry.at = time
    BY DEF Entry
  <1> HIDE DEF kept, entry, Entry
  <1>4. /\ all \in Seq(Entry) /\ Len(all) = Len(e) + 1
        /\ \A i \in 1..Len(e) : all[i] = e[i]
        /\ all[Len(e) + 1] = entry
    BY <1>3, AppendProperties DEF entry
  <1>5. /\ new \in Seq(Nat) /\ Len(new) = Len(kept) + 1
        /\ \A i \in 1..Len(kept) : new[i] = kept[i]
        /\ new[Len(kept) + 1] = now
    BY <1>2, AppendProperties
  <1> HIDE DEF new
  <1>6. Limit \in Nat \ {0} /\ Len(e) \in Nat /\ Len(kept) \in Nat
        /\ Len(kept) <= Len(e) /\ Len(e) <= Limit + 1
    BY <1>1, <1>2, LimiterAssumption DEF Latest
  <1>7. \A i \in 1..Len(kept) : kept[i] = e[(Len(e) - Len(kept)) + i].read
    BY <1>1 DEF Latest
  <1>8. \A i \in 1..(Len(e) - Len(kept)) : e[i].read + Window <= time
    BY <1>1 DEF Latest
  <1>9. \A i \in 1..Len(new) : new[i] = all[(Len(all) - Len(new)) + i].read
    <2>1. SUFFICES ASSUME NEW i \in 1..Len(new)
                   PROVE  new[i] = all[(Len(all) - Len(new)) + i].read
      OBVIOUS
    <2>2. Len(all) - Len(new) = Len(e) - Len(kept)
      BY <1>4, <1>5, <1>6
    <2>3. CASE i <= Len(kept)
      <3>1. i \in 1..Len(kept) /\ (Len(e) - Len(kept)) + i \in 1..Len(e)
        BY <1>6, <2>3
      <3>2. QED
        BY <1>4, <1>5, <1>7, <2>2, <3>1, SMTT(40)
    <2>4. CASE i = Len(kept) + 1
      <3>1. (Len(e) - Len(kept)) + i = Len(e) + 1
        BY <1>6, <2>4
      <3>2. QED
        BY <1>3, <1>4, <1>5, <2>2, <2>4, <3>1
    <2>5. QED
      BY <1>5, <1>6, <2>3, <2>4, SMTT(40)
  <1>10. CASE Len(e) + 1 > Limit + 1
    <2>1. Len(e) = Limit + 1 /\ last = Tail(all)
      BY <1>4, <1>6, <1>10
    <2>2. /\ Len(last) = Limit + 1
          /\ \A i \in 1..(Limit + 1) : last[i] = all[i + 1]
      <3>1. all # <<>>
        BY <1>4, <1>6, SMTT(40)
      <3>2. Len(last) = Len(all) - 1 /\ \A i \in 1..Len(last) : last[i] = all[i + 1]
        BY <1>4, <2>1, <3>1, HeadTailProperties
      <3>3. QED
        BY <1>4, <2>1, <3>2
    <2>3. ASSUME NEW i \in 1..Len(new) PROVE new[i] = last[(Len(last) - Len(new)) + i].read
      <3> DEFINE j == (Len(last) - Len(new)) + i
      <3>1. j \in 1..(Limit + 1) /\ j + 1 = (Len(all) - Len(new)) + i
        <4>1. Len(last) = Limit + 1 /\ Len(all) = Limit + 2 /\ Len(new) = Len(kept) + 1
              /\ Len(kept) < Limit
          BY <1>1, <1>4, <1>5, <1>6, <2>1, <2>2
        <4>2. Limit \in Nat /\ Len(kept) \in Nat
          BY <1>6
        <4>3. QED
          BY <4>1, <4>2, SMTT(40)
      <3>2. QED
        BY <1>9, <2>2, <3>1, SMTT(40)
    <2>4. ASSUME NEW i \in 1..(Len(last) - Len(new)) PROVE last[i].read + Window <= time
      <3>1. i + 1 \in 1..(Len(e) - Len(kept)) /\ i + 1 \in 1..Len(e) /\ i \in 1..(Limit + 1)
        BY <1>4, <1>5, <1>6, <2>1, <2>2, SMTT(40)
      <3>2. last[i] = e[i + 1]
        BY <1>4, <2>2, <3>1
      <3>3. QED
        BY <1>8, <3>1, <3>2
    <2>5. last[Limit + 1].at = time
      BY <1>3, <1>4, <1>6, <2>1, <2>2
    <2>6. 1 \in 1..(Len(last) - Len(new))
      BY <1>1, <1>5, <1>6, <2>2, SMTT(40)
    <2>7. last[1].read + Window <= time
      BY <2>4, <2>6
    <2>8. Spread(last)
      BY <2>5, <2>7 DEF Spread
    <2>9. Len(new) <= Limit /\ Len(new) <= Len(last) /\ Len(last) <= Limit + 1
      BY <1>1, <1>5, <1>6, <2>2, SMTT(40)
    <2>10. Latest(new, last, time)
      BY <2>3, <2>4, <2>9 DEF Latest
    <2>11. QED
      BY <2>8, <2>10 DEF new, kept
  <1>11. CASE ~(Len(e) + 1 > Limit + 1)
    <2>1. last = all /\ Len(e) <= Limit
      BY <1>4, <1>6, <1>11
    <2>2. \A i \in 1..(Len(all) - Len(new)) : all[i].read + Window <= time
      <3>1. Len(all) - Len(new) = Len(e) - Len(kept)
        BY <1>4, <1>5, <1>6
      <3>2. \A i \in 1..(Len(e) - Len(kept)) : i \in 1..Len(e)
        BY <1>6
      <3>3. QED
        BY <1>4, <1>8, <3>1, <3>2
    <2>3. Len(new) <= Limit /\ Len(new) <= Len(all) /\ Len(all) <= Limit + 1
      BY <1>1, <1>4, <1>5, <1>6, <2>1
    <2>4. Latest(new, last, time)
      BY <1>9, <2>1, <2>2, <2>3 DEF Latest
    <2>5. Spread(last)
      <3>1. SUFFICES ASSUME Len(all) > Limit PROVE all[1].read + Window <= all[Limit + 1].at
        BY <2>1 DEF Spread
      <3>2. Len(e) = Limit
        BY <1>4, <1>6, <2>1, <3>1
      <3>3. 1 \in 1..(Len(all) - Len(new))
        BY <1>1, <1>4, <1>5, <1>6, <3>2
      <3>4. QED
        BY <1>3, <1>4, <2>2, <3>2, <3>3
    <2>6. QED
      BY <2>4, <2>5 DEF new, kept
  <1>12. QED
    BY <1>10, <1>11

\* A step that changes what the limiter has on one user.
LEMMA OneLimited ==
  ASSUME CoreInv, LimiterInv, NEW uid \in 1..MaxUsers, NEW b, NEW e, NEW when,
         hits' = [hits EXCEPT ![uid] = b], accepted' = [accepted EXCEPT ![uid] = e],
         told' = [told EXCEPT ![uid] = when], clock' = clock, Limited(b, e, when, clock)
  PROVE  LimiterInv'
  <1>1. SUFFICES ASSUME NEW u \in 1..MaxUsers
                 PROVE  Limited(hits'[u], accepted'[u], told'[u], clock')
    BY DEF LimiterInv
  <1>2. /\ hits'[u] = IF u = uid THEN b ELSE hits[u]
        /\ accepted'[u] = IF u = uid THEN e ELSE accepted[u]
        /\ told'[u] = IF u = uid THEN when ELSE told[u]
    BY LimiterTypes
  <1>3. QED
    BY <1>2 DEF LimiterInv

\* The hits and the entries of a user of the table have their types.
LEMMA BucketTypes ==
  ASSUME CoreInv, NEW uid \in 1..MaxUsers
  PROVE  hits[uid] \in Seq(Nat) /\ accepted[uid] \in Seq(Entry) /\ told[uid] \in Nat \cup {None}
  BY LimiterTypes DEF Entry

\* Nothing attempted, nothing limited.
LEMMA NothingLimited ==
  ASSUME NEW time \in Nat
  PROVE  Limited(<<>>, <<>>, None, time)
  BY LimiterAssumption DEF Limited, Latest, Spread

\* Every step keeps what the limiter has on each user.
LEMMA LimiterNext ==
  ASSUME CoreInv, LimiterInv, [Next]_vars
  PROVE  LimiterInv'
  <1>1. CASE UNCHANGED <<hits, clock, accepted, told>>
    BY <1>1 DEF LimiterInv
  <1>2. CASE tick
    <2>1. clock \in Nat /\ clock' = clock + 1 /\ UNCHANGED <<hits, accepted, told>>
      BY <1>2, ClockType DEF tick
    <2>2. clock' \in Nat /\ clock <= clock'
      BY <2>1
    <2>3. ASSUME NEW u \in 1..MaxUsers PROVE Limited(hits[u], accepted[u], told[u], clock')
      BY <2>1, <2>2, BucketTypes, LimitedLater DEF LimiterInv
    <2>4. QED
      BY <2>1, <2>3 DEF LimiterInv
  <1>3. CASE restart
    <2>1. \A u \in 1..MaxUsers : hits'[u] = <<>> /\ accepted'[u] = <<>> /\ told'[u] = None
      BY <1>3, LimiterTypes DEF restart
    <2>2. clock' = clock
      BY <1>3 DEF restart
    <2>3. QED
      BY <2>1, <2>2, ClockType, NothingLimited DEF LimiterInv
  <1>4. ASSUME NEW r \in Requests, login_reset(r)
        PROVE  LimiterInv'
    <2> DEFINE uid == request[r].to
    <2>1. Placed(request[r], DOMAIN users, serializer, clock) /\ request[r].step = "reset"
      BY <1>4 DEF CoreInv, login_reset
    <2>2. uid \in 1..MaxUsers
      BY <2>1, UserIds DEF Placed
    <2>3. /\ hits' = [hits EXCEPT ![uid] = <<>>] /\ accepted' = [accepted EXCEPT ![uid] = <<>>]
          /\ told' = [told EXCEPT ![uid] = None] /\ clock' = clock
      BY <1>4 DEF login_reset
    <2> HIDE DEF uid
    <2>4. QED
      BY <2>2, <2>3, ClockType, NothingLimited, OneLimited
  <1>5. ASSUME NEW r \in Requests, login_refused(r)
        PROVE  LimiterInv'
    <2> DEFINE uid == request[r].to
               now == request[r].now
               b == _prune(hits[uid], now)
               when == clock + Second * retry_after(hits[uid], now)
    <2>1. Placed(request[r], DOMAIN users, serializer, clock) /\ request[r].step = "refused"
          /\ request[r] \in Request
      BY <1>5 DEF CoreInv, login_refused
    <2>2. uid \in 1..MaxUsers /\ now \in Nat /\ now <= clock
      BY <2>1, UserIds DEF Placed, Request
    <2>3. /\ hits' = [hits EXCEPT ![uid] = b] /\ accepted' = accepted
          /\ told' = [told EXCEPT ![uid] = when] /\ clock' = clock
      BY <1>5 DEF login_refused
    <2> HIDE DEF uid, now
    <2>4. hits[uid] \in Seq(Nat) /\ accepted[uid] \in Seq(Entry) /\ clock \in Nat
      BY <2>2, BucketTypes, ClockType
    <2>5. Limited(hits[uid], accepted[uid], told[uid], clock)
      BY <2>2 DEF LimiterInv
    <2>6. Latest(b, accepted[uid], clock)
      BY <2>2, <2>4, <2>5, LatestPruned DEF Limited
    <2>7. Promised(b, when)
      BY <2>2, <2>4, RetryPromises
    <2> HIDE DEF b, when
    <2>8. Limited(b, accepted[uid], when, clock)
      BY <2>5, <2>6, <2>7 DEF Limited
    <2>9. accepted' = [accepted EXCEPT ![uid] = accepted[uid]]
      BY <2>2, <2>3, LimiterTypes
    <2>10. QED
      BY <2>2, <2>3, <2>8, <2>9, OneLimited
  <1>6. ASSUME NEW r \in Requests, login_hit(r)
        PROVE  LimiterInv'
    <2> DEFINE uid == request[r].to
               now == request[r].now
               kept == _prune(hits[uid], now)
    <2>1. Placed(request[r], DOMAIN users, serializer, clock) /\ request[r].step = "hit"
          /\ request[r] \in Request
      BY <1>6 DEF CoreInv, login_hit
    <2>2. uid \in 1..MaxUsers /\ now \in Nat /\ now <= clock
      BY <2>1, UserIds DEF Placed, Request
    <2>3. /\ hits' = [hits EXCEPT ![uid] = hit(hits[uid], now)] /\ clock' = clock
          /\ IF check(hits[uid], now)
             THEN /\ accepted' = [accepted EXCEPT ![uid] = Recently(uid, [read |-> now, at |-> clock])]
                  /\ told' = [told EXCEPT ![uid] = None]
             ELSE UNCHANGED <<accepted, told>>
      BY <1>6 DEF login_hit
    <2> HIDE DEF uid, now
    <2>4. hits[uid] \in Seq(Nat) /\ accepted[uid] \in Seq(Entry) /\ clock \in Nat
      BY <2>2, BucketTypes, ClockType
    <2>5. Limited(hits[uid], accepted[uid], told[uid], clock)
      BY <2>2 DEF LimiterInv
    <2>6. CASE check(hits[uid], now)
      <3> DEFINE new == Append(kept, now)
                 all == Append(accepted[uid], [read |-> now, at |-> clock])
                 last == IF Len(all) > Limit + 1 THEN Tail(all) ELSE all
      <3>1. hit(hits[uid], now) = new /\ Recently(uid, [read |-> now, at |-> clock]) = last
        BY <2>6 DEF hit, Recently
      <3>2. Latest(new, last, clock) /\ Spread(last)
        BY <2>2, <2>4, <2>5, <2>6, LatestHit DEF Limited
      <3> HIDE DEF new, last
      <3>3. Limited(new, last, None, clock)
        BY <3>2 DEF Limited
      <3>4. QED
        BY <2>2, <2>3, <2>6, <3>1, <3>3, OneLimited
    <2>7. CASE ~check(hits[uid], now)
      <3>1. hit(hits[uid], now) = kept
        BY <2>7 DEF hit
      <3>2. Latest(kept, accepted[uid], clock)
        BY <2>2, <2>4, <2>5, LatestPruned DEF Limited
      <3>3. told[uid] # None => Promised(kept, told[uid])
        BY <2>2, <2>4, <2>5, PromisedPruned DEF Limited, Latest
      <3> HIDE DEF kept
      <3>4. Limited(kept, accepted[uid], told[uid], clock)
        BY <2>5, <3>2, <3>3 DEF Limited
      <3>5. /\ accepted' = [accepted EXCEPT ![uid] = accepted[uid]]
            /\ told' = [told EXCEPT ![uid] = told[uid]]
        BY <2>2, <2>3, <2>7, LimiterTypes
      <3>6. QED
        BY <2>2, <2>3, <3>1, <3>4, <3>5, OneLimited
    <2>8. QED
      BY <2>6, <2>7
  <1>7. UNCHANGED vars => UNCHANGED <<hits, clock, accepted, told>>
    BY DEF vars
  <1>8. ASSUME NEW r \in Requests,
               \/ login(r) \/ verify(r) \/ load(r) \/ truncate(r) \/ fill(r) \/ get_serializer(r)
               \/ issue_session(r) \/ commit_rehash(r) \/ begin(r) \/ require_admin(r)
               \/ cmd_create_admin(r) \/ create_user(r) \/ insert_user(r) \/ reset_password(r)
               \/ set_role(r) \/ write_role(r)
        PROVE  UNCHANGED <<hits, clock, accepted, told>>
    BY <1>8 DEF login, verify, load, truncate, fill, get_serializer, issue_session, commit_rehash,
                begin, require_admin, cmd_create_admin, create_user, insert_user, reset_password,
                set_role, write_role, limiterVars
  <1>9. ASSUME NEW c \in cookies, logout(c)
        PROVE  UNCHANGED <<hits, clock, accepted, told>>
    BY <1>9 DEF logout, limiterVars
  <1>10. QED
    BY <1>1, <1>2, <1>3, <1>4, <1>5, <1>6, <1>7, <1>8, <1>9 DEF Next

\* The buckets are empty at first.
LEMMA LimiterInit ==
  ASSUME Init
  PROVE  LimiterInv
  <1>1. clock \in Nat
        /\ \A u \in 1..MaxUsers : hits[u] = <<>> /\ accepted[u] = <<>> /\ told[u] = None
    BY DEF Init
  <1>2. QED
    BY <1>1, NothingLimited DEF LimiterInv

\* Whatever the limit, the window and the order in which threads take the
\* lock, Limit + 1 attempts that get through since the last success are spread
\* over more than a window.
THEOREM LoginsAreRationed == Spec => []LoginBudget
  <1>1. CoreInv /\ LimiterInv => LoginBudget
    <2>1. SUFFICES ASSUME CoreInv, LimiterInv PROVE LoginBudget
      OBVIOUS
    <2>2. DOMAIN accepted = 1..MaxUsers
      BY <2>1, LimiterTypes
    <2>3. \A uid \in 1..MaxUsers : Spread(accepted[uid])
      BY <2>1 DEF LimiterInv, Limited
    <2>4. QED
      BY <2>2, <2>3 DEF LoginBudget, Spread
  <1>2. QED
    BY <1>1, LimiterInit, LimiterNext, Typed, PTL DEF Spec

\* Who waits as long as the message says gets the next attempt, unless someone
\* else took it: the whole seconds of the message cover the ticks that are
\* left.
THEOREM WaitingIsEnough == Spec => []WaitIsEnough
  <1>1. CoreInv /\ LimiterInv => WaitIsEnough
    <2>1. SUFFICES ASSUME CoreInv, LimiterInv, NEW uid \in DOMAIN told,
                          told[uid] # None, clock >= told[uid]
                   PROVE  check(hits[uid], clock)
      BY DEF WaitIsEnough
    <2>2. uid \in 1..MaxUsers /\ clock \in Nat
      BY <2>1, LimiterTypes, ClockType
    <2>3. hits[uid] \in Seq(Nat) /\ told[uid] \in Nat
      BY <2>1, <2>2, BucketTypes
    <2>4. Limited(hits[uid], accepted[uid], told[uid], clock)
      BY <2>1, <2>2 DEF LimiterInv
    <2>5. Len(hits[uid]) <= Limit /\ Promised(hits[uid], told[uid])
      BY <2>1, <2>4 DEF Limited, Latest
    <2> DEFINE b == hits[uid]
               when == told[uid]
    <2>6. b \in Seq(Nat) /\ when \in Nat /\ when <= clock /\ Len(b) <= Limit /\ Promised(b, when)
      BY <2>1, <2>2, <2>3, <2>5
    <2> HIDE DEF b, when
    <2>7. Len(b) < Limit \/ b[1] + Window <= clock
      <3>1. CASE Len(b) < Limit
        BY <3>1
      <3>2. CASE ~(Len(b) < Limit)
        <4>1. b[1] \in Nat /\ Window \in Nat
          BY <2>6, <3>2, LimiterAssumption, WindowType
        <4>2. QED
          BY <2>2, <2>6, <3>2, <4>1 DEF Promised
      <3>3. QED
        BY <3>1, <3>2
    <2>8. QED
      BY <2>2, <2>6, <2>7, CheckPasses DEF b
  <1>2. QED
    BY <1>1, LimiterInit, LimiterNext, Typed, PTL DEF Spec

=============================================================================
