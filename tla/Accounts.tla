------------------------------ MODULE Accounts ------------------------------
(***************************************************************************)
(* Accounts, login and roles: auth.py, users.py, routes/auth.py, the user  *)
(* pages of routes/admin.py, create-admin, and the login limiter.          *)
(*                                                                         *)
(* The routes are synchronous and run in a thread pool: a request reads,   *)
(* and writes in one transaction later.  Every step of a request that      *)
(* reads or changes what others change is a step here; the UPDATE and the  *)
(* COMMIT are one, for the write lock keeps other writers out and readers  *)
(* see the old row until then.  The process may stop at any time: requests,*)
(* the serializer and the limiter are lost, the database and the key file  *)
(* are not.                                                                *)
(*                                                                         *)
(* world says which circumstances a behaviour is about (who exists, what   *)
(* is requested, whether time passes); it never changes.  raced, accepted  *)
(* and told are history.                                                   *)
(***************************************************************************)
EXTENDS RateLimiter, FiniteSets

CONSTANTS
    Requests,
    Names,      \* usernames
    SlugOf,     \* artist_slug of each
    Passwords,
    Keys,       \* signing keys; bounds the number in use at a time
    Worlds,
    MaxUsers,   \* bound
    None

User == [name : Names, role : {"admin", "player"}, password : Passwords, stale : BOOLEAN]

ASSUME AccountsAssumption ==
    /\ SlugOf \in [Names -> Names]
    /\ MaxUsers \in Nat
    /\ Keys # {} /\ None \notin Keys

\* Accounts are made by an Admin, and the first of them is an Admin.
ASSUME WorldsAssumption ==
    \A w \in Worlds :
        /\ w.users \in Seq(User) /\ Len(w.users) <= MaxUsers
        /\ w.users # <<>> => \E uid \in DOMAIN w.users : w.users[uid].role = "admin"
        /\ w.kinds \subseteq {"login", "logout", "page", "create", "create_admin",
                               "reset_password", "set_role"}
        /\ w.fresh \in BOOLEAN
        /\ w.clock \in Nat

VARIABLES
    world,
    users,       \* table users, in id order: name, role, password, stale (needs_rehash)
    keyFile,     \* data/secret_key; None when missing or empty
    serializer,  \* the key of auth._serializer
    cookies,     \* session cookies that browsers hold
    request,     \* where each request is, and what it has read
    hits,        \* login_limiter, by user
    clock,
    accepted,    \* the last hits let through, by user: read at, let through at
    told,        \* when each user was told to come back
    raced        \* kinds of races that have happened

dbVars == <<users, keyFile, cookies>>
limiterVars == <<hits, clock, accepted, told>>
vars == <<world, users, keyFile, serializer, cookies, request, hits, clock, accepted, told, raced>>

CookieOf(uid, key) == [uid |-> uid, key |-> key]

Idle == [kind |-> "none", step |-> "idle", by |-> 0, to |-> 0, name |-> None, role |-> "player",
         password |-> None, seen |-> None, key |-> None, now |-> 0]

\* Everyone has logged in before, unless the installation is fresh.
Init ==
    /\ world \in Worlds
    /\ users = world.users
    /\ LET key == IF world.fresh THEN None ELSE CHOOSE k \in Keys : TRUE
       IN  /\ keyFile = key
           /\ serializer = key
           /\ cookies = IF world.fresh THEN {} ELSE {CookieOf(uid, key) : uid \in DOMAIN users}
    /\ request = [r \in Requests |-> Idle]
    /\ hits = [uid \in 1..MaxUsers |-> <<>>]
    /\ clock = 0
    /\ accepted = [uid \in 1..MaxUsers |-> <<>>]
    /\ told = [uid \in 1..MaxUsers |-> None]
    /\ raced = {}

Goto(r, step) == request' = [request EXCEPT ![r].step = step]
End(r) == request' = [request EXCEPT ![r] = Idle]

AfterKey == IF serializer = None THEN "load" ELSE "ready"

-----------------------------------------------------------------------------
(* login(): the limiter.                                                   *)

\* hit() reads the clock.
login(r) ==
    /\ request[r] = Idle
    /\ "login" \in world.kinds
    /\ \E uid \in DOMAIN users, password \in Passwords :
         request' = [request EXCEPT ![r] = [Idle EXCEPT !.kind = "login", !.step = "hit",
                                              !.to = uid, !.password = password, !.now = clock]]
    /\ UNCHANGED <<world, dbVars, serializer, limiterVars, raced>>

\* The last Limit + 1 of them.
Recently(uid, entry) ==
    LET all == Append(accepted[uid], entry)
    IN  IF Len(all) > Limit + 1 THEN Tail(all) ELSE all

login_hit(r) ==
    /\ request[r].step = "hit"
    /\ LET uid == request[r].to
           now == request[r].now
       IN  /\ hits' = [hits EXCEPT ![uid] = hit(@, now)]
           /\ IF check(hits[uid], now)
              THEN /\ Goto(r, "verify")
                   /\ accepted' = [accepted EXCEPT
                                     ![uid] = Recently(uid, [read |-> now, at |-> clock])]
                   /\ told' = [told EXCEPT ![uid] = None]
              ELSE /\ request' = [request EXCEPT ![r].step = "refused", ![r].now = clock]
                   /\ UNCHANGED <<accepted, told>>
    /\ UNCHANGED <<world, dbVars, serializer, clock, raced>>

\* "Try again in ... seconds."
login_refused(r) ==
    /\ request[r].step = "refused"
    /\ LET uid == request[r].to
           now == request[r].now
       IN  /\ told' = [told EXCEPT ![uid] = clock + Second * retry_after(hits[uid], now)]
           /\ hits' = [hits EXCEPT ![uid] = _prune(@, now)]
    /\ End(r)
    /\ UNCHANGED <<world, dbVars, serializer, clock, accepted, raced>>

\* The hash is renewed whatever the password.
verify_Wrong_RehashesFirst(r) ==
    /\ request[r].step = "verify"
    /\ LET user == users[request[r].to]
       IN  IF user.stale
           THEN users' = [users EXCEPT ![request[r].to] =
                            [@ EXCEPT !.password = request[r].password, !.stale = FALSE]]
           ELSE UNCHANGED users
    /\ End(r)
    /\ UNCHANGED <<world, keyFile, serializer, cookies, limiterVars, raced>>

\* The user is read and the password verified.
verify(r) ==
    /\ request[r].step = "verify"
    /\ LET user == users[request[r].to]
       IN  IF user.password # request[r].password THEN End(r)
           ELSE request' = [request EXCEPT ![r].step = "reset", ![r].seen = user]
    /\ UNCHANGED <<world, dbVars, serializer, limiterVars, raced>>

login_reset(r) ==
    /\ request[r].step = "reset"
    /\ LET uid == request[r].to
       IN  /\ hits' = [hits EXCEPT ![uid] = <<>>]
           /\ accepted' = [accepted EXCEPT ![uid] = <<>>]
           /\ told' = [told EXCEPT ![uid] = None]
    /\ Goto(r, AfterKey)
    /\ UNCHANGED <<world, dbVars, serializer, clock, raced>>

-----------------------------------------------------------------------------
(* get_serializer(): nothing guards its first use.                         *)

Generating(r) == \E q \in Requests \ {r} : request[q].step \in {"write", "fill"}

FreshKeys == {k \in Keys : /\ k \notin {keyFile, serializer}
                           /\ \A c \in cookies : c.key # k
                           /\ \A q \in Requests : request[q].key # k}

\* The generated key is kept in the process only.
load_Wrong_NotSaved(r) ==
    /\ request[r].step = "load"
    /\ IF keyFile # None
       THEN /\ request' = [request EXCEPT ![r].step = "install", ![r].key = keyFile]
            /\ UNCHANGED raced
       ELSE /\ FreshKeys # {}
            /\ request' = [request EXCEPT ![r].step = "install",
                                          ![r].key = CHOOSE k \in FreshKeys : TRUE]
            /\ raced' = IF Generating(r) THEN raced \cup {"first use"} ELSE raced
    /\ UNCHANGED <<world, dbVars, serializer, limiterVars>>

\* _load_or_create_secret() up to the generated key.
load(r) ==
    /\ request[r].step = "load"
    /\ IF keyFile # None
       THEN /\ request' = [request EXCEPT ![r].step = "install", ![r].key = keyFile]
            /\ UNCHANGED raced
       ELSE /\ FreshKeys # {}
            /\ request' = [request EXCEPT ![r].step = "write",
                                          ![r].key = CHOOSE k \in FreshKeys : TRUE]
            /\ raced' = IF Generating(r) THEN raced \cup {"first use"} ELSE raced
    /\ UNCHANGED <<world, dbVars, serializer, limiterVars>>

\* write_text() truncates, then writes.
truncate(r) ==
    /\ request[r].step = "write"
    /\ keyFile' = None
    /\ Goto(r, "fill")
    /\ UNCHANGED <<world, users, serializer, cookies, limiterVars, raced>>

fill(r) ==
    /\ request[r].step = "fill"
    /\ keyFile' = request[r].key
    /\ Goto(r, "install")
    /\ UNCHANGED <<world, users, serializer, cookies, limiterVars, raced>>

get_serializer(r) ==
    /\ request[r].step = "install"
    /\ serializer' = request[r].key
    /\ request' = [request EXCEPT ![r].step = "ready", ![r].key = None]
    /\ UNCHANGED <<world, dbVars, limiterVars, raced>>

\* Whatever the serializer is by now signs.  A renewed hash is not yet written.
issue_session(r) ==
    /\ request[r].kind = "login" /\ request[r].step = "ready"
    /\ cookies' = cookies \cup {CookieOf(request[r].to, serializer)}
    /\ IF request[r].seen.stale THEN Goto(r, "rehash") ELSE End(r)
    /\ UNCHANGED <<world, users, keyFile, serializer, limiterVars, raced>>

\* The hash of the password that was verified replaces whatever is there.
commit_rehash(r) ==
    /\ request[r].step = "rehash"
    /\ LET uid == request[r].to
       IN  /\ users' = [users EXCEPT ![uid] =
                          [@ EXCEPT !.password = request[r].password, !.stale = FALSE]]
           /\ raced' = IF users[uid].password = request[r].seen.password THEN raced
                       ELSE raced \cup {"rehash"}
    /\ End(r)
    /\ UNCHANGED <<world, keyFile, serializer, cookies, limiterVars>>

\* The browser drops its cookie.
logout(c) ==
    /\ "logout" \in world.kinds
    /\ cookies' = cookies \ {c}
    /\ UNCHANGED <<world, users, keyFile, serializer, request, limiterVars, raced>>

-----------------------------------------------------------------------------
(* Requests with a cookie.                                                 *)

begin(r) ==
    /\ request[r] = Idle
    /\ \E kind \in world.kinds \ {"login", "logout", "create_admin"}, c \in cookies :
         request' = [request EXCEPT ![r] = [Idle EXCEPT !.kind = kind, !.step = AfterKey,
                                              !.by = c.uid, !.seen = c]]
    /\ UNCHANGED <<world, dbVars, serializer, limiterVars, raced>>

\* read_session(), get_current_user() and require_admin(); a page asks for no
\* more than a user.
require_admin(r) ==
    /\ request[r].kind # "login" /\ request[r].step = "ready"
    /\ IF /\ request[r].seen.key = serializer
          /\ request[r].kind # "page"
          /\ users[request[r].by].role = "admin"
       THEN request' = [request EXCEPT ![r].step = "work", ![r].seen = None]
       ELSE End(r)
    /\ UNCHANGED <<world, dbVars, serializer, limiterVars, raced>>

\* create-admin has no need of a session.
cmd_create_admin(r) ==
    /\ request[r] = Idle
    /\ "create_admin" \in world.kinds
    /\ request' = [request EXCEPT ![r] = [Idle EXCEPT !.kind = "create_admin", !.step = "work"]]
    /\ UNCHANGED <<world, dbVars, serializer, limiterVars, raced>>

Taken(name) == \E uid \in DOMAIN users : \/ users[uid].name = name
                                         \/ SlugOf[users[uid].name] = SlugOf[name]

\* UsernameTaken and SlugTaken, before the password is hashed.
create_user(r) ==
    /\ request[r].kind \in {"create", "create_admin"} /\ request[r].step = "work"
    /\ Len(users) < MaxUsers
    /\ \E name \in Names :
         IF Taken(name) THEN End(r)
         ELSE \E role \in {"admin", "player"} :
                /\ request[r].kind = "create_admin" => role = "admin"
                /\ request' = [request EXCEPT ![r].step = "insert", ![r].name = name, ![r].role = role]
    /\ UNCHANGED <<world, dbVars, serializer, limiterVars, raced>>

\* The UNIQUE columns refuse what was taken meanwhile: a 500, and no row.
insert_user(r) ==
    /\ request[r].step = "insert"
    /\ IF Taken(request[r].name) THEN UNCHANGED users
       ELSE /\ Len(users) < MaxUsers
            /\ \E password \in Passwords :
                 users' = Append(users, [name |-> request[r].name, role |-> request[r].role,
                                         password |-> password, stale |-> FALSE])
    /\ End(r)
    /\ UNCHANGED <<world, keyFile, serializer, cookies, limiterVars, raced>>

reset_password(r) ==
    /\ request[r].kind = "reset_password" /\ request[r].step = "work"
    /\ \E uid \in DOMAIN users, password \in Passwords :
         users' = [users EXCEPT ![uid] = [@ EXCEPT !.password = password, !.stale = FALSE]]
    /\ End(r)
    /\ UNCHANGED <<world, keyFile, serializer, cookies, limiterVars, raced>>

OtherAdmins(uid) == {u \in DOMAIN users : users[u].role = "admin"} \ {uid}

\* An Admin who is not the target must be another Admin.
set_role_Wrong_TrustsTheActor(r) ==
    /\ request[r].kind = "set_role" /\ request[r].step = "work"
    /\ \E uid \in DOMAIN users, role \in {"admin", "player"} :
         IF uid = request[r].by /\ role # "admin" THEN End(r)
         ELSE request' = [request EXCEPT ![r].step = "write_role", ![r].to = uid,
                                         ![r].role = role, ![r].seen = users[uid]]
    /\ UNCHANGED <<world, dbVars, serializer, limiterVars, raced>>

\* The checks of set_role().
set_role(r) ==
    /\ request[r].kind = "set_role" /\ request[r].step = "work"
    /\ \E uid \in DOMAIN users, role \in {"admin", "player"} :
         IF role # "admin" /\ (uid = request[r].by \/ OtherAdmins(uid) = {}) THEN End(r)
         ELSE request' = [request EXCEPT ![r].step = "write_role", ![r].to = uid,
                                         ![r].role = role, ![r].seen = users[uid]]
    /\ UNCHANGED <<world, dbVars, serializer, limiterVars, raced>>

Demoting(r) == request[r].step = "write_role" /\ request[r].role # "admin"

\* The UPDATE, if the role is not the one that was loaded.
write_role(r) ==
    /\ request[r].step = "write_role"
    /\ users' = IF request[r].seen.role = request[r].role THEN users
                ELSE [users EXCEPT ![request[r].to].role = request[r].role]
    /\ raced' = IF Demoting(r) /\ \E q \in Requests \ {r} : Demoting(q)
                THEN raced \cup {"demotions"} ELSE raced
    /\ End(r)
    /\ UNCHANGED <<world, keyFile, serializer, cookies, limiterVars>>

-----------------------------------------------------------------------------

tick ==
    /\ clock < world.clock
    /\ clock' = clock + 1
    /\ UNCHANGED <<world, dbVars, serializer, request, hits, accepted, told, raced>>

restart ==
    /\ request' = [r \in Requests |-> Idle]
    /\ serializer' = None
    /\ hits' = [uid \in DOMAIN hits |-> <<>>]
    /\ accepted' = [uid \in DOMAIN hits |-> <<>>]
    /\ told' = [uid \in DOMAIN hits |-> None]
    /\ UNCHANGED <<world, dbVars, clock, raced>>

Next ==
    \/ \E r \in Requests :
         \/ login(r) \/ login_hit(r) \/ login_refused(r) \/ verify(r) \/ login_reset(r)
         \/ load(r) \/ truncate(r) \/ fill(r) \/ get_serializer(r)
         \/ issue_session(r) \/ commit_rehash(r)
         \/ begin(r) \/ require_admin(r) \/ cmd_create_admin(r)
         \/ create_user(r) \/ insert_user(r) \/ reset_password(r)
         \/ set_role(r) \/ write_role(r)
    \/ \E c \in cookies : logout(c)
    \/ tick
    \/ restart

Spec == Init /\ [][Next]_vars

-----------------------------------------------------------------------------
(* Properties.                                                             *)

AnAdmin == \E uid \in DOMAIN users : users[uid].role = "admin"

\* Someone can still administrate, even when an Admin who has just been
\* demoted finishes a request, as long as no demotion is written between the
\* count and the write of another (admin.py:130-149).
AdminRemainsApart == "demotions" \notin raced => AnAdmin \/ users = <<>>

\* At least one Admin must remain (admin.py:147).
AdminRemains == AnAdmin \/ users = <<>>

\* A session outlives restarts (auth.py:34-36): the key that signed it is the
\* one on disk and the one in use, unless the first two logins of an
\* installation generated a key each.
SessionsSurvive ==
    "first use" \notin raced =>
        \A c \in cookies : keyFile = c.key /\ serializer \in {None, c.key}

\* A password changes only when an Admin resets it; logging in never brings
\* another one about, unless a reset came between the check and the new hash.
PasswordByReset ==
    [][\A uid \in DOMAIN users :
         users'[uid].password = users[uid].password
         \/ "rehash" \in raced'
         \/ \E r \in Requests : /\ request[r].kind = "reset_password"
                                /\ request[r].step = "work" /\ request'[r] = Idle]_vars

\* Limit + 1 attempts that get through since the last success are spread over
\* more than a window: from the time the first was read to the time the last
\* was let through, in whatever order the threads took the lock.
LoginBudget ==
    \A uid \in DOMAIN accepted :
        Len(accepted[uid]) > Limit =>
            accepted[uid][1].read + Window <= accepted[uid][Limit + 1].at

\* Who waits as long as the message says gets the next attempt, unless
\* someone else took it.
WaitIsEnough ==
    \A uid \in DOMAIN told :
        told[uid] # None /\ clock >= told[uid] => check(hits[uid], clock)

=============================================================================
