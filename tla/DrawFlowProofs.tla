--------------------------- MODULE DrawFlowProofs ---------------------------
(***************************************************************************)
(* Proofs about DrawFlow.                                                  *)
(***************************************************************************)
EXTENDS DrawFlow, FiniteSetTheorems, WellFoundedInduction, TLAPS

-----------------------------------------------------------------------------
(* Greatest elements.                                                      *)

\* Among finitely many things with a number each, one has the greatest.
LEMMA Greatest ==
  ASSUME NEW J, IsFiniteSet(J), J # {}, NEW f, \A j \in J : f[j] \in Nat
  PROVE  \E i \in J : \A j \in J : f[j] <= f[i]
  <1> DEFINE Has(U) == \E i \in U : \A j \in U : f[j] <= f[i]
             Bad == {U \in FiniteSubsetsOf(J) : U # {} /\ ~Has(U)}
  <1>1. SUFFICES ASSUME Bad # {} PROVE FALSE
    BY DEF FiniteSubsetsOf
  <1>2. IsWellFoundedOn(StrictSubsetOrdering(J), FiniteSubsetsOf(J))
    BY FS_StrictSubsetOrderingWellFounded
  <1>3. PICK U \in Bad : \A V \in Bad : <<V, U>> \notin StrictSubsetOrdering(J)
    <2>1. Bad \subseteq FiniteSubsetsOf(J)
      OBVIOUS
    <2> HIDE DEF Bad
    <2>2. QED
      BY <1>1, <1>2, <2>1, WFMin
  <1>4. PICK x \in U : TRUE
    OBVIOUS
  <1> DEFINE V == U \ {x}
  <1>5. V \in FiniteSubsetsOf(J) /\ <<V, U>> \in StrictSubsetOrdering(J)
    BY <1>4, FS_RemoveElement DEF FiniteSubsetsOf, StrictSubsetOrdering
  <1>6. V = {} \/ Has(V)
    BY <1>3, <1>5
  <1>7. Has(U)
    <2>1. \A j \in U : f[j] \in Nat
      BY DEF FiniteSubsetsOf
    <2>2. CASE V = {}
      BY <1>4, <2>1, <2>2
    <2>3. CASE Has(V)
      <3>1. PICK i \in V : \A j \in V : f[j] <= f[i]
        BY <2>3
      <3>2. CASE f[i] <= f[x]
        BY <1>4, <2>1, <3>1, <3>2
      <3>3. CASE f[x] <= f[i]
        BY <1>4, <2>1, <3>1, <3>3
      <3>4. QED
        BY <1>4, <2>1, <3>1, <3>2, <3>3
    <2>4. QED
      BY <1>6, <2>2, <2>3
  <1>8. QED
    BY <1>7

\* A number, one more than the greatest of finitely many or 0.
LEMMA MaxOf ==
  ASSUME NEW J, IsFiniteSet(J), NEW f, \A j \in J : f[j] \in Nat
  PROVE  LET m == Max({f[j] : j \in J} \cup {0})
         IN  m \in Nat /\ (\A j \in J : f[j] <= m) /\ (m = 0 \/ \E j \in J : m = f[j])
  <1> USE DEF Request
  <1> DEFINE S == {f[j] : j \in J} \cup {0}
  <1>1. \E m \in S : \A y \in S : m >= y
    <2>1. CASE J = {}
      BY <2>1
    <2>2. CASE J # {}
      <3>1. PICK i \in J : \A j \in J : f[j] <= f[i]
        BY <2>2, Greatest
      <3>2. QED
        BY <3>1
    <2>3. QED
      BY <2>1, <2>2
  <1>2. Max(S) \in S /\ \A y \in S : Max(S) >= y
    BY <1>1 DEF Max
  <1> HIDE DEF Max
  <1>3. QED
    BY <1>2

-----------------------------------------------------------------------------
(* The tables and the requests.                                            *)

OpenIn(table) == {s \in DOMAIN table : table[s].outcome = "open"}
OneOpen(table) == \A a, b \in OpenIn(table) : a = b

\* The steps of a request that has read a session.
WithSession == {"skipped", "timed_out_empty", "read", "store", "insert", "resolve", "commit"}

\* The steps of a submission that may still insert a row.
Submitting == {"posted", "read", "store", "insert"}

\* A request holds what its step needs.
Prepared ==
    \A r \in Requests :
        /\ request[r].step # "idle" => request[r].tab # None
        /\ request[r].step \in WithSession => request[r].session # 0
        /\ request[r].step \in Submitting => request[r].drawn # None
        /\ request[r].step \in {"store", "insert"} => request[r].index # 0

\* Every submission that is under way has room for its row.
RoomKept == Len(rows) + Cardinality(InFlight) <= MaxRows

\* The archive is a record, and holds what was in the directory.
ArchiveOK ==
    backup \in [step : {"none", "snapshot", "tar", "done"}, rows : Seq(Row), files : SUBSET DOMAIN files]

CoreInv ==
    /\ TypeOK
    /\ ArchiveOK
    /\ world \in Worlds
    /\ Prepared
    /\ RoomKept
    /\ OneOpenSession

\* A table of sessions as the database allows it.
Table(table) ==
    /\ table \in Seq(Session)
    /\ Len(table) <= MaxSessions
    /\ OneOpen(table)

\* No session is lost or becomes another one.
Extends(new, old) ==
    /\ Len(old) <= Len(new)
    /\ \A s \in DOMAIN old : /\ s \in DOMAIN new
                             /\ new[s].pokemon = old[s].pokemon
                             /\ new[s].chosen = old[s].chosen

\* A table that has not changed extends itself.
LEMMA ExtendsItself ==
  ASSUME NEW table, Table(table)
  PROVE  Extends(table, table)
  BY DEF Table, Extends

\* An extension of an extension is one.
LEMMA ExtendsOn ==
  ASSUME NEW a, NEW b, NEW c, Table(a), Table(b), Table(c), Extends(b, a), Extends(c, b)
  PROVE  Extends(c, a)
  BY DEF Table, Extends

\* The sessions of a table are those of another, and more.
Grows(new, old) == \A s \in DOMAIN old : s \in DOMAIN new /\ new[s] = old[s]

\* One open session was added where none was open.
OpensOne(new, old) ==
    /\ OpenIn(old) = {}
    /\ OpenIn(new) = {Len(old) + 1}
    /\ DOMAIN new = DOMAIN old \cup {Len(old) + 1}

\* assign() adds a session only where none is open.
LEMMA Added ==
  ASSUME NEW table, Table(table), MaxSessions \in Nat, NEW p \in Pokemon, NEW chosen \in BOOLEAN,
         NEW new, new = AddSession(table, p, chosen)
  PROVE  /\ Table(new) /\ Extends(new, table)
         /\ Grows(new, table)
         /\ new = table \/ (OpensOne(new, table) /\ new[Len(table) + 1].chosen = chosen)
  <1>1. NewSession(p, chosen) \in Session
    BY DEF NewSession, Session
  <1>2. CASE new = table
    BY <1>2, ExtendsItself DEF Grows
  <1>3. CASE /\ OpenIn(table) = {} /\ Len(table) < MaxSessions
             /\ new = Append(table, NewSession(p, chosen))
    <2>1. /\ new \in Seq(Session) /\ Len(new) = Len(table) + 1 /\ Len(table) \in Nat
          /\ \A s \in 1..Len(table) : new[s] = table[s]
          /\ new[Len(new)] = NewSession(p, chosen)
      BY <1>1, <1>3 DEF Table
    <2>2. DOMAIN table = 1..Len(table) /\ DOMAIN new = 1..(Len(table) + 1)
      BY <2>1 DEF Table
    <2>3. new[Len(table) + 1].outcome = "open"
      BY <2>1 DEF NewSession
    <2>4. OpenIn(new) = {Len(table) + 1}
      BY <1>3, <2>1, <2>2, <2>3 DEF OpenIn
    <2>5. OneOpen(new)
      BY <2>4 DEF OneOpen
    <2>6. Table(new)
      BY <1>3, <2>1, <2>5 DEF Table
    <2>7. Extends(new, table)
      BY <2>1, <2>2 DEF Extends
    <2>8. DOMAIN new = DOMAIN table \cup {Len(table) + 1}
      BY <2>1, <2>2
    <2>9. new[Len(table) + 1].chosen = chosen
      BY <2>1 DEF NewSession
    <2>10. \A s \in DOMAIN table : new[s] = table[s]
      BY <2>1, <2>2
    <2>11. QED
      BY <1>3, <2>4, <2>6, <2>7, <2>8, <2>9, <2>10 DEF Grows, OpensOne
  <1>4. CASE OpenIn(table) = {}
    <2>1. \A s \in DOMAIN table : table[s].outcome # "open"
      BY <1>4 DEF OpenIn
    <2>2. QED
      BY <1>2, <1>3, <1>4, <2>1 DEF AddSession, Table
  <1>5. CASE OpenIn(table) # {}
    <2>1. \E s \in DOMAIN table : table[s].outcome = "open"
      BY <1>5 DEF OpenIn
    <2>2. QED
      BY <1>2, <2>1 DEF AddSession
  <1>6. QED
    BY <1>4, <1>5

\* The two ways to add one: dealt, and chosen.
LEMMA AddedDealt ==
  ASSUME NEW table, Table(table), MaxSessions \in Nat, NEW p \in Pokemon,
         NEW new, new = AddSession(table, p, FALSE)
  PROVE  /\ Table(new) /\ Grows(new, table)
         /\ new = table \/ (OpensOne(new, table) /\ ~new[Len(table) + 1].chosen)
  BY Added

\* So with a session for a free pick.
LEMMA AddedChosen ==
  ASSUME NEW table, Table(table), MaxSessions \in Nat, NEW p \in Pokemon,
         NEW new, new = AddSession(table, p, TRUE)
  PROVE  /\ Table(new) /\ Grows(new, table)
         /\ new = table \/ OpensOne(new, table)
  BY Added

\* Session s of the table is closed, with this outcome.
Closes(new, old, s, outcome) ==
    /\ DOMAIN new = DOMAIN old
    /\ OpenIn(new) = OpenIn(old) \ {s}
    /\ new[s].outcome = outcome
    /\ \A x \in DOMAIN old : x # s => new[x] = old[x]

\* Resolving a session closes it and moves nothing else.
LEMMA Resolved ==
  ASSUME NEW table, Table(table), NEW s \in DOMAIN table,
         NEW outcome \in {"submitted", "skipped", "timed_out_empty"},
         NEW new, new = [table EXCEPT ![s].outcome = outcome]
  PROVE  /\ Table(new) /\ Extends(new, table)
         /\ Closes(new, table, s, outcome)
  <1>1. table[s] \in Session
    BY DEF Table
  <1>2. [table[s] EXCEPT !.outcome = outcome] \in Session
    BY <1>1 DEF Session
  <1>3. new \in Seq(Session) /\ Len(new) = Len(table) /\ DOMAIN new = DOMAIN table
    BY <1>2 DEF Table
  <1>4. \A x \in DOMAIN table : x # s => new[x] = table[x]
    BY DEF Table
  <1>5. new[s] = [table[s] EXCEPT !.outcome = outcome]
    BY DEF Table
  <1>6. /\ new[s].outcome = outcome /\ new[s].pokemon = table[s].pokemon
        /\ new[s].chosen = table[s].chosen
    BY <1>1, <1>5 DEF Session
  <1>7. OpenIn(new) = OpenIn(table) \ {s}
    BY <1>3, <1>4, <1>6 DEF OpenIn
  <1>8. Table(new)
    BY <1>3, <1>7 DEF Table, OneOpen
  <1>9. Extends(new, table)
    <2>1. Len(table) <= Len(new)
      BY <1>3 DEF Table
    <2>2. QED
      BY <1>3, <1>4, <1>6, <2>1 DEF Extends
  <1>10. QED
    BY <1>3, <1>4, <1>6, <1>7, <1>8, <1>9 DEF Closes

\* What the assumption says of the world at hand.
LEMMA WorldOK ==
  ASSUME world \in Worlds
  PROVE  /\ world.tabs \subseteq Tabs /\ world.requests \subseteq Requests /\ Faults \in BOOLEAN
         /\ MaxSessions \in Nat /\ MaxRows \in Nat
  BY DrawAssumption DEF Faults, MaxSessions, MaxRows

\* A request that has read a session refers to a row of the table.
LEMMA SessionRead ==
  ASSUME CoreInv, NEW r \in Requests, request[r].step \in WithSession
  PROVE  /\ request[r].session \in DOMAIN sessions
         /\ TargetOf(r) \in Session
  BY DEF CoreInv, TypeOK, Request, Prepared, TargetOf

\* The sessions are a table of sessions.
LEMMA TableOK ==
  ASSUME CoreInv
  PROVE  Table(sessions)
  BY DEF CoreInv, TypeOK, OneOpenSession, Open, Sessions, OneOpen, OpenIn, Table

\* Every step keeps the table of sessions.
LEMMA SessionsNext ==
  ASSUME CoreInv, [Next]_vars
  PROVE  Table(sessions') /\ Extends(sessions', sessions)
  <1>1. Table(sessions) /\ Extends(sessions, sessions)
    BY TableOK, ExtendsItself
  <1>2. /\ MaxSessions \in Nat /\ world.requests \subseteq Requests
    BY WorldOK DEF CoreInv
  <1>3. CASE sessions' = sessions
    BY <1>1, <1>3
  <1>4. ASSUME NEW r \in Requests, assign(r) PROVE Table(sessions') /\ Extends(sessions', sessions)
    BY <1>1, <1>2, <1>4, Added DEF assign
  <1>5. ASSUME NEW r \in Requests, resolve_and_assign(r) PROVE Table(sessions') /\ Extends(sessions', sessions)
    <2> DEFINE resolved == [sessions EXCEPT ![request[r].session].outcome = request[r].step]
    <2>1. request[r].session \in DOMAIN sessions /\ request[r].step \in {"skipped", "timed_out_empty"}
      BY <1>5, SessionRead DEF resolve_and_assign, WithSession
    <2>2. Table(resolved) /\ Extends(resolved, sessions)
      BY <1>1, <2>1, Resolved
    <2>3. sessions' = resolved \/ \E p \in Pokemon : sessions' = AddSession(resolved, p, FALSE)
      BY <1>5 DEF resolve_and_assign
    <2> HIDE DEF resolved
    <2>4. QED
      BY <1>1, <1>2, <2>2, <2>3, Added, ExtendsOn
  <1>6. ASSUME NEW r \in Requests, open_choice(r) PROVE Table(sessions') /\ Extends(sessions', sessions)
    BY <1>1, <1>2, <1>6, Added DEF open_choice
  <1>7. ASSUME NEW r \in Requests, commit(r) PROVE Table(sessions') /\ Extends(sessions', sessions)
    <2>1. request[r].session \in DOMAIN sessions
      BY <1>7, SessionRead DEF commit, WithSession
    <2> DEFINE resolved == [sessions EXCEPT ![request[r].session].outcome = "submitted"]
    <2>2. Table(resolved) /\ Extends(resolved, sessions)
      BY <1>1, <2>1, Resolved
    <2>3. QED
      BY <1>7, <2>2 DEF commit
  <1>8. QED
    BY <1>2, <1>3, <1>4, <1>5, <1>6, <1>7
    DEF Next, Serve, vars, draw, skip_current, timed_out, choose, post_drawing, submit, store_drawing, write_once,
        create_submission, resolve_draw_session, delete, window_passes, fail, restart, Backup

\* The session that draw() resumes is the open one.
LEMMA Current ==
  ASSUME NEW table, Table(table), OpenIn(table) # {}
  PROVE  /\ Max(OpenIn(table)) \in OpenIn(table)
         /\ Max(OpenIn(table) \cup {0}) \in OpenIn(table)
         /\ \A s \in OpenIn(table) : s = Max(OpenIn(table) \cup {0})
  <1>1. PICK s \in OpenIn(table) : OpenIn(table) = {s}
    BY DEF Table, OneOpen
  <1>2. s \in Nat
    <2>1. s \in DOMAIN table
      BY <1>1 DEF OpenIn
    <2>2. QED
      BY <2>1 DEF Table
  <1>3. Max({s}) = s
    BY <1>2 DEF Max
  <1>4. Max({s} \cup {0}) = s
    BY <1>2 DEF Max
  <1>5. QED
    BY <1>1, <1>3, <1>4

\* The current session is the one that is open.
LEMMA CurrentSession ==
  ASSUME CoreInv, Open # {}
  PROVE  /\ current_session \in Open /\ current_session \in DOMAIN sessions
         /\ current_session # 0 /\ \A s \in Open : s = current_session
  <1>1. Table(sessions) /\ Open = OpenIn(sessions)
    BY TableOK DEF Open, OpenIn, Sessions
  <1>2. current_session \in Open /\ \A s \in Open : s = current_session
    BY <1>1, Current DEF current_session
  <1>3. current_session \in DOMAIN sessions
    BY <1>2 DEF Open, Sessions
  <1>4. QED
    BY <1>1, <1>2, <1>3 DEF Table

-----------------------------------------------------------------------------
(* How the requests move.                                                  *)

\* What one request may do in a step.
RequestStep(r, q) ==
    \/ q = Idle
    \/ /\ request[r] = Idle
       /\ \E t \in Tabs :
            \/ \E step \in {"assign", "open_choice"}, s \in 0..Len(sessions) :
                 q = [Idle EXCEPT !.step = step, !.tab = t, !.session = s]
            \/ \E step \in {"skipped", "timed_out_empty"} :
                 /\ Open # {}
                 /\ q = [Idle EXCEPT !.step = step, !.tab = t, !.session = current_session]
            \/ /\ shown[t] # None
               /\ Len(rows) + Cardinality(InFlight) < MaxRows
               /\ q = [Idle EXCEPT !.step = "posted", !.tab = t, !.drawn = shown[t]]
    \/ /\ request[r].step = "posted" /\ submit(r) /\ Open # {}
       /\ q = [request[r] EXCEPT !.step = "read", !.session = current_session]
    \/ /\ request[r].step = "read" /\ store_drawing(r)
       /\ <<TargetOf(r).pokemon, next_index(TargetOf(r).pokemon)>> \notin DOMAIN files
       /\ q = [request[r] EXCEPT !.step = "store", !.index = next_index(TargetOf(r).pokemon)]
    \/ request[r].step = "store" /\ write_once(r) /\ q = [request[r] EXCEPT !.step = "insert"]
    \/ request[r].step = "insert" /\ create_submission(r) /\ q = [request[r] EXCEPT !.step = "resolve"]
    \/ request[r].step = "resolve" /\ resolve_draw_session(r) /\ q = [request[r] EXCEPT !.step = "commit"]

\* What a tab begins with a request.
Beginning(r, t) ==
    draw(r, t) \/ skip_current(r, t) \/ timed_out(r, t) \/ choose(r, t) \/ post_drawing(r, t)

\* What a step is, request by request.
Action(r) ==
    \/ \E t \in world.tabs : Beginning(r, t)
    \/ assign(r) \/ resolve_and_assign(r) \/ open_choice(r)
    \/ submit(r) \/ store_drawing(r) \/ write_once(r)
    \/ create_submission(r) \/ resolve_draw_session(r) \/ commit(r)
    \/ fail(r)

\* Every step is one of a request, of an Admin, of the server or of the backup.
LEMMA ActionOf ==
  ASSUME [Next]_vars, world.requests \subseteq Requests
  PROVE  \/ UNCHANGED vars
         \/ /\ UNCHANGED <<world, backup>>
            /\ \/ \E r \in Requests : r \in world.requests /\ Action(r)
               \/ \E i \in Rows : delete(i)
               \/ window_passes
               \/ restart
         \/ UNCHANGED world /\ Backup
  BY DEF Next, Serve, Action, Beginning

\* The current session is one of the table, or 0.
LEMMA CurrentNumber ==
  ASSUME CoreInv
  PROVE  current_session \in 0..Len(sessions)
  <1>1. Table(sessions) /\ Open = OpenIn(sessions)
    BY TableOK DEF Open, OpenIn, Sessions
  <1>2. CASE Open = {}
    BY <1>1, <1>2 DEF current_session, Max, Table
  <1>3. CASE Open # {}
    <2>1. current_session \in Open
      BY <1>1, <1>3, Current DEF current_session
    <2>2. QED
      BY <1>1, <2>1 DEF OpenIn, Table
  <1>4. QED
    BY <1>2, <1>3

\* How a tab begins a request.
LEMMA Begun ==
  ASSUME CoreInv, NEW r \in Requests, NEW t \in Tabs, Beginning(r, t)
  PROVE  \/ request' = request
         \/ \E q : RequestStep(r, q) /\ request' = [request EXCEPT ![r] = q]
  <1> DEFINE Goal == \/ request' = request
                     \/ \E q : RequestStep(r, q) /\ request' = [request EXCEPT ![r] = q]
  <1>1. current_session \in 0..Len(sessions) /\ 0 \in 0..Len(sessions)
    BY CurrentNumber, TableOK DEF Table
  <1>2. ASSUME NEW step \in {"assign", "open_choice"}, NEW s \in 0..Len(sessions), Begin(r, t, step, s)
        PROVE  Goal
    <2> DEFINE q == [Idle EXCEPT !.step = step, !.tab = t, !.session = s]
    <2>1. RequestStep(r, q) /\ request' = [request EXCEPT ![r] = q]
      BY <1>2 DEF Begin, RequestStep
    <2>2. QED
      BY <2>1
  <1>3. ASSUME NEW step \in {"skipped", "timed_out_empty"}, Open # {}, Begin(r, t, step, current_session)
        PROVE  Goal
    <2> DEFINE q == [Idle EXCEPT !.step = step, !.tab = t, !.session = current_session]
    <2>1. RequestStep(r, q) /\ request' = [request EXCEPT ![r] = q]
      BY <1>3 DEF Begin, RequestStep
    <2>2. QED
      BY <2>1
  <1>4. ASSUME post_drawing(r, t) PROVE Goal
    <2> DEFINE q == [Idle EXCEPT !.step = "posted", !.tab = t, !.drawn = shown[t]]
    <2>1. RequestStep(r, q) /\ request' = [request EXCEPT ![r] = q]
      BY <1>4 DEF post_drawing, RequestStep
    <2>2. QED
      BY <2>1
  <1>5. ASSUME UNCHANGED request PROVE Goal
    BY <1>5
  <1> HIDE DEF Goal
  <1>6. ASSUME draw(r, t) PROVE Goal
    BY <1>1, <1>2, <1>5, <1>6 DEF draw
  <1>7. ASSUME skip_current(r, t) PROVE Goal
    BY <1>3, <1>7 DEF skip_current
  <1>8. ASSUME timed_out(r, t) PROVE Goal
    <2>1. CASE Open = {}
      BY <1>1, <1>2, <1>8, <2>1 DEF timed_out
    <2>2. CASE Open # {}
      BY <1>3, <1>8, <2>2 DEF timed_out
    <2>3. QED
      BY <2>1, <2>2
  <1>9. ASSUME choose(r, t) PROVE Goal
    BY <1>1, <1>2, <1>9 DEF choose
  <1>10. Goal
    BY <1>4, <1>6, <1>7, <1>8, <1>9 DEF Beginning
  <1>11. QED
    BY <1>10 DEF Goal

\* Ending, idle or moved on.
LEMMA RequestsNext ==
  ASSUME CoreInv, [Next]_vars
  PROVE  \/ request' = request
         \/ request' = [r \in Requests |-> Idle]
         \/ \E r \in Requests : \E q : RequestStep(r, q) /\ request' = [request EXCEPT ![r] = q]
  <1> DEFINE Goal == \/ request' = request
                     \/ request' = [r \in Requests |-> Idle]
                     \/ \E r \in Requests : \E q : RequestStep(r, q) /\ request' = [request EXCEPT ![r] = q]
  <1>0. world.tabs \subseteq Tabs /\ world.requests \subseteq Requests
    BY WorldOK DEF CoreInv
  <1>1. ASSUME NEW r \in Requests, End(r) PROVE Goal
    BY <1>1 DEF End, RequestStep
  <1>2. ASSUME NEW r \in Requests, NEW t \in Tabs, Beginning(r, t) PROVE Goal
    BY <1>2, Begun
  <1>6. ASSUME NEW r \in Requests, submit(r) PROVE Goal
    <2> DEFINE q == [request[r] EXCEPT !.step = "read", !.session = current_session]
    <2>1. CASE End(r)
      BY <1>1, <2>1
    <2>2. CASE ~Refused(r) /\ request' = [request EXCEPT ![r] = q]
      <3>1. RequestStep(r, q)
        BY <1>6, <2>2 DEF submit, Refused, RequestStep
      <3>2. QED
        BY <2>2, <3>1
    <2>3. QED
      BY <1>6, <2>1, <2>2 DEF submit
  <1>7. ASSUME NEW r \in Requests, store_drawing(r) PROVE Goal
    <2> DEFINE q == [request[r] EXCEPT !.step = "store", !.index = next_index(TargetOf(r).pokemon)]
    <2>1. CASE End(r)
      BY <1>1, <2>1
    <2>2. CASE /\ <<TargetOf(r).pokemon, next_index(TargetOf(r).pokemon)>> \notin DOMAIN files
               /\ request' = [request EXCEPT ![r].step = "store", ![r].index = next_index(TargetOf(r).pokemon)]
      <3>1. RequestStep(r, q)
        BY <1>7, <2>2 DEF store_drawing, RequestStep
      <3>2. request' = [request EXCEPT ![r] = q]
        BY <2>2
      <3>3. QED
        BY <3>1, <3>2
    <2>3. QED
      BY <1>7, <2>1, <2>2 DEF store_drawing
  <1>8. ASSUME NEW r \in Requests,
               NEW step, RequestStep(r, [request[r] EXCEPT !.step = step]), Goto(r, step)
        PROVE  Goal
    BY <1>8 DEF Goto
  <1>9. ASSUME NEW r \in Requests, write_once(r) PROVE Goal
    BY <1>8, <1>9 DEF write_once, RequestStep
  <1>10. ASSUME NEW r \in Requests, create_submission(r) PROVE Goal
    BY <1>1, <1>8, <1>10 DEF create_submission, RequestStep
  <1>11. ASSUME NEW r \in Requests, resolve_draw_session(r) PROVE Goal
    BY <1>8, <1>11 DEF resolve_draw_session, RequestStep
  <1>12. ASSUME NEW r \in Requests, assign(r) \/ resolve_and_assign(r) \/ open_choice(r) \/ commit(r) \/ fail(r)
         PROVE  Goal
    BY <1>1, <1>12 DEF assign, resolve_and_assign, open_choice, commit, fail
  <1>13. ASSUME UNCHANGED vars \/ Backup \/ window_passes \/ (\E i \in Rows : delete(i)) \/ restart
         PROVE  Goal
    BY <1>13 DEF vars, Backup, window_passes, delete, restart
  <1> HIDE DEF Goal
  <1>14. ASSUME NEW r \in Requests, Action(r) PROVE Goal
    BY <1>0, <1>2, <1>6, <1>7, <1>9, <1>10, <1>11, <1>12, <1>14 DEF Action
  <1>15. Goal
    BY <1>0, <1>13, <1>14, ActionOf
  <1>16. QED
    BY <1>15 DEF Goal

\* The next index is greater than every index of the Pokemon.
LEMMA NextIndex ==
  ASSUME rows \in Seq(Row), NEW p
  PROVE  /\ next_index(p) \in Nat \ {0}
         /\ \A i \in Rows : rows[i].pokemon = p => rows[i].index < next_index(p)
  <1> DEFINE J == {j \in Rows : rows[j].pokemon = p}
             f == [j \in J |-> rows[j].index]
  <1>1. IsFiniteSet(J)
    <2>1. Rows = 1..Len(rows) /\ Len(rows) \in Nat
      BY DEF Rows
    <2>2. IsFiniteSet(1..Len(rows))
      BY <2>1, FS_Interval
    <2>3. J \subseteq 1..Len(rows)
      BY <2>1
    <2>4. QED
      BY <2>2, <2>3, FS_Subset
  <1>2. \A j \in J : f[j] \in Nat
    <2>1. \A j \in Rows : rows[j] \in Row
      BY DEF Rows
    <2>2. QED
      BY <2>1 DEF Row
  <1>3. {f[j] : j \in J} = {rows[i].index : i \in J}
    OBVIOUS
  <1> DEFINE m == Max({f[j] : j \in J} \cup {0})
  <1>4. m \in Nat /\ \A j \in J : f[j] <= m
    <2> HIDE DEF J, f
    <2>1. QED
      BY <1>1, <1>2, MaxOf
  <1>5. next_index(p) = 1 + m
    BY <1>3 DEF next_index
  <1>6. QED
    <2> HIDE DEF m
    <2>1. \A i \in Rows : rows[i].pokemon = p => rows[i].index <= m /\ rows[i].index \in Nat
      BY <1>2, <1>4
    <2>2. QED
      BY <1>4, <1>5, <2>1

\* A page shows a Pokemon, or none.
LEMMA ShownNext ==
  ASSUME CoreInv, [Next]_vars
  PROVE  shown' \in [Tabs -> Pokemon \cup {None}]
  <1> USE DEF Request
  <1> DEFINE Goal == shown' \in [Tabs -> Pokemon \cup {None}]
  <1>1. /\ shown \in [Tabs -> Pokemon \cup {None}]
        /\ world.requests \subseteq Requests
    BY WorldOK DEF CoreInv, TypeOK
  <1>2. Table(sessions') /\ Table(sessions)
    BY SessionsNext, TableOK
  <1>3. ASSUME NEW t, NEW x \in Pokemon \cup {None}, Navigate(t, x)
        PROVE  Goal
    BY <1>1, <1>3 DEF Navigate
  <1>4. ASSUME NEW table, Table(table), NEW s \in DOMAIN table PROVE table[s].pokemon \in Pokemon
    <2>1. table[s] \in Session
      BY <1>4 DEF Table
    <2>2. QED
      BY <2>1 DEF Session
  <1>5. CASE UNCHANGED shown
    BY <1>1, <1>5
  <1>6. ASSUME UNCHANGED shown PROVE Goal
    BY <1>5, <1>6
  <1>7. ASSUME NEW t, Leave(t) PROVE Goal
    BY <1>3, <1>7 DEF Leave
  <1> HIDE DEF Goal
  <1>8. ASSUME NEW r, NEW t, draw(r, t) PROVE Goal
    <2>1. CASE Open = {}
      BY <1>6, <1>8, <2>1 DEF draw
    <2>2. CASE Open # {}
      <3>1. Navigate(t, sessions[current_session].pokemon) /\ current_session \in DOMAIN sessions
        BY <1>8, <2>2, CurrentSession DEF draw
      <3>2. QED
        BY <1>2, <1>3, <1>4, <3>1
    <2>3. QED
      BY <2>1, <2>2
  <1>9. ASSUME NEW r, assign(r) PROVE Goal
    <2> DEFINE open == {s \in DOMAIN sessions' : sessions'[s].outcome = "open"}
    <2>1. open = OpenIn(sessions')
      BY DEF OpenIn
    <2>2. CASE open = {}
      BY <1>3, <1>9, <2>2 DEF assign
    <2>3. CASE open # {}
      <3>1. Navigate(request[r].tab, sessions'[Max(open)].pokemon)
        BY <1>9, <2>3 DEF assign
      <3>2. Max(open) \in DOMAIN sessions'
        BY <1>2, <2>1, <2>3, Current DEF OpenIn
      <3>3. QED
        BY <1>2, <1>3, <1>4, <3>1, <3>2
    <2>4. QED
      BY <2>2, <2>3
  <1>10. ASSUME NEW r \in Requests, resolve_and_assign(r) \/ open_choice(r) \/ commit(r) PROVE Goal
    BY <1>7, <1>10 DEF resolve_and_assign, open_choice, commit
  <1>12. ASSUME NEW r \in Requests, Action(r) PROVE Goal
    BY <1>6, <1>8, <1>9, <1>10, <1>12
    DEF Action, Beginning, skip_current, timed_out, choose, post_drawing, submit, store_drawing, write_once,
        create_submission, resolve_draw_session, fail
  <1>13. Goal
    BY <1>1, <1>6, <1>12, ActionOf DEF vars, Backup, delete, window_passes, restart
  <1>14. QED
    BY <1>13 DEF Goal

\* What a request at its step must hold.
Ready(q) ==
    /\ q.step # "idle" => q.tab # None
    /\ q.step \in WithSession => q.session # 0
    /\ q.step \in Submitting => q.drawn # None
    /\ q.step \in {"store", "insert"} => q.index # 0

\* A request that moves on holds what its step needs.
LEMMA RequestMoves ==
  ASSUME CoreInv, NEW r \in Requests, NEW q, RequestStep(r, q)
  PROVE  /\ q \in Request /\ Ready(q)
         /\ q.step \in {"read", "store", "insert"} => r \in InFlight
         /\ q.step = "posted" => Len(rows) + Cardinality(InFlight) < MaxRows
  <1> USE DEF Request
  <1> DEFINE Goal == /\ q \in Request /\ Ready(q)
                     /\ q.step \in {"read", "store", "insert"} => r \in InFlight
                     /\ q.step = "posted" => Len(rows) + Cardinality(InFlight) < MaxRows
  <1>1. /\ request[r] \in Request /\ Len(sessions) \in Nat /\ rows \in Seq(Row)
        /\ shown \in [Tabs -> Pokemon \cup {None}]
    BY DEF CoreInv, TypeOK
  <1>2. Ready(request[r]) /\ None \notin Tabs
    BY DrawAssumption DEF CoreInv, Prepared, Ready
  <1>3. Idle \in Request
    BY <1>1 DEF Idle, Steps
  <1>4. /\ current_session \in 0..Len(sessions)
        /\ Open # {} => current_session # 0
    BY CurrentNumber, CurrentSession
  <1>5. CASE q = Idle
    BY <1>3, <1>5 DEF Idle, WithSession, Submitting, Ready
  <1>6. ASSUME NEW step \in {"assign", "open_choice", "skipped", "timed_out_empty"},
               NEW s \in 0..Len(sessions), NEW t \in Tabs,
               step \in {"skipped", "timed_out_empty"} => s # 0,
               q = [Idle EXCEPT !.step = step, !.tab = t, !.session = s]
        PROVE  Goal
    <2>1. q = [step |-> step, tab |-> t, drawn |-> None, session |-> s, index |-> 0]
      BY <1>6 DEF Idle
    <2>2. QED
      BY <1>1, <1>2, <1>6, <2>1 DEF Steps, WithSession, Submitting, Ready
  <1>7. ASSUME NEW t \in Tabs, shown[t] # None, Len(rows) + Cardinality(InFlight) < MaxRows,
               q = [Idle EXCEPT !.step = "posted", !.tab = t, !.drawn = shown[t]]
        PROVE  Goal
    <2>1. q = [step |-> "posted", tab |-> t, drawn |-> shown[t], session |-> 0, index |-> 0]
      BY <1>7 DEF Idle
    <2>2. QED
      BY <1>1, <1>2, <1>7, <2>1 DEF Steps, WithSession, Submitting, Ready
  <1>8. CASE /\ request[r].step = "posted" /\ Open # {}
             /\ q = [request[r] EXCEPT !.step = "read", !.session = current_session]
    <2>1. q = [request[r] EXCEPT !.step = "read", !.session = current_session]
      BY <1>8
    <2>2. /\ q.step = "read" /\ q.session = current_session /\ q.tab = request[r].tab
          /\ q.drawn = request[r].drawn /\ q \in Request
      BY <1>1, <1>4, <2>1 DEF Steps
    <2>3. QED
      BY <1>2, <1>4, <1>8, <2>2 DEF WithSession, Submitting, Ready, InFlight
  <1>9. CASE /\ request[r].step = "read"
             /\ q = [request[r] EXCEPT !.step = "store", !.index = next_index(TargetOf(r).pokemon)]
    <2>1. next_index(TargetOf(r).pokemon) \in Nat \ {0}
      BY <1>1, NextIndex
    <2> HIDE DEF next_index
    <2>2. /\ q.step = "store" /\ q.session = request[r].session /\ q.tab = request[r].tab
          /\ q.drawn = request[r].drawn /\ q.index = next_index(TargetOf(r).pokemon) /\ q \in Request
      BY <1>1, <1>9, <2>1 DEF Steps
    <2>3. QED
      BY <1>2, <1>9, <2>1, <2>2 DEF WithSession, Submitting, Ready, InFlight
  <1>10. ASSUME NEW step,
               \/ request[r].step = "store" /\ step = "insert"
               \/ request[r].step = "insert" /\ step = "resolve"
               \/ request[r].step = "resolve" /\ step = "commit",
               q = [request[r] EXCEPT !.step = step]
        PROVE  Goal
    <2>1. /\ q.step = step /\ q.session = request[r].session /\ q.tab = request[r].tab
          /\ q.drawn = request[r].drawn /\ q.index = request[r].index /\ q \in Request
      BY <1>1, <1>10 DEF Steps
    <2>2. QED
      BY <1>2, <1>10, <2>1 DEF WithSession, Submitting, Ready, InFlight
  <1> HIDE DEF Goal, Request
  <1>11. ASSUME request[r] = Idle, q # Idle PROVE Goal
    <2>1. request[r].step = "idle"
      BY <1>11 DEF Idle
    <2>2. PICK t \in Tabs :
            \/ \E step \in {"assign", "open_choice"}, s \in 0..Len(sessions) :
                 q = [Idle EXCEPT !.step = step, !.tab = t, !.session = s]
            \/ \E step \in {"skipped", "timed_out_empty"} :
                 /\ Open # {}
                 /\ q = [Idle EXCEPT !.step = step, !.tab = t, !.session = current_session]
            \/ /\ shown[t] # None
               /\ Len(rows) + Cardinality(InFlight) < MaxRows
               /\ q = [Idle EXCEPT !.step = "posted", !.tab = t, !.drawn = shown[t]]
      BY <1>11, <2>1, ZenonT(40) DEF RequestStep
    <2>3. ASSUME NEW step \in {"assign", "open_choice"}, NEW s \in 0..Len(sessions),
                 q = [Idle EXCEPT !.step = step, !.tab = t, !.session = s]
          PROVE  Goal
      BY <1>6, <2>3
    <2>4. ASSUME NEW step \in {"skipped", "timed_out_empty"}, Open # {},
                 q = [Idle EXCEPT !.step = step, !.tab = t, !.session = current_session]
          PROVE  Goal
      BY <1>4, <1>6, <2>4
    <2>5. ASSUME shown[t] # None, Len(rows) + Cardinality(InFlight) < MaxRows,
                 q = [Idle EXCEPT !.step = "posted", !.tab = t, !.drawn = shown[t]]
          PROVE  Goal
      BY <1>7, <2>5
    <2>6. QED
      BY <2>2, <2>3, <2>4, <2>5, Zenon
  <1>12. ASSUME request[r].step \in {"store", "insert", "resolve"}, q # Idle PROVE Goal
    <2>1. request[r] # Idle
      BY <1>12 DEF Idle
    <2>2. QED
      BY <1>10, <1>12, <2>1 DEF RequestStep
  <1>13. CASE q # Idle
    <2>1. Goal
      BY <1>8, <1>9, <1>11, <1>12, <1>13 DEF RequestStep, Goal
    <2>2. QED
      BY <2>1 DEF Goal
  <1>14. QED
    BY <1>5, <1>13

\* Every step keeps the requests typed and prepared.
LEMMA RequestsTyped ==
  ASSUME CoreInv, [Next]_vars
  PROVE  /\ request' \in [Requests -> Request']
         /\ Prepared'
  <1>1. request \in [Requests -> Request] /\ \A r \in Requests : Ready(request[r])
    BY DEF CoreInv, TypeOK, Prepared, Ready
  <1>2. Idle \in Request /\ Ready(Idle)
    BY DEF CoreInv, TypeOK, Request, Idle, Steps, WithSession, Submitting, Ready
  <1>3. request' \in [Requests -> Request] /\ \A r \in Requests : Ready(request'[r])
    <2>1. ASSUME NEW r \in Requests, NEW q, RequestStep(r, q), request' = [request EXCEPT ![r] = q]
          PROVE  request' \in [Requests -> Request] /\ \A u \in Requests : Ready(request'[u])
      <3>1. q \in Request /\ Ready(q)
        BY <2>1, RequestMoves
      <3>2. QED
        BY <1>1, <2>1, <3>1
    <2>2. QED
      BY <1>1, <1>2, <2>1, RequestsNext
  <1>4. request' \in [Requests -> Request']
    <2>1. Len(sessions) <= Len(sessions') /\ Len(sessions) \in Nat /\ Len(sessions') \in Nat
      BY SessionsNext, TableOK DEF Extends, Table
    <2>2. Request \subseteq Request'
      BY <2>1 DEF Request
    <2>3. QED
      BY <1>3, <2>2
  <1>5. Prepared'
    BY <1>3 DEF Prepared, Ready
  <1>6. QED
    BY <1>4, <1>5

\* What a step does to the rows: none, one more, or one of them deleted.
LEMMA RowsNext ==
  ASSUME [Next]_vars, world.requests \subseteq Requests
  PROVE  \/ rows' = rows
         \/ \E r \in Requests : /\ create_submission(r)
                            /\ rows' = Append(rows, NewRow(r))
                            /\ ~\E i \in Rows : <<rows[i].pokemon, rows[i].index>> = FileOf(r)
                            /\ Goto(r, "resolve")
         \/ \E i \in Rows : rows' = [rows EXCEPT ![i].deleted = TRUE] /\ UNCHANGED <<sessions, files, request>>
  <1>1. ASSUME NEW r \in Requests, create_submission(r)
        PROVE  \/ rows' = rows
               \/ /\ rows' = Append(rows, NewRow(r))
                  /\ ~\E i \in Rows : <<rows[i].pokemon, rows[i].index>> = FileOf(r)
                  /\ Goto(r, "resolve")
    BY <1>1 DEF create_submission
  <1>2. ASSUME NEW r \in Requests, Action(r), ~create_submission(r) PROVE rows' = rows
    BY <1>2 DEF Action, Beginning, draw, assign, skip_current, timed_out, resolve_and_assign, choose, open_choice,
                post_drawing, submit, store_drawing, write_once, resolve_draw_session, commit, fail
  <1>3. ASSUME NEW i \in Rows, delete(i)
        PROVE  rows' = [rows EXCEPT ![i].deleted = TRUE] /\ UNCHANGED <<sessions, files, request>>
    BY <1>3 DEF delete
  <1>4. CASE UNCHANGED vars \/ Backup \/ window_passes \/ restart
    BY <1>4 DEF vars, Backup, window_passes, restart
  <1>5. QED
    BY <1>1, <1>2, <1>3, <1>4, ActionOf

\* The row that is inserted is a row.
LEMMA RowAdded ==
  ASSUME CoreInv, NEW r \in Requests, request[r].step = "insert"
  PROVE  NewRow(r) \in Row /\ r \in InFlight
  <1>1. TargetOf(r) \in Session
    BY SessionRead DEF WithSession
  <1>2. /\ request[r].index \in Nat \ {0} /\ request[r].session \in Nat
        /\ request[r].drawn \in Pokemon
    BY DEF CoreInv, TypeOK, Request, Prepared, Submitting
  <1>3. TargetOf(r).pokemon \in Pokemon /\ TargetOf(r).chosen \in BOOLEAN
    BY <1>1 DEF Session
  <1>4. QED
    BY <1>2, <1>3 DEF NewRow, PostedBy, Row, InFlight

\* The submissions under way are finite in number.
LEMMA InFlightFinite ==
  /\ IsFiniteSet(InFlight) /\ Cardinality(InFlight) \in Nat
  /\ IsFiniteSet(InFlight)' /\ Cardinality(InFlight)' \in Nat
  <1>1. InFlight \subseteq Requests /\ InFlight' \subseteq Requests
    BY DEF InFlight
  <1>2. QED
    BY <1>1, DrawAssumption, FS_Subset, FS_CardinalityType

\* A row takes the room that its submission kept.
LEMMA RoomNext ==
  ASSUME CoreInv, [Next]_vars
  PROVE  /\ RoomKept'
         /\ rows' \in Seq(Row) /\ Len(rows') <= MaxRows
  <1> DEFINE Goal == RoomKept' /\ rows' \in Seq(Row) /\ Len(rows') <= MaxRows
  <1>1. /\ rows \in Seq(Row) /\ Len(rows) \in Nat
        /\ Len(rows) + Cardinality(InFlight) <= MaxRows
        /\ world.requests \subseteq Requests /\ MaxRows \in Nat
        /\ request \in [Requests -> Request]
    BY WorldOK DEF CoreInv, TypeOK, RoomKept
  <1>2. world' = world
    BY DEF Next, vars
  <1>3. ASSUME NEW r \in Requests, create_submission(r), rows' = Append(rows, NewRow(r))
        PROVE  Goal
    <2>1. rows' # rows
      BY <1>1, <1>3
    <2>2. request[r].step = "insert" /\ request'[r].step = "resolve"
          /\ \A u \in Requests \ {r} : request'[u] = request[u]
      BY <1>1, <1>3, <2>1 DEF create_submission, Goto, Request
    <2>3. NewRow(r) \in Row /\ r \in InFlight
      BY <2>2, RowAdded
    <2>4. rows' \in Seq(Row) /\ Len(rows') = Len(rows) + 1
      BY <1>1, <1>3, <2>3
    <2>5. InFlight' = InFlight \ {r}
      BY <2>2 DEF InFlight
    <2>6. Cardinality(InFlight') = Cardinality(InFlight) - 1
      BY <2>3, <2>5, InFlightFinite, FS_RemoveElement
    <2>7. QED
      BY <1>1, <1>2, <2>4, <2>6, InFlightFinite DEF RoomKept, MaxRows
  <1>4. CASE Len(rows') = Len(rows) /\ rows' \in Seq(Row)
    <2>1. SUFFICES Len(rows) + Cardinality(InFlight') <= MaxRows
      BY <1>1, <1>2, <1>4, InFlightFinite DEF RoomKept, MaxRows
    <2>2. CASE InFlight' \subseteq InFlight
      <3>1. Cardinality(InFlight') <= Cardinality(InFlight)
        BY <2>2, InFlightFinite, FS_Subset
      <3>2. QED
        BY <1>1, <3>1, InFlightFinite
    <2>3. ASSUME NEW r \in Requests, NEW q, RequestStep(r, q), request' = [request EXCEPT ![r] = q]
          PROVE  Len(rows) + Cardinality(InFlight') <= MaxRows
      <3>1. /\ q.step \in {"read", "store", "insert"} => r \in InFlight
            /\ q.step = "posted" => Len(rows) + Cardinality(InFlight) < MaxRows
        BY <2>3, RequestMoves
      <3>2. request'[r] = q /\ \A u \in Requests \ {r} : request'[u] = request[u]
        BY <1>1, <2>3
      <3>3. CASE q.step = "posted"
        <4>1. InFlight' \subseteq InFlight \cup {r}
          BY <3>2 DEF InFlight
        <4>2. /\ IsFiniteSet(InFlight \cup {r})
              /\ Cardinality(InFlight \cup {r}) <= Cardinality(InFlight) + 1
              /\ Cardinality(InFlight \cup {r}) \in Nat
          <5>1. CASE r \in InFlight
            <6>1. InFlight \cup {r} = InFlight
              BY <5>1
            <6>2. QED
              BY <6>1, InFlightFinite
          <5>2. CASE r \notin InFlight
            BY <5>2, InFlightFinite, FS_AddElement
          <5>3. QED
            BY <5>1, <5>2
        <4>3. Cardinality(InFlight') <= Cardinality(InFlight \cup {r})
          BY <4>1, <4>2, FS_Subset
        <4>4. QED
          BY <1>1, <3>1, <3>3, <4>2, <4>3, InFlightFinite
      <3>4. CASE q.step # "posted"
        <4>1. InFlight' \subseteq InFlight
          BY <3>1, <3>2, <3>4 DEF InFlight
        <4>2. QED
          BY <2>2, <4>1
      <3>5. QED
        BY <3>3, <3>4
    <2>4. CASE request' = request \/ request' = [r \in Requests |-> Idle]
      <3>1. InFlight' \subseteq InFlight
        BY <2>4 DEF InFlight, Idle
      <3>2. QED
        BY <2>2, <3>1
    <2>5. QED
      BY <1>1, <2>3, <2>4, RequestsNext
  <1>5. ASSUME NEW i \in Rows, rows' = [rows EXCEPT ![i].deleted = TRUE]
        PROVE  Goal
    <2>2. rows[i] \in Row
      BY <1>1 DEF Rows
    <2>3. [rows[i] EXCEPT !.deleted = TRUE] \in Row
      BY <2>2 DEF Row
    <2>4. rows' = [rows EXCEPT ![i] = [rows[i] EXCEPT !.deleted = TRUE]] /\ i \in 1..Len(rows)
      BY <1>1, <1>5 DEF Rows
    <2>5. rows' \in Seq(Row) /\ Len(rows') = Len(rows)
      BY <1>1, <2>3, <2>4
    <2>6. QED
      BY <1>4, <2>5
  <1>6. ASSUME rows' = rows PROVE Goal
    BY <1>1, <1>4, <1>6
  <1> HIDE DEF Goal
  <1>7. Goal
    BY <1>1, <1>3, <1>5, <1>6, RowsNext
  <1>8. QED
    BY <1>7 DEF Goal

\* What a step does to the images directory.
LEMMA FilesNext ==
  ASSUME [Next]_vars, world.requests \subseteq Requests
  PROVE  \/ files' = files
         \/ \E r \in Requests : /\ write_once(r)
                            /\ DOMAIN files' = DOMAIN files \cup {FileOf(r)}
                            /\ files'[FileOf(r)] = PostedBy(r)
                            /\ \A f \in DOMAIN files : f # FileOf(r) => files'[f] = files[f]
  <1>1. ASSUME NEW r \in Requests, write_once(r)
        PROVE  /\ DOMAIN files' = DOMAIN files \cup {FileOf(r)}
               /\ files'[FileOf(r)] = PostedBy(r)
               /\ \A f \in DOMAIN files : f # FileOf(r) => files'[f] = files[f]
    BY <1>1 DEF write_once
  <1>2. ASSUME NEW r \in Requests, Action(r), ~write_once(r) PROVE files' = files
    BY <1>2 DEF Action, Beginning, draw, assign, skip_current, timed_out, resolve_and_assign, choose, open_choice,
                post_drawing, submit, store_drawing, create_submission, resolve_draw_session, commit, fail
  <1>3. CASE UNCHANGED vars \/ Backup \/ window_passes \/ restart \/ \E i \in Rows : delete(i)
    BY <1>3 DEF vars, Backup, window_passes, restart, delete
  <1>4. QED
    BY <1>1, <1>2, <1>3, ActionOf

\* Every step keeps the files typed, and removes none.
LEMMA FilesTyped ==
  ASSUME CoreInv, [Next]_vars
  PROVE  /\ \A f \in DOMAIN files' : f \in Pokemon \X Nat /\ files'[f] \in Requests \X Pokemon
         /\ DOMAIN files \subseteq DOMAIN files'
  <1>1. /\ \A f \in DOMAIN files : f \in Pokemon \X Nat /\ files[f] \in Requests \X Pokemon
        /\ world.requests \subseteq Requests
    BY WorldOK DEF CoreInv, TypeOK
  <1>2. ASSUME NEW r \in Requests, write_once(r)
        PROVE  FileOf(r) \in Pokemon \X Nat /\ PostedBy(r) \in Requests \X Pokemon
    <2>1. request[r].step = "store"
      BY <1>2 DEF write_once
    <2>2. TargetOf(r) \in Session /\ request[r].index \in Nat /\ request[r].drawn \in Pokemon
      BY <2>1, SessionRead DEF WithSession, CoreInv, TypeOK, Request, Prepared, Submitting
    <2>3. QED
      BY <2>2 DEF FileOf, PostedBy, Session
  <1>3. QED
    BY <1>1, <1>2, FilesNext

\* Every step keeps the archive a part of the directory.
LEMMA ArchiveNext ==
  ASSUME CoreInv, [Next]_vars
  PROVE  ArchiveOK'
  <1> USE DEF Request
  <1>1. ArchiveOK /\ rows \in Seq(Row) /\ DOMAIN files \subseteq DOMAIN files'
    BY FilesTyped DEF CoreInv, TypeOK
  <1>2. CASE UNCHANGED backup
    BY <1>1, <1>2 DEF ArchiveOK
  <1>3. CASE Backup
    <2>1. files' = files
      BY <1>3 DEF Backup
    <2>2. CASE backup_snapshot
      BY <1>1, <2>1, <2>2 DEF backup_snapshot, ArchiveOK
    <2>3. CASE tar_begins
      BY <1>1, <2>1, <2>3 DEF tar_begins, ArchiveOK
    <2>4. CASE tar_ends
      BY <1>1, <2>1, <2>4 DEF tar_ends, ArchiveOK
    <2>5. QED
      BY <1>3, <2>2, <2>3, <2>4 DEF Backup
  <1>4. QED
    BY <1>2, <1>3 DEF Next, vars

\* The core invariant holds at first.
LEMMA CoreInit ==
  ASSUME Init
  PROVE  CoreInv
  <1>1. MaxSessions \in Nat /\ MaxRows \in Nat
    BY WorldOK DEF Init
  <1>2. InFlight = {}
    BY DEF Init, Idle, InFlight
  <1>3. RoomKept
    BY <1>1, <1>2, FS_EmptySet DEF Init, RoomKept
  <1>4. TypeOK
    BY <1>1 DEF Init, TypeOK, Request, Idle, Steps, NoBackup
  <1>5. ArchiveOK
    BY DEF Init, ArchiveOK, NoBackup
  <1>6. QED
    BY <1>3, <1>4, <1>5 DEF Init, CoreInv, Prepared, Submitting, OneOpenSession, Open, Sessions, Idle, WithSession

\* Every step keeps the core invariant.
LEMMA CoreNext ==
  ASSUME CoreInv, [Next]_vars
  PROVE  CoreInv'
  <1> USE DEF Request
  <1>1. world' = world /\ world \in Worlds
    BY DEF Next, vars, CoreInv
  <1>2. sessions' \in Seq(Session) /\ Len(sessions') <= MaxSessions' /\ OneOpenSession'
    BY <1>1, SessionsNext DEF Table, MaxSessions, OneOpen, OpenIn, OneOpenSession, Open, Sessions
  <1>3. rows' \in Seq(Row) /\ Len(rows') <= MaxRows' /\ RoomKept'
    BY <1>1, RoomNext DEF MaxRows
  <1>4. throttled' \subseteq {ClientOf[t] : t \in Tabs}
    <2>1. throttled \subseteq {ClientOf[t] : t \in Tabs} /\ world.requests \subseteq Requests
      BY WorldOK DEF CoreInv, TypeOK
    <2>2. ASSUME NEW r \in Requests, submit(r) PROVE throttled' \subseteq {ClientOf[t] : t \in Tabs}
      <3>1. request[r].tab \in Tabs
        BY <2>2 DEF submit, CoreInv, Prepared, TypeOK, Request
      <3>2. QED
        BY <2>1, <2>2, <3>1 DEF submit
    <2>3. ASSUME NEW r \in Requests, Action(r), ~submit(r) PROVE throttled' = throttled
      BY <2>3 DEF Action, Beginning, draw, assign, skip_current, timed_out, resolve_and_assign, choose, open_choice,
                post_drawing, store_drawing, write_once, create_submission, resolve_draw_session, commit, fail
    <2>4. CASE UNCHANGED vars \/ Backup \/ window_passes \/ restart \/ \E i \in Rows : delete(i)
      BY <2>1, <2>4 DEF vars, Backup, window_passes, restart, delete
    <2>5. QED
      BY <2>1, <2>2, <2>3, <2>4, ActionOf
  <1>5. TypeOK'
    <2>1. backup.rows' \in Seq(Row) /\ backup.files' \subseteq DOMAIN files'
      BY ArchiveNext DEF ArchiveOK
    <2>2. QED
      BY <1>2, <1>3, <1>4, <2>1, ShownNext, RequestsTyped, FilesTyped DEF TypeOK
  <1>6. QED
    BY <1>1, <1>2, <1>3, <1>5, ArchiveNext, RequestsTyped DEF CoreInv

\* Every behaviour keeps the types: no request ever refers to a session that is
\* not in the table, and no row lacks a part.
THEOREM Typed == Spec => []TypeOK
  <1>1. CoreInv => TypeOK
    BY DEF CoreInv
  <1>2. QED
    BY <1>1, CoreInit, CoreNext, PTL DEF Spec

\* The player never has two assignments to resume, whatever tabs race for one
\* (models.py:191-201).
THEOREM OneAssignment == Spec => []OneOpenSession
  <1>1. CoreInv => OneOpenSession
    BY DEF CoreInv
  <1>2. QED
    BY <1>1, CoreInit, CoreNext, PTL DEF Spec

-----------------------------------------------------------------------------
(* Files and their rows.                                                   *)

\* Only one submission at a time is between its index and its last UPDATE.
OneOnLoop ==
    \A r, u \in Requests : request[r].step \in {"store", "insert", "resolve"}
                       /\ request[u].step \in {"store", "insert", "resolve"} => r = u

\* A file that is about to be written is not there; one that was just written
\* has the picture of its submission.
NameFree == \A r \in Requests : request[r].step = "store" => FileOf(r) \notin DOMAIN files
JustWritten ==
    \A r \in Requests : request[r].step = "insert" =>
                       FileOf(r) \in DOMAIN files /\ files[FileOf(r)] = PostedBy(r)

RowsHaveSessions == \A i \in Rows : rows[i].session \in Sessions

\* The files of the snapshot are there, and from tar on in the archive.
SnapshotFiles ==
    \A i \in DOMAIN backup.rows :
        LET f == <<backup.rows[i].pokemon, backup.rows[i].index>>
        IN  /\ backup.step = "snapshot" => f \in DOMAIN files
            /\ backup.step \in {"tar", "done"} => f \in backup.files

FileInv ==
    /\ CoreInv
    /\ OneOnLoop /\ NameFree /\ JustWritten
    /\ FileOfItsRow
    /\ RowsHaveSessions /\ RowMatchesSession
    /\ SnapshotFiles

\* A row stays what it is, but for deleted; a new one is its submission's.
LEMMA RowsKept ==
  ASSUME CoreInv, [Next]_vars
  PROVE  /\ \A i \in Rows : /\ i \in DOMAIN rows'
                            /\ rows'[i].pokemon = rows[i].pokemon /\ rows'[i].index = rows[i].index
                            /\ rows'[i].chosen = rows[i].chosen /\ rows'[i].session = rows[i].session
                            /\ rows'[i].posted = rows[i].posted
         /\ \A i \in DOMAIN rows' \ Rows :
              /\ i = Len(rows) + 1
              /\ \E r \in Requests : create_submission(r) /\ rows'[i] = NewRow(r)
  <1> USE DEF Request
  <1> DEFINE Same(i) == /\ i \in DOMAIN rows'
                        /\ rows'[i].pokemon = rows[i].pokemon /\ rows'[i].index = rows[i].index
                        /\ rows'[i].chosen = rows[i].chosen /\ rows'[i].session = rows[i].session
                        /\ rows'[i].posted = rows[i].posted
             New(i) == /\ i = Len(rows) + 1
                       /\ \E r \in Requests : create_submission(r) /\ rows'[i] = NewRow(r)
  <1>1. rows \in Seq(Row) /\ Len(rows) \in Nat /\ Rows = 1..Len(rows) /\ world.requests \subseteq Requests
    BY WorldOK DEF CoreInv, TypeOK, Rows
  <1>2. CASE rows' = rows
    BY <1>1, <1>2 DEF Rows
  <1>3. ASSUME NEW r \in Requests, create_submission(r), rows' = Append(rows, NewRow(r))
        PROVE  (\A i \in Rows : Same(i)) /\ \A i \in DOMAIN rows' \ Rows : New(i)
    <2>1. NewRow(r) \in Row
      BY <1>3, RowAdded DEF create_submission
    <2>2. /\ DOMAIN rows' = 1..(Len(rows) + 1) /\ rows'[Len(rows) + 1] = NewRow(r)
          /\ \A i \in 1..Len(rows) : rows'[i] = rows[i]
      BY <1>1, <1>3, <2>1
    <2>3. \A i \in Rows : Same(i)
      BY <1>1, <2>2
    <2>4. \A i \in DOMAIN rows' \ Rows : i = Len(rows) + 1
      BY <1>1, <2>2
    <2>5. QED
      BY <1>3, <2>2, <2>3, <2>4
  <1>4. ASSUME NEW k \in Rows, rows' = [rows EXCEPT ![k].deleted = TRUE]
        PROVE  (\A i \in Rows : Same(i)) /\ DOMAIN rows' = Rows
    <2>1. DOMAIN rows' = Rows /\ rows'[k] = [rows[k] EXCEPT !.deleted = TRUE]
          /\ \A i \in Rows : i # k => rows'[i] = rows[i]
      BY <1>1, <1>4 DEF Rows
    <2>2. rows[k] \in Row
      BY <1>1 DEF Rows
    <2>3. Same(k)
      BY <2>1, <2>2 DEF Row
    <2>4. \A i \in Rows : i # k => Same(i)
      BY <2>1
    <2> HIDE DEF Same
    <2>5. QED
      BY <2>1, <2>3, <2>4
  <1> HIDE DEF Same, New
  <1>5. (\A i \in Rows : Same(i)) /\ \A i \in DOMAIN rows' \ Rows : New(i)
    <2>1. CASE rows' = rows
      BY <1>2, <2>1 DEF Same, New
    <2>2. QED
      BY <1>1, <1>3, <1>4, <2>1, RowsNext
  <1>6. QED
    BY <1>5 DEF Same, New

\* A request that goes on keeps its file name.
LEMMA SameName ==
  ASSUME CoreInv, [Next]_vars, NEW r \in Requests, request[r].step \in WithSession,
         request'[r].session = request[r].session
  PROVE  /\ sessions'[request'[r].session].pokemon = TargetOf(r).pokemon
         /\ request'[r].index = request[r].index => FileOf(r)' = FileOf(r)
  BY SessionRead, SessionsNext DEF Extends, TargetOf, FileOf

\* Which steps bring a submission to where it is.
LEMMA Reached ==
  ASSUME CoreInv, [Next]_vars, NEW r \in Requests
  PROVE  /\ request'[r].step = "store" => request'[r] = request[r] \/ (request[r].step = "read" /\ store_drawing(r))
         /\ request'[r].step = "insert" => request'[r] = request[r] \/ (request[r].step = "store" /\ write_once(r))
         /\ request'[r].step = "resolve" => request'[r] = request[r] \/ (request[r].step = "insert" /\ create_submission(r))
         /\ request'[r].step = "commit" => request'[r] = request[r] \/ (request[r].step = "resolve" /\ resolve_draw_session(r))
         /\ request'[r].step = "read" => request'[r] = request[r] \/ (request[r].step = "posted" /\ submit(r))
  <1> USE DEF Request
  <1>1. /\ request \in [Requests -> Request]
        /\ world.requests \subseteq Requests
    BY WorldOK DEF CoreInv, TypeOK
  <1>2. CASE request' = request \/ request' = [u \in Requests |-> Idle]
    BY <1>2 DEF Idle
  <1>3. ASSUME NEW u \in Requests, NEW q, RequestStep(u, q), request' = [request EXCEPT ![u] = q], u # r
        PROVE  request'[r] = request[r]
    BY <1>1, <1>3
  <1>4. ASSUME NEW q, RequestStep(r, q), request' = [request EXCEPT ![r] = q]
        PROVE  /\ request'[r].step = "store" => request[r].step = "read" /\ store_drawing(r)
               /\ request'[r].step = "insert" => request[r].step = "store" /\ write_once(r)
               /\ request'[r].step = "resolve" => request[r].step = "insert" /\ create_submission(r)
               /\ request'[r].step = "commit" => request[r].step = "resolve" /\ resolve_draw_session(r)
               /\ request'[r].step = "read" => request[r].step = "posted" /\ submit(r)
    <2>1. request'[r] = q /\ request[r] \in Request
      BY <1>1, <1>4
    <2>2. CASE q = Idle
      BY <2>1, <2>2 DEF Idle
    <2>3. CASE request[r] = Idle /\ q # Idle
      <3>1. request[r].step = "idle"
        BY <2>3 DEF Idle
      <3>2. PICK t \in Tabs :
              \/ \E step \in {"assign", "open_choice"}, s \in 0..Len(sessions) :
                   q = [Idle EXCEPT !.step = step, !.tab = t, !.session = s]
              \/ \E step \in {"skipped", "timed_out_empty"} :
                   q = [Idle EXCEPT !.step = step, !.tab = t, !.session = current_session]
              \/ q = [Idle EXCEPT !.step = "posted", !.tab = t, !.drawn = shown[t]]
        BY <1>4, <2>3, <3>1, ZenonT(40) DEF RequestStep
      <3>3. q.step \in {"assign", "open_choice", "skipped", "timed_out_empty", "posted"}
        BY <3>2 DEF Idle
      <3>4. QED
        BY <2>1, <3>3
    <2>4. CASE request[r].step \in {"posted", "read", "store", "insert", "resolve"} /\ q # Idle
      <3>1. request[r] # Idle
        BY <2>4 DEF Idle
      <3>2. \/ /\ request[r].step = "posted" /\ submit(r)
               /\ q = [request[r] EXCEPT !.step = "read", !.session = current_session]
            \/ /\ request[r].step = "read" /\ store_drawing(r)
               /\ q = [request[r] EXCEPT !.step = "store", !.index = next_index(TargetOf(r).pokemon)]
            \/ request[r].step = "store" /\ write_once(r) /\ q = [request[r] EXCEPT !.step = "insert"]
            \/ request[r].step = "insert" /\ create_submission(r) /\ q = [request[r] EXCEPT !.step = "resolve"]
            \/ request[r].step = "resolve" /\ resolve_draw_session(r) /\ q = [request[r] EXCEPT !.step = "commit"]
        BY <1>4, <2>4, <3>1, Zenon DEF RequestStep
      <3>3. QED
        BY <2>1, <2>4, <3>2, ZenonT(60)
    <2>5. QED
      BY <1>4, <2>2, <2>3, <2>4 DEF RequestStep
  <1>5. QED
    BY <1>1, <1>2, <1>3, <1>4, RequestsNext

\* The invariant of the files holds at first.
LEMMA FileInit ==
  ASSUME Init
  PROVE  FileInv
  BY CoreInit DEF Init, FileInv, OneOnLoop, NameFree, JustWritten, FileOfItsRow, RowsHaveSessions,
                  RowMatchesSession, SnapshotFiles, Rows, Idle, NoBackup

\* The name of a file is free until its own submission writes it.
LEMMA FilesKept ==
  ASSUME FileInv, [Next]_vars
  PROVE  \A f \in DOMAIN files : f \in DOMAIN files' /\ files'[f] = files[f]
  <1>1. world.requests \subseteq Requests
    BY WorldOK DEF FileInv, CoreInv
  <1>2. ASSUME NEW r \in Requests, write_once(r) PROVE FileOf(r) \notin DOMAIN files
    BY <1>2 DEF FileInv, NameFree, write_once
  <1>3. QED
    BY <1>1, <1>2, FilesNext

\* Every step keeps one submission on the event loop.
LEMMA LoopNext ==
  ASSUME FileInv, [Next]_vars
  PROVE  OneOnLoop'
  <1> USE DEF Request
  <1> DEFINE Loop == {"store", "insert", "resolve"}
  <1>1. SUFFICES ASSUME NEW r \in Requests, NEW u \in Requests, r # u,
                        request'[r].step \in Loop, request'[u].step \in Loop
                 PROVE  FALSE
    BY DEF OneOnLoop
  <1>2. \A v \in Requests : request'[v].step \in Loop =>
          \/ request'[v] = request[v]
          \/ request[v].step \in Loop
          \/ store_drawing(v)
    BY Reached DEF FileInv
  <1>3. ASSUME NEW v \in Requests, NEW w \in Requests, v # w, store_drawing(v), request'[w].step \in Loop
        PROVE  FALSE
    <2>1. request[w].step \notin Loop
      BY <1>3 DEF store_drawing, OnLoop
    <2>2. request'[w] = request[w]
      BY <1>3 DEF store_drawing, End, FileInv, CoreInv, TypeOK
    <2>3. QED
      BY <1>3, <2>1, <2>2
  <1>4. ~store_drawing(r) /\ ~store_drawing(u)
    BY <1>1, <1>3
  <1>5. request[r].step \in Loop /\ request[u].step \in Loop
    BY <1>1, <1>2, <1>4
  <1>6. QED
    BY <1>1, <1>5 DEF FileInv, OneOnLoop

\* Every step keeps the chosen name free and the written picture in place.
LEMMA NameNext ==
  ASSUME FileInv, [Next]_vars
  PROVE  NameFree' /\ JustWritten'
  <1> USE DEF Request
  <1>1. CoreInv /\ world.requests \subseteq Requests
    BY WorldOK DEF FileInv, CoreInv
  <1>2. ASSUME NEW r \in Requests, request'[r].step = "store" PROVE FileOf(r)' \notin DOMAIN files'
    <2>1. CASE request'[r] = request[r]
      <3>1. FileOf(r)' = FileOf(r)
        BY <1>1, <1>2, <2>1, SameName DEF WithSession
      <3>2. FileOf(r) \notin DOMAIN files
        BY <1>2, <2>1 DEF FileInv, NameFree
      <3>3. ASSUME NEW u \in Requests, write_once(u) PROVE FALSE
        <4>1. request[u].step = "store" /\ request'[u].step = "insert"
          BY <3>3 DEF write_once, Goto, FileInv, CoreInv, TypeOK
        <4>2. u = r
          BY <1>2, <2>1, <4>1 DEF FileInv, OneOnLoop
        <4>3. QED
          BY <1>2, <4>1, <4>2
      <3>4. QED
        BY <1>1, <3>1, <3>2, <3>3, FilesNext
    <2>2. CASE request[r].step = "read" /\ store_drawing(r)
      <3>1. /\ <<TargetOf(r).pokemon, next_index(TargetOf(r).pokemon)>> \notin DOMAIN files
            /\ request'[r].index = next_index(TargetOf(r).pokemon)
            /\ request'[r].session = request[r].session
            /\ files' = files /\ sessions' = sessions
        <4>1. request \in [Requests -> Request]
          BY <1>1 DEF CoreInv, TypeOK
        <4>2. ~End(r)
          BY <1>2, <4>1 DEF End, Idle
        <4> HIDE DEF next_index
        <4>3. QED
          BY <2>2, <4>1, <4>2 DEF store_drawing
      <3>2. FileOf(r)' = <<TargetOf(r).pokemon, next_index(TargetOf(r).pokemon)>>
        BY <3>1 DEF FileOf, TargetOf
      <3>3. QED
        BY <3>1, <3>2
    <2>3. QED
      BY <1>1, <1>2, <2>1, <2>2, Reached
  <1>3. ASSUME NEW r \in Requests, request'[r].step = "insert"
        PROVE  FileOf(r)' \in DOMAIN files' /\ files'[FileOf(r)'] = PostedBy(r)'
    <2>1. CASE request'[r] = request[r]
      <3>1. FileOf(r)' = FileOf(r) /\ PostedBy(r)' = PostedBy(r)
        BY <1>1, <1>3, <2>1, SameName DEF WithSession, PostedBy
      <3>2. FileOf(r) \in DOMAIN files /\ files[FileOf(r)] = PostedBy(r)
        BY <1>3, <2>1 DEF FileInv, JustWritten
      <3>3. QED
        BY <3>1, <3>2, FilesKept
    <2>2. CASE request[r].step = "store" /\ write_once(r)
      <3>1. /\ request'[r].session = request[r].session /\ request'[r].index = request[r].index
            /\ request'[r].drawn = request[r].drawn
        BY <1>1, <2>2 DEF write_once, Goto, CoreInv, TypeOK
      <3>2. FileOf(r)' = FileOf(r)
        BY <1>1, <2>2, <3>1, SameName DEF WithSession
      <3>3. FileOf(r) \in DOMAIN files' /\ files'[FileOf(r)] = PostedBy(r)
        BY <2>2 DEF write_once
      <3>4. QED
        BY <3>1, <3>2, <3>3 DEF PostedBy
    <2>3. QED
      BY <1>1, <1>3, <2>1, <2>2, Reached
  <1>4. QED
    BY <1>2, <1>3 DEF NameFree, JustWritten

\* Every step keeps the file and the session of every row.
LEMMA RowFilesNext ==
  ASSUME FileInv, [Next]_vars
  PROVE  FileOfItsRow' /\ RowsHaveSessions' /\ RowMatchesSession'
  <1> DEFINE Fit(i) == /\ <<rows'[i].pokemon, rows'[i].index>> \in DOMAIN files'
                       /\ files'[<<rows'[i].pokemon, rows'[i].index>>] = rows'[i].posted
                       /\ rows'[i].session \in DOMAIN sessions'
                       /\ rows'[i].pokemon = sessions'[rows'[i].session].pokemon
                       /\ rows'[i].chosen = sessions'[rows'[i].session].chosen
  <1>1. CoreInv
    BY DEF FileInv
  <1>2. ASSUME NEW i \in Rows PROVE Fit(i)
    <2>1. /\ <<rows[i].pokemon, rows[i].index>> \in DOMAIN files
          /\ files[<<rows[i].pokemon, rows[i].index>>] = rows[i].posted
          /\ rows[i].session \in DOMAIN sessions
          /\ rows[i].pokemon = sessions[rows[i].session].pokemon
          /\ rows[i].chosen = sessions[rows[i].session].chosen
      BY DEF FileInv, FileOfItsRow, RowsHaveSessions, RowMatchesSession, Sessions
    <2>2. /\ rows'[i].pokemon = rows[i].pokemon /\ rows'[i].index = rows[i].index
          /\ rows'[i].chosen = rows[i].chosen /\ rows'[i].session = rows[i].session
          /\ rows'[i].posted = rows[i].posted
      BY <1>1, RowsKept
    <2>3. Extends(sessions', sessions)
      BY <1>1, SessionsNext
    <2>4. QED
      BY <2>1, <2>2, <2>3, FilesKept DEF Extends
  <1>3. ASSUME NEW i, NEW r \in Requests, create_submission(r), rows'[i] = NewRow(r)
        PROVE  Fit(i)
    <2>1. request[r].step = "insert" /\ files' = files /\ sessions' = sessions
      BY <1>3 DEF create_submission
    <2>2. FileOf(r) \in DOMAIN files /\ files[FileOf(r)] = PostedBy(r)
      BY <2>1 DEF FileInv, JustWritten
    <2>3. request[r].session \in DOMAIN sessions
      BY <1>1, <2>1, SessionRead DEF WithSession
    <2>4. /\ rows'[i].pokemon = TargetOf(r).pokemon /\ rows'[i].index = request[r].index
          /\ rows'[i].chosen = TargetOf(r).chosen /\ rows'[i].session = request[r].session
          /\ rows'[i].posted = PostedBy(r)
      BY <1>3 DEF NewRow
    <2>5. QED
      BY <2>1, <2>2, <2>3, <2>4 DEF FileOf, TargetOf
  <1>4. \A i \in DOMAIN rows' : Fit(i)
    <2> HIDE DEF Fit
    <2>1. QED
      BY <1>1, <1>2, <1>3, RowsKept
  <1>5. QED
    BY <1>4 DEF FileOfItsRow, RowsHaveSessions, RowMatchesSession, Rows, Sessions

\* Every step keeps the files of the snapshot.
LEMMA SnapshotNext ==
  ASSUME FileInv, [Next]_vars
  PROVE  SnapshotFiles'
  <1>1. ArchiveOK /\ SnapshotFiles /\ FileOfItsRow
    BY DEF FileInv, CoreInv
  <1>2. CASE UNCHANGED backup
    BY <1>1, <1>2, FilesKept DEF SnapshotFiles
  <1>3. CASE Backup
    <2>1. files' = files /\ rows' = rows
      BY <1>3 DEF Backup
    <2>2. CASE backup_snapshot
      BY <1>1, <2>1, <2>2 DEF backup_snapshot, ArchiveOK, SnapshotFiles, FileOfItsRow, Rows
    <2>3. CASE tar_begins
      BY <1>1, <2>1, <2>3 DEF tar_begins, ArchiveOK, SnapshotFiles
    <2>4. CASE tar_ends
      BY <1>1, <2>1, <2>4 DEF tar_ends, ArchiveOK, SnapshotFiles
    <2>5. QED
      BY <1>3, <2>2, <2>3, <2>4 DEF Backup
  <1>4. QED
    BY <1>2, <1>3 DEF Next, vars

\* Every step keeps the invariant of the files.
LEMMA FileNext ==
  ASSUME FileInv, [Next]_vars
  PROVE  FileInv'
  <1>1. CoreInv'
    BY CoreNext DEF FileInv
  <1>2. QED
    BY <1>1, LoopNext, NameNext, RowFilesNext, SnapshotNext DEF FileInv

\* So it always holds.
LEMMA FilesAlways == Spec => []FileInv
  BY FileInit, FileNext, PTL DEF Spec

\* Every row has its file with the picture its own submission posted, wherever
\* a submission was cut short (submissions.py:49-53).
THEOREM FileOfEveryRow == Spec => []FileOfItsRow
  <1>1. FileInv => FileOfItsRow
    BY DEF FileInv
  <1>2. QED
    BY <1>1, FilesAlways, PTL

\* A row carries what was assigned to its session, whatever other tabs did
\* while the upload was read.
THEOREM RowOfItsSession == Spec => []RowMatchesSession
  <1>1. FileInv => RowMatchesSession
    BY DEF FileInv
  <1>2. QED
    BY <1>1, FilesAlways, PTL

\* No step overwrites or removes a file (images.py:5-7).
THEOREM NothingOverwritten == Spec => FilesPermanent
  <1>1. FileInv /\ [Next]_vars => [\A f \in DOMAIN files : f \in DOMAIN files' /\ files'[f] = files[f]]_vars
    BY FilesKept
  <1>2. QED
    BY <1>1, FilesAlways, PTL DEF Spec, FilesPermanent

\* No row of a backup lacks its file, however many drawings are stored while it
\* is made (backup.sh:4-6).
THEOREM BackupWhole == Spec => []BackupComplete
  <1>1. FileInv => BackupComplete
    BY DEF FileInv, SnapshotFiles, BackupComplete
  <1>2. QED
    BY <1>1, FilesAlways, PTL

-----------------------------------------------------------------------------
(* What the outcome of a session tells, whatever overlaps or fails.        *)

HasRow(s) == \E i \in Rows : rows[i].session = s

\* The row of session s is there, and its outcome is not committed yet.
Committing(r, s) == request[r].step \in {"resolve", "commit"} /\ request[r].session = s

\* A session that is or will be submitted has its row.
SubmittedDrawn ==
    /\ \A s \in Sessions : sessions[s].outcome = "submitted" => HasRow(s)
    /\ \A r \in Requests : request[r].step \in {"resolve", "commit"} => HasRow(request[r].session)

\* A row stays the row of its session.
LEMMA HasRowKept ==
  ASSUME CoreInv, [Next]_vars, NEW s, HasRow(s)
  PROVE  HasRow(s)'
  BY RowsKept DEF HasRow, Rows

\* How one session moves in a step.
Moves(x) ==
    \/ x \in Sessions /\ sessions'[x] = sessions[x]
    \/ x \in Sessions /\ sessions'[x].outcome \in {"skipped", "timed_out_empty"}
    \/ x \notin Sessions /\ sessions'[x].outcome = "open"
    \/ \E r \in Requests : /\ commit(r)
                           /\ x = request[r].session /\ x \in Sessions
                           /\ sessions'[x].outcome = "submitted"

\* A session changes when it is opened, closed without a drawing, or committed.
LEMMA SessionMoves ==
  ASSUME CoreInv, [Next]_vars
  PROVE  \A x \in DOMAIN sessions' : Moves(x)
  <1> DEFINE Goal == \A x \in DOMAIN sessions' : Moves(x)
  <1>1. Table(sessions) /\ Sessions = DOMAIN sessions
    BY TableOK DEF Sessions
  <1>2. /\ MaxSessions \in Nat /\ world.requests \subseteq Requests
    BY WorldOK DEF CoreInv
  <1>3. ASSUME sessions' = sessions PROVE Goal
    BY <1>1, <1>3 DEF Moves
  <1>4. ASSUME NEW table, Table(table), DOMAIN table = Sessions,
               \A x \in Sessions : table[x] = sessions[x] \/ table[x].outcome \in {"skipped", "timed_out_empty"},
               NEW p \in Pokemon, NEW chosen \in BOOLEAN,
               sessions' = table \/ sessions' = AddSession(table, p, chosen)
        PROVE  Goal
    <2>1. CASE sessions' = table
      BY <1>4, <2>1 DEF Moves
    <2>2. CASE sessions' # table
      <3>1. Grows(sessions', table) /\ OpensOne(sessions', table)
        BY <1>2, <1>4, <2>2, Added
      <3>2. sessions'[Len(table) + 1].outcome = "open" /\ Len(table) + 1 \notin Sessions
        BY <1>4, <3>1 DEF OpensOne, OpenIn, Table
      <3>3. QED
        BY <1>4, <3>1, <3>2 DEF Grows, OpensOne, Moves
    <2>3. QED
      BY <2>1, <2>2
  <1> HIDE DEF Goal
  <1>5. ASSUME NEW r \in Requests, assign(r) \/ open_choice(r) PROVE Goal
    <2>1. sessions' = sessions
          \/ \E p \in Pokemon, chosen \in BOOLEAN : sessions' = AddSession(sessions, p, chosen)
      BY <1>5 DEF assign, open_choice
    <2>2. QED
      BY <1>1, <1>3, <1>4, <2>1
  <1>6. ASSUME NEW r \in Requests, resolve_and_assign(r) PROVE Goal
    <2> DEFINE s == request[r].session
               resolved == [sessions EXCEPT ![s].outcome = request[r].step]
    <2>1. s \in Sessions /\ request[r].step \in {"skipped", "timed_out_empty"}
      BY <1>6, SessionRead DEF resolve_and_assign, WithSession, Sessions
    <2>2. resolved = [sessions EXCEPT ![s].outcome = request[r].step]
      OBVIOUS
    <2>3. \E p \in Pokemon : sessions' = resolved \/ sessions' = AddSession(resolved, p, FALSE)
      <3>1. TargetOf(r).pokemon \in Pokemon
        BY <1>6, SessionRead DEF resolve_and_assign, WithSession, Session
      <3>2. QED
        BY <1>6, <3>1 DEF resolve_and_assign
    <2> HIDE DEF resolved, s
    <2>4. Table(resolved) /\ Closes(resolved, sessions, s, request[r].step)
      BY <1>1, <2>1, <2>2, Resolved, ZenonT(40)
    <2>5. /\ DOMAIN resolved = Sessions
          /\ \A x \in Sessions : resolved[x] = sessions[x] \/ resolved[x].outcome \in {"skipped", "timed_out_empty"}
      BY <1>1, <2>1, <2>4 DEF Closes
    <2>6. QED
      BY <1>4, <2>3, <2>4, <2>5
  <1>7. ASSUME NEW r \in Requests, commit(r) PROVE Goal
    <2>1. request[r].session \in Sessions
      BY <1>7, SessionRead DEF commit, WithSession, Sessions
    <2>2. Closes(sessions', sessions, request[r].session, "submitted")
      BY <1>1, <1>7, <2>1, Resolved DEF commit
    <2>3. QED
      BY <1>1, <1>7, <2>1, <2>2 DEF Closes, Moves, Goal
  <1>8. ASSUME NEW r \in Requests, Action(r) PROVE Goal
    BY <1>3, <1>5, <1>6, <1>7, <1>8
    DEF Action, Beginning, draw, skip_current, timed_out, choose, post_drawing, submit, store_drawing, write_once,
        create_submission, resolve_draw_session, fail
  <1>9. Goal
    BY <1>2, <1>3, <1>8, ActionOf DEF vars, Backup, delete, window_passes, restart
  <1>10. QED
    BY <1>9 DEF Goal

\* Inserting a row leaves its submission to resolve the session.
LEMMA RowInserted ==
  ASSUME CoreInv, [Next]_vars, NEW r \in Requests, create_submission(r)
  PROVE  \/ /\ request'[r] = Idle /\ rows' = rows
            /\ \E i \in Rows : <<rows[i].pokemon, rows[i].index>> = FileOf(r)
         \/ /\ Goto(r, "resolve") /\ rows' = Append(rows, NewRow(r))
            /\ request'[r].step = "resolve" /\ request'[r].session = request[r].session
            /\ Len(rows) + 1 \in DOMAIN rows' /\ rows'[Len(rows) + 1] = NewRow(r)
            /\ \A s : s = request[r].session => HasRow(s)'
            /\ <<NewRow(r).pokemon, NewRow(r).index>> = FileOf(r)
  <1>1. request \in [Requests -> Request] /\ rows \in Seq(Row)
    BY DEF CoreInv, TypeOK
  <1>2. request[r] \in Request /\ NewRow(r) \in Row
    BY <1>1, RowAdded DEF create_submission
  <1>3. CASE End(r) /\ rows' = rows /\ \E i \in Rows : <<rows[i].pokemon, rows[i].index>> = FileOf(r)
    BY <1>1, <1>3 DEF End
  <1>4. CASE Goto(r, "resolve") /\ rows' = Append(rows, NewRow(r))
    <2>1. request'[r].step = "resolve" /\ request'[r].session = request[r].session
      BY <1>1, <1>2, <1>4 DEF Goto, Request
    <2>2. Len(rows) + 1 \in DOMAIN rows' /\ rows'[Len(rows) + 1] = NewRow(r)
      BY <1>1, <1>2, <1>4
    <2>3. (\A s : s = request[r].session => HasRow(s)') /\ <<NewRow(r).pokemon, NewRow(r).index>> = FileOf(r)
      BY <2>1, <2>2 DEF HasRow, Rows, NewRow, FileOf
    <2>4. QED
      BY <1>4, <2>1, <2>2, <2>3
  <1>5. QED
    BY <1>3, <1>4 DEF create_submission

\* Every step keeps a row for each session that is or will be submitted.
LEMMA SubmittedNext ==
  ASSUME CoreInv, SubmittedDrawn, [Next]_vars
  PROVE  SubmittedDrawn'
  <1>1. ASSUME NEW s \in DOMAIN sessions', sessions'[s].outcome = "submitted" PROVE HasRow(s)'
    <2>1. CASE s \in Sessions /\ sessions'[s] = sessions[s]
      BY <1>1, <2>1, HasRowKept DEF SubmittedDrawn
    <2>2. ASSUME NEW r \in Requests, commit(r), s = request[r].session PROVE HasRow(s)'
      BY <2>2, HasRowKept DEF SubmittedDrawn, commit
    <2>3. QED
      BY <1>1, <2>1, <2>2, SessionMoves DEF Moves
  <1>2. ASSUME NEW r \in Requests, request'[r].step \in {"resolve", "commit"},
               NEW s, s = request'[r].session
        PROVE  HasRow(s)'
    <2>1. CASE request'[r] = request[r]
      BY <1>2, <2>1, HasRowKept DEF SubmittedDrawn
    <2>2. CASE create_submission(r)
      <3>1. s = request[r].session
        BY <1>2, <2>2, RowInserted DEF Idle
      <3>2. QED
        BY <1>2, <2>2, <3>1, RowInserted DEF Idle
    <2>3. CASE resolve_draw_session(r)
      <3>1. request'[r].session = request[r].session /\ request[r].step = "resolve"
        BY <2>3 DEF resolve_draw_session, Goto, CoreInv, TypeOK, Request
      <3>2. QED
        BY <1>2, <3>1, HasRowKept DEF SubmittedDrawn
    <2>4. QED
      BY <1>2, <2>1, <2>2, <2>3, Reached
  <1>3. QED
    BY <1>1, <1>2 DEF SubmittedDrawn, Sessions, HasRow, Rows

-----------------------------------------------------------------------------
(* Where nothing fails, whatever overlaps.                                 *)

\* A session with a row is closed, or its row's submission will submit it.
RowsCommitted ==
    \A i \in Rows : sessions[rows[i].session].outcome = "open" =>
        \E r \in Requests : Committing(r, rows[i].session)

\* Every file has its row, or its submission is about to insert it.
FilesTell ==
    \A f \in DOMAIN files :
        \/ \E i \in Rows : <<rows[i].pokemon, rows[i].index>> = f
        \/ \E r \in Requests : request[r].step = "insert" /\ FileOf(r) = f

FaultlessInv == ~Faults => RowsCommitted /\ FilesTell

\* The action of one request leaves the others.
LEMMA Elsewhere ==
  ASSUME CoreInv, NEW u \in Requests, Action(u), NEW r \in Requests \ {u}
  PROVE  request'[r] = request[r]
  <1>1. request \in [Requests -> Request]
    BY DEF CoreInv, TypeOK
  <1>2. ASSUME NEW t \in world.tabs, Beginning(u, t) PROVE request'[r] = request[r]
    BY <1>1, <1>2 DEF Beginning, draw, skip_current, timed_out, choose, post_drawing, Begin
  <1>3. QED
    BY <1>1, <1>2 DEF Action, Goto, End, assign, resolve_and_assign, open_choice, submit, store_drawing, write_once,
                      create_submission, resolve_draw_session, commit, fail

\* A submission that has its file goes on.
LEMMA Onward ==
  ASSUME CoreInv, [Next]_vars, ~Faults, NEW r \in Requests, request[r].step \in {"insert", "resolve", "commit"}
  PROVE  \/ request'[r] = request[r]
         \/ create_submission(r) \/ resolve_draw_session(r) \/ commit(r)
  <1>1. world.requests \subseteq Requests
    BY WorldOK DEF CoreInv
  <1>2. ~restart /\ ~fail(r)
    BY DEF restart, fail
  <1>3. request[r] # Idle
    BY DEF Idle
  <1>4. CASE Action(r)
    <2>1. ASSUME NEW t, Beginning(r, t) PROVE request'[r] = request[r]
      BY <1>3, <2>1 DEF Beginning, draw, skip_current, timed_out, choose, post_drawing, Begin
    <2>2. QED
      BY <1>2, <1>4, <2>1 DEF Action, assign, resolve_and_assign, open_choice, submit, store_drawing, write_once
  <1>5. CASE UNCHANGED vars \/ Backup \/ window_passes \/ \E i \in Rows : delete(i)
    BY <1>5 DEF vars, Backup, window_passes, delete
  <1>6. QED
    BY <1>1, <1>2, <1>4, <1>5, Elsewhere, ActionOf

\* Every step keeps a submission for each row of an open session.
LEMMA CommittedNext ==
  ASSUME FileInv, ~Faults, RowsCommitted, [Next]_vars
  PROVE  RowsCommitted'
  <1>1. CoreInv /\ \A i \in Rows : rows[i].session \in Sessions
    BY DEF FileInv, RowsHaveSessions, Sessions
  <1>2. ASSUME NEW i \in Rows, sessions'[rows'[i].session].outcome = "open"
        PROVE  \E r \in Requests : Committing(r, rows[i].session)'
    <2>1. PICK s : s = rows[i].session
      OBVIOUS
    <2>2. s = rows'[i].session /\ s \in Sessions /\ s \in DOMAIN sessions'
      BY <1>1, <2>1, RowsKept, SessionsNext DEF Extends, Sessions
    <2>3. sessions[s].outcome = "open"
      BY <1>1, <1>2, <2>2, SessionMoves DEF Moves
    <2>4. PICK r \in Requests : request[r].step \in {"resolve", "commit"} /\ request[r].session = s
      BY <2>1, <2>3 DEF RowsCommitted, Committing
    <2>5. ~commit(r)
      BY <1>1, <1>2, <2>2, <2>4, TableOK, Resolved DEF commit, Closes, Sessions
    <2>6. request'[r].step \in {"resolve", "commit"} /\ request'[r].session = s
      <3>1. CASE request'[r] = request[r]
        BY <2>4, <3>1
      <3>2. CASE resolve_draw_session(r)
        BY <1>1, <2>4, <3>2 DEF resolve_draw_session, Goto, CoreInv, TypeOK, Request
      <3>3. ~create_submission(r)
        BY <2>4 DEF create_submission
      <3>4. QED
        BY <1>1, <2>4, <2>5, <3>1, <3>2, <3>3, Onward
    <2>7. QED
      BY <2>2, <2>6 DEF Committing
  <1>3. ASSUME NEW i \in DOMAIN rows' \ Rows
        PROVE  \E r \in Requests : Committing(r, rows[i].session)'
    <2>1. PICK r \in Requests : create_submission(r) /\ rows'[i] = NewRow(r)
      BY <1>1, RowsKept
    <2>2. request'[r].step = "resolve" /\ request'[r].session = request[r].session
      BY <1>1, <1>3, <2>1, RowInserted DEF Rows
    <2>3. QED
      BY <2>1, <2>2 DEF Committing, NewRow
  <1>4. QED
    BY <1>2, <1>3 DEF RowsCommitted, Rows

\* Every step keeps a row for each file, or the submission that will insert it.
LEMMA FilesTellNext ==
  ASSUME FileInv, ~Faults, FilesTell, [Next]_vars
  PROVE  FilesTell'
  <1>1. CoreInv /\ request \in [Requests -> Request] /\ world.requests \subseteq Requests
    BY WorldOK DEF FileInv, CoreInv, TypeOK
  <1> DEFINE Row1(f) == \E i \in DOMAIN rows' : <<rows'[i].pokemon, rows'[i].index>> = f
             Insert1(f) == \E r \in Requests : request'[r].step = "insert" /\ FileOf(r)' = f
  <1>2. ASSUME NEW f, \E i \in Rows : <<rows[i].pokemon, rows[i].index>> = f PROVE Row1(f)
    BY <1>1, <1>2, RowsKept
  <1>3. ASSUME NEW f, NEW r \in Requests, request[r].step = "insert", FileOf(r) = f PROVE Row1(f) \/ Insert1(f)
    <2>1. CASE request'[r] = request[r]
      <3>1. FileOf(r)' = FileOf(r)
        BY <1>1, <1>3, <2>1, SameName DEF WithSession
      <3>2. QED
        BY <1>3, <2>1, <3>1
    <2>2. CASE create_submission(r)
      <3>1. CASE \E i \in Rows : <<rows[i].pokemon, rows[i].index>> = FileOf(r)
        BY <1>2, <1>3, <3>1
      <3>2. CASE /\ Len(rows) + 1 \in DOMAIN rows' /\ rows'[Len(rows) + 1] = NewRow(r)
                 /\ <<NewRow(r).pokemon, NewRow(r).index>> = FileOf(r)
        BY <1>3, <3>2
      <3>3. QED
        BY <1>1, <2>2, <3>1, <3>2, RowInserted
    <2>3. ~resolve_draw_session(r) /\ ~commit(r)
      BY <1>3 DEF resolve_draw_session, commit
    <2>4. QED
      BY <1>1, <1>3, <2>1, <2>2, <2>3, Onward
  <1>4. ASSUME NEW r \in Requests, write_once(r), NEW f, f = FileOf(r) PROVE Insert1(f)
    <2>1. /\ request[r].step = "store" /\ request'[r].step = "insert"
          /\ request'[r].session = request[r].session /\ request'[r].index = request[r].index
      BY <1>1, <1>4 DEF write_once, Goto, Request
    <2>2. FileOf(r)' = FileOf(r)
      BY <1>1, <2>1, SameName DEF WithSession
    <2>3. QED
      BY <1>4, <2>1, <2>2
  <1>5. \A f \in DOMAIN files' : Row1(f) \/ Insert1(f)
    <2> HIDE DEF Row1, Insert1
    <2>1. ASSUME NEW f \in DOMAIN files PROVE Row1(f) \/ Insert1(f)
      BY <1>2, <1>3 DEF FilesTell
    <2>2. QED
      BY <1>1, <1>4, <2>1, FilesNext
  <1>6. QED
    BY <1>5 DEF FilesTell, Rows

-----------------------------------------------------------------------------
(* Where nothing fails and one request follows another, from whatever tab.  *)

\* Nothing fails, and the requests are one after another; they all are c.
Only(c) == c \in Requests /\ world.requests = {c} /\ ~Faults

Dealt == Cardinality({i \in Rows : ~rows[i].chosen})

\* Quota drawings were dealt for each of k free picks.
Paid(k) == Quota * k <= Dealt

OthersIdle(c) == \A r \in Requests \ {c} : request[r] = Idle

\* What the request has read is still so.
StillSo(c) ==
    /\ request[c].step \in WithSession => request[c].session \in Open
    /\ request[c].step \in {"assign", "open_choice"} => Open = {}

\* Each session has a row at most, and has it when its outcome says so.
OutcomeTells(c) ==
    /\ \A i, j \in Rows : rows[i].session = rows[j].session => i = j
    /\ \A s \in Sessions : HasRow(s) <=> sessions[s].outcome = "submitted" \/ Committing(c, s)

\* The free picks in the gallery are paid for, and one more where one is being
\* chosen or drawn.
PicksPaid(c) ==
    /\ Paid(_count(TRUE))
    /\ request[c].step = "open_choice" => Paid(_count(TRUE) + 1)
    /\ \A s \in Open : sessions[s].chosen /\ ~HasRow(s) => Paid(_count(TRUE) + 1)

TurnInv(c) ==
    /\ OthersIdle(c)
    /\ StillSo(c)
    /\ OutcomeTells(c)
    /\ PicksPaid(c)

\* c's own actions, and what else may happen.
LEMMA TurnStep ==
  ASSUME NEW c, Only(c), FileInv, [Next]_vars
  PROVE  \/ Action(c) /\ ~fail(c)
         \/ /\ UNCHANGED <<sessions, files, shown, request>>
            /\ rows' = rows \/ \E i \in Rows : delete(i) /\ rows' = [rows EXCEPT ![i].deleted = TRUE]
  <1>1. world.requests = {c} /\ ~Faults /\ c \in Requests
    BY DEF Only
  <1>2. ~restart /\ ~fail(c)
    BY <1>1 DEF restart, fail
  <1>3. CASE \E r \in Requests : r \in world.requests /\ Action(r)
    BY <1>1, <1>2, <1>3
  <1>4. CASE UNCHANGED vars \/ Backup \/ window_passes \/ \E i \in Rows : delete(i)
    BY <1>4 DEF vars, Backup, window_passes, delete
  <1>5. QED
    BY <1>1, <1>2, <1>3, <1>4, ActionOf

\* Only c moves.
LEMMA OthersNext ==
  ASSUME NEW c, Only(c), FileInv, TurnInv(c), [Next]_vars
  PROVE  OthersIdle(c)'
  <1>1. /\ CoreInv /\ c \in Requests
        /\ \A r \in Requests \ {c} : request[r] = Idle
    BY DEF FileInv, TurnInv, OthersIdle, Only
  <1>2. CASE UNCHANGED request
    BY <1>1, <1>2 DEF OthersIdle
  <1>3. CASE Action(c)
    BY <1>1, <1>3, Elsewhere DEF OthersIdle
  <1>4. QED
    BY <1>2, <1>3, TurnStep

\* What a tab's beginning does to the request.
LEMMA TurnBegins ==
  ASSUME NEW c, Only(c), FileInv, NEW t, Beginning(c, t)
  PROVE  /\ UNCHANGED <<sessions, rows, files>>
         /\ request[c] = Idle
         /\ \/ request' = request
            \/ request'[c].step = "posted"
            \/ request'[c].step = "assign" /\ Open = {}
            \/ request'[c].step = "open_choice" /\ Open = {} /\ choose(c, t)
            \/ request'[c].step \in {"skipped", "timed_out_empty"} /\ request'[c].session \in Open
  <1>1. request \in [Requests -> Request] /\ c \in Requests
    BY DEF FileInv, CoreInv, TypeOK, Only
  <1>2. Open # {} => current_session \in Open
    BY CurrentSession DEF FileInv
  <1>3. ASSUME NEW step, NEW s, Begin(c, t, step, s)
        PROVE  request[c] = Idle /\ request'[c].step = step /\ request'[c].session = s
    BY <1>1, <1>3 DEF Begin, Idle
  <1>4. CASE draw(c, t)
    BY <1>3, <1>4 DEF draw
  <1>5. CASE skip_current(c, t)
    BY <1>2, <1>3, <1>5 DEF skip_current
  <1>6. CASE timed_out(c, t)
    BY <1>2, <1>3, <1>6 DEF timed_out
  <1>7. CASE choose(c, t)
    BY <1>3, <1>7 DEF choose
  <1>8. CASE post_drawing(c, t)
    BY <1>1, <1>8 DEF post_drawing, Idle
  <1>9. QED
    BY <1>4, <1>5, <1>6, <1>7, <1>8 DEF Beginning

\* What a step of a submission does to its request.
LEMMA TurnGoesOn ==
  ASSUME NEW c, Only(c), FileInv,
         submit(c) \/ store_drawing(c) \/ write_once(c) \/ create_submission(c) \/ resolve_draw_session(c)
  PROVE  /\ UNCHANGED <<sessions, shown>>
         /\ request'[c].step \in {"resolve", "commit"} => create_submission(c) \/ resolve_draw_session(c)
         /\ \/ request'[c] = Idle
            \/ /\ request'[c].drawn = request[c].drawn /\ request'[c].tab = request[c].tab
               /\ \/ submit(c) /\ request'[c].step = "read" /\ request'[c].session \in Open
                  \/ /\ request[c].step \in {"read", "store", "insert", "resolve"}
                     /\ request'[c].step \in {"store", "insert", "resolve", "commit"}
                     /\ request'[c].session = request[c].session
  <1>1. request \in [Requests -> Request] /\ c \in Requests
    BY DEF FileInv, CoreInv, TypeOK, Only
  <1>2. Open # {} => current_session \in Open
    BY CurrentSession DEF FileInv
  <1>3. CASE submit(c)
    <2>1. CASE Refused(c)
      BY <1>1, <1>3, <2>1 DEF submit, End, Idle
    <2>2. CASE ~Refused(c)
      <3>1. request' = [request EXCEPT ![c] = [request[c] EXCEPT !.step = "read", !.session = current_session]]
        BY <1>3, <2>2 DEF submit
      <3>2. request[c] \in Request
        BY <1>1
      <3>3. /\ request'[c].step = "read" /\ request'[c].session = current_session
            /\ request'[c].drawn = request[c].drawn /\ request'[c].tab = request[c].tab
        BY <1>1, <3>1, <3>2 DEF Request
      <3>4. QED
        BY <1>2, <1>3, <2>2, <3>3 DEF submit, Refused
    <2>3. QED
      BY <2>1, <2>2
  <1>4. CASE store_drawing(c)
    <2>1. End(c) \/ \E index : request' = [request EXCEPT ![c].step = "store", ![c].index = index]
      BY <1>4 DEF store_drawing
    <2>2. CASE End(c)
      BY <1>1, <1>4, <2>2 DEF End, Idle, store_drawing
    <2>3. ASSUME NEW index, request' = [request EXCEPT ![c].step = "store", ![c].index = index]
          PROVE  /\ request'[c].session = request[c].session /\ request'[c].step = "store"
                 /\ request'[c].drawn = request[c].drawn /\ request'[c].tab = request[c].tab
      BY <1>1, <2>3 DEF Request
    <2>4. QED
      BY <1>4, <2>1, <2>2, <2>3 DEF store_drawing
  <1>5. ASSUME NEW step, Goto(c, step)
        PROVE  /\ request'[c].session = request[c].session /\ request'[c].step = step
               /\ request'[c].drawn = request[c].drawn /\ request'[c].tab = request[c].tab
    BY <1>1, <1>5 DEF Goto, Request
  <1>6. CASE write_once(c) \/ create_submission(c) \/ resolve_draw_session(c)
    <2>1. CASE End(c)
      BY <1>1, <1>6, <2>1 DEF End, Idle, write_once, create_submission, resolve_draw_session
    <2>2. CASE ~End(c)
      BY <1>5, <1>6, <2>2 DEF write_once, create_submission, resolve_draw_session
    <2>3. QED
      BY <2>1, <2>2
  <1>7. QED
    BY <1>3, <1>4, <1>6

\* The steps that open a session, alone or after closing the one they read.
Opening(c) == assign(c) \/ resolve_and_assign(c) \/ open_choice(c)

\* What the steps of c are.
LEMMA TurnAction ==
  ASSUME NEW c, Action(c), ~fail(c)
  PROVE  \/ \E t \in world.tabs : Beginning(c, t)
         \/ Opening(c) \/ commit(c)
         \/ submit(c) \/ store_drawing(c) \/ write_once(c) \/ create_submission(c) \/ resolve_draw_session(c)
  BY DEF Action, Opening

\* What the request has read stays so.
LEMMA StillSoNext ==
  ASSUME NEW c, Only(c), FileInv, TurnInv(c), [Next]_vars
  PROVE  StillSo(c)'
  <1>1. /\ request \in [Requests -> Request] /\ c \in Requests
        /\ request[c].step \in WithSession => request[c].session \in Open
        /\ request[c].step \in {"assign", "open_choice"} => Open = {}
    BY DEF FileInv, CoreInv, TypeOK, Only, TurnInv, StillSo
  <1>2. CASE request'[c] = Idle
    BY <1>2 DEF StillSo, Idle, WithSession
  <1>3. CASE UNCHANGED <<sessions, request>>
    BY <1>1, <1>3 DEF StillSo, Open, Sessions
  <1>4. ASSUME UNCHANGED sessions, request'[c].step \in WithSession => request'[c].session \in Open,
               request'[c].step \in {"assign", "open_choice"} => Open = {}
        PROVE  StillSo(c)'
    BY <1>4 DEF StillSo, Open, Sessions
  <1>5. ASSUME NEW t, Beginning(c, t) PROVE StillSo(c)'
    BY <1>3, <1>4, <1>5, TurnBegins DEF WithSession
  <1>6. CASE Opening(c) \/ commit(c)
    BY <1>1, <1>2, <1>6 DEF Opening, assign, resolve_and_assign, open_choice, commit, End
  <1>7. CASE submit(c) \/ store_drawing(c) \/ write_once(c) \/ create_submission(c) \/ resolve_draw_session(c)
    BY <1>1, <1>2, <1>4, <1>7, TurnGoesOn DEF WithSession
  <1>8. QED
    BY <1>3, <1>5, <1>6, <1>7, TurnStep, TurnAction

\* What a step that opens a session leaves as it was.
LEMMA Opened ==
  ASSUME NEW c, Only(c), FileInv, TurnInv(c), [Next]_vars, Opening(c)
  PROVE  /\ rows' = rows /\ files' = files /\ request'[c] = Idle
         /\ request[c].step \in {"assign", "open_choice", "skipped", "timed_out_empty"}
         /\ \A x \in DOMAIN sessions' \ Sessions :
              sessions'[x].outcome = "open" /\ (sessions'[x].chosen => request[c].step = "open_choice")
         /\ \A x \in Sessions : x \in DOMAIN sessions'
         /\ \A x \in Sessions : \/ sessions'[x] = sessions[x]
                                \/ /\ x = request[c].session /\ x \in Open
                                   /\ sessions'[x].outcome \in {"skipped", "timed_out_empty"}
         /\ Open' \cap Sessions = {}
  <1>1. /\ request \in [Requests -> Request]
        /\ c \in Requests /\ Table(sessions) /\ MaxSessions \in Nat
        /\ Open = OpenIn(sessions) /\ Open' = OpenIn(sessions') /\ Sessions = DOMAIN sessions
    BY TableOK, WorldOK DEF FileInv, CoreInv, TypeOK, Only, Open, OpenIn, Sessions
  <1>2. rows' = rows /\ files' = files /\ request'[c] = Idle
    BY <1>1 DEF Opening, assign, resolve_and_assign, open_choice, End
  <1>3. request[c].step \in {"assign", "open_choice", "skipped", "timed_out_empty"}
    BY DEF Opening, assign, resolve_and_assign, open_choice
  <1> DEFINE Goal == /\ \A x \in DOMAIN sessions' \ Sessions :
                          sessions'[x].outcome = "open" /\ (sessions'[x].chosen => request[c].step = "open_choice")
                     /\ \A x \in Sessions : x \in DOMAIN sessions'
                     /\ \A x \in Sessions : \/ sessions'[x] = sessions[x]
                                            \/ /\ x = request[c].session /\ x \in Open
                                               /\ sessions'[x].outcome \in {"skipped", "timed_out_empty"}
                     /\ Open' \cap Sessions = {}
  <1>4. ASSUME NEW table, Table(table), DOMAIN table = Sessions, OpenIn(table) = {},
               \A x \in Sessions : \/ table[x] = sessions[x]
                                   \/ /\ x = request[c].session /\ x \in Open
                                      /\ table[x].outcome \in {"skipped", "timed_out_empty"},
               \/ sessions' = table
               \/ \E p \in Pokemon : sessions' = AddSession(table, p, FALSE)
               \/ /\ request[c].step = "open_choice"
                  /\ \E p \in Pokemon : sessions' = AddSession(table, p, TRUE)
        PROVE  Goal
    <2>1. CASE sessions' = table
      BY <1>1, <1>4, <2>1
    <2>2. CASE sessions' # table
      <3>1. /\ Grows(sessions', table) /\ OpensOne(sessions', table)
            /\ sessions'[Len(table) + 1].chosen => request[c].step = "open_choice"
        BY <1>1, <1>4, <2>2, AddedDealt, AddedChosen
      <3>2. Len(table) + 1 \notin Sessions
        BY <1>4 DEF Table
      <3>3. sessions'[Len(table) + 1].outcome = "open"
        BY <3>1 DEF OpensOne, OpenIn
      <3>4. \A x \in DOMAIN sessions' \ Sessions : x = Len(table) + 1
        BY <1>4, <3>1 DEF OpensOne
      <3>5. QED
        BY <1>1, <1>4, <3>1, <3>2, <3>3, <3>4 DEF Grows, OpensOne
    <2>3. QED
      BY <2>1, <2>2
  <1>6. ASSUME assign(c) PROVE Goal
    <2>1. OpenIn(sessions) = {}
      BY <1>1, <1>6 DEF assign, TurnInv, StillSo
    <2>2. sessions' = sessions \/ \E p \in Pokemon : sessions' = AddSession(sessions, p, FALSE)
      BY <1>6 DEF assign
    <2> HIDE DEF Goal
    <2>3. QED
      BY <1>1, <1>4, <2>1, <2>2
  <1>7. ASSUME open_choice(c) PROVE Goal
    <2>1. OpenIn(sessions) = {} /\ request[c].step = "open_choice"
      BY <1>1, <1>7 DEF open_choice, TurnInv, StillSo
    <2>2. \E p \in Pokemon : sessions' = AddSession(sessions, p, TRUE)
      BY <1>7 DEF open_choice
    <2> HIDE DEF Goal
    <2>3. QED
      BY <1>1, <1>4, <2>1, <2>2
  <1>8. ASSUME resolve_and_assign(c) PROVE Goal
    <2> DEFINE s == request[c].session
               resolved == [sessions EXCEPT ![s].outcome = request[c].step]
    <2>1. request[c].step \in {"skipped", "timed_out_empty"} /\ s \in Open /\ s \in Sessions
      BY <1>8 DEF resolve_and_assign, TurnInv, StillSo, WithSession, Open
    <2>2. resolved = [sessions EXCEPT ![s].outcome = request[c].step]
      OBVIOUS
    <2>3. sessions' = resolved \/ \E p \in Pokemon : sessions' = AddSession(resolved, p, FALSE)
      BY <1>8 DEF resolve_and_assign
    <2> HIDE DEF Goal, resolved, s
    <2>4. Table(resolved) /\ Closes(resolved, sessions, s, request[c].step)
      BY <1>1, <2>1, <2>2, Resolved, ZenonT(40)
    <2>5. OpenIn(sessions) = {s}
      BY <1>1, <2>1 DEF Table, OneOpen
    <2>6. \A x \in Sessions : \/ resolved[x] = sessions[x]
                              \/ /\ x = request[c].session /\ x \in Open
                                 /\ resolved[x].outcome \in {"skipped", "timed_out_empty"}
      BY <1>1, <2>1, <2>4 DEF s, Closes
    <2>7. OpenIn(resolved) = {} /\ DOMAIN resolved = Sessions
      BY <1>1, <2>4, <2>5 DEF Closes
    <2>8. QED
      BY <1>4, <2>3, <2>4, <2>6, <2>7
  <1>9. QED
    BY <1>2, <1>3, <1>6, <1>7, <1>8 DEF Opening

\* The steps of c that touch neither the rows nor the sessions, and neither
\* start nor finish to commit.
LEMMA Aside ==
  ASSUME NEW c, Only(c), FileInv, Action(c), ~fail(c), ~Opening(c),
         ~commit(c), ~create_submission(c), ~resolve_draw_session(c)
  PROVE  /\ UNCHANGED <<rows, sessions>>
         /\ request[c].step \notin {"resolve", "commit"} /\ request'[c].step \notin {"resolve", "commit"}
  <1>1. ASSUME NEW t, Beginning(c, t)
        PROVE  /\ UNCHANGED <<rows, sessions>>
               /\ request[c].step = "idle" /\ request'[c].step \notin {"resolve", "commit"}
    BY <1>1, TurnBegins DEF Idle
  <1>2. CASE submit(c) \/ store_drawing(c) \/ write_once(c)
    <2>1. UNCHANGED <<rows, sessions>> /\ request[c].step \in {"posted", "read", "store"}
      BY <1>2 DEF submit, store_drawing, write_once
    <2>2. request'[c].step \notin {"resolve", "commit"}
      BY <1>2, TurnGoesOn
    <2>3. QED
      BY <2>1, <2>2
  <1>3. QED
    BY <1>1, <1>2, TurnAction

\* Every step keeps what the outcomes tell.
LEMMA OutcomeNext ==
  ASSUME NEW c, Only(c), FileInv, TurnInv(c), [Next]_vars
  PROVE  OutcomeTells(c)'
  <1>1. /\ request \in [Requests -> Request]
        /\ c \in Requests /\ CoreInv /\ Sessions = DOMAIN sessions /\ Sessions' = DOMAIN sessions'
        /\ \A i \in Rows : rows[i].session \in Sessions
    BY DEF FileInv, CoreInv, TypeOK, Only, Sessions, RowsHaveSessions
  <1>2. /\ \A i, j \in Rows : rows[i].session = rows[j].session => i = j
        /\ \A s \in Sessions : HasRow(s) <=> (sessions[s].outcome = "submitted" \/ Committing(c, s))
    BY DEF TurnInv, OutcomeTells
  <1>3. CASE Opening(c)
    <2>1. rows' = rows /\ request'[c] = Idle /\ ~Committing(c, 0)' /\ \A x : ~Committing(c, x) /\ ~Committing(c, x)'
      BY <1>3, Opened DEF Committing, Idle
    <2>2. \A x \in DOMAIN sessions' : HasRow(x) <=> sessions'[x].outcome = "submitted"
      <3>1. ASSUME NEW x \in DOMAIN sessions' \ Sessions
            PROVE  ~HasRow(x) /\ sessions'[x].outcome # "submitted"
        BY <1>1, <1>3, <3>1, Opened DEF HasRow
      <3>2. ASSUME NEW x \in Sessions PROVE HasRow(x) <=> sessions'[x].outcome = "submitted"
        BY <1>2, <1>3, <2>1, Opened DEF Open
      <3>3. QED
        BY <3>1, <3>2
    <2>3. QED
      BY <1>1, <1>2, <2>1, <2>2 DEF OutcomeTells, HasRow, Rows
  <1>4. CASE commit(c)
    <2> DEFINE s == request[c].session
    <2>1. s \in Sessions /\ request[c].step = "commit" /\ rows' = rows /\ request'[c] = Idle
      BY <1>1, <1>4, SessionRead DEF commit, WithSession, End
    <2>2. Closes(sessions', sessions, s, "submitted")
      BY <1>1, <1>4, <2>1, TableOK, Resolved DEF commit
    <2>3. HasRow(s)
      BY <1>2, <2>1 DEF Committing
    <2>4. \A x \in Sessions : HasRow(x) <=> sessions'[x].outcome = "submitted"
      BY <1>1, <1>2, <2>1, <2>2, <2>3 DEF Committing, Closes
    <2>5. QED
      BY <1>1, <1>2, <2>1, <2>2, <2>4 DEF OutcomeTells, HasRow, Rows, Committing, Idle, Closes
  <1>5. CASE create_submission(c)
    <2> DEFINE s == request[c].session
    <2>1. /\ s \in Sessions /\ s \in Open /\ request[c].step = "insert" /\ sessions' = sessions
          /\ \A x : ~Committing(c, x)
      BY <1>1, <1>5 DEF create_submission, TurnInv, StillSo, WithSession, Committing, Open
    <2>2. ~HasRow(s)
      BY <1>2, <2>1 DEF Open
    <2>3. CASE End(c) /\ UNCHANGED rows
      <3>1. \A x : ~Committing(c, x)'
        BY <1>1, <2>3 DEF End, Committing, Idle
      <3>2. QED
        BY <1>1, <1>2, <2>1, <2>3, <3>1 DEF OutcomeTells, HasRow, Rows
    <2>4. CASE rows' = Append(rows, NewRow(c)) /\ Goto(c, "resolve")
      <3>1. /\ Rows = 1..Len(rows) /\ Rows' = 1..(Len(rows) + 1) /\ Len(rows) \in Nat
            /\ rows'[Len(rows) + 1] = NewRow(c)
            /\ \A i \in Rows : rows'[i] = rows[i]
        <4>1. rows \in Seq(Row) /\ NewRow(c) \in Row
          BY <1>1, <2>1, RowAdded DEF CoreInv, TypeOK
        <4>2. QED
          BY <2>4, <4>1 DEF Rows
      <3>2. rows'[Len(rows) + 1].session = s
        BY <3>1 DEF NewRow
      <3>3. \A i, j \in Rows' : rows'[i].session = rows'[j].session => i = j
        <4>1. \A i \in Rows : rows'[i].session # s
          BY <2>2, <3>1 DEF HasRow
        <4>2. Rows' = Rows \cup {Len(rows) + 1}
          BY <3>1
        <4>3. QED
          BY <1>2, <3>1, <3>2, <4>1, <4>2
      <3>4. \A x : HasRow(x)' <=> HasRow(x) \/ x = s
        <4>1. Rows' = Rows \cup {Len(rows) + 1}
          BY <3>1
        <4>2. QED
          BY <3>1, <3>2, <4>1 DEF HasRow
      <3>5. \A x : Committing(c, x)' <=> x = s
        BY <1>1, <2>4 DEF Goto, Committing
      <3>6. QED
        BY <1>1, <1>2, <2>1, <3>3, <3>4, <3>5 DEF OutcomeTells
    <2>5. QED
      BY <1>5, <2>3, <2>4 DEF create_submission
  <1>6. CASE resolve_draw_session(c)
    <2>1. \A x : Committing(c, x)' <=> Committing(c, x)
      BY <1>1, <1>6 DEF resolve_draw_session, Goto, Committing
    <2>2. rows' = rows /\ sessions' = sessions
      BY <1>6 DEF resolve_draw_session
    <2>3. QED
      BY <1>1, <1>2, <2>1, <2>2 DEF OutcomeTells, HasRow, Rows
  <1>7. CASE UNCHANGED <<rows, sessions>> /\ request[c].step \notin {"resolve", "commit"}
             /\ request'[c].step \notin {"resolve", "commit"}
    BY <1>1, <1>2, <1>7 DEF OutcomeTells, HasRow, Rows, Committing
  <1>8. CASE UNCHANGED <<sessions, request>>
             /\ (rows' = rows \/ \E i \in Rows : rows' = [rows EXCEPT ![i].deleted = TRUE])
    <2>1. Rows' = Rows
      BY <1>8 DEF Rows
    <2>2. \A i \in Rows : rows'[i].session = rows[i].session
      BY <1>1, RowsKept
    <2>3. \A x : (HasRow(x)' <=> HasRow(x)) /\ (Committing(c, x)' <=> Committing(c, x))
      BY <1>8, <2>1, <2>2 DEF HasRow, Committing
    <2>4. QED
      BY <1>1, <1>2, <1>8, <2>1, <2>2, <2>3 DEF OutcomeTells
  <1>9. QED
    BY <1>3, <1>4, <1>5, <1>6, <1>7, <1>8, TurnStep, Aside

\* A step that changes the sessions opens one, or commits a submission.
LEMMA OpeningOrNot ==
  ASSUME NEW c, Only(c), FileInv, TurnInv(c), [Next]_vars, sessions' # sessions
  PROVE  Opening(c) \/ (commit(c) /\ Open' \subseteq Open /\ request'[c] = Idle
                                  /\ \A s \in Open' : s \in Sessions /\ sessions'[s] = sessions[s])
  <1>1. /\ request \in [Requests -> Request]
        /\ c \in Requests /\ CoreInv
        /\ Open = OpenIn(sessions) /\ Open' = OpenIn(sessions') /\ Sessions = DOMAIN sessions
    BY DEF FileInv, CoreInv, TypeOK, Only, Open, OpenIn, Sessions
  <1>2. CASE commit(c)
    <2> DEFINE s == request[c].session
    <2>1. s \in DOMAIN sessions /\ request'[c] = Idle
      BY <1>1, <1>2, SessionRead DEF commit, WithSession, End
    <2>2. Closes(sessions', sessions, s, "submitted")
      BY <1>1, <1>2, <2>1, TableOK, Resolved DEF commit
    <2>3. QED
      BY <1>1, <1>2, <2>1, <2>2 DEF Closes, OpenIn
  <1>3. CASE Action(c) /\ ~fail(c) /\ ~commit(c) /\ ~Opening(c)
    BY <1>3, Aside DEF create_submission, resolve_draw_session
  <1>4. QED
    BY <1>2, <1>3, TurnStep

-----------------------------------------------------------------------------
(* Free picks.                                                             *)

\* Paying for more is paying for fewer.
LEMMA PaidForFewer ==
  ASSUME NEW q \in Nat, NEW a \in Nat, NEW b \in Nat, NEW n \in Nat, a <= b, q * b <= n
  PROVE  q * a <= n
  <1>1. PICK d \in Nat : b = a + d
    <2>1. b - a \in Nat /\ b = a + (b - a)
      OBVIOUS
    <2>2. QED
      BY <2>1
  <1>2. q * (a + d) = q * a + q * d
    OBVIOUS
  <1>3. q * a \in Nat /\ q * d \in Nat
    OBVIOUS
  <1>4. QED
    BY <1>1, <1>2, <1>3

\* What can_choose has found.
LEMMA Earned ==
  ASSUME NEW q \in Nat \ {0}, NEW k \in Nat, NEW n \in Nat, (n \div q) - k > 0
  PROVE  q * (k + 1) <= n
  <1>1. n \div q \in Nat /\ q * (n \div q) <= n
    OBVIOUS
  <1>2. k + 1 <= n \div q
    BY <1>1
  <1> DEFINE m == n \div q
  <1>3. m \in Nat /\ q * m <= n /\ k + 1 <= m /\ k + 1 \in Nat
    BY <1>1, <1>2
  <1> HIDE DEF m
  <1>4. QED
    BY <1>3, PaidForFewer

FreeIn(table) == {i \in DOMAIN table : table[i].chosen = TRUE /\ ~table[i].deleted}
DealtIn(table) == {i \in DOMAIN table : ~table[i].chosen}

\* Free picks and dealt drawings are finite in number.
LEMMA Counted ==
  ASSUME NEW table \in Seq(Row)
  PROVE  /\ IsFiniteSet(FreeIn(table)) /\ Cardinality(FreeIn(table)) \in Nat
         /\ IsFiniteSet(DealtIn(table)) /\ Cardinality(DealtIn(table)) \in Nat
  <1>1. IsFiniteSet(1..Len(table)) /\ DOMAIN table = 1..Len(table)
    BY FS_Interval
  <1>2. FreeIn(table) \subseteq 1..Len(table) /\ DealtIn(table) \subseteq 1..Len(table)
    BY <1>1 DEF FreeIn, DealtIn
  <1>3. QED
    BY <1>1, <1>2, FS_Subset, FS_CardinalityType

\* A free pick that is inserted counts once; a dealt one pays.
LEMMA CountAdded ==
  ASSUME NEW table \in Seq(Row), NEW row \in Row, ~row.deleted,
         NEW new, new = Append(table, row)
  PROVE  /\ row.chosen => /\ Cardinality(FreeIn(new)) = Cardinality(FreeIn(table)) + 1
                          /\ Cardinality(DealtIn(new)) = Cardinality(DealtIn(table))
         /\ ~row.chosen => /\ Cardinality(FreeIn(new)) = Cardinality(FreeIn(table))
                           /\ Cardinality(DealtIn(new)) = Cardinality(DealtIn(table)) + 1
  <1> DEFINE n == Len(table) + 1
  <1>1. /\ DOMAIN new = DOMAIN table \cup {n} /\ n \notin DOMAIN table
        /\ new[n] = row /\ \A i \in DOMAIN table : new[i] = table[i]
    OBVIOUS
  <1>2. row.chosen \in BOOLEAN
    BY DEF Row
  <1> HIDE DEF n
  <1>3. CASE row.chosen
    <2>1. FreeIn(new) = FreeIn(table) \cup {n} /\ n \notin FreeIn(table) /\ DealtIn(new) = DealtIn(table)
      BY <1>1, <1>2, <1>3 DEF FreeIn, DealtIn
    <2>2. QED
      BY <1>3, <2>1, Counted, FS_AddElement
  <1>4. CASE ~row.chosen
    <2>1. FreeIn(new) = FreeIn(table) /\ DealtIn(new) = DealtIn(table) \cup {n} /\ n \notin DealtIn(table)
      BY <1>1, <1>2, <1>4 DEF FreeIn, DealtIn
    <2>2. QED
      BY <1>4, <2>1, Counted, FS_AddElement
  <1>5. QED
    BY <1>3, <1>4

\* A deletion may give a free pick back, and takes no dealt drawing away.
LEMMA CountDeleted ==
  ASSUME NEW table \in Seq(Row), NEW k \in DOMAIN table,
         NEW new, new = [table EXCEPT ![k].deleted = TRUE]
  PROVE  /\ Cardinality(FreeIn(new)) <= Cardinality(FreeIn(table))
         /\ Cardinality(DealtIn(new)) = Cardinality(DealtIn(table))
  <1>1. table[k] \in Row
    OBVIOUS
  <1>2. /\ DOMAIN new = DOMAIN table /\ new[k] = [table[k] EXCEPT !.deleted = TRUE]
        /\ \A i \in DOMAIN table : i # k => new[i] = table[i]
    OBVIOUS
  <1>3. new[k].deleted = TRUE /\ new[k].chosen = table[k].chosen
    BY <1>1, <1>2 DEF Row
  <1>4. FreeIn(new) \subseteq FreeIn(table) /\ DealtIn(new) = DealtIn(table)
    BY <1>2, <1>3 DEF FreeIn, DealtIn
  <1>5. QED
    BY <1>4, Counted, FS_Subset

\* Every step keeps the free picks paid for.
LEMMA PicksNext ==
  ASSUME NEW c, Only(c), FileInv, TurnInv(c), [Next]_vars
  PROVE  PicksPaid(c)'
  <1> DEFINE k == Cardinality(FreeIn(rows))
             n == Cardinality(DealtIn(rows))
             k1 == Cardinality(FreeIn(rows'))
             n1 == Cardinality(DealtIn(rows'))
  <1>1. /\ request \in [Requests -> Request]
        /\ c \in Requests /\ CoreInv /\ rows \in Seq(Row) /\ rows' \in Seq(Row) /\ Quota \in Nat
        /\ Sessions = DOMAIN sessions
    BY RoomNext, DrawAssumption DEF FileInv, CoreInv, TypeOK, Only, Sessions
  <1>2. k \in Nat /\ n \in Nat /\ k1 \in Nat /\ n1 \in Nat
    BY <1>1, Counted
  <1>3. /\ _count(TRUE) = k /\ Dealt = n /\ _count(TRUE)' = k1 /\ Dealt' = n1
    BY DEF _count, Dealt, FreeIn, DealtIn, Rows
  <1> DEFINE Pending == {s \in Open : sessions[s].chosen /\ ~HasRow(s)}
             Pending1 == {s \in Open' : sessions'[s].chosen /\ ~HasRow(s)'}
  <1>4. /\ Quota * k <= n
        /\ request[c].step = "open_choice" => Quota * (k + 1) <= n
        /\ Pending # {} => Quota * (k + 1) <= n
    BY <1>3 DEF TurnInv, PicksPaid, Paid
  <1>5. SUFFICES /\ Quota * k1 <= n1
                 /\ request'[c].step = "open_choice" => Quota * (k1 + 1) <= n1
                 /\ Pending1 # {} => Quota * (k1 + 1) <= n1
    BY <1>3 DEF PicksPaid, Paid
  <1> HIDE DEF k, n, k1, n1
  <1>6. ASSUME rows' = rows PROVE k1 = k /\ n1 = n /\ \A x : HasRow(x)' <=> HasRow(x)
    BY <1>6 DEF k, k1, n, n1, HasRow, Rows
  <1>7. CASE Opening(c)
    <2>1. rows' = rows /\ request'[c].step = "idle"
      BY <1>7, Opened DEF Idle
    <2>2. ASSUME NEW s \in Pending1 PROVE request[c].step = "open_choice"
      <3>1. s \in DOMAIN sessions' \ Sessions /\ sessions'[s].chosen
        BY <1>7, Opened DEF Open, Sessions
      <3>2. QED
        BY <1>7, <3>1, Opened
    <2> HIDE DEF Pending1
    <2>3. QED
      BY <1>4, <1>6, <2>1, <2>2
  <1>8. CASE UNCHANGED <<rows, sessions>>
    <2>1. Pending1 = Pending
      BY <1>6, <1>8 DEF Open, Sessions
    <2> DEFINE Goal == /\ Quota * k1 <= n1
                       /\ request'[c].step = "open_choice" => Quota * (k1 + 1) <= n1
                       /\ Pending1 # {} => Quota * (k1 + 1) <= n1
    <2>2. ASSUME request'[c].step # "open_choice" PROVE Goal
      BY <1>4, <1>6, <1>8, <2>1, <2>2
    <2>3. ASSUME UNCHANGED request PROVE Goal
      BY <1>4, <1>6, <1>8, <2>1, <2>3
    <2>4. ASSUME NEW t, choose(c, t) PROVE Goal
      <3>1. can_choose
        BY <2>4 DEF choose
      <3> DEFINE Kept == {i \in Rows : rows[i].chosen = FALSE /\ ~rows[i].deleted}
                 j == Cardinality(Kept)
      <3>2. k = Cardinality({i \in Rows : rows[i].chosen = TRUE /\ ~rows[i].deleted})
        BY DEF k, FreeIn, Rows
      <3>3. Quota # 0 /\ (j \div Quota) - k > 0
        <4>1. available > 0
          BY <3>1 DEF can_choose
        <4>2. CASE Quota = 0
          BY <4>1, <4>2 DEF available
        <4>3. CASE Quota # 0
          BY <3>2, <4>1, <4>3 DEF available, _count
        <4>4. QED
          BY <4>2, <4>3
      <3>4. Kept \subseteq DealtIn(rows)
        BY DEF DealtIn, Rows
      <3>5. j \in Nat /\ j <= n
        <4> HIDE DEF Kept
        <4>1. QED
          BY <1>1, <3>4, Counted, FS_Subset, FS_CardinalityType DEF n
      <3> HIDE DEF j
      <3>6. Quota * (k + 1) <= j
        BY <1>1, <1>2, <3>3, <3>5, Earned
      <3> DEFINE paid == Quota * (k + 1)
      <3>7. paid <= n
        <4>1. paid \in Nat /\ paid <= j
          BY <1>1, <1>2, <3>6
        <4> HIDE DEF paid
        <4>2. QED
          BY <1>2, <3>5, <4>1
      <3>8. QED
        BY <1>4, <1>6, <1>8, <3>7
    <2> HIDE DEF Goal, Pending, Pending1
    <2>5. ASSUME NEW t, Beginning(c, t) PROVE Goal
      BY <2>2, <2>3, <2>4, <2>5, TurnBegins
    <2>6. ASSUME submit(c) \/ store_drawing(c) \/ write_once(c) \/ create_submission(c) \/ resolve_draw_session(c)
          PROVE  Goal
      BY <2>2, <2>6, TurnGoesOn DEF Idle
    <2>7. ASSUME commit(c) PROVE Goal
      <3>1. request'[c].step = "idle"
        BY <1>1, <2>7 DEF commit, End, Idle
      <3>2. QED
        BY <2>2, <3>1
    <2>8. ASSUME Opening(c) PROVE Goal
      BY <1>7, <2>8 DEF Goal
    <2>9. Goal
      BY <2>3, <2>5, <2>6, <2>7, <2>8, TurnStep, TurnAction
    <2>10. QED
      BY <2>9 DEF Goal
  <1>9. CASE create_submission(c) /\ rows' # rows
    <2>0. PICK s : s = request[c].session
      OBVIOUS
    <2>1. /\ rows' = Append(rows, NewRow(c)) /\ Goto(c, "resolve") /\ sessions' = sessions
          /\ request[c].step = "insert" /\ s \in Open
      BY <1>9, <2>0 DEF create_submission, TurnInv, StillSo, WithSession
    <2>2. NewRow(c) \in Row /\ ~NewRow(c).deleted /\ NewRow(c).chosen = sessions[s].chosen
          /\ NewRow(c).session = s
      BY <1>1, <2>0, <2>1, RowAdded DEF NewRow, TargetOf
    <2>3. request'[c].step = "resolve"
      BY <1>1, <2>1 DEF Goto
    <2>4. HasRow(s)'
      <3>1. Len(rows) + 1 \in DOMAIN rows' /\ rows'[Len(rows) + 1] = NewRow(c)
        BY <1>1, <2>1, <2>2
      <3>2. QED
        BY <2>2, <3>1 DEF HasRow, Rows
    <2>5. Pending1 = {}
      <3>1. \A x \in Open' : x = s
        BY <1>1, <2>1 DEF CoreInv, OneOpenSession, Open, Sessions
      <3>2. QED
        BY <2>4, <3>1
    <2>6. CASE sessions[s].chosen
      <3>1. k1 = k + 1 /\ n1 = n
        BY <1>1, <2>1, <2>2, <2>6, CountAdded DEF k, k1, n, n1
      <3>2. ~HasRow(s)
        <4>1. s \in Sessions /\ sessions[s].outcome # "submitted" /\ ~Committing(c, s)
          BY <2>1 DEF Open, Committing
        <4>2. QED
          BY <4>1 DEF TurnInv, OutcomeTells
      <3>3. Quota * (k + 1) <= n
        BY <1>4, <2>1, <2>6, <3>2
      <3>4. QED
        BY <2>3, <2>5, <3>1, <3>3
    <2>7. CASE ~sessions[s].chosen
      <3>1. k1 = k /\ n1 = n + 1
        BY <1>1, <2>1, <2>2, <2>7, CountAdded DEF k, k1, n, n1
      <3>2. Quota * k \in Nat
        BY <1>1, <1>2
      <3>3. Quota * k <= n + 1
        BY <1>2, <1>4, <3>2
      <3>4. QED
        BY <2>3, <2>5, <3>1, <3>3
    <2>8. QED
      BY <2>6, <2>7
  <1>10. CASE UNCHANGED <<sessions, request>> /\ \E i \in Rows : rows' = [rows EXCEPT ![i].deleted = TRUE]
    <2>1. PICK i \in Rows : rows' = [rows EXCEPT ![i].deleted = TRUE]
      BY <1>10
    <2>2. k1 <= k /\ n1 = n
      BY <1>1, <2>1, CountDeleted DEF k, k1, n, n1, Rows
    <2>3. \A x : HasRow(x)' <=> HasRow(x)
      <3>1. DOMAIN rows' = Rows
        BY <2>1 DEF Rows
      <3>2. QED
        BY <1>1, <3>1, RowsKept DEF HasRow, Rows
    <2>4. Pending1 = Pending
      BY <1>10, <2>3 DEF Open, Sessions
    <2>5. Quota * k1 <= n1
      BY <1>1, <1>2, <1>4, <2>2, PaidForFewer
    <2>6. Quota * (k + 1) <= n => Quota * (k1 + 1) <= n1
      <3>1. k1 + 1 <= k + 1 /\ k1 + 1 \in Nat /\ k + 1 \in Nat
        BY <1>2, <2>2
      <3>2. QED
        BY <1>1, <1>2, <2>2, <3>1, PaidForFewer
    <2>7. QED
      BY <1>4, <1>10, <2>4, <2>5, <2>6
  <1>11. CASE commit(c)
    <2>1. rows' = rows /\ request'[c].step = "idle"
      BY <1>1, <1>11 DEF commit, End, Idle
    <2>2. CASE sessions' = sessions
      BY <1>8, <2>1, <2>2
    <2>3. CASE sessions' # sessions
      <3>1. ~Opening(c)
        BY <1>11 DEF commit, Opening, assign, resolve_and_assign, open_choice
      <3>2. Pending1 \subseteq Pending
        BY <1>6, <2>1, <2>3, <3>1, OpeningOrNot
      <3>3. QED
        BY <1>4, <1>6, <2>1, <3>2
    <2>4. QED
      BY <2>2, <2>3
  <1>12. CASE create_submission(c) /\ rows' = rows
    BY <1>8, <1>12 DEF create_submission
  <1>13. CASE resolve_draw_session(c)
    BY <1>8, <1>13 DEF resolve_draw_session
  <1>14. QED
    BY <1>7, <1>8, <1>9, <1>10, <1>11, <1>12, <1>13, Aside, TurnStep

-----------------------------------------------------------------------------
(* Where they all come from one tab.                                       *)

OneTab(u) == u \in Tabs /\ world.tabs = {u}

\* The page shows what is assigned, the request comes from it, and what was
\* drawn is what was assigned.
PageTells(c, u) ==
    /\ request[c].step # "idle" => request[c].tab = u
    /\ \A s \in Open : /\ shown[u] \in {None, sessions[s].pokemon}
                       /\ request[c].drawn \in {None, sessions[s].pokemon}
    /\ \A i \in Rows : rows[i].posted[2] = rows[i].pokemon

\* Where the request comes from, and what it has drawn.
LEMMA Sender ==
  ASSUME NEW c, NEW u, Only(c), OneTab(u), FileInv, PageTells(c, u), [Next]_vars
  PROVE  /\ request'[c].step # "idle" => request'[c].tab = u
         /\ request'[c].drawn \in {None, request[c].drawn, shown[u]}
  <1> DEFINE Goal == /\ request'[c].step # "idle" => request'[c].tab = u
                     /\ request'[c].drawn \in {None, request[c].drawn, shown[u]}
  <1>1. request \in [Requests -> Request] /\ c \in Requests /\ world.tabs = {u}
        /\ (request[c].step # "idle" => request[c].tab = u)
    BY DEF FileInv, CoreInv, TypeOK, Only, OneTab, PageTells
  <1>2. ASSUME request'[c] = Idle PROVE Goal
    BY <1>2 DEF Idle
  <1>3. ASSUME UNCHANGED request PROVE Goal
    BY <1>1, <1>3
  <1>4. ASSUME request'[c].drawn = request[c].drawn, request'[c].tab = request[c].tab, request[c].step # "idle"
        PROVE  Goal
    BY <1>1, <1>4
  <1>5. ASSUME NEW step, NEW s, Begin(c, u, step, s) PROVE Goal
    BY <1>1, <1>5 DEF Begin, Idle
  <1>6. ASSUME post_drawing(c, u) PROVE Goal
    BY <1>1, <1>6 DEF post_drawing, Idle
  <1> HIDE DEF Goal
  <1>7. ASSUME NEW t \in world.tabs, Beginning(c, t) PROVE Goal
    <2>1. Beginning(c, u)
      BY <1>1, <1>7
    <2>2. QED
      BY <1>3, <1>5, <1>6, <2>1 DEF Beginning, draw, skip_current, timed_out, choose
  <1>8. ASSUME Opening(c) \/ commit(c) PROVE Goal
    BY <1>1, <1>2, <1>8 DEF Opening, assign, resolve_and_assign, open_choice, commit, End
  <1>9. ASSUME submit(c) \/ store_drawing(c) \/ write_once(c) \/ create_submission(c) \/ resolve_draw_session(c)
        PROVE  Goal
    <2>1. request[c].step # "idle"
      BY <1>9 DEF submit, store_drawing, write_once, create_submission, resolve_draw_session
    <2>2. QED
      BY <1>2, <1>4, <1>9, <2>1, TurnGoesOn
  <1>10. Goal
    BY <1>3, <1>7, <1>8, <1>9, TurnStep, TurnAction
  <1>11. QED
    BY <1>10 DEF Goal

\* Every step keeps the page at what is assigned.
LEMMA ShownTells ==
  ASSUME NEW c, NEW u, Only(c), OneTab(u), FileInv, TurnInv(c), PageTells(c, u), [Next]_vars, NEW s \in Open'
  PROVE  shown'[u] \in {None, sessions'[s].pokemon}
  <1> DEFINE Goal == shown'[u] \in {None, sessions'[s].pokemon}
  <1>1. /\ shown \in [Tabs -> Pokemon \cup {None}] /\ u \in Tabs /\ world.tabs = {u} /\ c \in Requests
        /\ CoreInv /\ ~Faults /\ InTurn
        /\ Sessions = DOMAIN sessions /\ Open = OpenIn(sessions) /\ Open' = OpenIn(sessions')
    BY FS_Singleton DEF FileInv, CoreInv, TypeOK, Only, OneTab, InTurn, Sessions, Open, OpenIn
  <1>2. \A x \in Open : shown[u] \in {None, sessions[x].pokemon}
    BY DEF PageTells
  <1>3. ASSUME NEW p, Navigate(u, p), p \in {None, sessions'[s].pokemon} PROVE Goal
    BY <1>1, <1>3 DEF Navigate
  <1>4. ASSUME shown' = shown, sessions' = sessions PROVE Goal
    BY <1>2, <1>4 DEF Open, Sessions
  <1>5. request[c].step # "idle" => request[c].tab = u
    BY DEF PageTells
  <1> HIDE DEF Goal
  <1>6. ASSUME resolve_and_assign(c) \/ open_choice(c) \/ commit(c) PROVE Goal
    <2>1. Leave(u)
      BY <1>5, <1>6 DEF resolve_and_assign, open_choice, commit
    <2>2. QED
      BY <1>3, <2>1 DEF Leave
  <1>7. ASSUME assign(c) PROVE Goal
    <2>1. OpenIn(sessions') # {} /\ request[c].tab = u
      BY <1>1, <1>5, <1>7 DEF assign
    <2>2. Navigate(u, sessions'[Max(OpenIn(sessions'))].pokemon)
      BY <1>7, <2>1 DEF assign, OpenIn
    <2>3. Max(OpenIn(sessions')) = s
      BY <1>1, <2>1, SessionsNext, Current DEF Table, OneOpen
    <2>4. QED
      BY <1>3, <2>2, <2>3
  <1>8. ASSUME NEW t \in world.tabs, Beginning(c, t) PROVE Goal
    <2>1. t = u /\ sessions' = sessions
      BY <1>1, <1>8, TurnBegins
    <2>2. CASE draw(c, u) /\ Open # {}
      <3>1. Navigate(u, sessions[current_session].pokemon) /\ current_session = s
        BY <1>1, <2>1, <2>2, CurrentSession DEF draw
      <3>2. QED
        BY <1>3, <2>1, <3>1
    <2>3. CASE ~draw(c, u) \/ Open = {}
      <3>1. shown' = shown
        BY <1>8, <2>1, <2>3 DEF Beginning, draw, skip_current, timed_out, choose, post_drawing
      <3>2. QED
        BY <1>4, <2>1, <3>1
    <2>4. QED
      BY <2>2, <2>3
  <1>9. ASSUME submit(c) \/ store_drawing(c) \/ write_once(c) \/ create_submission(c) \/ resolve_draw_session(c)
        PROVE  Goal
    BY <1>4, <1>9, TurnGoesOn
  <1>10. Goal
    BY <1>4, <1>6, <1>7, <1>8, <1>9, TurnStep, TurnAction DEF Opening
  <1>11. QED
    BY <1>10 DEF Goal

\* Every step keeps what the page tells.
LEMMA PageNext ==
  ASSUME NEW c, NEW u, Only(c), OneTab(u), FileInv, TurnInv(c), PageTells(c, u), [Next]_vars
  PROVE  PageTells(c, u)'
  <1>1. c \in Requests /\ CoreInv /\ Sessions = DOMAIN sessions
    BY DEF FileInv, Only, Sessions
  <1>2. /\ \A s \in Open : /\ shown[u] \in {None, sessions[s].pokemon}
                           /\ request[c].drawn \in {None, sessions[s].pokemon}
        /\ \A i \in Rows : rows[i].posted[2] = rows[i].pokemon
    BY DEF PageTells
  <1>3. ASSUME NEW s \in Open' PROVE request'[c].drawn \in {None, sessions'[s].pokemon}
    <2>1. CASE sessions' = sessions
      BY <1>2, <2>1, Sender DEF Open, Sessions
    <2>2. CASE sessions' # sessions
      BY <2>2, OpeningOrNot, Opened DEF Idle
    <2>3. QED
      BY <2>1, <2>2
  <1>4. ASSUME NEW i \in DOMAIN rows' PROVE rows'[i].posted[2] = rows'[i].pokemon
    <2>1. CASE i \in Rows
      BY <1>1, <1>2, <2>1, RowsKept
    <2>2. CASE i \notin Rows
      <3>1. PICK r \in Requests : create_submission(r) /\ rows'[i] = NewRow(r)
        BY <1>1, <1>4, <2>2, RowsKept
      <3>2. request[r].step = "insert"
        BY <3>1 DEF create_submission
      <3>3. r = c
        BY <3>2 DEF TurnInv, OthersIdle, Idle
      <3>4. request[c].session \in Open /\ request[c].drawn # None
        BY <1>1, <3>2, <3>3 DEF TurnInv, StillSo, WithSession, CoreInv, Prepared, Submitting
      <3>5. request[c].drawn = TargetOf(c).pokemon
        BY <1>2, <3>4 DEF TargetOf
      <3>6. rows'[i].posted[2] = request[c].drawn /\ rows'[i].pokemon = TargetOf(c).pokemon
        BY <3>1, <3>3 DEF NewRow, PostedBy
      <3>7. QED
        BY <3>5, <3>6
    <2>3. QED
      BY <2>1, <2>2
  <1>5. QED
    BY <1>3, <1>4, Sender, ShownTells DEF PageTells, Rows

-----------------------------------------------------------------------------
(* The theorems.                                                           *)

Inv ==
    /\ FileInv
    /\ SubmittedDrawn
    /\ FaultlessInv
    /\ \A c \in Requests : Only(c) =>
         /\ TurnInv(c)
         /\ \A u \in Tabs : OneTab(u) => PageTells(c, u)

\* The invariant holds at first.
LEMMA PlayerInit ==
  ASSUME Init
  PROVE  Inv
  <1>1. FileInv
    BY FileInit
  <1>2. Rows = {} /\ Sessions = {} /\ Open = {} /\ DOMAIN files = {} /\ \A r \in Requests : request[r] = Idle
    BY DEF Init, Rows, Sessions, Open
  <1>3. SubmittedDrawn /\ FaultlessInv
    BY <1>2 DEF SubmittedDrawn, FaultlessInv, RowsCommitted, FilesTell, Idle
  <1>4. ASSUME NEW c \in Requests PROVE TurnInv(c) /\ \A u \in Tabs : OneTab(u) => PageTells(c, u)
    <2>1. Cardinality({i \in Rows : rows[i].chosen = TRUE /\ ~rows[i].deleted}) = 0 /\ Dealt = 0
      BY <1>2, FS_EmptySet DEF Dealt
    <2>2. PicksPaid(c)
      <3>1. Quota * 0 = 0
        BY DrawAssumption
      <3>2. request[c].step = "idle"
        BY <1>2 DEF Idle
      <3>3. QED
        BY <1>2, <2>1, <3>1, <3>2 DEF PicksPaid, Paid, _count
    <2>3. QED
      BY <1>2, <2>2 DEF TurnInv, OthersIdle, StillSo, OutcomeTells, PageTells, Idle, WithSession
  <1>5. QED
    BY <1>1, <1>3, <1>4 DEF Inv

\* Every step keeps it.
LEMMA PlayerNext ==
  ASSUME Inv, [Next]_vars
  PROVE  Inv'
  <1>1. FileInv /\ FileInv' /\ CoreInv /\ world' = world
    BY FileNext DEF Inv, FileInv, Next, vars
  <1>2. SubmittedDrawn'
    BY <1>1, SubmittedNext DEF Inv
  <1>3. FaultlessInv'
    BY <1>1, CommittedNext, FilesTellNext DEF Inv, FaultlessInv, Faults
  <1>4. ASSUME NEW c \in Requests, Only(c)' PROVE TurnInv(c)' /\ \A u \in Tabs : OneTab(u)' => PageTells(c, u)'
    <2>1. Only(c) /\ TurnInv(c)
      <3>1. Only(c)
        BY <1>1, <1>4 DEF Only, Faults
      <3>2. QED
        BY <3>1 DEF Inv
    <2>2. ASSUME NEW u \in Tabs, OneTab(u)' PROVE PageTells(c, u)'
      <3>1. OneTab(u)
        BY <1>1, <2>2 DEF OneTab
      <3>2. PageTells(c, u)
        BY <2>1, <3>1 DEF Inv
      <3>3. QED
        BY <1>1, <2>1, <3>1, <3>2, PageNext
    <2>3. QED
      BY <1>1, <2>1, <2>2, OthersNext, StillSoNext, OutcomeNext, PicksNext DEF TurnInv
  <1>5. QED
    BY <1>1, <1>2, <1>3, <1>4 DEF Inv

\* So it always holds.
LEMMA PlayerAlways == Spec => []Inv
  BY PlayerInit, PlayerNext, PTL DEF Spec

\* Requests that follow each other are all the same place for one.
LEMMA InTurnOnly ==
  ASSUME Inv, Sequential
  PROVE  \E c \in Requests : Only(c) /\ TurnInv(c) /\ \A u \in Tabs : OneTab(u) => PageTells(c, u)
  <1>1. world.requests \subseteq Requests /\ IsFiniteSet(world.requests)
    BY WorldOK, DrawAssumption, FS_Subset DEF Inv, FileInv, CoreInv
  <1>2. PICK c : world.requests = {c}
    BY <1>1, FS_Singleton DEF Sequential, InTurn
  <1>3. Only(c) /\ c \in Requests
    BY <1>1, <1>2 DEF Only, Sequential
  <1>4. QED
    BY <1>3 DEF Inv

\* The picture under a Pokemon's name was drawn for that Pokemon, where nothing
\* fails and the requests of one tab follow each other.  A Skip that overtakes
\* an upload is outside it: the drawing may then be filed under the next
\* Pokemon.
THEOREM DrawnAsShown == Spec => []DrawnForItsPokemon
  <1>1. Inv => DrawnForItsPokemon
    <2>1. SUFFICES ASSUME Inv, Calm PROVE \A i \in Rows : rows[i].posted[2] = rows[i].pokemon
      BY DEF DrawnForItsPokemon
    <2>2. world.tabs \subseteq Tabs
      BY <2>1, WorldOK DEF Inv, FileInv, CoreInv
    <2>3. PICK u : world.tabs = {u}
      BY <2>1, <2>2, DrawAssumption, FS_Subset, FS_Singleton DEF Calm
    <2>4. OneTab(u)
      BY <2>2, <2>3 DEF OneTab
    <2>5. QED
      BY <2>1, <2>4, InTurnOnly DEF Calm, OneTab, PageTells
  <1>2. QED
    BY <1>1, PlayerAlways, PTL

\* A session that says submitted has its drawing, whatever overlaps or fails;
\* a session with a drawing has ended, where nothing has failed, whatever
\* overlapped; and a session was drawn once exactly if it says submitted, where
\* requests follow each other besides.
THEOREM OutcomesTell == Spec => []OutcomeTellsDrawn
  <1>1. Inv => OutcomeTellsDrawn
    <2>1. ASSUME Inv, NEW s \in Sessions, sessions[s].outcome = "submitted" PROVE DrawnIn(s) # {}
      BY <2>1 DEF Inv, SubmittedDrawn, HasRow, DrawnIn
    <2>2. ASSUME Inv, ~Faults, Quiet, NEW i \in Rows PROVE sessions[rows[i].session].outcome # "open"
      BY <2>2 DEF Inv, FaultlessInv, RowsCommitted, Committing, Quiet, Idle
    <2>3. ASSUME Inv, Sequential, Quiet, NEW s \in Sessions
          PROVE  Cardinality(DrawnIn(s)) = IF sessions[s].outcome = "submitted" THEN 1 ELSE 0
      <3>1. PICK c \in Requests : TurnInv(c)
        BY <2>3, InTurnOnly
      <3>2. ~Committing(c, s)
        BY <2>3 DEF Quiet, Idle, Committing
      <3>3. /\ \A i, j \in Rows : rows[i].session = rows[j].session => i = j
            /\ HasRow(s) <=> sessions[s].outcome = "submitted"
        BY <2>3, <3>1, <3>2 DEF TurnInv, OutcomeTells
      <3>4. CASE HasRow(s)
        <4>1. PICK i \in Rows : DrawnIn(s) = {i}
          BY <3>3, <3>4 DEF HasRow, DrawnIn
        <4>2. QED
          BY <3>3, <3>4, <4>1, FS_Singleton
      <3>5. CASE ~HasRow(s)
        <4>1. DrawnIn(s) = {}
          BY <3>5 DEF HasRow, DrawnIn
        <4>2. QED
          BY <3>3, <3>5, <4>1, FS_EmptySet
      <3>6. QED
        BY <3>4, <3>5
    <2>4. QED
      BY <2>1, <2>2, <2>3 DEF OutcomeTellsDrawn
  <1>2. QED
    BY <1>1, PlayerAlways, PTL

\* While no request is at work, the next drawing finds its file name free,
\* where nothing has failed, whatever overlapped.
THEOREM NextNameFree == Spec => []NextIndexFree
  <1>1. Inv => NextIndexFree
    <2>1. SUFFICES ASSUME Inv, ~Faults, Quiet, NEW p \in Pokemon, <<p, next_index(p)>> \in DOMAIN files
                   PROVE  FALSE
      BY DEF NextIndexFree
    <2>2. FilesTell /\ rows \in Seq(Row) /\ \A r \in Requests : request[r].step # "insert"
      BY <2>1 DEF Quiet, Idle, Inv, FaultlessInv, FileInv, CoreInv, TypeOK
    <2> DEFINE n == next_index(p)
    <2>3. n \in Nat /\ \A i \in Rows : rows[i].pokemon = p => rows[i].index < n
      BY <2>2, NextIndex
    <2> HIDE DEF n
    <2>4. PICK i \in Rows : <<rows[i].pokemon, rows[i].index>> = <<p, n>>
      BY <2>1, <2>2 DEF FilesTell, n
    <2>5. QED
      BY <2>3, <2>4
  <1>2. QED
    BY <1>1, PlayerAlways, PTL

\* Every free pick in the gallery was paid for by Quota drawings the picker
\* dealt, where requests follow each other (freechoice.py:7-24).
THEOREM PicksArePaidFor == Spec => []PicksPaidFor
  <1>1. Inv => PicksPaidFor
    <2>1. SUFFICES ASSUME Inv, Sequential PROVE Quota * _count(TRUE) <= Dealt
      BY DEF PicksPaidFor, Dealt
    <2>2. QED
      BY <2>1, InTurnOnly DEF TurnInv, PicksPaid, Paid
  <1>2. QED
    BY <1>1, PlayerAlways, PTL

=============================================================================
