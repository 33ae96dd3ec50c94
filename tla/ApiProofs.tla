----------------------------- MODULE ApiProofs -----------------------------
(***************************************************************************)
(* Proofs about the handlers of the API, for any number of requests at     *)
(* once, accounts and games: what the tables promise and what a handler    *)
(* decided on survive everything that happens between its statements.  And *)
(* about a client that reads the list of accounts page by page meanwhile:  *)
(* no account that was there all the time is missing from what it read.    *)
(***************************************************************************)
EXTENDS UserListing, FiniteSetTheorems, TLAPS

\* Every row has an id that was given out, and so has everything deleted: this is
\* why an id that was told to be gone never comes back.
RowsAreBorn ==
    /\ \A u \in Ids : Exists(u) => u \in born
    /\ \A g \in GameIds : games[g] # NoRow => g \in born
    /\ \A x \in Ids \cup GameIds : removed[x] # 0 => x \in born

\* The roles a request in flight has decided on are in its history.
DecisionsAreRecorded ==
    \A c \in Clients : InFlight(req[c]) =>
        /\ req[c].role \in Admins \cap witness[c].caller
        /\ req[c].at = "looked_up" =>
             req[c].role = "super_admin" \/ "user" \in witness[c].target

IInv == TypeOK /\ RowsAreBorn /\ TablesConsistent /\ DeletedOnce /\ DecisionsAreRecorded

-----------------------------------------------------------------------------
(* Facts about the shape of requests. *)

LEMMA RequestKinds ==
    ASSUME TypeOK, NEW c \in Clients
    PROVE  /\ IsAdmitted(c) => req[c] \in Admitted
           /\ req[c].at = "looked_up" => req[c] \in LookedUp
           /\ InFlight(req[c]) <=> req[c].at \in {"admitted", "looked_up"}
BY DEF TypeOK, IsAdmitted, Admitted, LookedUp, Answered, InFlight

LEMMA AnswerType ==
    ASSUME TypeOK, NEW c \in Clients, NEW code \in Codes, Answer(c, code)
    PROVE  /\ req' \in [Clients -> Admitted \cup LookedUp \cup Answered]
           /\ ~InFlight(req'[c])
           /\ \A d \in Clients \ {c} : req'[d] = req[d]
BY DEF TypeOK, Answer, Answered, InFlight

LEMMA AppliedType ==
    ASSUME TypeOK, NEW c \in Clients, NEW code \in Codes, Applied(c, code)
    PROVE  /\ req' \in [Clients -> Admitted \cup LookedUp \cup Answered]
           /\ ~InFlight(req'[c])
           /\ \A d \in Clients \ {c} : req'[d] = req[d]
BY AnswerType DEF Applied, Codes

LEMMA RememberType ==
    ASSUME users' \in [Ids -> Account \cup {NoRow}],
           req' \in [Clients -> Admitted \cup LookedUp \cup Answered],
           TypeOK, Remember
    PROVE  witness' \in [Clients -> [caller : SUBSET Roles, target : SUBSET Roles]]
<1> SUFFICES ASSUME NEW c \in Clients
             PROVE  witness'[c] \in [caller : SUBSET Roles, target : SUBSET Roles]
    BY DEF Remember
<1>0. \A u \in Ids : RoleIn(users', u) \subseteq Roles
    BY DEF RoleIn, Account
<1>1. CASE ~InFlight(req'[c])
    BY <1>1 DEF Remember, Unseen
<1>2. CASE InFlight(req'[c])
    <2>1. req'[c] \in Admitted \cup LookedUp
        BY <1>2 DEF InFlight, Answered
    <2>2. req'[c].caller \in Ids /\ (req'[c].at = "looked_up" => req'[c].target \in Ids)
        BY <2>1 DEF Admitted, LookedUp
    <2>3. witness[c].caller \in SUBSET Roles /\ witness[c].target \in SUBSET Roles
        BY DEF TypeOK
    <2>4. witness'[c] = [caller |-> witness[c].caller \cup RoleIn(users', req'[c].caller),
                         target |-> IF req'[c].at = "looked_up"
                                    THEN witness[c].target \cup RoleIn(users', req'[c].target)
                                    ELSE {}]
        BY <1>2 DEF Remember
    <2> QED BY <1>0, <2>2, <2>3, <2>4
<1> QED BY <1>1, <1>2

-----------------------------------------------------------------------------
(* Type correctness. *)

LEMMA InitIInv == Init => IInv
<1> SUFFICES ASSUME Init PROVE IInv
    OBVIOUS
<1>1. TypeOK
    BY DEF Init, TypeOK, Answered, Codes, Unseen
<1>2. RowsAreBorn /\ TablesConsistent /\ DeletedOnce
    BY DEF Init, RowsAreBorn, TablesConsistent, DeletedOnce, Exists
<1>3. DecisionsAreRecorded
    BY DEF Init, DecisionsAreRecorded, InFlight
<1> QED BY <1>1, <1>2, <1>3 DEF IInv

LEMMA NextType == TypeOK /\ [Next]_vars => TypeOK'
<1> SUFFICES ASSUME TypeOK, [Next]_vars PROVE TypeOK'
    OBVIOUS
<1> DEFINE Tables == /\ users' \in [Ids -> Account \cup {NoRow}]
                     /\ games' \in [GameIds -> Ids \cup {NoRow}]
                     /\ born' \subseteq Ids \cup GameIds
                     /\ removed' \in [Ids \cup GameIds -> Nat]
           Requests == req' \in [Clients -> Admitted \cup LookedUp \cup Answered]
<1>0. ASSUME Tables, Requests, Remember PROVE TypeOK'
    BY <1>0, RememberType DEF TypeOK
<1>1. CASE Bootstrap
    <2>1. Tables
        BY <1>1, AdminNameAssumption DEF Bootstrap, TypeOK, Account, Roles, Exists
    <2>2. Requests /\ Remember
        BY <1>1 DEF Bootstrap, TypeOK
    <2> QED BY <2>1, <2>2, <1>0
<1>2. ASSUME NEW c \in Clients, NEW u \in Ids, Authenticate(c, u) PROVE TypeOK'
    <2>1. Tables /\ Remember
        BY <1>2 DEF Authenticate, TypeOK
    <2>2. CASE Answer(c, "unauthorized") \/ Answer(c, "forbidden")
        BY <2>1, <2>2, <1>0, AnswerType DEF Codes
    <2>3. CASE /\ Exists(u)
               /\ req' = [req EXCEPT ![c] = [at |-> "admitted", caller |-> u,
                                             role |-> users[u].role]]
        <3>1. users[u].role \in Roles
            BY <2>3 DEF TypeOK, Account, Exists
        <3>2. Requests
            BY <2>3, <3>1 DEF TypeOK, Admitted
        <3> QED BY <2>1, <3>2, <1>0
    <2> QED BY <1>2, <2>2, <2>3 DEF Authenticate
<1>3. ASSUME NEW c \in Clients, CreateUser(c) PROVE TypeOK'
    <2>1. Tables
        BY <1>3 DEF CreateUser, TypeOK, Account
    <2>2. Answer(c, "conflict") \/ Applied(c, "created")
        BY <1>3 DEF CreateUser
    <2>3. Requests
        BY <2>2, AnswerType, AppliedType DEF Codes
    <2> QED BY <1>3, <2>1, <2>3, <1>0 DEF CreateUser
<1>4. ASSUME NEW c \in Clients, UpdateUser(c) PROVE TypeOK'
    <2>1. Tables
        BY <1>4 DEF UpdateUser, TypeOK, Account
    <2>2. Answer(c, "not_found") \/ Answer(c, "conflict") \/ Applied(c, "ok")
        BY <1>4 DEF UpdateUser
    <2>3. Requests
        BY <2>2, AnswerType, AppliedType DEF Codes
    <2> QED BY <1>4, <2>1, <2>3, <1>0 DEF UpdateUser
<1>5. ASSUME NEW c \in Clients, LookUp(c) PROVE TypeOK'
    <2>1. Tables /\ Remember
        BY <1>5 DEF LookUp, TypeOK
    <2>2. CASE Answer(c, "not_found") \/ Answer(c, "forbidden")
        BY <2>1, <2>2, <1>0, AnswerType DEF Codes
    <2>3. CASE \E u \in Ids :
                 req' = [req EXCEPT ![c] = [at |-> "looked_up", caller |-> req[c].caller,
                                            role |-> req[c].role, target |-> u]]
        <3>1. req[c].caller \in Ids /\ req[c].role \in Roles
            BY <1>5, RequestKinds DEF LookUp, Admitted
        <3>2. Requests
            BY <2>3, <3>1 DEF TypeOK, LookedUp
        <3> QED BY <2>1, <3>2, <1>0
    <2> QED BY <1>5, <2>2, <2>3 DEF LookUp
<1>6. ASSUME NEW c \in Clients, DeleteUser(c) PROVE TypeOK'
    <2>0. req[c].target \in Ids
        BY <1>6, RequestKinds DEF DeleteUser, LookedUp
    <2>1. Tables
        BY <1>6, <2>0 DEF DeleteUser, TypeOK
    <2>2. \/ Answer(c, "not_found") \/ Answer(c, "internal")
          \/ Answer(c, "no_content") \/ Answer(c, "lost")
        BY <1>6 DEF DeleteUser
    <2>3. Requests
        BY <2>2, AnswerType DEF Codes
    <2> QED BY <1>6, <2>1, <2>3, <1>0 DEF DeleteUser
<1>7. ASSUME NEW c \in Clients, CreateGame(c) PROVE TypeOK'
    <2>0. req[c].caller \in Ids
        BY <1>7, RequestKinds DEF CreateGame, Admitted
    <2>1. Tables
        BY <1>7, <2>0 DEF CreateGame, TypeOK
    <2>2. Answer(c, "internal") \/ Applied(c, "created")
        BY <1>7 DEF CreateGame
    <2>3. Requests
        BY <2>2, AnswerType, AppliedType DEF Codes
    <2> QED BY <1>7, <2>1, <2>3, <1>0 DEF CreateGame
<1>8. ASSUME NEW c \in Clients, UpdateGame(c) PROVE TypeOK'
    <2>1. Tables /\ Remember
        BY <1>8 DEF UpdateGame, TypeOK
    <2>2. Answer(c, "not_found") \/ Answer(c, "ok")
        BY <1>8 DEF UpdateGame
    <2> QED BY <2>1, <2>2, <1>0, AnswerType DEF Codes
<1>9. ASSUME NEW c \in Clients, DeleteGame(c) PROVE TypeOK'
    <2>1. Tables
        BY <1>9 DEF DeleteGame, TypeOK
    <2>2. Answer(c, "not_found") \/ Answer(c, "no_content") \/ Answer(c, "lost")
        BY <1>9 DEF DeleteGame
    <2>3. Requests
        BY <2>2, AnswerType DEF Codes
    <2> QED BY <1>9, <2>1, <2>3, <1>0 DEF DeleteGame
<1>10. ASSUME NEW c \in Clients, Drop(c) PROVE TypeOK'
    <2>1. Tables /\ Remember
        BY <1>10 DEF Drop, TypeOK
    <2> QED BY <1>10, <2>1, <1>0, AnswerType DEF Drop, Codes
<1>11. CASE UNCHANGED vars
    BY <1>11 DEF vars, TypeOK
<1> QED BY <1>1, <1>2, <1>3, <1>4, <1>5, <1>6, <1>7, <1>8, <1>9, <1>10, <1>11 DEF Next

-----------------------------------------------------------------------------
(* The tables. *)

\* Writing one row of an account keeps names unique if the name is free.
LEMMA NewNameUnique ==
    ASSUME TypeOK, TablesConsistent, NEW u \in Ids, NEW n \in Names, NEW r \in Roles,
           ~NameTaken(n, u),
           users' = [users EXCEPT ![u] = [name |-> n, role |-> r]]
    PROVE  /\ \A v, w \in Ids : Exists(v)' /\ Exists(w)' /\ users'[v].name = users'[w].name
                                  => v = w
           /\ \A v \in Ids : Exists(v)' <=> Exists(v) \/ v = u
<1>1. [name |-> n, role |-> r] # NoRow
    BY NoRowAssumption DEF Account
<1>2. \A v \in Ids : users'[v] = IF v = u THEN [name |-> n, role |-> r] ELSE users[v]
    BY DEF TypeOK
<1>3. \A v \in Ids : Exists(v)' <=> Exists(v) \/ v = u
    BY <1>1, <1>2 DEF Exists
<1>4. ASSUME NEW v \in Ids, NEW w \in Ids, Exists(v)', Exists(w)',
             users'[v].name = users'[w].name
      PROVE  v = w
    <2>1. CASE v = u /\ w # u
        BY <1>2, <1>3, <1>4, <2>1 DEF NameTaken, Exists
    <2>2. CASE v # u /\ w = u
        BY <1>2, <1>3, <1>4, <2>2 DEF NameTaken, Exists
    <2>3. CASE v # u /\ w # u
        BY <1>2, <1>3, <1>4, <2>3 DEF TablesConsistent
    <2> QED BY <2>1, <2>2, <2>3
<1> QED BY <1>3, <1>4

\* Deletions need a row, and rows are only added under ids not given out before,
\* so nothing deleted returns; the foreign key holds on both sides of it.
LEMMA NextTables ==
    TypeOK /\ RowsAreBorn /\ TablesConsistent /\ DeletedOnce /\ [Next]_vars
      => RowsAreBorn' /\ TablesConsistent' /\ DeletedOnce'
<1> SUFFICES ASSUME TypeOK, RowsAreBorn, TablesConsistent, DeletedOnce, [Next]_vars
             PROVE  RowsAreBorn' /\ TablesConsistent' /\ DeletedOnce'
    OBVIOUS
<1> DEFINE Goal == RowsAreBorn' /\ TablesConsistent' /\ DeletedOnce'
<1>0. ASSUME UNCHANGED <<users, games, born, removed>> PROVE Goal
    BY <1>0 DEF RowsAreBorn, TablesConsistent, DeletedOnce, Exists
\* A new account.
<1>a. ASSUME NEW u \in Ids \ born, NEW n \in Names, NEW r \in Roles, ~NameTaken(n, u),
             users' = [users EXCEPT ![u] = [name |-> n, role |-> r]],
             born' = born \cup {u}, UNCHANGED <<games, removed>>
      PROVE  Goal
    <2>1. /\ \A v, w \in Ids : Exists(v)' /\ Exists(w)' /\ users'[v].name = users'[w].name
                                 => v = w
          /\ \A v \in Ids : Exists(v)' <=> Exists(v) \/ v = u
        BY <1>a, NewNameUnique
    <2>2. RowsAreBorn'
        BY <1>a, <2>1 DEF RowsAreBorn
    <2>3. TablesConsistent'
        BY <1>a, <2>1 DEF TablesConsistent, TypeOK
    <2>4. DeletedOnce'
        BY <1>a, <2>1 DEF DeletedOnce, RowsAreBorn
    <2> QED BY <2>2, <2>3, <2>4
\* An account that is renamed or given another role.
<1>b. ASSUME NEW u \in Ids, Exists(u), NEW n \in Names, NEW r \in Roles, ~NameTaken(n, u),
             users' = [users EXCEPT ![u] = [name |-> n, role |-> r]],
             UNCHANGED <<games, born, removed>>
      PROVE  Goal
    <2>1. /\ \A v, w \in Ids : Exists(v)' /\ Exists(w)' /\ users'[v].name = users'[w].name
                                 => v = w
          /\ \A v \in Ids : Exists(v)' <=> Exists(v)
        BY <1>b, NewNameUnique
    <2>2. RowsAreBorn'
        BY <1>b, <2>1 DEF RowsAreBorn
    <2>3. TablesConsistent'
        BY <1>b, <2>1 DEF TablesConsistent, TypeOK
    <2>4. DeletedOnce'
        BY <1>b, <2>1 DEF DeletedOnce
    <2> QED BY <2>2, <2>3, <2>4
<1>1. CASE Bootstrap
    <2>1. CASE \E u \in Ids \ born :
                 /\ ~NameTaken(AdminName, u)
                 /\ users' = [users EXCEPT ![u] = [name |-> AdminName,
                                                   role |-> "super_admin"]]
                 /\ born' = born \cup {u}
        BY <1>1, <2>1, <1>a, AdminNameAssumption DEF Bootstrap, Roles
    <2>2. ASSUME NEW u \in Ids, Exists(u), users[u].name = AdminName,
                 users' = [users EXCEPT ![u].role = "super_admin"], UNCHANGED born
          PROVE  Goal
        <3>1. users[u] \in Account
            BY <2>2 DEF TypeOK, Exists
        <3>2. [users[u] EXCEPT !.role = "super_admin"]
                = [name |-> AdminName, role |-> "super_admin"]
            BY <2>2, <3>1 DEF Account
        <3>3. users' = [users EXCEPT ![u] = [name |-> AdminName, role |-> "super_admin"]]
            BY <2>2, <3>2 DEF TypeOK
        <3>4. ~NameTaken(AdminName, u)
            BY <2>2 DEF NameTaken, TablesConsistent
        <3> QED BY <1>1, <2>2, <3>3, <3>4, <1>b, AdminNameAssumption DEF Bootstrap, Roles
    <2> QED BY <1>1, <2>1, <2>2 DEF Bootstrap
<1>2. ASSUME NEW c \in Clients, NEW u \in Ids, Authenticate(c, u) PROVE Goal
    BY <1>2, <1>0 DEF Authenticate
<1>3. ASSUME NEW c \in Clients, CreateUser(c) PROVE Goal
    BY <1>3, <1>0, <1>a DEF CreateUser
<1>4. ASSUME NEW c \in Clients, UpdateUser(c) PROVE Goal
    BY <1>4, <1>0, <1>b DEF UpdateUser
<1>5. ASSUME NEW c \in Clients, LookUp(c) PROVE Goal
    BY <1>5, <1>0 DEF LookUp
<1>6. ASSUME NEW c \in Clients, DeleteUser(c) PROVE Goal
    <2> DEFINE u == req[c].target
    <2>0. u \in Ids
        BY <1>6, RequestKinds DEF DeleteUser, LookedUp
    <2>1. CASE UNCHANGED <<users, removed>>
        BY <1>6, <2>1, <1>0 DEF DeleteUser
    <2>2. CASE /\ Exists(u) /\ ~Referenced(u)
               /\ users' = [users EXCEPT ![u] = NoRow]
               /\ removed' = [removed EXCEPT ![u] = @ + 1] \/ UNCHANGED removed
        <3>1. UNCHANGED <<games, born>>
            BY <1>6 DEF DeleteUser
        <3>2. \A v \in Ids : users'[v] = IF v = u THEN NoRow ELSE users[v]
            BY <2>0, <2>2 DEF TypeOK
        <3>3. \A v \in Ids : Exists(v)' <=> Exists(v) /\ v # u
            BY <3>2 DEF Exists
        <3>4. \A x \in Ids \cup GameIds : x # u => removed'[x] = removed[x]
            BY <2>0, <2>2 DEF TypeOK
        <3>5. removed[u] = 0 /\ removed'[u] \in {0, 1}
            <4>1. removed[u] \in Nat /\ removed[u] <= 1 /\ removed[u] # 1
                BY <2>0, <2>2 DEF TypeOK, DeletedOnce
            <4>2. removed[u] = 0
                BY <4>1
            <4>3. removed'[u] = removed[u] + 1 \/ removed'[u] = removed[u]
                BY <2>0, <2>2 DEF TypeOK
            <4> QED BY <4>2, <4>3
        <3>6. RowsAreBorn'
            BY <2>0, <2>2, <3>1, <3>3, <3>4, <3>5 DEF RowsAreBorn
        <3>7. TablesConsistent'
            <4>1. \A g \in GameIds : games[g] # NoRow => games[g] \in Ids /\ games[g] # u
                BY <2>2 DEF Referenced, TypeOK
            <4> QED BY <3>1, <3>2, <3>3, <4>1 DEF TablesConsistent
        <3>8. u \notin GameIds
            BY <2>0, IdsAssumption
        <3>9. DeletedOnce'
            BY <2>0, <3>1, <3>3, <3>4, <3>5, <3>8 DEF DeletedOnce
        <3> QED BY <3>6, <3>7, <3>9
    <2> QED BY <1>6, <2>1, <2>2 DEF DeleteUser
<1>7. ASSUME NEW c \in Clients, CreateGame(c) PROVE Goal
    <2> DEFINE u == req[c].caller
    <2>0. u \in Ids
        BY <1>7, RequestKinds DEF CreateGame, Admitted
    <2>1. CASE UNCHANGED <<games, born>>
        BY <1>7, <2>1, <1>0 DEF CreateGame
    <2>2. ASSUME Exists(u), NEW g \in GameIds \ born,
                 games' = [games EXCEPT ![g] = u], born' = born \cup {g}
          PROVE  Goal
        <3>1. UNCHANGED <<users, removed>>
            BY <1>7 DEF CreateGame
        <3>2. \A h \in GameIds : games'[h] = IF h = g THEN u ELSE games[h]
            BY <2>2 DEF TypeOK
        <3>3. RowsAreBorn'
            BY <2>2, <3>1, <3>2 DEF RowsAreBorn, Exists
        <3>4. TablesConsistent'
            BY <2>2, <3>1, <3>2 DEF TablesConsistent, Exists
        <3>5. removed[g] = 0
            BY <2>2 DEF RowsAreBorn
        <3>6. DeletedOnce'
            BY <3>1, <3>2, <3>5 DEF DeletedOnce, Exists
        <3> QED BY <3>3, <3>4, <3>6
    <2> QED BY <1>7, <2>1, <2>2 DEF CreateGame
<1>8. ASSUME NEW c \in Clients, UpdateGame(c) PROVE Goal
    BY <1>8, <1>0 DEF UpdateGame
<1>9. ASSUME NEW c \in Clients, DeleteGame(c) PROVE Goal
    <2>1. CASE UNCHANGED <<games, removed>>
        BY <1>9, <2>1, <1>0 DEF DeleteGame
    <2>2. ASSUME NEW g \in GameIds, games[g] # NoRow,
                 games' = [games EXCEPT ![g] = NoRow],
                 removed' = [removed EXCEPT ![g] = @ + 1] \/ UNCHANGED removed
          PROVE  Goal
        <3>1. UNCHANGED <<users, born>>
            BY <1>9 DEF DeleteGame
        <3>2. \A h \in GameIds : games'[h] = IF h = g THEN NoRow ELSE games[h]
            BY <2>2 DEF TypeOK
        <3>3. \A x \in Ids \cup GameIds : x # g => removed'[x] = removed[x]
            BY <2>2 DEF TypeOK
        <3>4. removed[g] = 0 /\ removed'[g] \in {0, 1}
            <4>1. removed[g] \in Nat /\ removed[g] <= 1 /\ removed[g] # 1
                BY <2>2 DEF TypeOK, DeletedOnce
            <4>2. removed[g] = 0
                BY <4>1
            <4>3. removed'[g] = removed[g] + 1 \/ removed'[g] = removed[g]
                BY <2>2 DEF TypeOK
            <4> QED BY <4>2, <4>3
        <3>5. RowsAreBorn'
            BY <2>2, <3>1, <3>2, <3>3, <3>4 DEF RowsAreBorn, Exists
        <3>6. TablesConsistent'
            BY <3>1, <3>2 DEF TablesConsistent, Exists
        <3>7. g \notin Ids
            BY <2>2, IdsAssumption
        <3>8. DeletedOnce'
            BY <3>1, <3>2, <3>3, <3>4, <3>7 DEF DeletedOnce, Exists
        <3> QED BY <3>5, <3>6, <3>8
    <2> QED BY <1>9, <2>1, <2>2 DEF DeleteGame
<1>10. ASSUME NEW c \in Clients, Drop(c) PROVE Goal
    BY <1>10, <1>0 DEF Drop
<1>11. CASE UNCHANGED vars
    BY <1>11, <1>0 DEF vars
<1> QED BY <1>1, <1>2, <1>3, <1>4, <1>5, <1>6, <1>7, <1>8, <1>9, <1>10, <1>11 DEF Next

-----------------------------------------------------------------------------
(* What handlers decide on. *)

\* A request that was in flight and still is keeps its history.
LEMMA HistoryGrows ==
    ASSUME TypeOK, Remember, NEW c \in Clients, InFlight(req'[c]), req'[c] = req[c]
    PROVE  /\ witness[c].caller \subseteq witness'[c].caller
           /\ req[c].at = "looked_up" => witness[c].target \subseteq witness'[c].target
BY DEF Remember

LEMMA NextDecisions ==
    TypeOK /\ DecisionsAreRecorded /\ [Next]_vars => DecisionsAreRecorded'
<1> SUFFICES ASSUME TypeOK, DecisionsAreRecorded, [Next]_vars PROVE DecisionsAreRecorded'
    OBVIOUS
<1> DEFINE Recorded(d) ==
             InFlight(req'[d]) =>
               /\ req'[d].role \in Admins \cap witness'[d].caller
               /\ req'[d].at = "looked_up" =>
                    req'[d].role = "super_admin" \/ "user" \in witness'[d].target
\* Requests that do not move.
<1>0. ASSUME Remember, NEW d \in Clients, req'[d] = req[d] PROVE Recorded(d)
    <2> SUFFICES ASSUME InFlight(req'[d]) PROVE Recorded(d)
        OBVIOUS
    <2>1. /\ req[d].role \in Admins \cap witness[d].caller
          /\ req[d].at = "looked_up" =>
               req[d].role = "super_admin" \/ "user" \in witness[d].target
        BY <1>0 DEF DecisionsAreRecorded
    <2>2. /\ witness[d].caller \subseteq witness'[d].caller
          /\ req[d].at = "looked_up" => witness[d].target \subseteq witness'[d].target
        BY <1>0, HistoryGrows
    <2> QED BY <1>0, <2>1, <2>2
\* Requests that end.
<1>a. ASSUME Remember, NEW c \in Clients, NEW code \in Codes,
             Answer(c, code) \/ Applied(c, code)
      PROVE  DecisionsAreRecorded'
    <2>1. ~InFlight(req'[c]) /\ \A d \in Clients \ {c} : req'[d] = req[d]
        BY <1>a, AnswerType, AppliedType
    <2>2. \A d \in Clients : Recorded(d)
        BY <1>a, <2>1, <1>0
    <2> QED BY <2>2 DEF DecisionsAreRecorded
<1>1. CASE Bootstrap
    BY <1>1, <1>0 DEF Bootstrap, DecisionsAreRecorded
<1>2. ASSUME NEW c \in Clients, NEW u \in Ids, Authenticate(c, u)
      PROVE  DecisionsAreRecorded'
    <2>1. Remember /\ UNCHANGED users
        BY <1>2 DEF Authenticate
    <2>2. CASE Answer(c, "unauthorized") \/ Answer(c, "forbidden")
        BY <2>1, <2>2, <1>a DEF Codes
    <2>3. CASE /\ Exists(u) /\ users[u].role \in Admins
               /\ req' = [req EXCEPT ![c] = [at |-> "admitted", caller |-> u,
                                             role |-> users[u].role]]
        <3>1. /\ req'[c] = [at |-> "admitted", caller |-> u, role |-> users[u].role]
              /\ \A d \in Clients \ {c} : req'[d] = req[d]
            BY <2>3 DEF TypeOK
        <3>2. InFlight(req'[c])
            BY <3>1 DEF InFlight
        <3>3. RoleIn(users', u) = {users[u].role}
            BY <2>1, <2>3 DEF RoleIn, Exists
        <3>4. users[u].role \in witness'[c].caller
            BY <2>1, <3>1, <3>2, <3>3 DEF Remember
        <3>5. Recorded(c)
            BY <2>3, <3>1, <3>4
        <3>6. \A d \in Clients : Recorded(d)
            BY <2>1, <3>1, <3>5, <1>0
        <3> QED BY <3>6 DEF DecisionsAreRecorded
    <2> QED BY <1>2, <2>2, <2>3 DEF Authenticate
<1>3. ASSUME NEW c \in Clients, CreateUser(c) PROVE DecisionsAreRecorded'
    BY <1>3, <1>a DEF CreateUser, Codes
<1>4. ASSUME NEW c \in Clients, UpdateUser(c) PROVE DecisionsAreRecorded'
    BY <1>4, <1>a DEF UpdateUser, Codes
<1>5. ASSUME NEW c \in Clients, LookUp(c) PROVE DecisionsAreRecorded'
    <2>1. Remember /\ UNCHANGED users /\ IsAdmitted(c)
        BY <1>5 DEF LookUp
    <2>2. CASE Answer(c, "not_found") \/ Answer(c, "forbidden")
        BY <2>1, <2>2, <1>a DEF Codes
    <2>3. ASSUME NEW u \in Ids, Exists(u), MayDelete(req[c].role, users[u].role),
                 req' = [req EXCEPT ![c] = [at |-> "looked_up", caller |-> req[c].caller,
                                            role |-> req[c].role, target |-> u]]
          PROVE  DecisionsAreRecorded'
        <3>1. /\ req'[c] = [at |-> "looked_up", caller |-> req[c].caller,
                            role |-> req[c].role, target |-> u]
              /\ \A d \in Clients \ {c} : req'[d] = req[d]
            BY <2>3 DEF TypeOK
        <3>2. InFlight(req'[c]) /\ InFlight(req[c])
            BY <2>1, <3>1 DEF InFlight, IsAdmitted
        <3>3. RoleIn(users', u) = {users[u].role} /\ users[u].role \in Roles
            BY <2>1, <2>3 DEF RoleIn, Exists, TypeOK, Account
        <3>4. /\ witness[c].caller \subseteq witness'[c].caller
              /\ users[u].role \in witness'[c].target
            BY <2>1, <3>1, <3>2, <3>3 DEF Remember
        <3>5. req[c].role \in Admins \cap witness[c].caller
            BY <3>2 DEF DecisionsAreRecorded
        <3>6. req[c].role = "super_admin" \/ users[u].role = "user"
            BY <2>3, <3>3 DEF MayDelete, Roles, Admins
        <3>7. Recorded(c)
            BY <3>1, <3>4, <3>5, <3>6
        <3>8. \A d \in Clients : Recorded(d)
            BY <2>1, <3>1, <3>7, <1>0
        <3> QED BY <3>8 DEF DecisionsAreRecorded
    <2> QED BY <1>5, <2>2, <2>3 DEF LookUp
<1>6. ASSUME NEW c \in Clients, DeleteUser(c) PROVE DecisionsAreRecorded'
    BY <1>6, <1>a DEF DeleteUser, Codes
<1>7. ASSUME NEW c \in Clients, CreateGame(c) PROVE DecisionsAreRecorded'
    BY <1>7, <1>a DEF CreateGame, Codes
<1>8. ASSUME NEW c \in Clients, UpdateGame(c) PROVE DecisionsAreRecorded'
    <2>1. Remember /\ (Answer(c, "not_found") \/ Answer(c, "ok"))
        BY <1>8 DEF UpdateGame
    <2> QED BY <2>1, <1>a DEF Codes
<1>9. ASSUME NEW c \in Clients, DeleteGame(c) PROVE DecisionsAreRecorded'
    BY <1>9, <1>a DEF DeleteGame, Codes
<1>10. ASSUME NEW c \in Clients, Drop(c) PROVE DecisionsAreRecorded'
    BY <1>10, <1>a DEF Drop, Codes
<1>11. CASE UNCHANGED vars
    BY <1>11 DEF vars, DecisionsAreRecorded
<1> QED BY <1>1, <1>2, <1>3, <1>4, <1>5, <1>6, <1>7, <1>8, <1>9, <1>10, <1>11 DEF Next

-----------------------------------------------------------------------------
(* The theorems. *)

LEMMA Invariance == Spec => []IInv
<1>1. IInv /\ [Next]_vars => IInv'
    BY NextType, NextTables, NextDecisions DEF IInv
<1> QED BY InitIInv, <1>1, PTL DEF Spec

\* Rows, requests and counts stay in the sets the schema and the handlers allow,
\* for any number of connections, accounts and games (Role, migrations/0001).
THEOREM TypeCorrect == Spec => []TypeOK
<1>1. IInv => TypeOK
    BY DEF IInv
<1> QED BY Invariance, <1>1, PTL

\* However many requests run at once and whenever the server is started, every
\* game has its creator and no two accounts share a name (user.rs, game.rs).
THEOREM TablesStayConsistent == Spec => []TablesConsistent
<1>1. IInv => TablesConsistent
    BY DEF IInv
<1> QED BY Invariance, <1>1, PTL

\* However many requests delete one row, at most one is told it did, and the row
\* never comes back (rows_affected in delete of both repositories).
THEOREM DeletionsAreFinal == Spec => []DeletedOnce
<1>1. IInv => DeletedOnce
    BY DEF IInv
<1> QED BY Invariance, <1>1, PTL

\* Whatever is renamed, promoted, demoted or deleted between the statements of a
\* handler, its effect was decided on roles the accounts had while the request was
\* in flight (require_admin, delete_user).
THEOREM Authorised == Spec => EffectsWereAuthorised
<1>1. IInv /\ [Next]_vars =>
        [\A c \in Clients : Succeeds(c) =>
           /\ witness[c].caller \cap Admins # {}
           /\ req[c].at = "looked_up" =>
                "super_admin" \in witness[c].caller \/ "user" \in witness[c].target]_vars
    BY DEF IInv, DecisionsAreRecorded, Succeeds
<1> QED BY Invariance, <1>1, PTL DEF Spec, EffectsWereAuthorised

-----------------------------------------------------------------------------
(* The reader of UserListing: where the accounts it is owed are in the list, *)
(* and that the pages reach them.                                            *)

Accounts == {u \in Ids : Exists(u)}

\* The accounts listed before u.
Below(u) == {v \in Ids : Exists(v) /\ users[v].name < users[u].name}

Step == PerPage(AskedPerPage)

\* The first position of the page the reader is at.
Start == (walk.page - 1) * Step

ReaderType ==
    /\ reader \in [at : {"idle", "admitted", "counted"}, total : 0..IntSize]
    /\ walk \in [page : Nat, owed : SUBSET Ids, pushed : SUBSET Ids]

\* The accounts owed are not on the pages before, and those that nobody pushed
\* down since the rows were counted are among the rows counted.
Walk ==
    /\ walk.owed \subseteq Accounts /\ walk.pushed \subseteq walk.owed
    /\ walk.page = 0 => walk.owed = {}
    /\ walk.page > 0 => Start < IntSize
    /\ \A u \in walk.owed : Start <= Position(u)
    /\ reader.at = "counted" =>
          /\ walk.page > 0
          /\ \A u \in walk.owed \ walk.pushed : Position(u) < reader.total
    /\ reader.at # "counted" => walk.pushed = {}

ListingIInv == IInv /\ IsFiniteSet(Accounts) /\ ReaderType /\ Walk

\* The rows can be counted in an integer.
AccountsFit == Cardinality(Accounts) <= IntSize

LEMMA StepType == Step \in 1..MaxPerPage
BY ListingAssumption DEF Step, PerPage, MaxPerPage

LEMMA PositionType ==
    ASSUME TypeOK, IsFiniteSet(Accounts), NEW u \in Ids
    PROVE  /\ Position(u) = Cardinality(Below(u)) /\ Position(u) \in Nat
           /\ Exists(u) => Position(u) < Cardinality(Accounts)
<1>1. Below(u) \subseteq Accounts
    BY DEF Below, Accounts
<1>2. IsFiniteSet(Below(u)) /\ Cardinality(Below(u)) \in Nat
    BY <1>1, FS_Subset, FS_CardinalityType
<1>3. Position(u) = Cardinality(Below(u))
    BY DEF Position, Below
<1>4. ASSUME Exists(u) PROVE Cardinality(Below(u)) < Cardinality(Accounts)
    <2>1. users[u].name \in Nat
        BY <1>4, ListingAssumption DEF TypeOK, Account, Exists
    <2>2. u \in Accounts /\ Below(u) \subseteq Accounts \ {u}
        BY <1>1, <1>4, <2>1 DEF Accounts, Below
    <2>3. /\ IsFiniteSet(Accounts \ {u})
          /\ Cardinality(Accounts \ {u}) = Cardinality(Accounts) - 1
        BY <2>2, FS_RemoveElement
    <2>4. Cardinality(Below(u)) <= Cardinality(Accounts \ {u})
        BY <2>2, <2>3, FS_Subset
    <2>5. Cardinality(Accounts) \in Nat
        BY FS_CardinalityType
    <2> QED BY <1>2, <2>3, <2>4, <2>5
<1> QED BY <1>2, <1>3, <1>4

\* What a page shows, as long as the product does not wrap.
LEMMA PageShows ==
    ASSUME ReaderType, walk.page > 0, Start < IntSize
    PROVE  /\ Start \in Nat
           /\ Positions(walk.page, AskedPerPage) = Start..Start + Step - 1
           /\ walk.page * Step = Start + Step
           /\ ((walk.page + 1) - 1) * Step = Start + Step
<1>1. walk.page \in Nat \ {0} /\ Step \in Nat \ {0}
    BY StepType DEF ReaderType, MaxPerPage
<1>2. Start \in Nat /\ walk.page * Step = Start + Step
      /\ ((walk.page + 1) - 1) * Step = Start + Step
    <2> DEFINE p == walk.page
               q == Step
    <2>1. p \in Nat \ {0} /\ q \in Nat \ {0}
        BY <1>1
    <2> HIDE DEF p, q
    <2>2. (p - 1) * q \in Nat /\ p * q = (p - 1) * q + q /\ ((p + 1) - 1) * q = (p - 1) * q + q
        BY <2>1
    <2> QED BY <2>2 DEF p, q, Start
<1>3. Start % IntSize = Start
    BY <1>2, IntSizeAssumption
<1>4. PageOf(walk.page) = walk.page
    BY <1>1 DEF PageOf
<1> QED BY <1>2, <1>3, <1>4 DEF Positions, Offset, Limit, Step, Start

\* A step of the reader moves no row.
LEMMA RowsRest ==
    ASSUME IInv, IsFiniteSet(Accounts), UNCHANGED vars
    PROVE  /\ IInv' /\ IsFiniteSet(Accounts)' /\ Accounts' = Accounts
           /\ \A u : Position(u)' = Position(u)
<1>0. /\ users' = users /\ games' = games /\ born' = born /\ req' = req
      /\ removed' = removed /\ witness' = witness
    BY DEF vars
<1>1. TypeOK'
    BY <1>0 DEF IInv, TypeOK
<1>2. RowsAreBorn'
    BY <1>0 DEF IInv, RowsAreBorn, Exists
<1>3. TablesConsistent'
    BY <1>0 DEF IInv, TablesConsistent, Exists
<1>4. DeletedOnce'
    BY <1>0 DEF IInv, DeletedOnce, Exists
<1>5. DecisionsAreRecorded'
    BY <1>0 DEF IInv, DecisionsAreRecorded
<1>6. Accounts' = Accounts
    BY <1>0 DEF Accounts, Exists
<1>7. \A u : Position(u)' = Position(u)
    BY <1>0 DEF Position, Exists
<1> QED BY <1>1, <1>2, <1>3, <1>4, <1>5, <1>6, <1>7 DEF IInv

LEMMA CountStep ==
    ASSUME ListingIInv, AccountsFit, CountUsers
    PROVE  ListingIInv'
<1>1. /\ IInv' /\ IsFiniteSet(Accounts)' /\ Accounts' = Accounts
      /\ \A u : Position(u)' = Position(u)
    BY RowsRest DEF ListingIInv, CountUsers
<1>2. reader'.at = "counted" /\ reader'.total = Cardinality(Accounts)
    BY DEF CountUsers, Accounts
<1>3. Cardinality(Accounts) \in 0..IntSize
    BY IntSizeAssumption, FS_CardinalityType DEF ListingIInv, AccountsFit
<1>4. \A u \in Accounts : Position(u) \in Nat /\ Position(u) < Cardinality(Accounts)
    BY PositionType DEF ListingIInv, IInv, Accounts
<1>5. CASE walk.page = 0
    <2>1. walk' = [page |-> 1, owed |-> Accounts, pushed |-> {}]
        BY <1>5 DEF CountUsers, Accounts
    <2>2. ReaderType'
        BY <1>2, <1>3, <2>1 DEF CountUsers, ReaderType, Accounts
    <2>3. Start' = 0
        BY <2>1, StepType DEF Start, MaxPerPage
    <2>4. Walk'
        BY <1>1, <1>2, <1>4, <2>1, <2>3, IntSizeAssumption DEF Walk
    <2> QED BY <1>1, <2>2, <2>4 DEF ListingIInv
<1>6. CASE walk.page # 0
    <2>1. walk' = walk
        BY <1>6 DEF CountUsers
    <2>2. ReaderType'
        BY <1>2, <1>3, <2>1 DEF CountUsers, ReaderType, ListingIInv, Accounts
    <2>3. Start' = Start
        BY <2>1 DEF Start, Step
    <2>4. Walk'
        BY <1>1, <1>2, <1>4, <1>6, <2>1, <2>3 DEF Walk, ListingIInv, ReaderType
    <2> QED BY <1>1, <2>2, <2>4 DEF ListingIInv
<1> QED BY <1>5, <1>6

LEMMA ListStep ==
    ASSUME ListingIInv, ListUsers
    PROVE  ListingIInv'
<1>1. /\ IInv' /\ IsFiniteSet(Accounts)' /\ Accounts' = Accounts
      /\ \A u : Position(u)' = Position(u)
    BY RowsRest DEF ListingIInv, ListUsers
<1>2. /\ walk.page > 0 /\ Start < IntSize /\ walk.page \in Nat
      /\ \A u \in walk.owed \ walk.pushed : Position(u) < reader.total
      /\ \A u \in walk.owed : Start <= Position(u)
      /\ walk.owed \subseteq Accounts
      /\ reader.total \in 0..IntSize
    BY DEF ListingIInv, Walk, ReaderType, ListUsers
<1>3. \A u \in walk.owed : Position(u) \in Nat
    BY <1>2, PositionType DEF ListingIInv, IInv, Accounts
<1>4. PICK shown :
        /\ shown = {u \in Ids : Exists(u) /\ Position(u) \in Start..Start + Step - 1}
        /\ walk' = [page |-> IF Start + Step >= reader.total THEN 0 ELSE walk.page + 1,
                    owed |-> IF Start + Step >= reader.total
                             THEN walk.owed \ (shown \cup walk.pushed) ELSE walk.owed \ shown,
                    pushed |-> {}]
    BY <1>2, PageShows DEF ListUsers, ListingIInv, Step
<1>5. reader' = Idle
    BY DEF ListUsers
<1>6. Start \in Nat /\ Step \in Nat
    BY <1>2, PageShows, StepType DEF ListingIInv, MaxPerPage
<1>7. ReaderType'
    BY <1>2, <1>4, <1>5, IntSizeAssumption DEF ReaderType, Idle, ListingIInv
<1>8. Walk'
    <2>1. CASE Start + Step >= reader.total
        <3>1. walk'.owed = {}
            <4> SUFFICES ASSUME NEW u \in walk.owed \ walk.pushed PROVE u \in shown
                BY <1>4, <2>1
            <4>1. Start <= Position(u) /\ Position(u) < reader.total /\ Position(u) \in Nat
                BY <1>2, <1>3
            <4> QED BY <1>2, <1>4, <1>6, <2>1, <4>1 DEF Accounts
        <3> QED BY <1>4, <1>5, <2>1, <3>1 DEF Walk, Idle
    <2>2. CASE ~(Start + Step >= reader.total)
        <3>1. /\ walk'.page = walk.page + 1 /\ walk'.owed = walk.owed \ shown
              /\ walk'.pushed = {}
            BY <1>4, <2>2
        <3>2. Start' = Start + Step
            BY <1>2, <3>1, PageShows DEF Start, Step, ListingIInv
        <3>3. Start' < IntSize
            BY <1>2, <1>6, <2>2, <3>2, IntSizeAssumption
        <3>4. ASSUME NEW u \in walk'.owed PROVE Start' <= Position(u)'
            <4>1. Position(u) \notin Start..Start + Step - 1 /\ u \in walk.owed
                BY <1>2, <1>4, <3>1, <3>4 DEF Accounts
            <4> QED BY <1>1, <1>2, <1>3, <1>6, <3>2, <4>1
        <3> QED BY <1>1, <1>2, <1>5, <3>1, <3>3, <3>4 DEF Walk, Idle
    <2> QED BY <2>1, <2>2
<1> QED BY <1>1, <1>7, <1>8 DEF ListingIInv

LEMMA ReaderStep ==
    ASSUME ListingIInv, AdmitReader \/ LosePage
    PROVE  ListingIInv'
<1>1. /\ IInv' /\ IsFiniteSet(Accounts)' /\ Accounts' = Accounts
      /\ \A u : Position(u)' = Position(u)
    BY RowsRest DEF ListingIInv, AdmitReader, LosePage
<1>2. /\ walk'.page = walk.page /\ walk'.owed = walk.owed /\ walk'.pushed = {}
      /\ walk' \in [page : Nat, owed : SUBSET Ids, pushed : SUBSET Ids]
    BY DEF AdmitReader, LosePage, ListingIInv, ReaderType, Walk
<1>3. reader' \in [at : {"idle", "admitted"}, total : {0}]
    BY DEF AdmitReader, LosePage, Idle
<1>4. Start' = Start
    BY <1>2 DEF Start, Step
<1>5. ReaderType'
    BY <1>2, <1>3, IntSizeAssumption DEF ReaderType
<1>6. Walk'
    BY <1>1, <1>2, <1>3, <1>4 DEF Walk, ListingIInv
<1> QED BY <1>1, <1>5, <1>6 DEF ListingIInv

-----------------------------------------------------------------------------
(* The other requests. *)

\* A request changes the row of one account.
LEMMA OneRowChanges ==
    ASSUME TypeOK, Next
    PROVE  \E w : \A u \in Ids \ {w} : users'[u] = users[u]
<1>1. CASE Bootstrap
    BY <1>1 DEF Bootstrap, TypeOK
<1>2. ASSUME NEW c \in Clients, NEW u \in Ids, Authenticate(c, u)
      PROVE  users' = users
    BY <1>2 DEF Authenticate
<1>3. ASSUME NEW c \in Clients, CreateUser(c) \/ UpdateUser(c) \/ DeleteUser(c)
      PROVE  \E w : \A u \in Ids \ {w} : users'[u] = users[u]
    BY <1>3 DEF CreateUser, UpdateUser, DeleteUser, TypeOK
<1>4. ASSUME NEW c \in Clients,
             LookUp(c) \/ CreateGame(c) \/ UpdateGame(c) \/ DeleteGame(c) \/ Drop(c)
      PROVE  users' = users
    BY <1>4 DEF LookUp, CreateGame, UpdateGame, DeleteGame, Drop
<1> QED BY <1>1, <1>2, <1>3, <1>4 DEF Next

\* An account moves up only if a name before its own goes, and down only if one
\* comes.
LEMMA ListMoves ==
    ASSUME IInv, IInv', NEW w, \A v \in Ids \ {w} : users'[v] = users[v],
           NEW u \in Ids, Exists(u), users'[u] # NoRow, users'[u].name = users[u].name
    PROVE  /\ ~LosesNameBefore(u) => Below(u) \subseteq Below(u)'
           /\ ~GainsNameBefore(u) => Below(u)' \subseteq Below(u)
<1>1. ASSUME ~LosesNameBefore(u), NEW v \in Below(u) PROVE v \in Below(u)'
    <2>1. v \in Ids /\ users[v] # NoRow /\ users[v].name < users[u].name
        BY <1>1 DEF Below, Exists
    <2>2. users[v].name \in NamesIn(users)
        BY <2>1 DEF NamesIn
    <2>3. PICK x \in Ids : users'[x] # NoRow /\ users'[x].name = users[v].name
        BY <1>1, <2>1, <2>2 DEF LosesNameBefore, NamesIn
    <2>4. x = v
        BY <2>1, <2>3 DEF IInv, TablesConsistent, Exists
    <2> QED BY <2>1, <2>3, <2>4 DEF Below, Exists
<1>2. ASSUME ~GainsNameBefore(u), NEW v \in Below(u)' PROVE v \in Below(u)
    <2>1. v \in Ids /\ users'[v] # NoRow /\ users'[v].name < users[u].name
        BY <1>2 DEF Below, Exists
    <2>2. users'[v].name \in NamesIn(users')
        BY <2>1 DEF NamesIn
    <2>3. PICK x \in Ids : users[x] # NoRow /\ users[x].name = users'[v].name
        BY <1>2, <2>1, <2>2 DEF GainsNameBefore, NamesIn
    <2>4. x = v
        BY <2>1, <2>3 DEF IInv, TablesConsistent, Exists
    <2> QED BY <2>1, <2>3, <2>4 DEF Below, Exists
<1> QED BY <1>1, <1>2

LEMMA OtherStep ==
    ASSUME ListingIInv, IInv', Other
    PROVE  ListingIInv'
<1>1. PICK w : \A v \in Ids \ {w} : users'[v] = users[v]
    BY OneRowChanges DEF ListingIInv, IInv, Other
<1>2. IsFiniteSet(Accounts')
    <2>1. Accounts' \subseteq Accounts \cup {w}
        BY <1>1 DEF Accounts, Exists
    <2>2. IsFiniteSet(Accounts \cup {w})
        BY FS_AddElement DEF ListingIInv
    <2> QED BY <2>1, <2>2, FS_Subset
<1> DEFINE stay == {u \in walk.owed : /\ users'[u] # NoRow /\ users'[u].name = users[u].name
                                      /\ ~LosesNameBefore(u)}
<1>3. /\ walk'.page = walk.page /\ walk'.owed = stay /\ reader' = reader
      /\ walk'.pushed = IF reader.at = "counted"
                        THEN (walk.pushed \cap stay) \cup {u \in stay : GainsNameBefore(u)}
                        ELSE {}
      /\ walk' \in [page : Nat, owed : SUBSET Ids, pushed : SUBSET Ids]
    BY DEF Other, Watch, ListingIInv, ReaderType
<1>4. ASSUME NEW u \in stay
      PROVE  /\ u \in Ids /\ Exists(u) /\ u \in Accounts'
             /\ Position(u) \in Nat /\ Position(u)' \in Nat
             /\ Position(u) <= Position(u)'
             /\ ~GainsNameBefore(u) => Position(u)' = Position(u)
    <2>1. u \in Ids /\ Exists(u) /\ u \in Accounts'
        BY DEF ListingIInv, Walk, Accounts, Exists
    <2>2. /\ Below(u) \subseteq Below(u)'
          /\ ~GainsNameBefore(u) => Below(u)' \subseteq Below(u)
        BY <1>1, <2>1, ListMoves DEF ListingIInv, Exists
    <2>3. Position(u) = Cardinality(Below(u)) /\ Position(u) \in Nat
        BY <2>1, PositionType DEF ListingIInv, IInv
    <2>4. Position(u)' = Cardinality(Below(u)') /\ Position(u)' \in Nat
        <3>1. Below(u)' \subseteq Accounts'
            BY DEF Below, Accounts
        <3>2. IsFiniteSet(Below(u)') /\ Cardinality(Below(u)') \in Nat
            BY <1>2, <3>1, FS_Subset, FS_CardinalityType
        <3> QED BY <3>2 DEF Position, Below
    <2>5. IsFiniteSet(Below(u)')
        BY <1>2, FS_Subset DEF Below, Accounts
    <2>6. Cardinality(Below(u)) <= Cardinality(Below(u)')
        BY <2>2, <2>5, FS_Subset
    <2>7. ~GainsNameBefore(u) => Position(u)' = Position(u)
        <3> SUFFICES ASSUME ~GainsNameBefore(u) PROVE Position(u)' = Position(u)
            OBVIOUS
        <3>1. Below(u)' = Below(u)
            BY <2>2
        <3> QED BY <2>3, <2>4, <3>1
    <2>8. Position(u) <= Position(u)'
        <3> HIDE <2>7
        <3> QED BY <2>3, <2>4, <2>6
    <2> QED BY <2>1, <2>3, <2>4, <2>7, <2>8
<1>5. Start' = Start
    BY <1>3 DEF Start, Step
<1> HIDE DEF stay
<1>6. stay \subseteq walk.owed
    BY DEF stay
<1>7. Start \in Int
    BY StepType DEF Start, ListingIInv, ReaderType, MaxPerPage
<1>8. Walk'
    <2>1. /\ walk'.owed \subseteq Accounts' /\ walk'.pushed \subseteq walk'.owed
          /\ walk'.page = 0 => walk'.owed = {}
          /\ walk'.page > 0 => Start' < IntSize
          /\ reader'.at = "counted" => walk'.page > 0
          /\ reader'.at # "counted" => walk'.pushed = {}
        BY <1>3, <1>4, <1>5, <1>6 DEF ListingIInv, Walk
    <2>2. ASSUME NEW u \in walk'.owed PROVE Start' <= Position(u)'
        <3>1. Start <= Position(u)
            BY <1>3, <1>6, <2>2 DEF ListingIInv, Walk
        <3> QED BY <1>3, <1>4, <1>5, <1>7, <2>2, <3>1
    <2>3. ASSUME reader'.at = "counted", NEW u \in walk'.owed \ walk'.pushed
          PROVE  Position(u)' < reader'.total
        <3>1. u \in stay /\ ~GainsNameBefore(u) /\ u \in walk.owed \ walk.pushed
            BY <1>3, <1>6, <2>3
        <3>2. Position(u) < reader.total
            BY <1>3, <2>3, <3>1 DEF ListingIInv, Walk
        <3> QED BY <1>3, <1>4, <3>1, <3>2
    <2> QED BY <2>1, <2>2, <2>3 DEF Walk
<1>9. ReaderType'
    BY <1>3 DEF ReaderType, ListingIInv
<1> QED BY <1>2, <1>8, <1>9 DEF ListingIInv

LEMMA ListingInitIInv == ListingInit => ListingIInv
<1> SUFFICES ASSUME ListingInit PROVE ListingIInv
    OBVIOUS
<1>1. IInv
    BY InitIInv DEF ListingInit
<1>2. Accounts = {}
    BY DEF ListingInit, Init, Accounts, Exists
<1>3. ReaderType /\ Walk
    BY <1>2, IntSizeAssumption DEF ListingInit, ReaderType, Walk, Idle
<1> QED BY <1>1, <1>2, <1>3, FS_EmptySet DEF ListingIInv

LEMMA ListingNextIInv == ListingIInv /\ AccountsFit /\ [ListingNext]_listingVars => ListingIInv'
<1> SUFFICES ASSUME ListingIInv, AccountsFit, [ListingNext]_listingVars PROVE ListingIInv'
    OBVIOUS
<1>1. CASE Other
    <2>1. IInv'
        BY <1>1, NextType, NextTables, NextDecisions DEF Other, IInv, ListingIInv
    <2> QED BY <1>1, <2>1, OtherStep
<1>2. CASE UNCHANGED listingVars
    <2>1. UNCHANGED vars /\ reader' = reader /\ walk' = walk
        BY <1>2 DEF listingVars
    <2>2. /\ IInv' /\ IsFiniteSet(Accounts)' /\ Accounts' = Accounts
          /\ \A u : Position(u)' = Position(u)
        BY <2>1, RowsRest DEF ListingIInv
    <2>3. ReaderType' /\ Walk'
        BY <2>1, <2>2 DEF ListingIInv, ReaderType, Walk, Start, Step
    <2> QED BY <2>2, <2>3 DEF ListingIInv
<1> QED BY <1>1, <1>2, CountStep, ListStep, ReaderStep DEF ListingNext

\* As long as the accounts can be counted in an integer, whoever pages to the end
\* of the user list has been shown every account that nothing moved up a page or
\* past the last count, for any number of accounts, any page size, and whatever is
\* created, renamed and deleted between the statements (list_users, user.rs:100;
\* offset, pagination.rs:50).
THEOREM PagesReachEveryone == ListingSpec /\ []AccountsFit => []PagesCoverTheList
<1>1. ListingIInv => PagesCoverTheList
    BY DEF ListingIInv, Walk, PagesCoverTheList
<1> QED BY ListingInitIInv, ListingNextIInv, <1>1, PTL DEF ListingSpec
=============================================================================
