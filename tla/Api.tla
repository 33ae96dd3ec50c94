-------------------------------- MODULE Api --------------------------------
(***************************************************************************)
(* The handlers of zyndeck-api that write users and games, one action per  *)
(* database call.  Handlers of several clients run at once, each statement *)
(* commits by itself, and what a handler has read (the caller's role, the  *)
(* role of the account to delete) may have changed when it writes.         *)
(*                                                                         *)
(* Names of games, passwords and timestamps are left out: no decision but  *)
(* that of the login depends on them.  What a request asks for shows in    *)
(* the statement it executes after its authentication, which is the same   *)
(* for all of them.                                                        *)
(***************************************************************************)
EXTENDS Naturals

CONSTANTS
    Clients,      \* the connections on which requests arrive, one at a time
    Ids, GameIds, \* the ids gen_random_uuid will give out
    Names,        \* the usernames in use
    AdminName,    \* ADMIN_USERNAME of the server's configuration
    NoRow         \* no row has this id

Roles == {"super_admin", "admin", "user"}

\* Role::is_admin
Admins == {"super_admin", "admin"}

Account == [name : Names, role : Roles]

ASSUME AdminNameAssumption == AdminName \in Names
ASSUME NoRowAssumption == NoRow \notin Account /\ NoRow \notin Ids
ASSUME IdsAssumption == Ids \cap GameIds = {}

VARIABLES
    users,     \* "user": the account with each id
    games,     \* game: the creator of the game with each id
    born,      \* the ids given out so far
    req,       \* each client's request, or the answer to its last one
    removed,   \* history: how many requests were told they deleted an id
    witness    \* history: the roles an account in a request has had meanwhile

vars == <<users, games, born, req, removed, witness>>

Codes ==
    {"none", "created", "ok", "no_content", "unauthorized", "forbidden",
     "not_found", "conflict", "internal", "lost"}

\* A request whose caller was found to be an admin; a deletion that has also
\* found its target; the answer to the last request.
Admitted == [at : {"admitted"}, caller : Ids, role : Roles]
LookedUp == [at : {"looked_up"}, caller : Ids, role : Roles, target : Ids]
Answered == [at : {"answered"}, code : Codes]

InFlight(r) == r.at # "answered"

TypeOK ==
    /\ users \in [Ids -> Account \cup {NoRow}]
    /\ games \in [GameIds -> Ids \cup {NoRow}]
    /\ born \subseteq Ids \cup GameIds
    /\ req \in [Clients -> Admitted \cup LookedUp \cup Answered]
    /\ removed \in [Ids \cup GameIds -> Nat]
    /\ witness \in [Clients -> [caller : SUBSET Roles, target : SUBSET Roles]]

Exists(u) == users[u] # NoRow

Unseen == [caller |-> {}, target |-> {}]

Init ==
    /\ users = [u \in Ids |-> NoRow]
    /\ games = [g \in GameIds |-> NoRow]
    /\ born = {}
    /\ req = [c \in Clients |-> [at |-> "answered", code |-> "none"]]
    /\ removed = [x \in Ids \cup GameIds |-> 0]
    /\ witness = [c \in Clients |-> Unseen]

-----------------------------------------------------------------------------
(* Constraints of the schema. *)

\* username text NOT NULL UNIQUE: the name is in the row of another account.
NameTaken(n, u) == \E v \in Ids \ {u} : Exists(v) /\ users[v].name = n

\* created_by uuid NOT NULL REFERENCES "user" (id)
Referenced(u) == \E g \in GameIds : games[g] = u

-----------------------------------------------------------------------------
(* The server and its handlers. *)

Answer(c, code) == req' = [req EXCEPT ![c] = [at |-> "answered", code |-> code]]

\* The role an account has, if it exists.
RoleIn(table, u) == IF table[u] = NoRow THEN {} ELSE {table[u].role}

\* The history of a request: the roles of its caller since it was authenticated
\* and of its target since it was looked up.
Remember ==
    witness' = [c \in Clients |->
        IF ~InFlight(req'[c]) THEN Unseen
        ELSE [caller |-> witness[c].caller \cup RoleIn(users', req'[c].caller),
              target |-> IF req'[c].at = "looked_up"
                         THEN witness[c].target \cup RoleIn(users', req'[c].target)
                         ELSE {}]]

\* An instance of the server starts and ensures its super admin in one statement.
Bootstrap ==
    /\ \/ \E u \in Ids :
            /\ Exists(u) /\ users[u].name = AdminName
            /\ users' = [users EXCEPT ![u].role = "super_admin"]
            /\ UNCHANGED born
       \/ \E u \in Ids \ born :
            /\ ~NameTaken(AdminName, u)
            /\ users' = [users EXCEPT ![u] = [name |-> AdminName, role |-> "super_admin"]]
            /\ born' = born \cup {u}
    /\ UNCHANGED <<games, req, removed>>
    /\ Remember

\* The accounts somebody may hold a token of: a token names an id, and outlives
\* the role, the name and the account itself.
Tokens == Ids \cap born

\* A request arrives: AuthUser loads the caller and require_admin looks at the role.
Authenticate(c, u) ==
    /\ ~InFlight(req[c])
    /\ u \in Tokens
    /\ \/ ~Exists(u) /\ Answer(c, "unauthorized")
       \/ Exists(u) /\ users[u].role \notin Admins /\ Answer(c, "forbidden")
       \/ /\ Exists(u) /\ users[u].role \in Admins
          /\ req' = [req EXCEPT ![c] = [at |-> "admitted", caller |-> u,
                                        role |-> users[u].role]]
    /\ UNCHANGED <<users, games, born, removed>>
    /\ Remember

IsAdmitted(c) == req[c].at = "admitted"

\* The answer to a statement that was applied: its code, or none because the
\* client has hung up or the connection to the database is lost.
Applied(c, code) == Answer(c, code) \/ Answer(c, "lost")

CreateUser(c) ==
    /\ IsAdmitted(c)
    /\ \E u \in Ids \ born, n \in Names, r \in Roles :
         \/ NameTaken(n, u) /\ Answer(c, "conflict") /\ UNCHANGED <<users, born>>
         \/ /\ ~NameTaken(n, u) /\ Applied(c, "created")
            /\ users' = [users EXCEPT ![u] = [name |-> n, role |-> r]]
            /\ born' = born \cup {u}
    /\ UNCHANGED <<games, removed>>
    /\ Remember

\* Variant: any role text is stored.
UpdateUserAnyRole(c) ==
    /\ IsAdmitted(c)
    /\ \E u \in Ids, n \in Names, r \in Roles \cup {"owner"} :
         /\ Exists(u) /\ ~NameTaken(n, u) /\ Applied(c, "ok")
         /\ users' = [users EXCEPT ![u] = [name |-> n, role |-> r]]
    /\ UNCHANGED <<games, born, removed>>
    /\ Remember

UpdateUser(c) ==
    /\ IsAdmitted(c)
    /\ \E u \in Ids, n \in Names, r \in Roles :
         \/ ~Exists(u) /\ Answer(c, "not_found") /\ UNCHANGED users
         \/ Exists(u) /\ NameTaken(n, u) /\ Answer(c, "conflict") /\ UNCHANGED users
         \/ /\ Exists(u) /\ ~NameTaken(n, u) /\ Applied(c, "ok")
            /\ users' = [users EXCEPT ![u] = [name |-> n, role |-> r]]
    /\ UNCHANGED <<games, born, removed>>
    /\ Remember

\* Variant: only accounts with exactly the role admin are protected.
MayDeleteSuperAdmins(callerRole, targetRole) ==
    callerRole = "super_admin" \/ targetRole # "admin"

\* Whom the caller may delete, by the two roles that were read.
MayDelete(callerRole, targetRole) ==
    callerRole = "super_admin" \/ targetRole \notin Admins

\* First statement of delete_user: the target and its role.
LookUp(c) ==
    /\ IsAdmitted(c)
    /\ \E u \in Ids :
         \/ ~Exists(u) /\ Answer(c, "not_found")
         \/ /\ Exists(u) /\ ~MayDelete(req[c].role, users[u].role)
            /\ Answer(c, "forbidden")
         \/ /\ Exists(u) /\ MayDelete(req[c].role, users[u].role)
            /\ req' = [req EXCEPT ![c] = [at |-> "looked_up", caller |-> req[c].caller,
                                          role |-> req[c].role, target |-> u]]
    /\ UNCHANGED <<users, games, born, removed>>
    /\ Remember

\* Variant: the foreign key of games is missing.
DeleteReferencedUser(c) ==
    /\ req[c].at = "looked_up"
    /\ LET u == req[c].target IN
         /\ Exists(u) /\ Answer(c, "no_content")
         /\ users' = [users EXCEPT ![u] = NoRow]
         /\ removed' = [removed EXCEPT ![u] = @ + 1]
    /\ UNCHANGED <<games, born>>
    /\ Remember

\* Second statement of delete_user: by id alone.
DeleteUser(c) ==
    /\ req[c].at = "looked_up"
    /\ LET u == req[c].target IN
         \/ ~Exists(u) /\ Answer(c, "not_found") /\ UNCHANGED <<users, removed>>
         \/ Referenced(u) /\ Answer(c, "internal") /\ UNCHANGED <<users, removed>>
         \/ /\ Exists(u) /\ ~Referenced(u)
            /\ users' = [users EXCEPT ![u] = NoRow]
            /\ \/ Answer(c, "no_content") /\ removed' = [removed EXCEPT ![u] = @ + 1]
               \/ Answer(c, "lost") /\ UNCHANGED removed
    /\ UNCHANGED <<games, born>>
    /\ Remember

CreateGame(c) ==
    /\ IsAdmitted(c)
    /\ LET u == req[c].caller IN
         \/ ~Exists(u) /\ Answer(c, "internal") /\ UNCHANGED <<games, born>>
         \/ /\ Exists(u) /\ Applied(c, "created")
            /\ \E g \in GameIds \ born :
                 /\ games' = [games EXCEPT ![g] = u]
                 /\ born' = born \cup {g}
    /\ UNCHANGED <<users, removed>>
    /\ Remember

UpdateGame(c) ==
    /\ IsAdmitted(c)
    /\ \E g \in GameIds :
         Answer(c, IF games[g] = NoRow THEN "not_found" ELSE "ok")
    /\ UNCHANGED <<users, games, born, removed>>
    /\ Remember

\* Variant: the number of rows removed is not looked at.
DeleteGameBlindly(c) ==
    /\ IsAdmitted(c)
    /\ \E g \in GameIds :
         /\ Answer(c, "no_content")
         /\ games' = [games EXCEPT ![g] = NoRow]
         /\ removed' = [removed EXCEPT ![g] = @ + 1]
    /\ UNCHANGED <<users, born>>
    /\ Remember

\* The game's jobs go with it (JobLifecycle!DeleteJob).
DeleteGame(c) ==
    /\ IsAdmitted(c)
    /\ \E g \in GameIds :
         \/ games[g] = NoRow /\ Answer(c, "not_found") /\ UNCHANGED <<games, removed>>
         \/ /\ games[g] # NoRow
            /\ games' = [games EXCEPT ![g] = NoRow]
            /\ \/ Answer(c, "no_content") /\ removed' = [removed EXCEPT ![g] = @ + 1]
               \/ Answer(c, "lost") /\ UNCHANGED removed
    /\ UNCHANGED <<users, born>>
    /\ Remember

\* The request ends before its next statement: the client hangs up, the body is
\* invalid, or the database cannot be reached.
Drop(c) ==
    /\ InFlight(req[c])
    /\ Answer(c, "lost")
    /\ UNCHANGED <<users, games, born, removed>>
    /\ Remember

Next ==
    \/ Bootstrap
    \/ \E c \in Clients :
         \/ \E u \in Ids : Authenticate(c, u)
         \/ CreateUser(c) \/ UpdateUser(c) \/ LookUp(c) \/ DeleteUser(c)
         \/ CreateGame(c) \/ UpdateGame(c) \/ DeleteGame(c)
         \/ Drop(c)

Spec == Init /\ [][Next]_vars

-----------------------------------------------------------------------------
(* Properties. *)

\* What the tables promise each other, whatever the handlers had read when they
\* wrote (user.rs, game.rs, migrations/0001): every game has its creator, though
\* the creator may be deleted between the authentication of its request and the
\* insert, and no two accounts share a name, though requests and a starting
\* server write names at the same time.
TablesConsistent ==
    /\ \A g \in GameIds : games[g] # NoRow => Exists(games[g])
    /\ \A u, v \in Ids : Exists(u) /\ Exists(v) /\ users[u].name = users[v].name => u = v

\* However many requests delete the same user or game, at most one is answered
\* that it did (user.rs:207, game.rs:179), and what one was
\* told is gone never comes back, so no token ever names another account.
DeletedOnce ==
    /\ \A x \in Ids \cup GameIds : removed[x] <= 1
    /\ \A u \in Ids : removed[u] = 1 => ~Exists(u)
    /\ \A g \in GameIds : removed[g] = 1 => games[g] = NoRow

Succeeds(c) == InFlight(req[c]) /\ req'[c] # req[c] /\ ~InFlight(req'[c])
               /\ req'[c].code \in {"created", "ok", "no_content"}

\* Handlers decide on roles they read earlier (auth.rs:55, user.rs:197).  Whatever
\* happens meanwhile, a request that takes effect was made by somebody who was an
\* admin at some moment of it, and a user is only deleted by somebody who was a
\* super admin, or if the user was a plain one, at some moment of it.
EffectsWereAuthorised ==
    [][\A c \in Clients : Succeeds(c) =>
         /\ witness[c].caller \cap Admins # {}
         /\ req[c].at = "looked_up" =>
              "super_admin" \in witness[c].caller \/ "user" \in witness[c].target]_vars

\* README.md:129, user.rs:245: a super admin may delete anyone, so no deletion
\* that a super admin requests ends in an internal error.
SuperAdminDeletesAnyone ==
    [][\A c \in Clients :
         req[c].at = "looked_up" /\ req[c].role = "super_admin" /\ req'[c] # req[c]
           => req'[c].code # "internal"]_vars
=============================================================================
