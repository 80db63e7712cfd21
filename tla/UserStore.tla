------------------------------- MODULE UserStore ------------------------------
(***************************************************************************)
(* The users and refresh_tokens tables of SQLiteStore                      *)
(* (internal/central/sqlite_store.go, migrations.go).  The pool holds one  *)
(* connection, so every statement is atomic and nothing joins two of them  *)
(* into a transaction: an operator of this module is one statement.        *)
(*                                                                         *)
(* The n-th token pair ever issued is the number n: its access token, its  *)
(* refresh token and the hash stored for it are told apart by nothing      *)
(* else.  Names, timestamps and the text of errors are left out.           *)
(***************************************************************************)
EXTENDS Naturals, FiniteSets

CONSTANTS UserIds,     \* uuids of user rows
          Emails,      \* e-mail addresses
          AdminEmail,  \* auth.admin_email of the configuration
          Passwords,   \* passwords; a hash is told from another by its password
          MaxTokens,   \* bound: token pairs issued in a behaviour
          None         \* no value

ASSUME UserAssumption ==
  /\ AdminEmail \in Emails /\ Emails # {AdminEmail} /\ Passwords # {}
  /\ MaxTokens \in Nat \ {0}
  /\ None \notin UserIds \cup Passwords /\ None # "deleted"

VARIABLES
  users,      \* UserIds -> the row, "unused" before and "deleted" after it
  rows,       \* refresh tokens in the table
  stale,      \* refresh tokens whose expires_at has passed
  claims,     \* token pairs -> the claims of the access token
  access      \* token pairs -> "none", "valid" or "expired"

userStoreVars == <<users, rows, stale, claims, access>>

Pairs == 1..MaxTokens
Row == [email : Emails, pw : Passwords, active : BOOLEAN, admin : BOOLEAN]
Claims == [user : UserIds, admin : BOOLEAN]
NoClaims == [user |-> None, admin |-> FALSE]

Unused == [email |-> None]
Deleted == [email |-> "deleted"]

UserStoreTypeOK ==
  /\ users \in [UserIds -> Row \cup {Unused, Deleted}]
  /\ rows \subseteq Pairs /\ stale \subseteq Pairs
  /\ claims \in [Pairs -> Claims \cup {NoClaims}]
  /\ access \in [Pairs -> {"none", "valid", "expired"}]

Exists(u) == users[u] \notin {Unused, Deleted}

(* GetUserByEmail: email is UNIQUE, so there is at most one. *)
GetUserByEmail(e) == {u \in UserIds : Exists(u) /\ users[u].email = e}

(* INSERT INTO users: a second row of an e-mail violates the UNIQUE index. *)
CanCreateUser(e) == GetUserByEmail(e) = {}
CreateUser(u, row) == users' = [users EXCEPT ![u] = row]

(* UPDATE users SET every column WHERE id = u: no row, no effect. *)
UpdateUser(u, row) == users' = IF Exists(u) THEN [users EXCEPT ![u] = row] ELSE users

(* Mutant of DeleteUser: the foreign key without ON DELETE CASCADE.        *)
MutDeleteUser(u) ==
  /\ users' = IF Exists(u) THEN [users EXCEPT ![u] = Deleted] ELSE users
  /\ UNCHANGED rows

(* DELETE FROM users: the foreign key of refresh_tokens cascades. *)
DeleteUser(u) ==
  /\ users' = IF Exists(u) THEN [users EXCEPT ![u] = Deleted] ELSE users
  /\ rows' = {n \in rows : claims[n].user # u}

(* INSERT INTO refresh_tokens: user_id references users(id). *)
CanCreateRefreshToken(u) == Exists(u)
CreateRefreshToken(n) == rows' = rows \cup {n}

GetRefreshTokenByHash(n) == n \in rows
DeleteRefreshToken(n) == rows' = rows \ {n}
CleanupExpiredRefreshTokens == rows' = rows \ stale
===============================================================================
