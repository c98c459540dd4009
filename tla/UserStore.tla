----------------------------- MODULE UserStore -----------------------------
(***************************************************************************)
(* The user database (user_store.rs): the server that logs users in        *)
(* (server.rs, authenticate_credentials), the administrator's commands     *)
(* (main.rs, handle_user_command) and the detached threads that strengthen *)
(* old hashes.  Each has a connection of its own; the server's is behind   *)
(* a mutex, so it serves one login at a time.                              *)
(*                                                                         *)
(* verify_password leaves its SELECT open until it returns.  SQLite in WAL *)
(* mode then refuses the UPDATE of a connection whose snapshot another     *)
(* connection has overtaken (SQLITE_BUSY_SNAPSHOT): `stale' is that.  A    *)
(* password is a model value; its hash is the password and whether it was  *)
(* made with today's parameters.                                           *)
(***************************************************************************)
EXTENDS Gates

CONSTANT Deployments  \* [names, passwords, table: what the database file holds at first;
                      \*  logins, commands, restarts, ticks: bounds]

VARIABLES
  conf,      \* one of Deployments
  now,       \* seconds
  db,        \* [schema, rows: username -> row, ids: the last id given]
  server,    \* [pc, the login being verified, the verdict on the last one]
  cli,       \* the commands that run: [pc, verb, user, password]
  upgrades,  \* the detached threads
  past,      \* what happened to each id
  spent      \* what was used of the bounds

vars == <<conf, now, db, server, cli, upgrades, past, spent>>

MAX_FAILED_ATTEMPTS == 2
Policy == [MAX_FAILED_ATTEMPTS |-> MAX_FAILED_ATTEMPTS, LOCKOUT_BASE_SECS |-> 1, LOCKOUT_MAX_SECS |-> 2]

Idle == [pc |-> "idle"]
Spend(what) == spent' = [spent EXCEPT ![what] = @ + 1]
CanSpend(what) == spent[what] < conf[what]

\* hash_password: always with today's parameters.
hash_password(password) == [password |-> password, strong |-> TRUE]
verify_password_hash(password, hash) == hash.password = password
hash_needs_upgrade(hash) == ~hash.strong

NewRow(id, hash) == [id |-> id, hash |-> hash, enabled |-> TRUE, failed_attempts |-> 0, locked_until |-> 0]

\* A database an earlier release left behind: one user with a hash of that time.
Left == LET u == CHOOSE n \in conf.names : TRUE
            p == CHOOSE w \in conf.passwords : TRUE
        IN  [schema |-> conf.table, ids |-> 1,
             rows |-> [n \in {u} |-> NewRow(1, [password |-> p, strong |-> FALSE])]]

Init ==
  /\ conf \in Deployments
  /\ now = 1
  /\ db = IF conf.table = "absent" THEN [schema |-> "absent", ids |-> 0, rows |-> EmptyMap] ELSE Left
  /\ server = [pc |-> "opening", verdict |-> "none"]
  /\ cli = {}
  /\ upgrades = {}
  /\ past = [i \in 1..db.ids |-> [given |-> {db.rows[n].hash.password : n \in DOMAIN db.rows},
                                  failures |-> 0]]
  /\ spent = [logins |-> 0, commands |-> 0, restarts |-> 0, ticks |-> 0]

-----------------------------------------------------------------------------
(* SQLite *)

\* Another connection wrote: the snapshot of an open SELECT is no longer the last one.
Overtaken(s) == IF s.pc = "verifying" THEN [s EXCEPT !.stale = TRUE] ELSE s

\* A statement of a connection other than the server's; one that changes no row writes nothing.
Commit(d, wrote) == db' = d /\ server' = IF wrote THEN Overtaken(server) ELSE server

-----------------------------------------------------------------------------
(* UserStore::open: the table is made if it is missing, and an old one gets its new column.
   The column is looked for by one statement and added by another.                          *)

\* initialize_schema: CREATE TABLE IF NOT EXISTS.
initialize_schema(d) == IF d.schema = "absent" THEN [d EXCEPT !.schema = "current"] ELSE d

table_has_column(d) == d.schema = "current"

\* ensure_schema_compatibility: ALTER TABLE fails when the column is there already.
ensure_schema_compatibility(d) == [d EXCEPT !.schema = "current"]
AlterFails(d) == d.schema = "current"

\* The server opens its store once, before it serves; a failure ends it.
open_server ==
  /\ server.pc = "opening"
  /\ db' = initialize_schema(db)
  /\ server' = [server EXCEPT !.pc = IF table_has_column(db') THEN "serving" ELSE "altering"]
  /\ UNCHANGED <<conf, now, cli, upgrades, past, spent>>

alter_server ==
  /\ server.pc = "altering"
  /\ db' = ensure_schema_compatibility(db)
  /\ server' = [server EXCEPT !.pc = IF AlterFails(db) THEN "ended" ELSE "serving"]
  /\ UNCHANGED <<conf, now, cli, upgrades, past, spent>>

\* load_user_db_path_from_config and open: the same, at the start of every command.
open_cli(c) ==
  /\ CanSpend("commands") /\ Spend("commands")
  /\ Commit(initialize_schema(db), db.schema = "absent")
  /\ cli' = cli \cup {[pc |-> IF table_has_column(db') THEN "open" ELSE "altering", verb |-> c.verb,
                         user |-> c.user, password |-> c.password]}
  /\ UNCHANGED <<conf, now, upgrades, past>>

alter_cli(k) ==
  /\ k.pc = "altering"
  /\ Commit(ensure_schema_compatibility(db), ~AlterFails(db))
  /\ cli' = (cli \ {k}) \cup (IF AlterFails(db) THEN {} ELSE {[k EXCEPT !.pc = "open"]})
  /\ UNCHANGED <<conf, now, upgrades, past, spent>>

-----------------------------------------------------------------------------
(* The commands of the administrator *)

ShortPassword == "short"
Nameless == ""

get_user(d, user) == user \in DOMAIN d.rows

Change(d, user, r) == IF get_user(d, user) THEN [d EXCEPT !.rows[user] = r] ELSE d

\* add_user: the name and the password are looked at, and the name must be new.
AddRefused(d, user, password) == user = Nameless \/ password = ShortPassword \/ get_user(d, user)
add_user(d, user, password) ==
  [d EXCEPT !.ids = @ + 1, !.rows = Put(@, user, NewRow(d.ids + 1, hash_password(password)))]

remove_user(d, user) == [d EXCEPT !.rows = Restrict(@, DOMAIN @ \ {user})]

set_enabled(d, user, enabled) == Change(d, user, [d.rows[user] EXCEPT !.enabled = enabled])

reset_failed_attempts(d, user) ==
  Change(d, user, [d.rows[user] EXCEPT !.failed_attempts = 0, !.locked_until = 0])

change_password(d, user, password) ==
  Change(d, user, [d.rows[user] EXCEPT !.hash = hash_password(password), !.failed_attempts = 0,
                                       !.locked_until = 0])

\* What the books say of an id that got a password, and of one whose failures were forgiven.
Given(p, id, password) ==
  Put(p, id, [given |-> Get(p, id, [given |-> {}]).given \cup {password}, failures |-> 0])
Forgiven(p, id) == [p EXCEPT ![id].failures = 0]

\* A command that does its one statement and ends.
Ends(k, d, p) ==
  /\ Commit(d, d.rows # db.rows \/ (get_user(db, k.user) /\ k.verb \notin {"add", "list"}))
  /\ cli' = cli \ {k}
  /\ past' = p
  /\ UNCHANGED <<conf, now, upgrades, spent>>

\* A command that ends without a statement.
GivesUp(k) == cli' = cli \ {k} /\ UNCHANGED <<conf, now, db, server, upgrades, past, spent>>

\* get_password_with_confirm: the two answers may differ, which ends the command.
get_password_with_confirm(k) == GivesUp(k)

\* Passwd looks the user up before it asks for the password, and does not look at the result of
\* the change.
PasswdLooksUp(k) ==
  /\ cli' = (cli \ {k}) \cup (IF get_user(db, k.user) THEN {[k EXCEPT !.pc = "asking"]} ELSE {})
  /\ UNCHANGED <<conf, now, db, server, upgrades, past, spent>>

handle_user_command(k) ==
  LET id == db.rows[k.user].id
  IN  /\ k.pc \in {"open", "asking"}
      /\ \/ /\ k.verb = "add"
            /\ \/ get_password_with_confirm(k)
               \/ IF AddRefused(db, k.user, k.password) THEN Ends(k, db, past)
                  ELSE Ends(k, add_user(db, k.user, k.password), Given(past, db.ids + 1, k.password))
         \/ k.verb = "remove" /\ Ends(k, remove_user(db, k.user), past)
         \/ k.verb = "list" /\ Ends(k, db, past)
         \/ k.verb = "disable" /\ Ends(k, set_enabled(db, k.user, FALSE), past)
         \/ k.verb = "enable" /\ Ends(k, set_enabled(db, k.user, TRUE), past)
         \/ k.verb = "passwd" /\ k.pc = "open" /\ PasswdLooksUp(k)
         \/ /\ k.verb = "passwd" /\ k.pc = "asking"
            /\ \/ get_password_with_confirm(k)
               \/ IF k.password = ShortPassword THEN GivesUp(k)
                  ELSE Ends(k, change_password(db, k.user, k.password),
                            IF get_user(db, k.user) THEN Given(past, id, k.password) ELSE past)
         \/ /\ k.verb = "unlock"
            /\ Ends(k, reset_failed_attempts(db, k.user),
                    IF get_user(db, k.user) THEN Forgiven(past, id) ELSE past)

-----------------------------------------------------------------------------
(* Logging in *)

\* The SELECT of verify_password.  A name that is not there is refused at once.
select(user, password) ==
  /\ server.pc = "serving"
  /\ CanSpend("logins") /\ Spend("logins")
  /\ server' = IF get_user(db, user)
               THEN [pc |-> "verifying", verdict |-> "none", user |-> user, password |-> password,
                     row |-> db.rows[user], stale |-> FALSE]
               ELSE [pc |-> "serving", verdict |-> "refused"]
  /\ UNCHANGED <<conf, now, db, cli, upgrades, past>>

Verdict(v) == server' = [pc |-> "serving", verdict |-> v]

\* Mutant: the SELECT is closed before the hash is computed.
UpdateRefusedNever(s) == FALSE

\* The UPDATE of a login that is overtaken fails.
UpdateRefused(s) == s.stale

Matches == verify_password_hash(server.password, server.row.hash)

\* spawn_hash_upgrade, from a login with the right password: by the id of the row.
spawn_hash_upgrade(row, password) ==
  IF hash_needs_upgrade(row.hash) THEN upgrades \cup {[user |-> server.user, id |-> row.id, password |-> password]}
  ELSE upgrades

\* The rest of verify_password, and what authenticate_credentials makes of it: a store error
\* refuses the client.  The UPDATEs are by the id of the row.
verify ==
  LET v == verify_password(server.row, Policy, Matches, now)
      here == {u \in DOMAIN db.rows : db.rows[u].id = server.row.id}
      refused == server.row.locked_until > now \/ ~server.row.enabled
  IN  /\ server.pc = "verifying"
      /\ \/ refused /\ Verdict("refused") /\ UNCHANGED <<db, upgrades, past>>
         \/ ~refused /\ UpdateRefused(server) /\ Verdict("error") /\ UNCHANGED <<db, upgrades, past>>
         \/ /\ ~refused /\ ~UpdateRefused(server)
            /\ db' = [db EXCEPT !.rows =
                       [u \in DOMAIN @ |-> IF u \in here
                                           THEN [@[u] EXCEPT !.failed_attempts = v.row.failed_attempts,
                                                             !.locked_until = v.row.locked_until]
                                           ELSE @[u]]]
            /\ past' = [past EXCEPT ![server.row.id].failures = IF v.ok THEN 0 ELSE @ + 1]
            /\ Verdict(IF v.ok THEN "accepted" ELSE "refused")
            /\ upgrades' = IF v.ok THEN spawn_hash_upgrade(server.row, server.password) ELSE upgrades
      /\ UNCHANGED <<conf, now, cli, spent>>

\* Mutant: the hash is written to whoever has the name.
UpgradedByName(d, t) ==
  IF get_user(d, t.user) THEN [d EXCEPT !.rows[t.user].hash = hash_password(t.password)] ELSE d

\* The UPDATE of the detached thread, by id.
Upgraded(d, t) ==
  [d EXCEPT !.rows = [u \in DOMAIN @ |-> IF @[u].id = t.id
                                         THEN [@[u] EXCEPT !.hash = hash_password(t.password)] ELSE @[u]]]

\* The thread ends with its UPDATE, or with an error that nobody hears of.
upgrade(t) ==
  /\ upgrades' = upgrades \ {t}
  /\ \/ Commit(Upgraded(db, t), \E u \in DOMAIN db.rows : db.rows[u].id = t.id)
     \/ UNCHANGED <<db, server>>
  /\ UNCHANGED <<conf, now, cli, past, spent>>

\* The server ends, its threads with it, and is started again.
restart ==
  /\ CanSpend("restarts") /\ Spend("restarts")
  /\ server' = [pc |-> "opening", verdict |-> "none"]
  /\ upgrades' = {}
  /\ UNCHANGED <<conf, now, db, cli, past>>

tick ==
  /\ CanSpend("ticks") /\ Spend("ticks")
  /\ now' = now + 1
  /\ UNCHANGED <<conf, db, server, cli, upgrades, past>>

Commands == [verb : {"add", "passwd"}, user : conf.names, password : conf.passwords]
            \cup [verb : {"remove", "disable", "enable", "unlock", "list"}, user : conf.names, password : {ShortPassword}]

Next ==
  \/ open_server
  \/ alter_server
  \/ \E c \in Commands : open_cli(c)
  \/ \E k \in cli : alter_cli(k) \/ handle_user_command(k)
  \/ \E u \in conf.names, p \in conf.passwords : select(u, p)
  \/ verify
  \/ \E t \in upgrades : upgrade(t)
  \/ restart
  \/ tick

Spec == Init /\ [][Next]_vars

-----------------------------------------------------------------------------
(* Properties *)

\* A password in the database was given to that very user by an administrator, although a thread
\* may write one long after the login that started it, when the user was removed and the name
\* given to somebody else; and the failures counted against a user are exactly those since the
\* last success, unlock or new password, whatever ran at the same time.
AccountBooks ==
  \A u \in DOMAIN db.rows :
    LET r == db.rows[u]
    IN  r.hash.password \in past[r.id].given /\ r.failed_attempts = past[r.id].failures

\* A login is accepted only against the row as it is at that moment: a user who is disabled,
\* removed or given another password while the server computes the hash does not get in.
AcceptedAgainstRow ==
  server.pc = "verifying" /\ server'.verdict = "accepted" =>
    /\ get_user(db, server.user)
    /\ LET r == db.rows[server.user]
       IN  r.enabled /\ r.hash.password = server.password /\ r.locked_until <= now
=============================================================================
