------------------------------- MODULE Files -------------------------------
(***************************************************************************)
(* What the programs keep in files of their own, and a process that may    *)
(* die between any two of the calls that write them: the profiles and the  *)
(* settings of the applications of Windows and of macOS (config.rs,        *)
(* state.rs, commands/profiles.rs, commands/settings.rs), and the key file *)
(* of the server (main.rs, genkey).                                        *)
(*                                                                         *)
(* A file is absent, torn (the process was inside a write) or whole.  The  *)
(* profiles are a set of pairs of an id and a version; so are the settings *)
(* and the keys, with one pair.  Validation of a profile is left out: one  *)
(* that is refused changes nothing.                                        *)
(***************************************************************************)
EXTENDS Integers

CONSTANT Deployments  \* [os: "windows", "macos" or "server"; legacy: a profiles.json of before;
                      \*  dpapi: whether a decryption may fail; faults; commands, crashes: bounds]

VARIABLES
  conf,   \* one of Deployments
  disk,   \* [main, tmp, legacy, settings]
  app,    \* [run, profiles, settings]: the memory of the application
  op,     \* the command that holds the lock of the state, or idle
  past,   \* [committed, attempted]: the last contents a command reported, and those of the one after
  spent

vars == <<conf, disk, app, op, past, spent>>

Ids == {1, 2}

Absent == [is |-> "absent", val |-> {}]
Torn == [is |-> "torn", val |-> {}]
Whole(val) == [is |-> "whole", val |-> val]

Idle == [pc |-> "idle", kind |-> "profiles", old |-> {}, new |-> {}]

CanSpend(what) == spent[what] < conf[what]
Spend(what) == spent' = [spent EXCEPT ![what] = @ + 1]

Legacy == {<<1, 0>>}

Init ==
  /\ conf \in Deployments
  /\ disk = [main |-> Absent, tmp |-> Absent, legacy |-> IF conf.legacy THEN Whole(Legacy) ELSE Absent,
             settings |-> Absent]
  /\ app = [run |-> FALSE, profiles |-> {}, settings |-> {}]
  /\ op = Idle
  /\ past = LET val == IF conf.legacy THEN Legacy ELSE {} IN [committed |-> val, attempted |-> val]
  /\ spent = [commands |-> 0, crashes |-> 0]

-----------------------------------------------------------------------------
(* Loading *)

\* What a file of JSON gives: the default when there is none, an error when it does not parse.
Parsed(file, default) == [ok |-> file.is # "torn", val |-> IF file.is = "whole" THEN file.val ELSE default]

\* load_profiles of macOS; of Windows the encrypted file first, and what is left of the older one
\* when it cannot be decrypted.
load_profiles(decrypts) ==
  IF conf.os = "windows"
  THEN IF disk.main.is = "whole" /\ decrypts THEN [ok |-> TRUE, val |-> disk.main.val]
       ELSE Parsed(disk.legacy, {})
  ELSE Parsed(disk.main, {})

load_settings == Parsed(disk.settings, {})

\* load_config: an error in the first leaves both as they are by default.
load_config ==
  /\ ~app.run
  /\ \E decrypts \in {TRUE} \cup (IF conf.dpapi THEN {FALSE} ELSE {}) :
       LET profiles == load_profiles(decrypts)
       IN  /\ app' = [run |-> TRUE, profiles |-> IF profiles.ok THEN profiles.val ELSE {},
                      settings |-> IF profiles.ok /\ load_settings.ok THEN load_settings.val ELSE {}]
           /\ past' = [committed |-> app'.profiles, attempted |-> app'.profiles]
  /\ UNCHANGED <<conf, disk, op, spent>>

-----------------------------------------------------------------------------
(* The commands *)

FirstStep(kind) ==
  IF kind = "settings" THEN "write_settings"
  ELSE CASE conf.os = "windows" -> "encrypt"
         [] conf.os = "macos" -> "write"
         [] conf.os = "server" -> "open"

Begins(kind, old, new) ==
  /\ app.run /\ op.pc = "idle"
  /\ CanSpend("commands") /\ Spend("commands")
  /\ op' = [pc |-> FirstStep(kind), kind |-> kind, old |-> old, new |-> new]
  /\ past' = IF kind = "settings" THEN past ELSE [past EXCEPT !.attempted = new]
  /\ UNCHANGED <<conf, disk>>

\* A profile is replaced, or added: in memory at once, under the lock.
save_profile_to_state(id) ==
  /\ conf.os # "server"
  /\ LET new == {p \in app.profiles : p[1] # id} \cup {<<id, spent.commands + 1>>}
     IN  Begins("profiles", app.profiles, new) /\ app' = [app EXCEPT !.profiles = new]

delete_profile_from_state(id) ==
  /\ conf.os # "server"
  /\ \E p \in app.profiles : p[1] = id
  /\ LET new == {p \in app.profiles : p[1] # id}
     IN  Begins("profiles", app.profiles, new) /\ app' = [app EXCEPT !.profiles = new]

\* normalize_settings sets the kill switch; the settings count in memory whatever becomes of the file.
save_settings ==
  /\ conf.os # "server"
  /\ LET new == {<<0, spent.commands + 1>>}
     IN  Begins("settings", app.settings, new) /\ app' = [app EXCEPT !.settings = new]

\* genkey with an output file.
generate_keypair ==
  /\ conf.os = "server"
  /\ LET new == {<<1, spent.commands + 1>>}
     IN  Begins("profiles", disk.main.val, new) /\ app' = [app EXCEPT !.profiles = new]

-----------------------------------------------------------------------------
(* The writes, one call at a time *)

Goes(pc) == op' = [op EXCEPT !.pc = pc] /\ UNCHANGED <<conf, app, past, spent>>

Succeeds ==
  /\ op' = Idle
  /\ past' = IF op.kind = "settings" THEN past ELSE [past EXCEPT !.committed = op.new]
  /\ UNCHANGED <<conf, app, spent>>

\* The error of a profile's write rolls the memory back; that of the settings does not.
Fails ==
  /\ conf.faults
  /\ op' = Idle
  /\ app' = IF op.kind = "settings" THEN app ELSE [app EXCEPT !.profiles = op.old]
  /\ past' = [past EXCEPT !.attempted = past.committed]
  /\ UNCHANGED <<conf, spent>>

\* std::fs::write: the file is emptied, then filled.
Write(file, from, half, to) ==
  \/ op.pc = from /\ disk' = [disk EXCEPT ![file] = Torn] /\ Goes(half)
  \/ op.pc = from /\ UNCHANGED disk /\ Fails
  \/ op.pc = half /\ disk' = [disk EXCEPT ![file] = Whole(op.new)] /\ IF to = "done" THEN Succeeds ELSE Goes(to)
  \/ op.pc = half /\ UNCHANGED disk /\ Fails

\* Mutant: the older file is removed before the new one is in its place.
encryptLegacyFirst ==
  op.pc = "encrypt" /\ disk' = [disk EXCEPT !.legacy = Absent] /\ Goes("write_tmp")

encrypt ==
  /\ op.pc = "encrypt"
  /\ UNCHANGED disk
  /\ Goes("write_tmp") \/ Fails

\* save_profiles of Windows: encrypted into a file beside it, which is then renamed; the older file,
\* in the clear, goes last.
save_profiles_windows ==
  \/ encrypt
  \/ Write("tmp", "write_tmp", "writing_tmp", "rename")
  \/ /\ op.pc = "rename"
     /\ \/ disk' = [disk EXCEPT !.main = disk.tmp, !.tmp = Absent] /\ Goes("remove")
        \/ UNCHANGED disk /\ Fails
  \/ /\ op.pc = "remove"
     /\ disk' \in {[disk EXCEPT !.legacy = Absent]} \cup (IF conf.faults THEN {disk} ELSE {})
     /\ Succeeds

\* save_profiles of macOS: in place.
save_profiles_macos == Write("main", "write", "writing", "done")

save_settings_to_disk == Write("settings", "write_settings", "writing_settings", "done")

\* write_secret_file_atomic: a new file beside it, synchronised and renamed; removed by any error,
\* one that was left there before included.
RemovesTmp == disk' = [disk EXCEPT !.tmp = Absent]
write_secret_file_atomic ==
  \/ op.pc = "open" /\ disk.tmp = Absent /\ disk' = [disk EXCEPT !.tmp = Torn] /\ Goes("write_all")
  \/ op.pc = "open" /\ disk.tmp # Absent /\ RemovesTmp /\ op' = Idle
     /\ past' = [past EXCEPT !.attempted = past.committed] /\ UNCHANGED <<conf, app, spent>>
  \/ op.pc = "write_all" /\ disk' = [disk EXCEPT !.tmp = Whole(op.new)] /\ Goes("rename_keys")
  \/ op.pc = "rename_keys" /\ disk' = [disk EXCEPT !.main = disk.tmp, !.tmp = Absent] /\ Succeeds
  \/ op.pc \in {"open", "write_all", "rename_keys"} /\ RemovesTmp /\ Fails

\* The process dies.
crash ==
  /\ app.run
  /\ CanSpend("crashes") /\ Spend("crashes")
  /\ app' = [app EXCEPT !.run = FALSE]
  /\ op' = Idle
  /\ UNCHANGED <<conf, disk, past>>

Next ==
  \/ load_config
  \/ \E id \in Ids : save_profile_to_state(id) \/ delete_profile_from_state(id)
  \/ save_settings
  \/ generate_keypair
  \/ save_profiles_windows
  \/ save_profiles_macos
  \/ save_settings_to_disk
  \/ write_secret_file_atomic
  \/ crash

Spec == Init /\ [][Next]_vars

-----------------------------------------------------------------------------
(* Properties *)

\* Whenever the process dies, what the next one loads is what the last command reported as saved, or
\* what the one it died in was saving: never less, and never a mixture.  On Windows and in the key
\* file of the server no file that is read can be torn; on macOS, where profiles.json is written in
\* place, this is said of the times at which the process is not inside that write and has not failed in it.
ProfilesSurvive ==
  /\ conf.os # "macos" => disk.main.is # "torn" /\ disk.legacy.is # "torn"
  /\ ~conf.dpapi /\ disk.main.is # "torn" =>
       /\ load_profiles(TRUE).val \in {past.committed, past.attempted}
       /\ app.run /\ op.pc = "idle" => load_profiles(TRUE).val = past.committed
=============================================================================
