------------------------------ MODULE MCDriver ------------------------------
(* Constants for model checking connects (Driver) and the options they are   *)
(* made with (Options).  The two take no turns: a behaviour is one of tasks  *)
(* that connect with options that are as they are, or one of options.        *)
EXTENDS Driver, Options

CONSTANTS t1, t2, t3

ThreeTasks == {t1, t2, t3}

MemoryOptions(state, shared, sync, flaw) ==
  [target |-> "memory", state |-> state, shared |-> shared, create |-> FALSE,
   sync |-> sync, flaw |-> flaw]
FileOptions(create, sync) ==
  [target |-> "file", state |-> 1, shared |-> FALSE, create |-> create,
   sync |-> sync, flaw |-> "none"]

(* Two in-memory databases, the first also with a private cache and with     *)
(* sync that is refused or not, and a file that connects look for but do not *)
(* ask to create: it may be there, go, and come back when an open comes late.*)
MCOptions ==
  {MemoryOptions(1, TRUE, FALSE, "none"), MemoryOptions(1, FALSE, FALSE, "none"),
   MemoryOptions(2, TRUE, FALSE, "none"), MemoryOptions(1, TRUE, TRUE, "custom_io"),
   MemoryOptions(1, TRUE, TRUE, "none"), FileOptions(FALSE, FALSE)}

Values(key, values) == {[key |-> key, value |-> v] : v \in values}

(* Parameters that meet in one another's settings, and some that are wrong. *)
MCParams ==
  Values("mode", {"ro", "rw", "rwc", "memory"})
  \cup Values("cache", {"private", "shared", "wrong"})
  \cup Values("immutable", {"true", "0"})
  \cup Values("vfs", {"v"})
  \cup Values("encryption_cipher", {"c"})
  \cup Values("encryption_hexkey", {"ab", "abc"})
  \cup Values("journal_mode", {"'mvcc'", "wal"})
  \cup Values("experimental", {"attach", "views,,attach", "", "wrong"})
  \cup Values("sync_remote_url", {"u", "w", ""})
  \cup Values("sync_auth_token", {"t"})
  \cup Values("sync_long_poll_timeout_ms", {"1", "2^64"})
  \cup Values("sync_bootstrap_if_empty", {"false"})
  \cup Values("auto_vacuum", {"FULL"})

ConnectInit == Init /\ OptionsInit

ConnectNext ==
  \/ OptionsInit /\ Next /\ UNCHANGED optionVars
  \/ Init /\ file = 0 /\ OptionsNext /\ UNCHANGED vars

ConnectSpec ==
  /\ ConnectInit /\ [][ConnectNext]_<<vars, optionVars>>
  /\ \A t \in Task : WF_vars(Step(t))
=============================================================================
