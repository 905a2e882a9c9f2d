------------------------------ MODULE Options -------------------------------
(* Connect options (options.rs): values built by builder methods, cloned and *)
(* changed (Arc::make_mut copies), read from a URL parameter by parameter    *)
(* and written back to a URL.  Strings are members of small sets; the        *)
(* settings nothing here depends on (busy timeout, statement cache capacity, *)
(* logging) are left out, and of the default PRAGMAs three stand for all.    *)
EXTENDS Naturals, Sequences, SequencesExt

CONSTANTS
  Handle,        \* variables that hold options
  Paths,         \* file names
  MaxCalls,      \* bound: builder calls in a behaviour
  MaxParams,     \* bound: parameters of a URL
  Params         \* [key, value] of the parameters a URL may have

ASSUME OptionsAssumption == MaxCalls \in Nat /\ MaxParams \in Nat

Memory(n) == [kind |-> "memory", name |-> n, path |-> ""]
File(p) == [kind |-> "file", name |-> 0, path |-> p]

(* Option<T> is a sequence of at most one element. *)
NoSync == <<>>
NewSync(url) ==
  <<[remote_url |-> url, auth_token |-> "none", client_name |-> "none",
     long_poll_timeout |-> "none", bootstrap_if_empty |-> TRUE]>>
SyncOrDefault(s) == IF s = NoSync THEN NewSync("") ELSE s

DefaultPragmas ==
  <<[key |-> "auto_vacuum", value |-> "none"], [key |-> "journal_mode", value |-> "none"],
    [key |-> "foreign_keys", value |-> "ON"]>>

(* Default: n is the next number of IN_MEMORY_DB_SEQ and names the new       *)
(* TursoMemoryState as well.                                                 *)
Default(n) ==
  [target |-> Memory(n), memory_state |-> n, open_mode |-> "rw", cache |-> "shared",
   immutable |-> FALSE, vfs |-> "none", custom_io |-> FALSE, encryption |-> <<>>,
   sync |-> NoSync, features |-> {}, pragmas |-> DefaultPragmas]

-----------------------------------------------------------------------------
(* Builder methods.                                                          *)

Filename(o, p) == [o EXCEPT !.target = File(p), !.cache = "private"]

(* Faulty: the new target keeps the old database. *)
InMemoryKeepsState(o, in_memory, n) ==
  IF in_memory THEN [o EXCEPT !.target = Memory(n), !.cache = "shared"]
  ELSE IF o.target.kind = "memory" THEN Filename(o, ":memory:")
  ELSE o

InMemory(o, in_memory, n) ==
  IF in_memory
  THEN [o EXCEPT !.target = Memory(n), !.cache = "shared", !.memory_state = n]
  ELSE IF o.target.kind = "memory" THEN Filename(o, ":memory:")
  ELSE o

(* TursoOpenMode::from_read_only and from_create_if_missing. *)
ReadOnly(o, b) ==
  [o EXCEPT !.open_mode = IF b THEN "ro" ELSE IF @ = "ro" THEN "rw" ELSE @]
CreateIfMissing(o, b) ==
  [o EXCEPT !.open_mode = IF b THEN "rwc" ELSE IF @ = "rwc" THEN "rw" ELSE @]

SharedCache(o, b) == [o EXCEPT !.cache = IF b THEN "shared" ELSE "private"]
Vfs(o, v) == [o EXCEPT !.vfs = v, !.custom_io = FALSE]
CustomIo(o) == [o EXCEPT !.custom_io = TRUE, !.vfs = "none"]
ClearCustomIo(o) == [o EXCEPT !.custom_io = FALSE]
Immutable(o, b) == [o EXCEPT !.immutable = b]
EncryptionOptions(o, e) == [o EXCEPT !.encryption = e]
WithSyncOptions(o, s) == [o EXCEPT !.sync = s]
ExperimentalFeature(o, f, b) == [o EXCEPT !.features = IF b THEN @ \cup {f} ELSE @ \ {f}]

Pragma(o, key, value) ==
  LET known == {i \in DOMAIN o.pragmas : o.pragmas[i].key = key}
  IN  IF known = {}
      THEN [o EXCEPT !.pragmas = Append(@, [key |-> key, value |-> value])]
      ELSE [o EXCEPT !.pragmas = [i \in DOMAIN @ |->
               IF i \in known THEN [key |-> key, value |-> value] ELSE @[i]]]

Mvcc(o, b) == Pragma(o, "journal_mode", IF b THEN "'mvcc'" ELSE "none")

(* normalized_pragma_value, and the comparison that ignores case. *)
IsMvcc(value) == value \in {"mvcc", "'mvcc'"}

GetMvcc(o) == \E i \in DOMAIN o.pragmas : o.pragmas[i].key = "journal_mode" /\ IsMvcc(o.pragmas[i].value)

-----------------------------------------------------------------------------
(* Reading a URL: from_db_and_params and apply_query_params.                 *)

Parsing(database, n) ==
  [options |-> IF database = ":memory:" THEN InMemory(Default(n), TRUE, n + 1)
               ELSE Filename(Default(n), database),
   cipher |-> "none", hexkey |-> "none", sync |-> NoSync, ok |-> TRUE]

Refuse(s) == [s EXCEPT !.ok = FALSE]
With(s, o) == [s EXCEPT !.options = o]

(* Faulty: mode=rw undoes a mode before it. *)
ModeRwResets(s, value, n) ==
  CASE value = "ro" -> With(s, ReadOnly(s.options, TRUE))
    [] value = "rw" -> With(s, CreateIfMissing(ReadOnly(s.options, FALSE), FALSE))
    [] value = "rwc" -> With(s, CreateIfMissing(s.options, TRUE))
    [] value = "memory" -> With(s, InMemory(s.options, TRUE, n))
    [] OTHER -> Refuse(s)

Mode(s, value, n) ==
  CASE value = "ro" -> With(s, ReadOnly(s.options, TRUE))
    [] value = "rw" -> s
    [] value = "rwc" -> With(s, CreateIfMissing(s.options, TRUE))
    [] value = "memory" -> With(s, InMemory(s.options, TRUE, n))
    [] OTHER -> Refuse(s)

Cache(s, value) ==
  IF value \in {"private", "shared"} THEN With(s, SharedCache(s.options, value = "shared"))
  ELSE Refuse(s)

(* parse_bool and the parameter immutable. *)
Truth == {"true", "1"}
IsBool(value) == value \in Truth \cup {"false", "0"}

FeatureNames == [attach |-> {"attach"}, views |-> {"views"}, materialized_views |-> {"views"}]

(* A value split at its commas, without the empty elements; of the values    *)
(* that are not one name, three stand for all.                               *)
Elements(value) ==
  CASE value = "" -> {}
    [] value \in {"attach,views", "views,,attach"} -> {"attach", "views"}
    [] OTHER -> {value}

(* parse_experimental_feature, of each element. *)
FeaturesOf(value) == UNION {FeatureNames[name] : name \in Elements(value)}

Experimental(s, value) ==
  IF Elements(value) \subseteq DOMAIN FeatureNames
  THEN With(s, [s.options EXCEPT !.features = @ \cup FeaturesOf(value)])
  ELSE Refuse(s)

(* What is no u64: no number, or the milliseconds of a longer Duration. *)
NoMillis == {"wrong", "2^64"}

SyncParam(s, key, value) ==
  LET Set(field, v) == [s EXCEPT !.sync = <<[SyncOrDefault(@)[1] EXCEPT ![field] = v]>>]
  IN CASE key = "sync_remote_url" -> [s EXCEPT !.sync = NewSync(value)]
       [] key = "sync_auth_token" -> Set("auth_token", value)
       [] key = "sync_client_name" -> Set("client_name", value)
       [] key = "sync_long_poll_timeout_ms" ->
            IF value \in NoMillis THEN Refuse(s) ELSE Set("long_poll_timeout", value)
       [] key = "sync_bootstrap_if_empty" ->
            IF IsBool(value) THEN Set("bootstrap_if_empty", value \in Truth) ELSE Refuse(s)

SyncKeys == {"sync_remote_url", "sync_auth_token", "sync_client_name",
             "sync_long_poll_timeout_ms", "sync_bootstrap_if_empty"}

(* One round of the loop over the parameters; n is the next memory name. *)
ApplyParam(s, key, value, n) ==
  IF ~s.ok THEN s ELSE
  CASE key = "mode" -> Mode(s, value, n)
    [] key = "cache" -> Cache(s, value)
    [] key = "immutable" ->
         IF IsBool(value) THEN With(s, Immutable(s.options, value \in Truth)) ELSE Refuse(s)
    [] key = "vfs" -> With(s, Vfs(s.options, value))
    [] key = "encryption_cipher" -> [s EXCEPT !.cipher = value]
    [] key = "encryption_hexkey" -> [s EXCEPT !.hexkey = value]
    [] key = "journal_mode" ->
         With(s, IF IsMvcc(value) THEN Mvcc(s.options, TRUE) ELSE Pragma(s.options, key, value))
    [] key = "experimental" -> Experimental(s, value)
    [] key \in SyncKeys -> SyncParam(s, key, value)
    [] OTHER -> Refuse(s)

(* TursoEncryptionOptions::new: no empty part, an even number of digits. *)
ValidEncryption(cipher, hexkey) == cipher # "" /\ hexkey \notin {"", "abc", "wrong"}

(* What follows the loop. *)
Encrypted(s) ==
  IF s.cipher = "none" /\ s.hexkey = "none" THEN s
  ELSE IF s.cipher # "none" /\ s.hexkey # "none" /\ ValidEncryption(s.cipher, s.hexkey)
  THEN With(s, EncryptionOptions(s.options, <<s.cipher, s.hexkey>>))
  ELSE Refuse(s)

Synced(s) ==
  IF s.sync = NoSync THEN s
  ELSE IF s.sync[1].remote_url = "" THEN Refuse(s)
  ELSE With(s, WithSyncOptions(s.options, s.sync))

Finish(s) == IF s.ok THEN Synced(Encrypted(s)) ELSE s

(* The loop: what was read after each number of parameters. *)
Rounds(url, n) ==
  LET read[i \in 0 .. Len(url.params)] ==
        IF i = 0 THEN Parsing(url.database, n)
        ELSE ApplyParam(read[i - 1], url.params[i].key, url.params[i].value, n + 2)
  IN  read

Parse(url, n) == Finish(Rounds(url, n)[Len(url.params)])

-----------------------------------------------------------------------------
(* Writing a URL: build_url.                                                 *)

When(condition, key, value) ==
  IF condition THEN <<[key |-> key, value |-> value]>> ELSE <<>>

(* to_query_value. *)
FeatureList(features) ==
  CHOOSE v \in {"attach", "views", "attach,views"} : FeaturesOf(v) = features

(* as_millis: what is left of a Duration in milliseconds. *)
Millis(timeout) == IF timeout = "1.5" THEN "1" ELSE timeout

(* Faulty: the remote URL is written last. *)
SyncParamsUrlLast(sync) ==
  IF sync = NoSync THEN <<>>
  ELSE LET s == sync[1] IN
       When(s.auth_token # "none", "sync_auth_token", s.auth_token)
    \o When(s.client_name # "none", "sync_client_name", s.client_name)
    \o When(s.long_poll_timeout # "none", "sync_long_poll_timeout_ms", Millis(s.long_poll_timeout))
    \o When(~s.bootstrap_if_empty, "sync_bootstrap_if_empty", "false")
    \o When(TRUE, "sync_remote_url", s.remote_url)

SyncParams(sync) ==
  IF sync = NoSync THEN <<>>
  ELSE LET s == sync[1] IN
       When(TRUE, "sync_remote_url", s.remote_url)
    \o When(s.auth_token # "none", "sync_auth_token", s.auth_token)
    \o When(s.client_name # "none", "sync_client_name", s.client_name)
    \o When(s.long_poll_timeout # "none", "sync_long_poll_timeout_ms", Millis(s.long_poll_timeout))
    \o When(~s.bootstrap_if_empty, "sync_bootstrap_if_empty", "false")

(* url_mode. *)
UrlMode(o) == IF o.target.kind = "memory" THEN "memory" ELSE o.open_mode

UrlPath(o) == IF o.target.kind = "memory" THEN ":memory:" ELSE o.target.path

(* What Url::parse (external) makes of a name, whose first segment it takes   *)
(* for a host.  It refuses ":memory:", a port without a host, and hosts with *)
(* a space or a colon; the caller then panics.  It keeps a name but for the  *)
(* Changed, each of which stands for its kind: the host of an absolute file  *)
(* stays when its path is set, dots are resolved, what follows a question    *)
(* mark is a parameter, and what follows a hash ends up behind the last      *)
(* value, "wrong" standing for such a value.                                 *)
HasUrl(o) == UrlPath(o) \notin {":memory:", "a b"}

Changed == {"/a", "a/../b", "a?b", "a#b"}

Written(path) ==
  CASE path = "/a" -> "a/a"
    [] path = "a/../b" -> "a/b"
    [] path \in {"a?b", "a#b"} -> "a"
    [] OTHER -> path

Around(path, params) ==
  CASE path = "a?b" -> <<[key |-> "b", value |-> ""]>> \o params
    [] path = "a#b" -> [params EXCEPT ![Len(params)].value = "wrong"]
    [] OTHER -> params

(* The parameters after mode and cache. *)
OtherParams(o) ==
     When(o.immutable, "immutable", "true")
  \o When(o.vfs # "none", "vfs", o.vfs)
  \o (IF o.encryption = <<>> THEN <<>>
      ELSE When(TRUE, "encryption_cipher", o.encryption[1])
        \o When(TRUE, "encryption_hexkey", o.encryption[2]))
  \o SyncParams(o.sync)
  \o (IF o.features = {} THEN <<>>
      ELSE When(TRUE, "experimental", FeatureList(o.features)))

BuildUrl(o) ==
  [database |-> Written(UrlPath(o)),
   params |-> Around(UrlPath(o), When(TRUE, "mode", UrlMode(o)) \o When(TRUE, "cache", o.cache)
                                   \o OtherParams(o))]

-----------------------------------------------------------------------------
(* An application with some options in its hands.                            *)

VARIABLES
  opt,           \* the options in each variable
  calls,         \* builder calls and parsed URLs so far
  url            \* a URL being written, [database, params]

optionVars == <<opt, calls, url>>

EmptyUrl == [database |-> "", params |-> <<>>]

OptionsInit ==
  /\ opt = [h \in Handle |-> Default(0)]
  /\ calls = 0
  /\ url = EmptyUrl

(* IN_MEMORY_DB_SEQ is above every number taken so far. *)
Fresh == 3 * calls + 1

Syncs == {NoSync, NewSync("u"), NewSync(""),
          <<[NewSync("u")[1] EXCEPT !.auth_token = "t", !.bootstrap_if_empty = FALSE]>>}
  \cup {<<[NewSync("u")[1] EXCEPT !.long_poll_timeout = t]>> : t \in {"1.5", "2^64"}}

(* The results of one builder call on options o.  No builder call happens    *)
(* while a URL is written, since neither sees the other.                     *)
Built(o, n) ==
  {Default(n), Vfs(o, "v"), CustomIo(o), ClearCustomIo(o),
   EncryptionOptions(o, <<"c", "ab">>), EncryptionOptions(o, <<>>),
   Pragma(o, "auto_vacuum", "FULL"), Pragma(o, "foreign_keys", "OFF"),
   Pragma(o, "journal_mode", "wal")}
  \cup {Filename(o, p) : p \in Paths}
  \cup {WithSyncOptions(o, s) : s \in Syncs}
  \cup UNION {{InMemory(o, b, n), ReadOnly(o, b), CreateIfMissing(o, b), SharedCache(o, b),
              Immutable(o, b), Mvcc(o, b), ExperimentalFeature(o, "attach", b),
              ExperimentalFeature(o, "views", b)} : b \in BOOLEAN}

BuilderCall(h) ==
  /\ url = EmptyUrl
  /\ calls < MaxCalls /\ calls' = calls + 1
  /\ \E o \in Built(opt[h], Fresh) : opt' = [opt EXCEPT ![h] = o]
  /\ UNCHANGED url

(* clone shares the target's name and the TursoMemoryState. *)
Clone(g, h) ==
  /\ url = EmptyUrl
  /\ calls < MaxCalls /\ calls' = calls + 1
  /\ opt' = [opt EXCEPT ![g] = opt[h]]
  /\ UNCHANGED url

(* The application writes a URL that a call will read, where a question mark *)
(* ends the name; bound: before it makes any other call.                     *)
WriteUrl ==
  /\ calls = 0
  /\ \/ \E p \in (Paths \ {"a?b"}) \cup {":memory:"} : url = EmptyUrl /\ url' = [url EXCEPT !.database = p]
     \/ \E p \in Params : /\ Len(url.params) < MaxParams
                          /\ url' = [url EXCEPT !.params = Append(@, p)]
  /\ UNCHANGED <<opt, calls>>

(* from_str of a URL with the scheme turso, or of the URL of other options. *)
FromUrl(h) ==
  /\ calls < MaxCalls /\ calls' = calls + 1
  /\ \E u \in {url} \cup {BuildUrl(opt[g]) : g \in {g \in Handle : HasUrl(opt[g])}} :
       LET s == Parse(u, Fresh) IN
       s.ok /\ opt' = [opt EXCEPT ![h] = s.options]
  /\ url' = EmptyUrl

FromUrlRefused(h) ==
  /\ calls < MaxCalls /\ calls' = calls + 1
  /\ ~Parse(url, Fresh).ok
  /\ url' = EmptyUrl
  /\ UNCHANGED opt

OptionsNext ==
  \/ WriteUrl
  \/ \E h \in Handle : BuilderCall(h) \/ FromUrl(h) \/ FromUrlRefused(h) \/ \E g \in Handle : Clone(g, h)

OptionsSpec == OptionsInit /\ [][OptionsNext]_optionVars

-----------------------------------------------------------------------------
(* Properties of options.                                                    *)

(* Type correctness; a VFS and a custom IO backend exclude each other, as    *)
(* the driver passes on only one of them (build_database).                   *)
OptionsTypeOK ==
  /\ calls \in 0 .. MaxCalls
  /\ url.params \in Seq(Params)
  /\ \A h \in Handle :
       /\ opt[h].target \in {Memory(n) : n \in 0 .. Fresh} \cup {File(p) : p \in Paths \cup {":memory:", "", "a", "a/a", "a/b"}}
       /\ opt[h].memory_state \in 0 .. Fresh
       /\ opt[h].open_mode \in {"rw", "rwc", "ro"} /\ opt[h].cache \in {"private", "shared"}
       /\ opt[h].vfs = "none" \/ ~opt[h].custom_io

(* Options for in-memory databases have the same name exactly if they share  *)
(* the database, whatever was changed on which clone (in_memory, filename,   *)
(* Arc::make_mut; tests preserves_memory_identity_across_clones_and_builders *)
(* and in_memory_resets_memory_identity).                                    *)
NameIsDatabase ==
  \A g, h \in Handle :
    opt[g].target.kind = "memory" /\ opt[h].target.kind = "memory"
      => (opt[g].target = opt[h].target <=> opt[g].memory_state = opt[h].memory_state)

(* What a URL carries of options. *)
Carried(o) ==
  [o EXCEPT !.memory_state = 0, !.custom_io = FALSE, !.pragmas = <<>>]

(* A timeout is carried in whole milliseconds. *)
WholeMillis(sync) ==
  IF sync = NoSync THEN NoSync ELSE <<[sync[1] EXCEPT !.long_poll_timeout = Millis(@)]>>

(* What a URL cannot say: sync options without a remote URL, and a timeout   *)
(* of more milliseconds than from_str reads.                                 *)
Sayable(sync) == sync = NoSync \/ (sync # NewSync("") /\ sync[1].long_poll_timeout # "2^64")

(* A URL written from options is read back as the same options (build_url,   *)
(* from_str), but for PRAGMAs, custom IO and the part of a timeout below a   *)
(* millisecond, if it has a name that Url::parse keeps.                      *)
UrlRoundTrip ==
  \A h \in Handle :
    LET o == opt[h]
        s == Parse(BuildUrl(o), Fresh)
    IN  HasUrl(o) /\ Sayable(o.sync) /\ o.target.path \notin Changed
          => s.ok /\ Carried(s.options) = Carried([o EXCEPT !.sync = WholeMillis(@)])

-----------------------------------------------------------------------------
(* What a URL means, said without going through it from left to right.       *)

(* The last value of a parameter after position i. *)
LastIn(params, keys, i) ==
  SelectLastInSubSeq(params, i + 1, Len(params), LAMBDA p : p.key \in keys)
LastValue(params, key, i, default) ==
  LET n == LastIn(params, {key}, i) IN IF n = 0 THEN default ELSE params[n].value

(* Each parameter has a value it may have. *)
Acceptable(p) ==
  CASE p.key = "mode" -> p.value \in {"ro", "rw", "rwc", "memory"}
    [] p.key = "cache" -> p.value \in {"private", "shared"}
    [] p.key \in {"immutable", "sync_bootstrap_if_empty"} -> IsBool(p.value)
    [] p.key = "experimental" -> Elements(p.value) \subseteq DOMAIN FeatureNames
    [] p.key = "sync_long_poll_timeout_ms" -> p.value \notin NoMillis
    [] OTHER -> p.key \in {"vfs", "encryption_cipher", "encryption_hexkey", "journal_mode"} \cup SyncKeys

(* The last value counts, but for mode=rw, which says nothing (options.rs    *)
(* line 606): mode=ro&mode=rw is read-only.  mode=memory starts with a       *)
(* shared cache, and sync_remote_url forgets the sync settings before it.    *)
Meaning(u) ==
  LET ps == u.params
      memory == SelectLastInSeq(ps, LAMBDA p : p.key = "mode" /\ p.value = "memory")
      mode == SelectLastInSeq(ps, LAMBDA p : p.key = "mode" /\ p.value \in {"ro", "rwc"})
      remote == LastIn(ps, {"sync_remote_url"}, 0)
  IN [memory |-> u.database = ":memory:" \/ memory # 0,
      open_mode |-> IF mode = 0 THEN "rw" ELSE ps[mode].value,
      cache |-> LastValue(ps, "cache", memory,
                     IF u.database = ":memory:" \/ memory # 0 THEN "shared" ELSE "private"),
      immutable |-> LastValue(ps, "immutable", 0, "0") \in Truth,
      vfs |-> LastValue(ps, "vfs", 0, "none"),
      encryption |-> <<LastValue(ps, "encryption_cipher", 0, "none"), LastValue(ps, "encryption_hexkey", 0, "none")>>,
      features |-> UNION {FeaturesOf(ps[i].value) : i \in {j \in DOMAIN ps : ps[j].key = "experimental"}},
      mvcc |-> IsMvcc(LastValue(ps, "journal_mode", 0, "none")),
      sync |-> IF LastIn(ps, SyncKeys, 0) = 0 THEN NoSync
               ELSE <<[remote_url |-> LastValue(ps, "sync_remote_url", 0, ""),
                       auth_token |-> LastValue(ps, "sync_auth_token", remote, "none"),
                       client_name |-> LastValue(ps, "sync_client_name", remote, "none"),
                       long_poll_timeout |-> LastValue(ps, "sync_long_poll_timeout_ms", remote, "none"),
                       bootstrap_if_empty |-> LastValue(ps, "sync_bootstrap_if_empty", remote, "1") \in Truth]>>]

WellFormed(u) ==
  /\ \A i \in DOMAIN u.params : Acceptable(u.params[i])
  /\ LET e == Meaning(u).encryption IN
       e = <<"none", "none">> \/ ("none" \notin {e[1], e[2]} /\ ValidEncryption(e[1], e[2]))
  /\ LET s == Meaning(u).sync IN s = NoSync \/ s[1].remote_url # ""

(* The loop of apply_query_params accepts the URLs it should and gives each  *)
(* setting the value the URL as a whole says.                                *)
UrlReadAsMeant ==
  LET s == Parse(url, Fresh)
      o == s.options
  IN  /\ s.ok <=> WellFormed(url)
      /\ s.ok => Meaning(url) =
           [memory |-> o.target.kind = "memory", open_mode |-> o.open_mode, cache |-> o.cache,
            immutable |-> o.immutable, vfs |-> o.vfs,
            encryption |-> IF o.encryption = <<>> THEN <<"none", "none">> ELSE o.encryption,
            features |-> o.features, mvcc |-> GetMvcc(o), sync |-> o.sync]
=============================================================================
