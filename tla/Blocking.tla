------------------------------ MODULE Blocking ------------------------------
(***************************************************************************)
(* The blocklist store and the rebind allowlist under the API handlers of   *)
(* src/src/api.rs, the list refresh of src/src/serve.rs (load_blocklists)   *)
(* with the downloads of src/src/blocklist.rs, and their files              *)
(* (src/src/persist.rs) with a crash at any moment.                         *)
(*                                                                          *)
(* A handler that edits a list holds the store's lock while it saves, so  *)
(* saving[s] is the save under way in store s; the crash may come before or *)
(* after the rename, and any part of it may fail.                           *)
(***************************************************************************)
EXTENDS BlockOps

CONSTANTS
  ListNames,     \* names that handlers add and remove
  Configs,       \* possible contents of the allowlists in numa.toml
  Sources,       \* blocking.lists
  Lines(_),      \* the lines of a source's list
  MaxAttempts,   \* 1 + the number of retry delays
  MaxRestarts, MaxChanges, MaxTime, MaxRefreshes,  \* bounds
  NoSave

VARIABLES
  up,          \* the process runs
  blocklist,   \* ctx.blocklist
  rebind,      \* ctx.rebind: [enabled, allowlist]
  files,       \* the JSON files: contents as sets of names
  saving,      \* store -> the save under way, or NoSave
  loader,      \* the refresh task
  wall,
  kept,        \* history: entries saved and not removed since, by file
  restarts, edits, refreshes

blockVars == <<up, blocklist, rebind, files, saving, loader, wall, kept, restarts, edits, refreshes>>
bounds == <<restarts, edits, refreshes>>

Files == {"blocking-allow", "blocking-block", "rebind-allow"}
StoreOf(f) == IF f = "rebind-allow" THEN "rebind" ELSE "blocking"

(* The list behind a file. *)
ListOf(f) ==
  CASE f = "blocking-allow" -> blocklist.allowlist
    [] f = "blocking-block" -> blocklist.manual
    [] f = "rebind-allow"   -> rebind.allowlist

SetList(f, l) ==
  /\ blocklist' = CASE f = "blocking-allow" -> [blocklist EXCEPT !.allowlist = l]
                    [] f = "blocking-block" -> [blocklist EXCEPT !.manual = l]
                    [] OTHER                -> blocklist
  /\ rebind' = IF f = "rebind-allow" THEN [rebind EXCEPT !.allowlist = l] ELSE rebind

Idle == [at |-> "idle", pending |-> {}, attempt |-> [s \in Sources |-> 0], got |-> {}]

(* serve: config entries, then the persisted ones that config does not have.
   The configuration has blocking and rebind protection enabled. *)
Boot(c) ==
  /\ blocklist' = NewStore(List(c.allowlist, files["blocking-allow"]),
                           List({}, files["blocking-block"]))
  /\ rebind' = [enabled |-> TRUE, allowlist |-> List(c.rebind, files["rebind-allow"])]

ListsInit ==
  /\ up = TRUE
  /\ blocklist = NewStore(List({}, {}), List({}, {}))
  /\ rebind = [enabled |-> TRUE, allowlist |-> List({}, {})]
  /\ files = [f \in Files |-> {}] /\ kept = [f \in Files |-> {}]
  /\ saving = [s \in {"blocking", "rebind"} |-> NoSave]
  /\ loader = Idle
  /\ wall = 0 /\ restarts = 0 /\ edits = 0 /\ refreshes = 0

(* The lock of store s is free. *)
Free(s) == up /\ saving[s] = NoSave

-----------------------------------------------------------------------------
(* The definitions whose names start with Bug are faulty variants of the one
   that follows; substituting them shows that the properties can fail. *)

BugTruncatesFirst(f, l, gone) ==
  /\ SetList(f, l)
  /\ files' = [files EXCEPT ![f] = {}]
  /\ saving' = [saving EXCEPT ![StoreOf(f)] = [file |-> f, contents |-> l.user]]
  /\ kept' = [kept EXCEPT ![f] = @ \ gone]
  /\ edits' = edits + 1
  /\ UNCHANGED <<up, loader, wall, restarts, refreshes>>

(* Change the list of file f to l and start saving it. *)
Change(f, l, gone) ==
  /\ SetList(f, l)
  /\ saving' = [saving EXCEPT ![StoreOf(f)] = [file |-> f, contents |-> l.user]]
  /\ kept' = [kept EXCEPT ![f] = @ \ gone]
  /\ edits' = edits + 1
  /\ UNCHANGED <<up, files, loader, wall, restarts, refreshes>>

(* blocking_allowlist_add, blocking_blocklist_add, rebind_allowlist_add: a
   name that either layer has is left alone and nothing is saved. *)
AddEntry(f, d) ==
  /\ Free(StoreOf(f)) /\ edits < MaxChanges
  /\ Inserts(ListOf(f), d)
  /\ Change(f, insert(ListOf(f), d), {})

(* The three remove handlers: NOT_FOUND unless the user layer has the name. *)
RemoveEntry(f, d) ==
  /\ Free(StoreOf(f)) /\ edits < MaxChanges
  /\ d \in ListOf(f).user
  /\ Change(f, remove(ListOf(f), d), {d})

(* write_atomic: the temporary file is complete and synced before the rename
   replaces the old contents. *)
Rename(s) ==
  /\ up /\ saving[s] # NoSave
  /\ files' = [files EXCEPT ![saving[s].file] = saving[s].contents]
  /\ kept' = [kept EXCEPT ![saving[s].file] = saving[s].contents]
  /\ saving' = [saving EXCEPT ![s] = NoSave]
  /\ UNCHANGED <<up, blocklist, rebind, loader, wall, bounds>>

(* Creating, writing or renaming fails: logged, the old file stays. *)
SaveFails(s) ==
  /\ up /\ saving[s] # NoSave
  /\ saving' = [saving EXCEPT ![s] = NoSave]
  /\ UNCHANGED <<up, blocklist, rebind, files, loader, wall, kept, bounds>>

(* blocking_toggle, blocking_pause, blocking_unpause, rebind_toggle *)
Toggle(enabled) ==
  /\ Free("blocking") /\ blocklist.enabled # enabled
  /\ blocklist' = [blocklist EXCEPT !.enabled = enabled]
  /\ UNCHANGED <<up, rebind, files, saving, loader, wall, kept, bounds>>

Pause(t) ==
  /\ Free("blocking")
  /\ blocklist' = [blocklist EXCEPT !.paused_until = wall + t]
  /\ UNCHANGED <<up, rebind, files, saving, loader, wall, kept, bounds>>

Unpause ==
  /\ Free("blocking") /\ blocklist.paused_until # 0
  /\ blocklist' = [blocklist EXCEPT !.paused_until = 0]
  /\ UNCHANGED <<up, rebind, files, saving, loader, wall, kept, bounds>>

RebindToggle(enabled) ==
  /\ Free("rebind") /\ rebind.enabled # enabled
  /\ rebind' = [rebind EXCEPT !.enabled = enabled]
  /\ UNCHANGED <<up, blocklist, files, saving, loader, wall, kept, bounds>>

-----------------------------------------------------------------------------
(* load_blocklists, at start and every refresh_hours. *)
RefreshStart ==
  /\ up /\ loader.at = "idle" /\ refreshes < MaxRefreshes
  /\ refreshes' = refreshes + 1
  /\ loader' = [Idle EXCEPT !.at = "download", !.pending = Sources]
  /\ UNCHANGED <<up, blocklist, rebind, files, saving, wall, kept, restarts, edits>>

(* A body arrives.  fetch_once does not look at the HTTP status: an error
   page is a list too, one whose lines hold no names. *)
Downloaded(s, lines) ==
  /\ up /\ s \in loader.pending
  /\ loader' = [loader EXCEPT !.pending = @ \ {s},
                              !.got = @ \cup {[source |-> s, lines |-> lines]}]
  /\ UNCHANGED <<up, blocklist, rebind, files, saving, wall, kept, bounds>>

(* An attempt fails; after the last one the source is left out (a local
   file is tried once, which is the last attempt here). *)
AttemptFails(s) ==
  /\ up /\ s \in loader.pending
  /\ loader' = IF loader.attempt[s] + 1 < MaxAttempts
               THEN [loader EXCEPT !.attempt[s] = @ + 1]
               ELSE [loader EXCEPT !.pending = @ \ {s}]
  /\ UNCHANGED <<up, blocklist, rebind, files, saving, wall, kept, bounds>>

(* All sources have answered or failed: what there is replaces the old set,
   the empty set included. *)
Swap ==
  /\ Free("blocking") /\ loader.at = "download" /\ loader.pending = {}
  /\ blocklist' = swap_domains(blocklist, parse_blocklist(UNION {g.lines : g \in loader.got}),
                               {g.source : g \in loader.got})
  /\ loader' = Idle
  /\ UNCHANGED <<up, rebind, files, saving, wall, kept, bounds>>

-----------------------------------------------------------------------------
(* The process dies: memory, and a save not yet renamed, are gone. *)
Crash ==
  /\ up /\ restarts < MaxRestarts
  /\ up' = FALSE
  /\ saving' = [s \in DOMAIN saving |-> NoSave]
  /\ loader' = Idle
  /\ UNCHANGED <<blocklist, rebind, files, wall, kept, bounds>>

Restart(c) ==
  /\ ~up
  /\ up' = TRUE /\ restarts' = restarts + 1
  /\ Boot(c)
  /\ UNCHANGED <<files, saving, loader, wall, kept, edits, refreshes>>

Tick ==
  /\ wall < MaxTime /\ wall' = wall + 1
  /\ UNCHANGED <<up, blocklist, rebind, files, saving, loader, kept, bounds>>

ListsNext ==
  \/ \E f \in Files, d \in ListNames : AddEntry(f, d) \/ RemoveEntry(f, d)
  \/ \E s \in DOMAIN saving : Rename(s) \/ SaveFails(s)
  \/ \E e \in BOOLEAN : Toggle(e) \/ RebindToggle(e)
  \/ Pause(1) \/ Unpause \/ RefreshStart \/ Swap \/ Crash \/ Tick
  \/ \E s \in Sources : AttemptFails(s) \/ Downloaded(s, Lines(s)) \/ Downloaded(s, {})
  \/ \E c \in Configs : Restart(c)

ListsSpec == ListsInit /\ [][ListsNext]_blockVars

(* A download attempt ends by its timeout of 30 s, its retry follows, and a
   save that holds the lock ends. *)
ListsFairness ==
  /\ WF_blockVars(\E s \in Sources : AttemptFails(s) \/ Downloaded(s, Lines(s)) \/ Downloaded(s, {}))
  /\ WF_blockVars(Swap)
  /\ WF_blockVars(\E s \in DOMAIN saving : Rename(s) \/ SaveFails(s))

-----------------------------------------------------------------------------
(* The two implementations of the block decision agree for every name at
   every moment (src/src/blocklist.rs, is_blocked and check): what the API
   reports is what queries get. *)
CheckMatchesBlocking ==
  \A d \in ListNames \cup UNION {UNION {l.names : l \in Lines(s)} : s \in Sources} :
    is_blocked(blocklist, d, wall) = check(blocklist, d, wall).blocked

(* Whatever crashes and failed saves come between, an entry that a handler
   saved and nobody removed is still in force, as the user's or as the
   configuration's (src/src/domain_list.rs, src/src/persist.rs). *)
SavedEntriesSurvive == up => \A f \in Files : kept[f] \subseteq entries(ListOf(f))

(* The two layers of a list stay disjoint, as its length assumes
   (src/src/domain_list.rs, len), through restarts with other settings. *)
LayersDisjoint == \A f \in Files : ListOf(f).config \cap ListOf(f).user = {}

(* Whatever crashes and failed saves come between, an entry that a handler
   saved and nobody removed is still in force, the user's and the
   configuration's layers stay disjoint through restarts with other settings,
   and the API's verdict on a name is the one queries get
   (src/src/domain_list.rs, src/src/persist.rs, src/src/blocklist.rs). *)
ListsHold == SavedEntriesSurvive /\ LayersDisjoint /\ CheckMatchesBlocking

(* Every refresh comes to its end, however many sources fail
   (src/src/blocklist.rs, fetch_with_retry_delays), unless the process dies. *)
RefreshEnds == loader.at = "download" ~> loader.at = "idle"
=============================================================================
