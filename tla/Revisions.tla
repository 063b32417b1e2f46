------------------------------ MODULE Revisions ------------------------------
(***************************************************************************)
(* Source revisions under .kive/source-revisions, the history that refers  *)
(* to them, and how `kive gc` prunes both.  The files change before the    *)
(* transaction with the deploy history commits, and gc can be killed in    *)
(* between.  The server that pushes revisions and promotes them to other   *)
(* buckets is not part of this repository; Push, Promote and the markers   *)
(* it keeps follow from the functions it has here.                         *)
(***************************************************************************)
EXTENDS Integers, Sequences, FiniteSets

CONSTANTS
  Hashes,            \* push hashes
  Consumers,         \* buckets that take revisions from this one
  RevisionRetention, \* newest revisions and history rows that pin (50)
  HistoryRetention,  \* rows and entries without a revision that stay (50)
  MarkerRetention,   \* entries of a marker file (50)
  Failures,          \* why a deploy may fail: "error", "cancelled"
  MaxEvents          \* bound: pushes, deploys, promotions, marker changes, gc runs

VARIABLES
  current, lastSuccessful,  \* state.json
  revisions,                \* its entries, oldest first
  artifacts,                \* revisions whose directory holds a bundle or a tree
  history,                  \* deploy_history, oldest first
  promotion,                \* promotion-state.json: last revision and entries, newest first
  markers,                  \* markers/<consumer>.json
  gc,                       \* the running gc
  cut,                      \* ghost: entries whose directory a gc removed before it was cut short
  undeleted,                \* directories whose removal failed in the last gc
  events

revVars == <<current, lastSuccessful, revisions, artifacts, history, promotion, markers, gc,
             cut, undeleted, events>>

None == "none"

ASSUME RevisionAssumption == None \notin Hashes /\ RevisionRetention \in Nat

NoMarker == [selection |-> None, entries |-> <<>>]

NoGc == [pc |-> "idle", keep |-> {}, todo |-> {}, rows |-> <<>>]

RevInit ==
  /\ current = None /\ lastSuccessful = None /\ revisions = <<>>
  /\ artifacts = {} /\ history = <<>>
  /\ promotion = [last |-> None, entries |-> <<>>]
  /\ markers = [c \in Consumers |-> NoMarker]
  /\ gc = NoGc /\ cut = {} /\ undeleted = {} /\ events = 0

(* Hashes of a sequence of hashes, without the empty ones. *)
Named(s) == {s[i] : i \in DOMAIN s} \ {None}

Newest(s, n) == IF Len(s) <= n THEN s ELSE SubSeq(s, Len(s) - n + 1, Len(s))

First(s, n) == IF Len(s) <= n THEN s ELSE SubSeq(s, 1, n)

Event == gc.pc \in {"idle", "stopped"} /\ events < MaxEvents /\ events' = events + 1

-----------------------------------------------------------------------------
(* A push stores the artifact and makes it current; a good build makes it   *)
(* the last successful one.  A revision may be pushed again.                *)
Push(h, ok) ==
  /\ Event
  /\ artifacts' = artifacts \cup {h}
  /\ current' = h
  /\ lastSuccessful' = IF ok THEN h ELSE lastSuccessful
  /\ revisions' = Append(revisions, h)
  /\ UNCHANGED <<history, promotion, markers, gc, cut, undeleted>>

(* The row a deploy writes: a job without an outcome counts as aborted, a   *)
(* run in which every job was skipped changed nothing.                      *)
InsertDeployHistory(status, outcomes) ==
  history' = Append(history, [rev |-> current, status |-> status,
                              changed |-> \E o \in outcomes : o # "skipped"])

(* A deploy ends without failures only when every job was deployed or       *)
(* skipped; a failed one may have done all jobs (a hook failed after them). *)
WriteDeployHistory(failures, outcomes) ==
  /\ Event
  /\ failures = {} => outcomes \subseteq {"deployed", "skipped"}
  /\ InsertDeployHistory(IF "cancelled" \in failures THEN "cancelled"
                         ELSE IF failures # {} THEN "failed" ELSE "succeeded", outcomes)
  /\ UNCHANGED <<current, lastSuccessful, revisions, artifacts, promotion, markers, gc,
                 cut, undeleted>>

(* Rows the next bucket may take: succeeded, changed, of a known revision. *)
Promotable(rows) ==
  {rows[i].rev : i \in {k \in DOMAIN rows : rows[k].status = "succeeded" /\ rows[k].changed}}
    \ {None}

(* A consumer takes a promotable revision whose artifact is still there. *)
AppendMarkerEntry(c, h, selection) ==
  /\ Event
  /\ h \in Promotable(history) \cap artifacts
  /\ markers' = [markers EXCEPT ![c] =
       [selection |-> selection,
        entries |-> First(<<h>> \o markers[c].entries, MarkerRetention)]]
  /\ UNCHANGED <<current, lastSuccessful, revisions, artifacts, history, promotion, gc,
                 cut, undeleted>>

DeleteMarker(c) ==
  /\ Event
  /\ markers[c] # NoMarker
  /\ markers' = [markers EXCEPT ![c] = NoMarker]
  /\ UNCHANGED <<current, lastSuccessful, revisions, artifacts, history, promotion, gc,
                 cut, undeleted>>

(* This bucket takes revision h from another one: h is pushed here and an   *)
(* attempt is noted; only a success moves the last revision.                *)
Promote(h, ok) ==
  /\ Event
  /\ artifacts' = artifacts \cup {h}
  /\ revisions' = Append(revisions, h)
  /\ current' = IF ok THEN h ELSE current
  /\ lastSuccessful' = IF ok THEN h ELSE lastSuccessful
  /\ promotion' = [last |-> IF ok THEN h ELSE promotion.last,
                   entries |-> <<h>> \o promotion.entries]
  /\ UNCHANGED <<history, markers, gc, cut, undeleted>>

-----------------------------------------------------------------------------
(* What gc keeps. *)

MarkerSourceRevisions == UNION {Named(markers[c].entries) : c \in Consumers}

HasAnyMarkers == \E c \in Consumers : markers[c] # NoMarker

HasFifoMarker == \E c \in Consumers : markers[c].selection = "fifo"

PromotionHistoryPins == Named(<<promotion.last>> \o First(promotion.entries, RevisionRetention))

DeployHistoryPins ==
  LET rows == Newest(history, RevisionRetention) IN Named([i \in DOMAIN rows |-> rows[i].rev])

(* Mutant: fifo consumers are not asked. *)
CollectPinsWithoutFifo == PromotionHistoryPins \cup DeployHistoryPins \cup MarkerSourceRevisions

CollectSourceRevisionHistoryPins ==
  PromotionHistoryPins \cup DeployHistoryPins \cup MarkerSourceRevisions
    \cup (IF HasFifoMarker THEN Promotable(history) ELSE {})

(* The newest distinct revisions: entries that are pushed again count once. *)
NewestRevisionHashes(n) ==
  LET lastAt(h) == CHOOSE i \in DOMAIN revisions :
                     revisions[i] = h /\ \A k \in DOMAIN revisions : revisions[k] = h => k <= i
      listed == Named(revisions)
  IN  {h \in listed : Cardinality({g \in listed : lastAt(g) > lastAt(h)}) < n}

(* The server adds what other buckets' promotion history names. *)
Keep(peerPins) ==
  ({current, lastSuccessful} \ {None}) \cup peerPins \cup CollectSourceRevisionHistoryPins
    \cup (IF HasAnyMarkers THEN {} ELSE NewestRevisionHashes(RevisionRetention))

-----------------------------------------------------------------------------

BeginGc(peerPins) ==
  /\ Event
  /\ gc' = [pc |-> "remove", keep |-> Keep(peerPins),
            todo |-> (Named(revisions) \cup artifacts) \ Keep(peerPins), rows |-> history]
  /\ undeleted' = {}
  /\ UNCHANGED <<current, lastSuccessful, revisions, artifacts, history, promotion, markers,
                 cut>>

(* os.RemoveAll of a directory gc does not keep; its error is ignored. *)
RemoveAll(h) ==
  /\ gc.pc = "remove" /\ h \in gc.todo
  /\ gc' = [gc EXCEPT !.todo = @ \ {h}]
  /\ \/ artifacts' = artifacts \ {h} /\ UNCHANGED undeleted
     \/ h \in artifacts /\ undeleted' = undeleted \cup {h} /\ UNCHANGED artifacts
  /\ UNCHANGED <<current, lastSuccessful, revisions, history, promotion, markers, cut,
                 events>>

(* The elements of s at the places I, in order. *)
Select(s, I) ==
  [i \in 1..Cardinality(I) |-> s[CHOOSE x \in I : Cardinality({y \in I : y < x}) = i - 1]]

(* The first entry of every revision that stays. *)
Trimmed(s, keep) ==
  Select(s, {i \in DOMAIN s : s[i] \in keep /\ \A k \in 1..(i - 1) : s[k] # s[i]})

SaveState ==
  /\ gc.pc = "remove" /\ gc.todo = {}
  /\ revisions' = Trimmed(revisions, gc.keep)
  /\ gc' = [gc EXCEPT !.pc = "history"]
  /\ UNCHANGED <<current, lastSuccessful, artifacts, history, promotion, markers,
                 cut, undeleted, events>>

(* Rows of revisions that are gone, and all but the newest of the rows      *)
(* without a revision, are dropped.                                         *)
KeptRows(rows, kept) ==
  {i \in DOMAIN rows :
     \/ rows[i].rev \in kept
     \/ /\ rows[i].rev = None
        /\ Cardinality({k \in DOMAIN rows : k > i /\ rows[k].rev = None}) < HistoryRetention}

RetainedHashes == Named(revisions)

PruneDeployHistoryKeepingRevisions ==
  /\ gc.pc = "history"
  /\ gc' = [gc EXCEPT !.pc = "promotion",
                      !.rows = Select(@, KeptRows(@, RetainedHashes))]
  /\ UNCHANGED <<current, lastSuccessful, revisions, artifacts, history, promotion, markers,
                 cut, undeleted, events>>

TrimPromotionHistoryKeepingRevisions(entries, last, kept) ==
  Select(entries, {i \in DOMAIN entries : entries[i] \in kept \cup {last}})

(* promotion-state.json is replaced before the transaction commits. *)
PrunePromotionStateKeepingRevisions ==
  /\ gc.pc = "promotion"
  /\ promotion' = [promotion EXCEPT !.entries =
       TrimPromotionHistoryKeepingRevisions(@, promotion.last, RetainedHashes)]
  /\ gc' = [gc EXCEPT !.pc = "commit"]
  /\ UNCHANGED <<current, lastSuccessful, revisions, artifacts, history, markers,
                 cut, undeleted, events>>

CommitGc ==
  /\ gc.pc = "commit"
  /\ history' = gc.rows
  /\ gc' = NoGc
  /\ UNCHANGED <<current, lastSuccessful, revisions, artifacts, promotion, markers,
                 cut, undeleted, events>>

(* Killed, cancelled or failed: the files stay as they are, the rows are    *)
(* rolled back.                                                             *)
GcStops ==
  /\ gc.pc \notin {"idle", "stopped"}
  /\ cut' = cut \cup (Named(revisions) \ artifacts)
  /\ gc' = [NoGc EXCEPT !.pc = "stopped"]
  /\ UNCHANGED <<current, lastSuccessful, revisions, artifacts, history, promotion, markers,
                 undeleted, events>>

-----------------------------------------------------------------------------
RevNext ==
  \/ \E h \in Hashes, ok \in BOOLEAN : Push(h, ok) \/ Promote(h, ok)
  \/ \E failures \in SUBSET Failures,
        outcomes \in SUBSET {"deployed", "skipped", "failed", "aborted"} :
       WriteDeployHistory(failures, outcomes)
  \/ \E c \in Consumers, h \in Hashes, s \in {"fifo", "latest"} : AppendMarkerEntry(c, h, s)
  \/ \E c \in Consumers : DeleteMarker(c)
  \/ \E peerPins \in {{}} \cup {{h} : h \in Hashes} : BeginGc(peerPins)
  \/ \E h \in Hashes : RemoveAll(h)
  \/ SaveState
  \/ PruneDeployHistoryKeepingRevisions
  \/ PrunePromotionStateKeepingRevisions
  \/ CommitGc
  \/ GcStops

RevSpec == RevInit /\ [][RevNext]_revVars

-----------------------------------------------------------------------------
(* Properties. *)

(* gc never takes the artifact of a revision that is current, was the last  *)
(* good build, was handed to a consumer, is the one this bucket was         *)
(* promoted to, or waits for a fifo consumer - at whatever point it is      *)
(* killed and whatever an earlier gc left behind.                           *)
NeededStays ==
  \A h \in artifacts \ artifacts' :
    /\ h \notin {current, lastSuccessful, promotion.last}
    /\ h \notin MarkerSourceRevisions
    /\ HasFifoMarker => h \notin Promotable(history)

(* After a gc that ran to its end, every deploy row and every promotion     *)
(* entry that names a revision names one that is still listed, or the one   *)
(* this bucket stands at.                                                   *)
HistoryNamesRetained ==
  gc.pc = "commit" /\ gc'.pc = "idle" =>
    /\ \A i \in DOMAIN history' : history'[i].rev \in Named(revisions) \cup {None}
    /\ Named(promotion.entries) \subseteq Named(revisions) \cup {promotion.last}

(* A listed revision has its artifact, so a rollback to it can work, unless *)
(* a gc was cut short between removing the directory and saving state.json. *)
(* (That entry can stay for good: when the last marker is deleted before    *)
(* the next gc, the newest revisions are kept again, with or without their  *)
(* directory.)                                                              *)
ListedIsPresent == gc.pc \in {"idle", "stopped"} => Named(revisions) \ artifacts \subseteq cut

(* A complete gc makes up for one that was cut short: what is on disk and   *)
(* not kept is gone, except where the removal itself failed.                *)
NoOrphansAfterGc ==
  gc.pc = "commit" /\ gc'.pc = "idle" => artifacts \subseteq gc.keep \cup undeleted

(* gc takes the artifact of no revision that is current, last good, promoted *)
(* or wanted by a consumer; a complete one leaves deploy rows and promotion  *)
(* entries naming listed revisions and removes what an interrupted one left  *)
(* behind; a listed revision has its artifact unless a gc was cut short.     *)
GcKeepsWhatIsNamed ==
  [][ListedIsPresent' /\ NeededStays /\ HistoryNamesRetained /\ NoOrphansAfterGc]_revVars
=============================================================================
