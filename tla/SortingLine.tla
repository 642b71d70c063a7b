----------------------------- MODULE SortingLine -----------------------------
(***************************************************************************)
(* services/api/sorting_line.py: files dropped into inbox/ become points   *)
(* of a bin's provisional collection (process_inbox, ingest_path,          *)
(* ingest_text) and later of its mature collection (promote).              *)
(*                                                                         *)
(* process_inbox and promote run inline on the API's event loop, so they   *)
(* never overlap; what interleaves with them are the user who copies files *)
(* into the inbox and the death of the API between any two of their        *)
(* effects on disk.  The vector store swallows the failure of an add or a  *)
(* delete (ragstore.py).  One bin: bins do not share collections.          *)
(***************************************************************************)
EXTENDS Integers, FiniteSets, FiniteSetsExt

CONSTANTS
    NFiles,         \* files, numbered in the order sorted(iterdir()) has them
    Unreadable,     \* files read_document or ingest_text refuse even complete
    MaxFaults       \* bound on deaths of the API and on failing calls

File == 1 .. NFiles

ASSUME SortingAssumption ==
    /\ NFiles \in Nat /\ MaxFaults \in Nat
    /\ Unreadable \subseteq File

VARIABLES
    place,      \* where each file is: absent, inbox, processed, failed
    whole,      \* the files whose copying has ended
    mode,       \* what the event loop runs: none, ingest, move, promote
    todo,       \* process_inbox: the listed files not yet handled
    ok,         \* process_inbox: res["ok"] of the file at hand
    prov,       \* the provisional collection
    mature,     \* the mature collection
    promo,      \* promote: exported points not yet added to mature
    promoted,   \* promote: promoted_ids
    faults,
    swallowed   \* files of which the store silently lost an add (history)

vars == <<place, whole, mode, todo, ok, prov, mature, promo, promoted,
          faults, swallowed>>
inboxVars == <<todo, ok>>
promoVars == <<promo, promoted>>
storeVars == <<prov, mature, swallowed>>

Point == [id : Nat, file : File, whole : BOOLEAN]

Fault == faults < MaxFaults /\ faults' = faults + 1

-----------------------------------------------------------------------------
(* The user *)

\* A copy into the inbox begins: the file is there before it is complete.
Drop(f) ==
    /\ place[f] = "absent"
    /\ place' = [place EXCEPT ![f] = "inbox"]
    /\ UNCHANGED <<whole, mode, inboxVars, promoVars, storeVars, faults>>

\* The copy ends, wherever the file has been moved in the meantime.
FinishCopy(f) ==
    /\ place[f] # "absent" /\ f \notin whole
    /\ whole' = whole \cup {f}
    /\ UNCHANGED <<place, mode, inboxVars, promoVars, storeVars, faults>>

-----------------------------------------------------------------------------
(* process_inbox, from the watcher or from POST /memory/ingest_inbox *)

StartPass ==
    /\ mode = "none"
    /\ {f \in File : place[f] = "inbox"} # {}
    /\ todo' = {f \in File : place[f] = "inbox"}
    /\ mode' = "ingest"
    /\ UNCHANGED <<place, whole, ok, promoVars, storeVars, faults>>

\* uuid4().hex: an id no point in the store has.
FreshId ==
    LET used == {pt.id : pt \in prov \cup mature}
    IN  Min((0 .. Cardinality(used)) \ used)

\* store.add: the point is there, or its loss is not reported.
Add(coll, f, isWhole) ==
    \/ /\ coll' = coll \cup {[id |-> FreshId, file |-> f, whole |-> isWhole]}
       /\ UNCHANGED <<faults, swallowed>>
    \/ /\ Fault
       /\ swallowed' = swallowed \cup {f}
       /\ UNCHANGED coll

\* ingest_path of the next file as it is now: refused, as a file still being
\* copied may also be (empty, or not yet a document its reader can parse), or
\* read, embedded and added to the provisional collection.
IngestFile ==
    /\ mode = "ingest" /\ todo # {}
    /\ LET f == Min(todo)
       IN  \/ /\ f \in Unreadable \/ f \notin whole
              /\ ok' = FALSE /\ UNCHANGED <<prov, faults, swallowed>>
           \/ f \notin Unreadable /\ ok' = TRUE /\ Add(prov, f, f \in whole)
    /\ mode' = "move"
    /\ UNCHANGED <<place, whole, todo, mature, promoVars>>

\* Mutant of EmbedRaises: the pass goes on as if it were still running.
EmbedRaisesKeepsList ==
    /\ mode = "ingest" /\ todo # {} /\ Min(todo) \notin Unreadable
    /\ Fault
    /\ mode' = "none"
    /\ UNCHANGED <<place, whole, todo, ok, promoVars, storeVars>>

\* embed(text) raises out of ingest_text: the pass is over, the watcher
\* swallows the exception and the files stay for the next poll.
EmbedRaises ==
    /\ mode = "ingest" /\ todo # {} /\ Min(todo) \notin Unreadable
    /\ Fault
    /\ mode' = "none" /\ todo' = {}
    /\ UNCHANGED <<place, whole, ok, promoVars, storeVars>>

\* Mutant of MoveFile: a file that was refused stays in the inbox.
MoveFileIfOk ==
    /\ mode = "move"
    /\ place' = IF ok THEN [place EXCEPT ![Min(todo)] = "processed"] ELSE place
    /\ todo' = todo \ {Min(todo)}
    /\ mode' = IF todo' = {} THEN "none" ELSE "ingest"
    /\ UNCHANGED <<whole, ok, promoVars, storeVars, faults>>

\* The file goes to processed/ or failed/ under a name that is free; a failed
\* rename leaves it in the inbox and the pass goes on.
MoveFile ==
    /\ mode = "move"
    /\ \/ /\ place' = [place EXCEPT ![Min(todo)] = IF ok THEN "processed" ELSE "failed"]
          /\ UNCHANGED faults
       \/ Fault /\ UNCHANGED place
    /\ todo' = todo \ {Min(todo)}
    /\ mode' = IF todo' = {} THEN "none" ELSE "ingest"
    /\ UNCHANGED <<whole, ok, promoVars, storeVars>>

-----------------------------------------------------------------------------
(* promote *)

\* Which exported points are old enough depends on the clock.
StartPromote ==
    /\ mode = "none"
    /\ \E S \in SUBSET prov \ {{}} : promo' = S
    /\ promoted' = {}
    /\ mode' = "promote"
    /\ UNCHANGED <<place, whole, inboxVars, storeVars, faults>>

PromotePoint ==
    /\ mode = "promote" /\ promo # {}
    /\ \E pt \in promo :
          /\ Add(mature, pt.file, pt.whole)
          /\ promo' = promo \ {pt}
          /\ promoted' = promoted \cup {pt}
    /\ UNCHANGED <<place, whole, mode, inboxVars, prov>>

\* Mutant of DeletePromoted: the provisional collection is emptied.
DeleteAllProvisional ==
    /\ mode = "promote" /\ promo = {}
    /\ prov' = {}
    /\ mode' = "none" /\ promoted' = {}
    /\ UNCHANGED <<place, whole, inboxVars, promo, mature, swallowed, faults>>

\* Mutant of DeletePromoted: nothing is deleted.
DeleteNothing ==
    /\ mode = "promote" /\ promo = {}
    /\ mode' = "none" /\ promoted' = {}
    /\ UNCHANGED <<place, whole, inboxVars, promo, storeVars, faults>>

\* Every point that was tried is deleted from provisional, in one call whose
\* failure is not reported.
DeletePromoted ==
    /\ mode = "promote" /\ promo = {}
    /\ \/ prov' = prov \ promoted /\ UNCHANGED faults
       \/ Fault /\ UNCHANGED prov
    /\ mode' = "none" /\ promoted' = {}
    /\ UNCHANGED <<place, whole, inboxVars, promo, mature, swallowed>>

\* The API dies and is started again; files and collections are on disk.
Crash ==
    /\ mode # "none"
    /\ Fault
    /\ mode' = "none" /\ todo' = {} /\ promo' = {} /\ promoted' = {}
    /\ UNCHANGED <<place, whole, ok, storeVars>>

-----------------------------------------------------------------------------
Init ==
    /\ place = [f \in File |-> "absent"] /\ whole = {}
    /\ mode = "none" /\ todo = {} /\ ok = FALSE
    /\ prov = {} /\ mature = {} /\ promo = {} /\ promoted = {}
    /\ faults = 0 /\ swallowed = {}

Pass == StartPass \/ IngestFile \/ EmbedRaises \/ MoveFile
Promotion == PromotePoint \/ DeletePromoted

Next ==
    \/ Pass \/ StartPromote \/ Promotion \/ Crash
    \/ \E f \in File : Drop(f) \/ FinishCopy(f)

Spec == Init /\ [][Next]_vars

\* The watcher polls for ever and a running call goes on; nobody has to call
\* promote.  Strong fairness for the start of a pass: promotions may keep the
\* loop busy at any single moment, but the watcher's timer does fire.
FairSpec ==
    Spec /\ WF_vars(IngestFile \/ EmbedRaises \/ MoveFile) /\ WF_vars(Promotion)
         /\ SF_vars(StartPass)

-----------------------------------------------------------------------------
(* Properties *)

\* Type invariant; when the event loop is free no call has anything left to do.
TypeOK ==
    /\ place \in [File -> {"absent", "inbox", "processed", "failed"}]
    /\ whole \subseteq File
    /\ mode \in {"none", "ingest", "move", "promote"}
    /\ todo \subseteq File /\ ok \in BOOLEAN
    /\ prov \subseteq Point /\ mature \subseteq Point
    /\ promo \subseteq prov /\ promoted \subseteq prov
    /\ faults \in 0 .. MaxFaults
    /\ swallowed \subseteq File
    /\ mode = "none" => todo = {} /\ promo = {} /\ promoted = {}

Stored(f) == \E pt \in prov \cup mature : pt.file = f

\* A document is lost only where the store swallowed an add: deaths between
\* ingest and move or in the middle of a promotion, failed renames, failed
\* deletes and aborted passes never leave a processed file without a point.
OnlySwallowedLost ==
    \A f \in File : place[f] = "processed" => Stored(f) \/ f \in swallowed

\* Without any failure a file is in memory at most once (while promote runs,
\* the points about to be deleted do not count).
OneCopy ==
    faults = 0 =>
        \A f \in File :
            Cardinality({pt \in (prov \ promoted) \cup mature : pt.file = f}) <= 1

\* Every file leaves the inbox: a refused file does not stay, and neither
\* failed calls nor a restart make process_inbox forget a file.
InboxDrains == \A f \in File : place[f] = "inbox" ~> place[f] # "inbox"

\* sorting_line.py:3: "A file dropped in inbox/ is READ (multi-format),
\* CLASSIFIED ... and ROUTED": what is stored is the file, not the part of it
\* that had been copied when the watcher polled.
StoredWhole ==
    \A f \in File : place[f] = "processed" /\ f \in whole
        => \E pt \in prov \cup mature : pt.file = f /\ pt.whole
=============================================================================
