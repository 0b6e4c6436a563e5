------------------------------ MODULE VaultCtl ------------------------------
(***************************************************************************)
(* The commands of cmd/vaultctl that change the vault: purge-student and   *)
(* upload.  Every request to the store is a step.                          *)
(***************************************************************************)
EXTENDS Shelf, Sequences

CONSTANTS Account,   \* the student purge-student removes
          Manifest,  \* the rows of upload: id, metadata hints, local file
          Size,      \* the size of each byte string
          Demos,     \* those that decompress into a demo
          Conc,      \* upload --concurrency
          MaxPurges  \* bound on the runs of purge-student

ASSUME CtlAssumption ==
  /\ Account \in Accounts
  /\ Manifest \in Seq([id : Ids, want : Meta, body : Bodies \cup {None}])
  /\ Size \in [Bodies -> Nat] /\ Demos \subseteq Bodies /\ Conc \in Nat \ {0} /\ MaxPurges \in Nat

VARIABLES purge, upload

ctl == <<purge, upload>>

NoPurge == [pc |-> "idle", apply |-> FALSE, heads |-> {}, seen |-> <<>>, todo |-> {}, at |-> 0, base |-> None,
            runs |-> 0]

(***************************************************************************)
(* purge-student                                                           *)
(***************************************************************************)
PurgeStart(apply) ==
  /\ purge.pc = "idle" /\ purge.runs < MaxPurges
  /\ purge' = [NoPurge EXCEPT !.pc = "heads", !.runs = purge.runs + 1,
                              !.apply = apply, !.heads = {id \in Ids : Has(id)}]
  /\ UNCHANGED <<vault, upload>>

PurgeHead(id) ==
  /\ purge.pc = "heads" /\ id \in purge.heads
  /\ purge' = [purge EXCEPT !.heads = @ \ {id}, !.seen = Saw(@, id)]
  /\ UNCHANGED <<vault, upload>>

\* The student's games; a dry run ends with the list.
PurgeListed ==
  /\ purge.pc = "heads" /\ purge.heads = {}
  /\ purge' = [purge EXCEPT !.pc = "loop", !.todo = IF ~purge.apply THEN {} ELSE {id \in DOMAIN purge.seen : /\ purge.seen[id].kind = "student"
                                                                 /\ Account \in purge.seen[id].accounts}]
  /\ UNCHANGED <<vault, upload>>

\* Nobody else wants the game, as listed
Orphan(m) == m.accounts = {Account} /\ m.also = {}

\* Look again right before the delete: a claim added since the listing keeps it.
PurgeLookAgain ==
  /\ purge.pc = "loop" /\ purge.todo # {}
  /\ LET id == Least(purge.todo)
         goes == Has(id) /\ PurgeLook(Account, vault[id].meta)
     IN  /\ Orphan(purge.seen[id])
         /\ purge' = [purge EXCEPT !.todo = @ \ {id}, !.pc = IF goes THEN "delete" ELSE "loop",
                                   !.at = IF goes THEN id ELSE 0,
                                   !.base = IF goes THEN vault[id].meta ELSE None]
  /\ UNCHANGED <<vault, upload>>

PurgeDelete ==
  /\ purge.pc = "delete"
  /\ vault' = Removed(purge.at)
  /\ purge' = [purge EXCEPT !.pc = "loop", !.at = 0, !.base = None]
  /\ UNCHANGED upload

\* Mutant of PurgeDetach: the rewrite starts from the listed metadata.
PurgeDetach_Listed ==
  /\ purge.pc = "loop" /\ purge.todo # {}
  /\ LET id == Least(purge.todo)
     IN  /\ ~Orphan(purge.seen[id]) /\ Has(id)
         /\ vault' = [vault EXCEPT ![id].meta = Stored(Detach(purge.seen[id], Account))]
         /\ purge' = [purge EXCEPT !.todo = @ \ {id}]
  /\ UNCHANGED upload

\* Conditional on the ETag, so another student's claim added meanwhile survives.
PurgeDetach ==
  /\ purge.pc = "loop" /\ purge.todo # {}
  /\ LET id == Least(purge.todo)
     IN  /\ ~Orphan(purge.seen[id]) /\ Has(id)
         /\ vault' = [vault EXCEPT ![id].meta = Stored(Detach(@, Account))]
         /\ purge' = [purge EXCEPT !.todo = @ \ {id}]
  /\ UNCHANGED upload

\* Done, or an error ends the command where it is.
PurgeEnd ==
  /\ purge.pc # "idle"
  /\ purge' = [NoPurge EXCEPT !.runs = purge.runs]
  /\ UNCHANGED <<vault, upload>>

(***************************************************************************)
(* upload: a goroutine per row of the manifest, Conc of them at a time     *)
(***************************************************************************)
Rows == DOMAIN Manifest

Waiting == [pc |-> "waiting", base |-> None, result |-> None]

Running == {r \in Rows : upload[r].pc \notin {"waiting", "over"}}

\* Mutant of UploadStart: the semaphore has one slot more.
UploadStart_OneMore(r) ==
  /\ upload[r].pc = "waiting" /\ \A q \in Rows : q < r => upload[q].pc # "waiting"
  /\ Cardinality(Running) <= Conc
  /\ upload' = [upload EXCEPT ![r].pc = "find"]
  /\ UNCHANGED <<vault, purge>>

UploadStart(r) ==
  /\ upload[r].pc = "waiting" /\ \A q \in Rows : q < r => upload[q].pc # "waiting"
  /\ Cardinality(Running) < Conc
  /\ upload' = [upload EXCEPT ![r].pc = "find"]
  /\ UNCHANGED <<vault, purge>>

Over(r, result)  == upload' = [upload EXCEPT ![r].pc = "over", ![r].result = result]
Step(r, pc)      == upload' = [upload EXCEPT ![r].pc = pc]

\* What the upload offers: the row's hints with the hash of the file
Offer(r) == [Manifest[r].want EXCEPT !.stamp = Manifest[r].body, !.sha = Manifest[r].body]

\* Mutant of UploadFind: any file is stored, demo or not.
UploadFind_NoVerify(r) ==
  LET row == Manifest[r]
      m   == vault[row.id].meta
  IN  /\ upload[r].pc = "find"
      /\ IF row.body = None THEN Over(r, "missing")
         ELSE IF Has(row.id) /\ ~m.corrupt
              THEN IF m.sha \notin {None, row.body} THEN Over(r, "conflict") ELSE Step(r, "merge")
              ELSE Step(r, "put")
      /\ UNCHANGED <<vault, purge>>

\* The file is hashed and compared with what is stored; with nothing stored, or
\* corrupt bytes, it is verified.
UploadFind(r) ==
  LET row == Manifest[r]
      m   == vault[row.id].meta
  IN  /\ upload[r].pc = "find"
      /\ IF row.body = None THEN Over(r, "missing")
         ELSE IF Has(row.id) /\ ~m.corrupt
              THEN IF m.sha \notin {None, row.body} THEN Over(r, "conflict") ELSE Step(r, "merge")
              ELSE IF row.body \in Demos THEN Step(r, "put") ELSE Over(r, "invalid")
      /\ UNCHANGED <<vault, purge>>

UploadMerge(r) ==
  /\ upload[r].pc = "merge" /\ Has(Manifest[r].id)
  /\ vault' = UpdateMeta(Manifest[r].id, Offer(r))
  /\ Over(r, "present")
  /\ UNCHANGED purge

\* PutNew: the conditional put, and when the key was taken meanwhile a look
\* that finds corrupt bytes to replace, or metadata to merge into.
UploadPut(r) ==
  LET id == Manifest[r].id
  IN  /\ upload[r].pc = "put"
      /\ IF Has(id) THEN vault' = vault /\ Step(r, "taken")
         ELSE vault' = [vault EXCEPT ![id] = NewObject(Manifest[r].body, Offer(r))] /\ Step(r, "check")
      /\ UNCHANGED purge

UploadTaken(r) ==
  LET id == Manifest[r].id
  IN  /\ upload[r].pc = "taken" /\ Has(id)
      /\ upload' = [upload EXCEPT ![r].pc = IF vault[id].meta.corrupt THEN "replace" ELSE "join",
                                  ![r].base = IF vault[id].meta.corrupt THEN vault[id].meta ELSE None]
      /\ UNCHANGED <<vault, purge>>

UploadReplace(r) ==
  /\ upload[r].pc = "replace"
  /\ vault' = [vault EXCEPT ![Manifest[r].id] =
                 NewObject(Manifest[r].body, Merge(CarryOver(upload[r].base), Offer(r)))]
  /\ Step(r, "check")
  /\ UNCHANGED purge

UploadJoin(r) ==
  /\ upload[r].pc = "join" /\ Has(Manifest[r].id)
  /\ vault' = UpdateMeta(Manifest[r].id, Offer(r))
  /\ Step(r, "check")
  /\ UNCHANGED purge

UploadCheck(r) ==
  LET id == Manifest[r].id
  IN  /\ upload[r].pc = "check"
      /\ Over(r, IF Has(id) /\ Size[vault[id].body] = Size[Manifest[r].body] THEN "uploaded" ELSE "failed")
      /\ UNCHANGED <<vault, purge>>

\* A request failed, or the replay is gone where it was to be changed.
UploadFails(r) ==
  /\ r \in Running
  /\ Over(r, "failed")
  /\ UNCHANGED <<vault, purge>>

CtlNext ==
  \/ \E apply \in BOOLEAN : PurgeStart(apply)
  \/ \E id \in Ids : PurgeHead(id)
  \/ PurgeListed \/ PurgeLookAgain \/ PurgeDelete \/ PurgeDetach \/ PurgeEnd
  \/ \E r \in Rows : \/ UploadStart(r) \/ UploadFind(r) \/ UploadMerge(r) \/ UploadPut(r)
                     \/ UploadTaken(r) \/ UploadReplace(r) \/ UploadJoin(r) \/ UploadCheck(r)
                     \/ UploadFails(r)
=============================================================================
