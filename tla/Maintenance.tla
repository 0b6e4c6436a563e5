---------------------------- MODULE Maintenance -----------------------------
(***************************************************************************)
(* Retention, purge-student and upload working on the same vault while     *)
(* requests go on.                                                         *)
(***************************************************************************)
EXTENDS Retention, VaultCtl

\* What the others are relied on for: what the vault holds and what servers and
\* the manifest bring is a demo where it was verified (ParseServer), and a patch
\* that a request, a backfill or the manifest names is the one the game was played on.
ASSUME CallersAssumption ==
  /\ \A v \in Shelves, id \in Ids : v[id] # None =>
       v[id].body \in Demos /\ v[id].meta.patch \in {0, TruePatch(id)}
  /\ \A o \in Ops : o.type = "put" => o.want.stamp \in Demos
  /\ \A r \in Rows : Manifest[r].want.patch \in {0, TruePatch(Manifest[r].id)}

vars == <<shelf, sweep, ctl>>

Init ==
  /\ vault \in Shelves
  /\ calls = 0
  /\ sweep = Idle
  /\ purge = NoPurge
  /\ upload = [r \in Rows |-> Waiting]

Next ==
  \/ \E id \in Ids, o \in Ops : Request(id, o) /\ UNCHANGED <<sweep, ctl>>
  \/ RetentionNext /\ UNCHANGED <<calls, ctl>>
  \/ CtlNext /\ UNCHANGED <<calls, sweep>>

Spec == Init /\ [][Next]_vars

-----------------------------------------------------------------------------
TypeOK ==
  /\ vault \in [Ids -> {None} \cup Content]
  /\ calls \in 0..MaxCalls
  /\ sweep.pool \subseteq DOMAIN sweep.seen /\ DOMAIN sweep.old \subseteq sweep.pool
  /\ sweep.todo \subseteq DOMAIN sweep.old
  /\ \A id \in DOMAIN sweep.seen : sweep.seen[id] \in Meta
  /\ \A id \in DOMAIN purge.seen : purge.seen[id] \in Meta
  /\ Cardinality(Running) <= Conc

\* No pass removes more of the old replays than MaxPercent of those it could
\* remove when it listed them, nor more games parsed ahead than PrefetchMax,
\* whatever comes and goes while it works (retention.go: "no run may remove more
\* than a quarter of what it could remove", "at most PrefetchMax a run").
SweepBounded ==
  /\ sweep.deleted * 100 <= Cardinality(sweep.pool) * MaxPercent
  /\ sweep.purged <= PrefetchMax

\* The sweep of old patches is about to delete.
Condemned == sweep.pc = "delete" /\ Has(sweep.at)

\* What the sweep deletes was played before the previous patch, by the game's
\* true date and not by what its metadata said on the way, and when the sweep
\* last looked it was kept as a coach or a pro game and the latter not
\* referenced by the web: a claim made while the sweep worked is lost only if it
\* came between that look and the delete.
SweepSpares ==
  Condemned => /\ Played[sweep.at] < PatchDate[PatchBefore(PatchAt(Now))]
               /\ sweep.base.kind \in {"coach", "pro"}
               /\ sweep.base.kind = "pro" => sweep.at \notin Pinned

\* "Only coach and pro kinds": a replay that is kept as anything else too, such as
\* a ladder game, is not removed (retention.go, Run; kind.go on the protection of
\* the ladder hint).
OnlyCoachAndPro == Condemned => Claims(sweep.base) \subseteq {"pro"}

\* purge-student costs nobody else a claim: a rewrite removes the one account and
\* what it alone was the reason for, and nothing that another student, or the
\* games kept for other reasons, added since the listing; a delete only takes
\* what it saw nobody else wanted right before (cmdPurge).
OthersKeep ==
  [][purge' # purge => \A id \in Ids : vault'[id] # vault[id] =>
       IF Has(id)' THEN /\ vault'[id].meta.accounts = vault[id].meta.accounts \ {Account}
                        /\ Claims(vault[id].meta) \ {"student"} \subseteq Claims(vault'[id].meta)
                        /\ vault'[id].meta.accounts # {} => vault'[id].meta.kind = vault[id].meta.kind
       ELSE purge.base.accounts = {Account} /\ Claims(purge.base) = {"student"}]_vars

\* Whatever is stored decodes: upload never keeps a file that would hide the real
\* replay from later backfills (uploadOne).
OnlyDemos == \A id \in Ids : Has(id) => vault[id].body \in Demos
=============================================================================
