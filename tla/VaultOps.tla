------------------------------ MODULE VaultOps ------------------------------
(***************************************************************************)
(* The calls a client of the vault makes on one replay object, and what    *)
(* each does to the metadata (internal/vault/vault.go and the callers that *)
(* pass MutateMeta a function or delete after a look).                     *)
(*                                                                         *)
(* Replays are keyed by match id and no call touches two of them, so the   *)
(* modules built on this one follow a single key.                          *)
(***************************************************************************)
EXTENDS ReplayMeta

CONSTANT Ops  \* the calls clients may make

MutateTypes == {"update", "markBad", "clearBad", "markCorrupt", "detach"}
RemoveTypes == {"retention", "prefetch", "purge"}

Op == [type : MutateTypes \cup RemoveTypes \cup {"put"}, want : Meta,
       ver : {None} \cup Versions, account : {None} \cup Accounts]

\* A put names the bytes it uploads: the caller sniffed their container and
\* PutNew stamps the time.
ASSUME OpsAssumption ==
  /\ Ops \subseteq Op
  /\ \A o \in Ops : o.type = "put" => o.want.stamp \in Bodies

\* purge-student's rewrite: drop the account; with no account left the object
\* falls back to the best of the kinds it was also stored as.
Detach(m, account) ==
  LET keep == m.accounts \ {account}
      last == keep = {} /\ m.kind = "student"
      kind == IF last THEN HighestKind(m.also) ELSE m.kind
  IN  [m EXCEPT !.accounts = keep,
                !.kind     = kind,
                !.also     = IF last THEN @ \ {kind} ELSE @]

\* The function each call hands to MutateMeta (PutNew on a taken key merges).
Mutate(o, m) ==
  CASE o.type \in {"update", "put"} -> Merge(m, o.want)
    [] o.type = "markBad"           -> [m EXCEPT !.bad = TRUE, !.badVer = o.ver]
    [] o.type = "clearBad"          -> [m EXCEPT !.bad = FALSE, !.badVer = None]
    [] o.type = "markCorrupt"       -> [m EXCEPT !.corrupt = TRUE]
    [] o.type = "detach"            -> Detach(m, o.account)
    [] OTHER                        -> m

\* Mutant of CarryOver: the old container and store time stay.
CarryOver_KeepsStamp(m) ==
  [m EXCEPT !.corrupt = FALSE, !.bad = FALSE, !.badVer = None, !.sha = None]

\* What a replacement of a corrupt object keeps of the old metadata.
CarryOver(m) ==
  [m EXCEPT !.corrupt = FALSE, !.bad = FALSE, !.badVer = None, !.stamp = None, !.sha = None]

\* The look before each delete: retention's (listed holds the kind and patch its
\* listing saw), the prefetch purge's, purge-student's.
RetentionLook(listed, m) == m.kind = listed.kind /\ m.patch \in {0, listed.patch}
PrefetchLook(m)          == m.kind = "student"
PurgeLook(account, m)    == m.kind = "student" /\ m.also = {} /\ m.accounts = {account}

Removable(o, m) ==
  \/ o.type = "retention" /\ RetentionLook(o.want, m)
  \/ o.type = "prefetch"  /\ PrefetchLook(m)
  \/ o.type = "purge"     /\ PurgeLook(o.account, m)

\* How a call ends: the metadata is as wanted, the bytes were stored, the look
\* left the object alone, or an error was returned.
Results == {"ok", "stored", "skip", "err"}

Content == [body : Bodies, meta : Meta]
=============================================================================
