----------------------------- MODULE ReplayMeta -----------------------------
(***************************************************************************)
(* The kinds a replay is kept for and the metadata of a stored replay      *)
(* (internal/vault/kind.go, internal/vault/meta.go).                       *)
(*                                                                         *)
(* A Meta is a record.  Lists that the code keeps sorted and unique        *)
(* (Accounts, Also) are sets; the integer patch id is a natural number     *)
(* with 0 for "unknown".  Container and StoredAt, which every store of     *)
(* bytes sets together, are one field, stamp, that names the bytes they    *)
(* were set for; sha names the bytes a local upload hashed.                *)
(***************************************************************************)
EXTENDS Integers

CONSTANTS Accounts,      \* steam32 ids
          Versions,      \* parser versions
          CleanVersions, \* the versions cleanVer keeps (the others read back as "")
          Patches,       \* known patch ids
          Sources,       \* what stored the replay: a request, a backfill, ...
          Bodies,        \* the byte strings ever uploaded for the match
          None           \* the empty string

ASSUME MetaAssumption ==
  /\ CleanVersions \subseteq Versions
  /\ Patches \subseteq Nat \ {0}
  /\ None \notin Versions \cup Sources \cup Bodies

Kinds == {"student", "pro", "ladder", "coach", "audit", "camp", "unknown"}

\* student > audit, camp > pro, ladder > coach > unknown
Class(k) ==
  CASE k = "student"            -> 4
    [] k \in {"audit", "camp"}  -> 3
    [] k \in {"pro", "ladder"}  -> 2
    [] k = "coach"              -> 1
    [] OTHER                    -> 0

Protected(k) == Class(k) > Class("coach")

Reparsed(k) == k # "audit" /\ Class(k) > 0

\* sortedKinds keeps the protected kinds of a list, once each
ProtectedOf(ks) == {k \in ks : Protected(k)}

\* HighestKind of a sorted list: of the highest class, the alphabetically first
HighestKind(ks) ==
  IF ks = {} THEN "coach"
  ELSE CHOOSE k \in ks :
         \A j \in ks \ {k} :
            \/ Class(j) < Class(k)
            \/ Class(j) = Class(k) /\ <<k, j>> \in {<<"audit", "camp">>, <<"ladder", "pro">>}

Meta == [kind : Kinds, also : SUBSET Kinds, accounts : SUBSET Accounts,
         patch : {0} \cup Patches, source : {None} \cup Sources, stamp : {None} \cup Bodies,
         sha : {None} \cup Bodies,
         bad : BOOLEAN, badVer : {None} \cup Versions, corrupt : BOOLEAN]

BadFor(m, ver) == m.bad /\ m.badVer # None /\ m.badVer = ver

\* What a metadata record is after ToS3 and MetaFromS3: unprotected kinds are
\* dropped from Also, and a version survives only inside a set bad flag and
\* only if it is made of the characters cleanVer allows.
Stored(m) ==
  [m EXCEPT !.also   = ProtectedOf(@),
            !.badVer = IF m.bad /\ @ \in CleanVersions THEN @ ELSE None]

EqualMeta(a, b) == Stored(a) = Stored(b)

\* Mutant of Merge: the kind that gives way to a higher one is not kept in Also.
Merge_ForgetsKind(have, want) ==
  LET kind == IF Class(want.kind) > Class(have.kind) THEN want.kind ELSE have.kind
  IN  [have EXCEPT !.kind = kind,
                   !.also = ProtectedOf(@ \cup want.also) \ {kind},
                   !.accounts = @ \cup want.accounts]

Merge(have, want) ==
  LET kind == IF Class(want.kind) > Class(have.kind) THEN want.kind ELSE have.kind
      fill(mine, theirs) == IF mine = None THEN theirs ELSE mine
  IN  [kind     |-> kind,
       also     |-> ProtectedOf(have.also \cup want.also \cup {have.kind, want.kind}) \ {kind},
       accounts |-> have.accounts \cup want.accounts,
       patch    |-> IF have.patch = 0 THEN want.patch ELSE have.patch,
       source   |-> fill(have.source, want.source),
       stamp    |-> fill(have.stamp, want.stamp),
       sha      |-> fill(have.sha, want.sha),
       bad      |-> have.bad \/ want.bad,
       badVer   |-> IF want.bad /\ (want.badVer # None \/ ~have.bad) THEN want.badVer ELSE have.badVer,
       corrupt  |-> have.corrupt \/ want.corrupt]

\* The protected kinds a replay is kept for, whichever of them is its Kind.
Claims(m) == ProtectedOf(m.also \cup {m.kind})
=============================================================================
