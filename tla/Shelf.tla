------------------------------- MODULE Shelf --------------------------------
(***************************************************************************)
(* All replays of the vault, as the jobs that walk over them see it: a     *)
(* metadata change is one atomic step (VaultStore implements that), a look *)
(* and a later delete or overwrite are two.  Requests claim and store      *)
(* replays between any two steps of a job.                                 *)
(***************************************************************************)
EXTENDS VaultOps, FiniteSets

CONSTANTS Ids,       \* match ids
          Played,    \* when each match was played
          PatchDate, \* OpenDota's patch list: the date of each patch id
          Now,       \* the time the jobs run at
          Shelves,   \* what the vault may hold when the jobs start
          MaxCalls   \* bound on the calls requests make

ASSUME ShelfAssumption ==
  /\ Ids \subseteq Nat /\ IsFiniteSet(Ids)
  /\ Played \in [Ids -> Nat]
  /\ PatchDate \in [Patches -> Nat] /\ IsFiniteSet(Patches)
  /\ Shelves \subseteq [Ids -> {None} \cup Content]
  /\ Now \in Nat /\ MaxCalls \in Nat
  /\ None \notin Content

VARIABLES vault,  \* what is stored for each match: None, or bytes and metadata
          calls   \* calls made by requests

shelf == <<vault, calls>>

Has(id) == vault[id] # None

Least(S) == CHOOSE i \in S : \A j \in S : i <= j
Most(S)  == CHOOSE i \in S : \A j \in S : j <= i

\* The patch a game was played on: the last of the list, which is sorted by id,
\* dated at or before it; 0 when there is none.
PatchAt(t) ==
  LET dated == {p \in Patches : PatchDate[p] <= t}
  IN  IF dated = {} THEN 0 ELSE Most(dated)

\* The patch before that one in the list, or 0
PatchBefore(p) ==
  LET older == {q \in Patches : q < p}
  IN  IF older = {} THEN 0 ELSE Most(older)

Changed(id, o)  == [vault EXCEPT ![id].meta = Stored(Mutate(o, @))]
UpdateMeta(id, want) == [vault EXCEPT ![id].meta = Stored(Merge(@, want))]
Removed(id)     == [vault EXCEPT ![id] = None]
NewObject(body, want) == [body |-> body, meta |-> Stored(want)]

\* Objects: a HEAD adds what it finds; an id that disappeared is left out.
Saw(seen, id) ==
  IF Has(id) THEN [i \in DOMAIN seen \cup {id} |-> IF i = id THEN vault[id].meta ELSE seen[i]]
  ELSE seen

\* A metadata record that names a kind and a patch only
Hint(kind, patch) ==
  [kind |-> kind, also |-> {}, accounts |-> {}, patch |-> patch, source |-> None, stamp |-> None,
   sha |-> None, bad |-> FALSE, badVer |-> None, corrupt |-> FALSE]

\* The patch a caller names is the one the game was played on, or unknown.
TruePatch(id) == PatchAt(Played[id])

\* A request of some server: PutNew on a free key, a merge or a mark otherwise.
Request(id, o) ==
  /\ calls < MaxCalls
  /\ calls' = calls + 1
  /\ o.want.patch \in {0, TruePatch(id)}
  /\ IF Has(id) THEN vault' = Changed(id, o)
     ELSE o.type = "put" /\ vault' = [vault EXCEPT ![id] = NewObject(o.want.stamp, o.want)]
=============================================================================
