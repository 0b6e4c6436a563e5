--------------------------- MODULE MCMaintenance ----------------------------
(* Small instances of Maintenance for TLC. *)
EXTENDS Maintenance, TLC

CONSTANTS a1, a2, b1, b2, junk

Do(type, want) == [type |-> type, want |-> want, ver |-> None, account |-> None]
Put(kind, patch) == Do("put", [Hint(kind, patch) EXCEPT !.stamp = b1])
For(students) == Do("put", [Hint("student", 0) EXCEPT !.stamp = b1, !.accounts = students])

\* Three patches, the last one current: games of patch 1 are old.
Dates == <<10, 20, 30>>

\* Game 1 was played just before patch 2, game 2 on its day.
GamesPlayed == (1 :> 19) @@ (2 :> 20)
Markers     == (1 :> <<0, 19>>) @@ (2 :> <<20>>)
NamedGames  == { <<1, 2>> }

Kept(o) == NewObject(o.want.stamp, o.want)

\* Coach games without a patch, a pro game, students' games
SomeShelves ==
  { (1 :> Kept(Put("coach", 0))) @@ (2 :> Kept(Put("coach", 0))),
    (1 :> Kept(Put("pro", 1)))   @@ (2 :> Kept(Put("coach", 0))),
    (1 :> Kept(For({a1})))       @@ (2 :> Kept(For({a1, a2}))) }

Requests == { Put("ladder", 1), For({a2}), Do("markCorrupt", Hint("coach", 0)) }

Files == << [id |-> 1, want |-> Hint("camp", 0), body |-> b2],
            [id |-> 2, want |-> Hint("pro", 2), body |-> junk] >>
NoFiles == <<>>
Sizes == (b1 :> 1) @@ (b2 :> 2) @@ (junk :> 3)
=============================================================================
