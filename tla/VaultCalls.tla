----------------------------- MODULE VaultCalls -----------------------------
(* The calls the small instances of VaultStore make on one replay. *)
EXTENDS Naturals

CONSTANTS None, a1, a2, v1, b1, b2, request

Blank == [kind |-> "coach", also |-> {}, accounts |-> {}, patch |-> 0, source |-> None,
          stamp |-> None, sha |-> None, bad |-> FALSE, badVer |-> None, corrupt |-> FALSE]

Do(type, want) == [type |-> type, want |-> want, ver |-> None, account |-> None]

Put(kind, body, acc) == Do("put", [Blank EXCEPT !.kind = kind, !.stamp = body, !.accounts = acc, !.source = request])
Claim(kind, acc) == Do("update", [Blank EXCEPT !.kind = kind, !.accounts = acc, !.source = request, !.patch = 1])
MarkBad == [Do("markBad", Blank) EXCEPT !.ver = v1]
Flag(type) == Do(type, Blank)
ForAccount(type, a) == [Do(type, Blank) EXCEPT !.account = a]

Sweep(kind, patch) == Do("retention", [Blank EXCEPT !.kind = kind, !.patch = patch])

\* Servers and a backfill store and claim, a server flags corrupt bytes,
\* retention and the purges delete and detach.
StoreOps ==
  { Put("student", b1, {a1}), Put("coach", b2, {}), Claim("pro", {a2}), Flag("markCorrupt"),
    ForAccount("detach", a1), ForAccount("purge", a1), Flag("prefetch"), Sweep("coach", 1) }

\* A worker's verdicts on a replay next to claims.
VerdictOps == { Put("coach", b1, {}), MarkBad, Flag("clearBad"), Claim("pro", {a2}) }
=============================================================================
