--------------------------- MODULE VaultFallback ----------------------------
(***************************************************************************)
(* VaultStore on an endpoint where the copy of an object onto its own key  *)
(* may fail though one to another key does not: S3Store then goes through  *)
(* a temporary key (S3Store.CopyReplaceIfMatch, internal/vault/s3.go).     *)
(* The comment there says that a write between its copies is lost, so what *)
(* holds of VaultStore alone is not asked here.                            *)
(***************************************************************************)
EXTENDS VaultStore

VARIABLE tmp  \* the bytes at the object's temporary key, or None

fallbackVars == <<vars, tmp>>

FallbackInit == Init /\ tmp = None

\* The copy failed for another reason and had no effect: copy to the temporary
\* key, conditional like the first ...
CopyAside(c) ==
  /\ pc[c] = "copy"
  /\ obj # None /\ obj.etag = seen[c].etag
  /\ tmp' = obj.body
  /\ \/ GoTo(c, "copyBack") /\ UNCHANGED seen
     \/ Return(c, "err")
  /\ UNCHANGED obj

\* ... and from there back, whatever is at the key by now ...
CopyBack(c) ==
  /\ pc[c] = "copyBack"
  /\ \/ Return(c, "err") /\ UNCHANGED obj
     \/ /\ tmp # None
        /\ Write(tmp, Mutate(op[c], seen[c].meta))
        /\ \/ GoTo(c, "dropTmp") /\ UNCHANGED seen
           \/ Return(c, "err")
  /\ UNCHANGED tmp

\* ... and remove it, an error ignored.
DropTmp(c) ==
  /\ pc[c] = "dropTmp"
  /\ tmp' \in {None, tmp}
  /\ Return(c, "ok")
  /\ UNCHANGED obj

FallbackStep(c) ==
  \/ Step(c) /\ UNCHANGED tmp
  \/ CopyAside(c) \/ CopyBack(c) \/ DropTmp(c)

FallbackNext == \E c \in Clients : FallbackStep(c) \/ (UNCHANGED tmp /\ \E o \in Ops : Call(c, o))

\* Every request is answered or times out, so a call that has begun goes on.
FairFallback ==
  /\ FallbackInit /\ [][FallbackNext]_fallbackVars
  /\ \A c \in Clients : WF_fallbackVars(FallbackStep(c))

-----------------------------------------------------------------------------
\* Every call ends: MutateMeta's retries are bounded, whoever it competes with.
CallsEnd == \A c \in Clients : pc[c] \notin Results ~> pc[c] \in Results
=============================================================================
