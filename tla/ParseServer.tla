---------------------------- MODULE ParseServer -----------------------------
(***************************************************************************)
(* What the servers, a backfill, a re-parse worker and retention do with   *)
(* one match: parse slots and the in-flight map of each server process, a  *)
(* request's way through the vault, Valve and back into the vault, and the *)
(* verdicts on the stored bytes (bad, corrupt) that decide whether they    *)
(* are served, skipped or replaced (cmd/server, internal/valve).           *)
(*                                                                         *)
(* Servers are separate machines: neither slots nor in-flight entries are  *)
(* shared, and a backfill has neither.  Metadata rewrites are one step, as *)
(* VaultStore's refinement of AtomicVault allows; PutNew's requests are    *)
(* not.  What bytes are is a constant of the bytes: an unpacker or parser  *)
(* that fails for another reason (a signal, a full disk, a caller that     *)
(* hung up) says nothing about them.                                       *)
(***************************************************************************)
EXTENDS Integers, FiniteSets

CONSTANTS Servers,    \* server processes
          Slots,      \* MAX_CONCURRENT of each
          Requests,   \* /parse-valve requests for the match
          Uploads,    \* /parse and /parse-url requests: they need a slot only
          Posts,      \* those of them whose body the caller sends (/parse)
          Backfills,  \* backfill items for the match
          Workers,    \* re-parse workers with the match in their shard
          Bodies,     \* what Valve serves for the match over time, and what is stored
          Quality,    \* what each of them is
          None

Qualities == {"good",      \* a demo this version's parser accepts
              "rejected",  \* a demo it rejects
              "page",      \* not a demo: an error page served with 200
              "garbled"}   \* a stream that does not decode

Actors == Requests \cup Uploads \cup Backfills \cup Workers

ASSUME ServerAssumption ==
  /\ Slots \in Nat \ {0}
  /\ IsFiniteSet(Actors) /\ Posts \subseteq Uploads
  /\ Requests \cap (Uploads \cup Backfills \cup Workers) = {}
  /\ Uploads \cap (Backfills \cup Workers) = {} /\ Backfills \cap Workers = {}
  /\ Quality \in [Bodies -> Qualities]
  /\ None \notin Servers \cup Bodies

IsDemo(b)   == Quality[b] \in {"good", "rejected"}
Accepted(b) == Quality[b] = "good"

\* The bad flag: none, with an older version, with this version
BadFlags == {"none", "older", "this"}
Object   == [body : Bodies, bad : BadFlags, corrupt : BOOLEAN]

VARIABLES obj,       \* the stored replay, or None
          pc,        \* what each actor does next
          at,        \* the server a request is on
          have,      \* the bad flag its last HEAD (a worker's: GET) returned
          got,       \* the downloaded bytes it is about to store
          want,      \* the bad flag it stores its download with
          held,      \* the stored copy was rejected: Valve may have a better one
          slots,     \* parse slots taken, per server
          inFlight   \* the match is in the server's in-flight map

local == <<at, have, got, want, held>>
vars  == <<obj, pc, local, slots, inFlight>>

\* A request with a slot, and what the others do
Serving == {"find", "open", "markCorrupt", "markBad", "clearBad", "download", "flag",
            "put", "putFind", "putMerge", "putOver"}

Init ==
  /\ obj \in {None} \cup {o \in Object : Quality[o.body] # "page" /\ o.bad # "this" /\ ~o.corrupt}
  /\ pc = [a \in Actors |-> "idle"]
  /\ at = [a \in Actors |-> None]
  /\ have = [a \in Actors |-> "none"]
  /\ got = [a \in Actors |-> None]
  /\ want = [a \in Actors |-> "none"]
  /\ held = [a \in Actors |-> FALSE]
  /\ slots = [s \in Servers |-> 0]
  /\ inFlight = [s \in Servers |-> FALSE]

Goto(a, l) == pc' = [pc EXCEPT ![a] = l]

\* The call ends and its files are removed.
Forget(a) ==
  /\ Goto(a, "idle")
  /\ at' = [at EXCEPT ![a] = None]
  /\ have' = [have EXCEPT ![a] = "none"]
  /\ got' = [got EXCEPT ![a] = None]
  /\ want' = [want EXCEPT ![a] = "none"]
  /\ held' = [held EXCEPT ![a] = FALSE]

\* The answer of a request runs its deferred releases: the slot, if it got one,
\* and its in-flight entry.
Answer(a) ==
  /\ Forget(a)
  /\ slots' = IF a \in Requests \cup Uploads /\ pc[a] # "reserve"
              THEN [slots EXCEPT ![at[a]] = @ - 1] ELSE slots
  /\ inFlight' = IF a \in Requests THEN [inFlight EXCEPT ![at[a]] = FALSE] ELSE inFlight

GoOn(a, l) == Goto(a, l) /\ UNCHANGED <<slots, inFlight>>

(***************************************************************************)
(* Getting in                                                              *)
(***************************************************************************)
\* Mutant of Arrive: the in-flight map is not consulted.
Arrive_NoCheck(r, s) ==
  /\ pc[r] = "idle"
  /\ at' = [at EXCEPT ![r] = s]
  /\ inFlight' = [inFlight EXCEPT ![s] = TRUE]
  /\ Goto(r, "reserve")
  /\ UNCHANGED <<obj, have, got, want, held, slots>>

\* parse_in_progress otherwise
Arrive(r, s) ==
  /\ pc[r] = "idle"
  /\ ~inFlight[s]
  /\ at' = [at EXCEPT ![r] = s]
  /\ inFlight' = [inFlight EXCEPT ![s] = TRUE]
  /\ Goto(r, "reserve")
  /\ UNCHANGED <<obj, have, got, want, held, slots>>

\* Mutant of ReserveSlot: the busy answer leaves the in-flight entry.
ReserveSlot_LeavesEntry(r) ==
  /\ pc[r] = "reserve"
  /\ \/ /\ slots[at[r]] < Slots
        /\ slots' = [slots EXCEPT ![at[r]] = @ + 1]
        /\ Goto(r, "find")
        /\ UNCHANGED <<obj, local, inFlight>>
     \/ slots[at[r]] = Slots /\ Forget(r) /\ UNCHANGED <<obj, slots, inFlight>>

\* Mutant of ReserveSlot: one slot too many.
ReserveSlot_OneMore(r) ==
  /\ pc[r] = "reserve"
  /\ \/ /\ slots[at[r]] <= Slots
        /\ slots' = [slots EXCEPT ![at[r]] = @ + 1]
        /\ Goto(r, "find")
        /\ UNCHANGED <<obj, local, inFlight>>
     \/ Answer(r) /\ UNCHANGED obj

\* parser_busy, or the caller has hung up
ReserveSlot(r) ==
  /\ pc[r] = "reserve"
  /\ \/ /\ slots[at[r]] < Slots
        /\ slots' = [slots EXCEPT ![at[r]] = @ + 1]
        /\ Goto(r, "find")
        /\ UNCHANGED <<obj, local, inFlight>>
     \/ Answer(r) /\ UNCHANGED obj

Upload(u, s) ==
  /\ pc[u] = "idle"
  /\ slots[s] < Slots
  /\ slots' = [slots EXCEPT ![s] = @ + 1]
  /\ at' = [at EXCEPT ![u] = s]
  /\ Goto(u, "upload")
  /\ UNCHANGED <<obj, have, got, want, held, inFlight>>

\* Body or URL read, unpacked, parsed and answered; nothing is stored.
ServeUpload(u) ==
  /\ pc[u] = "upload"
  /\ Answer(u)
  /\ UNCHANGED obj

BeginBackfill(b) ==
  /\ pc[b] = "idle"
  /\ GoOn(b, "find")
  /\ UNCHANGED <<obj, local>>

BeginWork(w) ==
  /\ pc[w] = "idle"
  /\ GoOn(w, "open")
  /\ UNCHANGED <<obj, local>>

(***************************************************************************)
(* The stored copy: handleParseValveVault, serveFromVault, Worker.one      *)
(***************************************************************************)
Usable == obj # None /\ ~obj.corrupt

\* A usable object gets the request's hints merged and is tried; otherwise, or
\* when the HEAD fails, the request goes to Valve.
Find(r) ==
  /\ pc[r] = "find" /\ r \in Requests
  /\ \/ /\ Usable
        /\ have' = [have EXCEPT ![r] = obj.bad]
        /\ GoOn(r, "open")
        /\ UNCHANGED <<at, got, want, held>>
     \/ GoOn(r, "download") /\ UNCHANGED local
  /\ UNCHANGED obj

\* A backfill merges its hints into a usable object and is done; it is done,
\* too, when the HEAD fails.
FindPresent(b) ==
  /\ pc[b] = "find" /\ b \in Backfills
  /\ \/ ~Usable /\ GoOn(b, "download") /\ UNCHANGED local
     \/ Answer(b)
  /\ UNCHANGED obj

\* The bytes of the moment are copied, unpacked and parsed, which takes a while;
\* what follows rests on them, and on the bad flag that came with them (a worker)
\* or that the HEAD saw (a request).  A failure to read, to unpack for want of
\* disk, or of the parser by a signal, is no verdict.
OpenAndParse(a) ==
  /\ pc[a] = "open"
  /\ \/ /\ obj # None
        /\ LET q   == Quality[obj.body]
               had == IF a \in Workers THEN obj.bad ELSE have[a]
           IN  \/ q = "good" /\ had # "none" /\ GoOn(a, "clearBad") /\ UNCHANGED local
               \/ q = "good" /\ had = "none" /\ Answer(a)
               \/ q = "garbled" /\ a \in Requests /\ GoOn(a, "markCorrupt") /\ UNCHANGED local
               \/ q = "garbled" /\ a \in Workers /\ GoOn(a, "markBad") /\ UNCHANGED local
               \/ q = "rejected" /\ a \in Requests /\ had = "this" /\ Answer(a)
               \/ q = "rejected" /\ (a \in Workers \/ had # "this") /\ GoOn(a, "markBad") /\ UNCHANGED local
     \/ a \in Requests /\ GoOn(a, "download") /\ UNCHANGED local
     \/ Answer(a)
  /\ UNCHANGED obj

\* A metadata rewrite that fails, as on an object that is gone, is only logged.
Rewrite(field, v) ==
  \/ obj # None /\ obj' = [obj EXCEPT ![field] = v]
  \/ UNCHANGED obj

MarkCorrupt(a) ==
  /\ pc[a] = "markCorrupt"
  /\ Rewrite("corrupt", TRUE)
  /\ GoOn(a, "download")
  /\ UNCHANGED local

MarkBad(a) ==
  /\ pc[a] = "markBad"
  /\ Rewrite("bad", "this")
  /\ \/ a \in Workers /\ Answer(a)
     \/ /\ a \in Requests
        /\ held' = [held EXCEPT ![a] = TRUE]
        /\ GoOn(a, "download")
        /\ UNCHANGED <<at, have, got, want>>

ClearBad(a) ==
  /\ pc[a] = "clearBad"
  /\ Rewrite("bad", "none")
  /\ Answer(a)

(***************************************************************************)
(* Valve, and PutNew                                                       *)
(***************************************************************************)
Keep(a, b, flag, l) ==
  /\ got' = [got EXCEPT ![a] = b]
  /\ want' = [want EXCEPT ![a] = flag]
  /\ GoOn(a, l)
  /\ UNCHANGED <<at, have, held>>

\* Mutant of Download: what does not start like a demo is kept too.
Download_AnyFile(a) ==
  /\ pc[a] = "download"
  /\ \/ \E b \in Bodies :
          \/ ~held[a] /\ Quality[b] # "garbled" /\ Keep(a, b, IF Accepted(b) THEN "none" ELSE "this", "put")
          \/ held[a] /\ Accepted(b) /\ Keep(a, b, "none", "flag")
     \/ Answer(a)
  /\ UNCHANGED obj

\* Whatever Valve serves is unpacked and parsed (a backfill only verifies it).
\* Only a demo is stored.  With a rejected copy in the vault it is stored only
\* if it parses; else the parser's own verdict, if there is one, goes with it.
\* A failed download, a full disk or nothing to store ends the request.
Download(a) ==
  /\ pc[a] = "download"
  /\ \/ \E b \in Bodies :
          \/ IsDemo(b) /\ ~held[a] /\ Keep(a, b, "none", "put")
          \/ Quality[b] = "rejected" /\ ~held[a] /\ a \in Requests /\ Keep(a, b, "this", "put")
          \/ Accepted(b) /\ held[a] /\ Keep(a, b, "none", "flag")
     \/ Answer(a)
  /\ UNCHANGED obj

\* The stored copy failed where this one parses.
Flag(a) ==
  /\ pc[a] = "flag"
  /\ Rewrite("corrupt", TRUE)
  /\ GoOn(a, "put")
  /\ UNCHANGED local

Fresh(a) == [body |-> got[a], bad |-> want[a], corrupt |-> FALSE]

\* Refused when the key is taken: by another's object, or by the caller's own
\* when the answer to its put was lost and the put repeated.
Put(a) ==
  /\ pc[a] = "put"
  /\ \/ obj = None /\ obj' = Fresh(a) /\ Answer(a)
     \/ obj' = (IF obj = None THEN Fresh(a) ELSE obj) /\ UNCHANGED local /\ GoOn(a, "putFind")
     \/ UNCHANGED obj /\ Answer(a)

PutFind(a) ==
  /\ pc[a] = "putFind"
  /\ \/ GoOn(a, IF obj # None /\ obj.corrupt THEN "putOver" ELSE "putMerge") /\ UNCHANGED local
     \/ Answer(a)
  /\ UNCHANGED obj

PutMerge(a) ==
  /\ pc[a] = "putMerge"
  /\ IF want[a] = "this" THEN Rewrite("bad", "this") ELSE UNCHANGED obj
  /\ Answer(a)

PutOver(a) ==
  /\ pc[a] = "putOver"
  /\ obj' \in {obj, Fresh(a)}
  /\ Answer(a)

(***************************************************************************)
(* Retention, and machines that stop                                       *)
(***************************************************************************)
Retention ==
  /\ obj # None
  /\ obj' = None
  /\ UNCHANGED <<pc, local, slots, inFlight>>

Crash(s) ==
  LET gone == {a \in Actors : at[a] = s}
      reset(f, v) == [a \in Actors |-> IF a \in gone THEN v ELSE f[a]]
  IN  /\ gone # {}
      /\ pc' = reset(pc, "idle")
      /\ at' = reset(at, None)
      /\ have' = reset(have, "none")
      /\ got' = reset(got, None)
      /\ want' = reset(want, "none")
      /\ held' = reset(held, FALSE)
      /\ slots' = [slots EXCEPT ![s] = 0]
      /\ inFlight' = [inFlight EXCEPT ![s] = FALSE]
      /\ UNCHANGED obj

-----------------------------------------------------------------------------
Step(a) ==
  \/ a \in Requests /\ ReserveSlot(a)
  \/ a \in Uploads /\ ServeUpload(a)
  \/ Find(a) \/ FindPresent(a) \/ OpenAndParse(a) \/ MarkCorrupt(a) \/ MarkBad(a) \/ ClearBad(a)
  \/ Download(a) \/ Flag(a) \/ Put(a) \/ PutFind(a) \/ PutMerge(a) \/ PutOver(a)

Begin ==
  \/ \E r \in Requests, s \in Servers : Arrive(r, s)
  \/ \E u \in Uploads, s \in Servers : Upload(u, s)
  \/ \E b \in Backfills : BeginBackfill(b)
  \/ \E w \in Workers : BeginWork(w)

Next ==
  \/ Begin
  \/ \E a \in Actors : Step(a)
  \/ Retention
  \/ \E s \in Servers : Crash(s)

Spec == Init /\ [][Next]_vars

\* Downloads and answers have deadlines, the store answers or fails, the parser
\* ends.  Nothing bounds how long a caller takes to send its body.
FairSpec == Spec /\ \A a \in Actors \ Posts : WF_vars(Step(a))

-----------------------------------------------------------------------------
TypeOK ==
  /\ obj \in {None} \cup Object
  /\ pc \in [Actors -> Serving \cup {"idle", "reserve", "upload"}]
  /\ at \in [Actors -> Servers \cup {None}]
  /\ have \in [Actors -> BadFlags]
  /\ got \in [Actors -> Bodies \cup {None}]
  /\ want \in [Actors -> {"none", "this"}]
  /\ held \in [Actors -> BOOLEAN]
  /\ slots \in [Servers -> 0..Slots]
  /\ inFlight \in [Servers -> BOOLEAN]

\* The slots a server counts as taken are those of the requests that work on it,
\* and the match is in its in-flight map exactly while one of its requests is at
\* it, on every path out of the handler (reserveSlot, the deferred releases).
Holders(s)    == {a \in Actors : at[a] = s /\ pc[a] # "reserve"}
Entered(s)    == {r \in Requests : at[r] = s}
SlotsAccounted ==
  \A s \in Servers :
    /\ slots[s] = Cardinality(Holders(s))
    /\ inFlight[s] = (Entered(s) # {})
    /\ \A q, r \in Entered(s) : q = r

\* Only bytes that are not a good replay are marked corrupt: a verdict reached on
\* bytes read earlier must not land on bytes that replaced them ("Corrupt: the
\* stored bytes do not decode").
CorruptMeansBroken == obj # None /\ obj.corrupt => ~Accepted(obj.body)

\* Nothing that is not a demo gets into the vault, whatever Valve serves and
\* whichever path a request takes (handleParseValveVault: "is never stored").
OnlyDemosStored ==
  [][obj' # None /\ (obj = None \/ obj'.body # obj.body) => IsDemo(obj'.body)]_vars

\* A match in flight is over in the end, and a full server has a slot again,
\* unless a caller of /parse keeps one while it sends its body (handleParse
\* reserves the slot first and reads without a deadline).
ServerFrees ==
  \A s \in Servers :
    /\ inFlight[s] ~> ~inFlight[s]
    /\ slots[s] = Slots ~> slots[s] < Slots \/ \E p \in Posts : at[p] = s
=============================================================================
