------------------------- MODULE ParseServerProofs --------------------------
(***************************************************************************)
(* ParseServer for any number of servers, slots, requests and bodies.      *)
(***************************************************************************)
EXTENDS ParseServer, FiniteSetTheorems, TLAPS

Putting == {"flag", "put", "putFind", "putMerge", "putOver"}

\* Who can be where, and that a request or an upload is on a server while it runs.
KindFits ==
  \A a \in Actors :
    /\ pc[a] = "reserve" => a \in Requests
    /\ pc[a] = "upload" => a \in Uploads
    /\ pc[a] \in Serving => a \notin Uploads
    /\ at[a] # None <=> (a \in Requests \cup Uploads /\ pc[a] # "idle")

\* What is about to be stored is a demo.
KeepsDemos == \A a \in Actors : pc[a] \in Putting => got[a] \in Bodies /\ IsDemo(got[a])

ServerInv == TypeOK /\ KindFits /\ KeepsDemos /\ SlotsAccounted

\* The invariant holds at first.
LEMMA InitServer == Init => ServerInv
<1> SUFFICES ASSUME Init PROVE ServerInv
  OBVIOUS
<1>1. TypeOK
  BY ServerAssumption DEF Init, TypeOK, Serving, Object, BadFlags
<1>2. KindFits /\ KeepsDemos
  BY DEF Init, KindFits, KeepsDemos, Serving, Putting
<1>3. ASSUME NEW s \in Servers PROVE Holders(s) = {} /\ Entered(s) = {}
  BY ServerAssumption DEF Init, Holders, Entered, Actors
<1>4. SlotsAccounted
  BY <1>3, FS_EmptySet DEF Init, SlotsAccounted
<1>5. QED
  BY <1>1, <1>2, <1>4 DEF ServerInv

\* The holders of slots are finitely many.
LEMMA HoldersFinite == \A s : IsFiniteSet(Holders(s))
BY FS_Subset, ServerAssumption DEF Holders

\* A step of one actor that stays at work.
LEMMA GoOnStep ==
  ASSUME ServerInv, NEW a \in Actors, NEW l \in Serving, GoOn(a, l),
         pc[a] \in Serving \/ (pc[a] = "idle" /\ a \in Backfills \cup Workers),
         at' = at,
         have' \in [Actors -> BadFlags], got' \in [Actors -> Bodies \cup {None}],
         want' \in [Actors -> {"none", "this"}], held' \in [Actors -> BOOLEAN],
         obj' \in {None} \cup Object,
         \A c \in Actors \ {a} : got'[c] = got[c],
         l \in Putting => got'[a] \in Bodies /\ IsDemo(got'[a])
  PROVE  ServerInv'
<1> USE DEF ServerInv
<1>1. pc' = [pc EXCEPT ![a] = l] /\ slots' = slots /\ inFlight' = inFlight
  BY DEF GoOn, Goto
<1>2. TypeOK'
  BY <1>1 DEF TypeOK
<1>3. KindFits'
  BY <1>1, ServerAssumption DEF KindFits, TypeOK, Serving
<1>4. KeepsDemos'
  BY <1>1 DEF KeepsDemos, TypeOK
<1>5. \A s \in Servers : Holders(s)' = Holders(s) /\ Entered(s)' = Entered(s)
  BY <1>1, ServerAssumption DEF Holders, Entered, TypeOK, Serving
<1>6. SlotsAccounted'
  BY <1>1, <1>5 DEF SlotsAccounted
<1>7. QED
  BY <1>2, <1>3, <1>4, <1>6

\* The end of a request, an upload, a backfill or a worker's replay.
LEMMA AnswerStep ==
  ASSUME ServerInv, NEW a \in Actors, pc[a] # "idle", Answer(a), obj' \in {None} \cup Object
  PROVE  ServerInv'
<1> USE DEF ServerInv
<1>1. /\ pc' = [pc EXCEPT ![a] = "idle"] /\ at' = [at EXCEPT ![a] = None]
      /\ got' = [got EXCEPT ![a] = None]
  BY DEF Answer, Forget, Goto
<1>2. at[a] # None <=> a \in Requests \cup Uploads
  BY DEF KindFits
<1>3. KindFits'
  BY <1>1 DEF KindFits, TypeOK, Serving
<1>4. KeepsDemos'
  BY <1>1 DEF KeepsDemos, TypeOK, Putting
<1>5. ASSUME NEW s \in Servers
      PROVE  Holders(s)' = Holders(s) \ {a} /\ Entered(s)' = Entered(s) \ {a}
  BY <1>1, ServerAssumption DEF Holders, Entered, TypeOK, Actors
<1>6. ASSUME NEW s \in Servers
      PROVE  /\ slots'[s] = Cardinality(Holders(s)')
             /\ slots'[s] \in 0..Slots
  <2>1. slots[s] \in 0..Slots /\ slots[s] = Cardinality(Holders(s)) /\ IsFiniteSet(Holders(s))
    BY HoldersFinite DEF TypeOK, SlotsAccounted
  <2>2. CASE a \in Holders(s)
    <3>1. at[a] = s /\ pc[a] # "reserve" /\ a \in Requests \cup Uploads
      BY <2>2, <1>2, ServerAssumption DEF Holders
    <3>2. slots'[s] = slots[s] - 1
      BY <3>1 DEF Answer, TypeOK
    <3>3. Cardinality(Holders(s) \ {a}) = Cardinality(Holders(s)) - 1
      BY <2>1, <2>2, FS_RemoveElement
    <3>4. Cardinality(Holders(s) \ {a}) \in Nat
      BY <2>1, FS_RemoveElement, FS_CardinalityType
    <3>5. Holders(s)' = Holders(s) \ {a}
      BY <1>5
    <3>6. slots[s] \in Int /\ slots[s] <= Slots /\ Slots \in Int
      BY <2>1, ServerAssumption
    <3>7. slots[s] - 1 \in 0..Slots
      BY <2>1, <3>3, <3>4, <3>6
    <3>8. QED
      BY <2>1, <3>2, <3>3, <3>5, <3>7
  <2>3. CASE a \notin Holders(s)
    <3>1. Holders(s)' = Holders(s)
      BY <1>5, <2>3
    <3>2. slots'[s] = slots[s]
      <4>1. CASE a \in Requests \cup Uploads /\ pc[a] # "reserve"
        BY <2>3, <4>1 DEF Answer, Holders, TypeOK
      <4>2. CASE ~(a \in Requests \cup Uploads /\ pc[a] # "reserve")
        BY <4>2 DEF Answer
      <4>3. QED
        BY <4>1, <4>2
    <3>3. QED
      BY <2>1, <3>1, <3>2
  <2>4. QED
    BY <2>2, <2>3
<1>7. ASSUME NEW s \in Servers
      PROVE  /\ inFlight'[s] \in BOOLEAN
             /\ inFlight'[s] = (Entered(s)' # {})
             /\ \A q, r \in Entered(s)' : q = r
  <2>1. inFlight[s] = (Entered(s) # {}) /\ inFlight[s] \in BOOLEAN /\ \A q, r \in Entered(s) : q = r
    BY DEF TypeOK, SlotsAccounted
  <2>2. CASE a \in Entered(s)
    <3>1. Entered(s)' = {}
      BY <1>5, <2>1, <2>2
    <3>2. inFlight'[s] = FALSE
      BY <2>2 DEF Answer, Entered, TypeOK
    <3>3. QED
      BY <3>1, <3>2
  <2>3. CASE a \notin Entered(s)
    <3>1. Entered(s)' = Entered(s)
      BY <1>5, <2>3
    <3>2. inFlight'[s] = inFlight[s]
      BY <2>3 DEF Answer, Entered, TypeOK
    <3>3. QED
      BY <2>1, <3>1, <3>2
  <2>4. QED
    BY <2>2, <2>3
<1>8. TypeOK'
  <2>1. slots' \in [Servers -> Int] /\ inFlight' \in [Servers -> BOOLEAN]
    <3>1. slots' = slots \/ slots' = [slots EXCEPT ![at[a]] = @ - 1]
      BY DEF Answer
    <3>2. inFlight' = inFlight \/ inFlight' = [inFlight EXCEPT ![at[a]] = FALSE]
      BY DEF Answer
    <3>3. slots \in [Servers -> Int] /\ inFlight \in [Servers -> BOOLEAN]
      BY DEF TypeOK
    <3>4. slots' \in [Servers -> Int]
      BY <3>1, <3>3
    <3>5. inFlight' \in [Servers -> BOOLEAN]
      BY <3>2, <3>3
    <3>6. QED
      BY <3>4, <3>5
  <2>2. slots' \in [Servers -> 0..Slots]
    BY <1>6, <2>1
  <2>3. QED
    BY <2>1, <2>2 DEF TypeOK, Answer, Forget, Goto, BadFlags
<1>9. SlotsAccounted'
  BY <1>6, <1>7 DEF SlotsAccounted
<1>10. QED
  BY <1>3, <1>4, <1>8, <1>9

\* A request or an upload that takes a slot.
LEMMA SlotTaken ==
  ASSUME ServerInv, NEW a \in Requests \cup Uploads, NEW s \in Servers, NEW l, slots[s] < Slots,
         \/ a \in Requests /\ pc[a] = "reserve" /\ at[a] = s /\ l = "find"
         \/ a \in Uploads /\ pc[a] = "idle" /\ l = "upload",
         slots' = [slots EXCEPT ![s] = @ + 1],
         at' = [at EXCEPT ![a] = s],
         Goto(a, l),
         UNCHANGED <<obj, have, got, want, held, inFlight>>
  PROVE  ServerInv'
<1> USE DEF ServerInv
<1>1. a \in Actors /\ pc' = [pc EXCEPT ![a] = l] /\ l \in {"find", "upload"}
  BY DEF Actors, Goto
<1>2. slots[s] + 1 \in 0..Slots
  BY ServerAssumption DEF TypeOK
<1>3. TypeOK'
  BY <1>1, <1>2 DEF TypeOK, Serving
<1>4. KindFits' /\ KeepsDemos'
  BY <1>1, ServerAssumption DEF KindFits, KeepsDemos, Putting, Serving, TypeOK
<1>5. a \notin Holders(s) /\ Holders(s)' = Holders(s) \cup {a}
  BY <1>1, ServerAssumption DEF Holders, KindFits, TypeOK
<1>6. \A t \in Servers \ {s} : Holders(t)' = Holders(t)
  BY <1>1, ServerAssumption DEF Holders, KindFits, TypeOK
<1>7. \A t \in Servers : Entered(t)' = Entered(t)
  BY <1>1, ServerAssumption DEF Entered, KindFits, TypeOK
<1>8. Cardinality(Holders(s) \cup {a}) = Cardinality(Holders(s)) + 1
  BY <1>5, HoldersFinite, FS_AddElement
<1>9. ASSUME NEW t \in Servers PROVE slots'[t] = Cardinality(Holders(t)')
  <2>1. slots[t] = Cardinality(Holders(t))
    BY DEF SlotsAccounted
  <2>2. CASE t = s
    BY <1>5, <1>8, <2>1, <2>2 DEF TypeOK
  <2>3. CASE t # s
    BY <1>6, <2>1, <2>3 DEF TypeOK
  <2>4. QED
    BY <2>2, <2>3
<1>10. SlotsAccounted'
  BY <1>7, <1>9 DEF SlotsAccounted
<1>11. QED
  BY <1>3, <1>4, <1>10

\* A request enters: no other of its server is at the match.
LEMMA ArriveStep ==
  ASSUME ServerInv, NEW r \in Requests, NEW s \in Servers, Arrive(r, s)
  PROVE  ServerInv'
<1> USE DEF ServerInv
<1>1. /\ r \in Actors /\ pc[r] = "idle" /\ ~inFlight[s] /\ at[r] = None
      /\ pc' = [pc EXCEPT ![r] = "reserve"]
      /\ at' = [at EXCEPT ![r] = s]
      /\ inFlight' = [inFlight EXCEPT ![s] = TRUE]
      /\ UNCHANGED <<obj, have, got, want, held, slots>>
  BY DEF Arrive, Goto, Actors, KindFits
<1>2. TypeOK'
  BY <1>1 DEF TypeOK
<1>3. KindFits' /\ KeepsDemos'
  BY <1>1, ServerAssumption DEF KindFits, KeepsDemos, Putting, Serving, TypeOK
<1>4. \A t \in Servers : Holders(t)' = Holders(t)
  BY <1>1, ServerAssumption DEF Holders, TypeOK
<1>5. Entered(s) = {}
  BY <1>1 DEF SlotsAccounted
<1>6. Entered(s)' = {r}
  BY <1>1, <1>5 DEF Entered, TypeOK, Actors
<1>7. \A t \in Servers \ {s} : Entered(t)' = Entered(t)
  BY <1>1, ServerAssumption DEF Entered, TypeOK, Actors
<1>8. ASSUME NEW t \in Servers
      PROVE  inFlight'[t] = (Entered(t)' # {}) /\ \A q, p \in Entered(t)' : q = p
  <2>1. CASE t = s
    BY <1>1, <1>6, <2>1 DEF TypeOK
  <2>2. CASE t # s
    BY <1>1, <1>7, <2>2 DEF TypeOK, SlotsAccounted
  <2>3. QED
    BY <2>1, <2>2
<1>9. SlotsAccounted'
  BY <1>1, <1>4, <1>8 DEF SlotsAccounted
<1>10. QED
  BY <1>2, <1>3, <1>9

\* A server that stops takes its requests with it.
LEMMA CrashStep ==
  ASSUME ServerInv, NEW s \in Servers, Crash(s)
  PROVE  ServerInv'
<1> USE DEF ServerInv
<1>1. \A a \in Actors :
        IF at[a] = s THEN pc'[a] = "idle" /\ at'[a] = None /\ got'[a] = None
        ELSE pc'[a] = pc[a] /\ at'[a] = at[a] /\ got'[a] = got[a]
  BY DEF Crash
<1>2. slots' = [slots EXCEPT ![s] = 0] /\ inFlight' = [inFlight EXCEPT ![s] = FALSE] /\ obj' = obj
  BY DEF Crash
<1>3. TypeOK'
  <2>1. slots' \in [Servers -> 0..Slots] /\ inFlight' \in [Servers -> BOOLEAN]
    BY <1>2, ServerAssumption DEF TypeOK
  <2>2. /\ pc' \in [Actors -> Serving \cup {"idle", "reserve", "upload"}]
        /\ at' \in [Actors -> Servers \cup {None}]
        /\ have' \in [Actors -> BadFlags]
    BY DEF TypeOK, Crash, BadFlags
  <2>3. /\ got' \in [Actors -> Bodies \cup {None}]
        /\ want' \in [Actors -> {"none", "this"}]
    BY DEF TypeOK, Crash
  <2>4. held' \in [Actors -> BOOLEAN]
    BY DEF TypeOK, Crash
  <2>5. QED
    BY <1>2, <2>1, <2>2, <2>3, <2>4 DEF TypeOK
<1>4. KindFits' /\ KeepsDemos'
  BY <1>1, ServerAssumption DEF KindFits, KeepsDemos, Putting, Serving
<1>5. Holders(s)' = {} /\ Entered(s)' = {}
  BY <1>1, ServerAssumption DEF Holders, Entered, Actors
<1>6. \A t \in Servers \ {s} : Holders(t)' = Holders(t) /\ Entered(t)' = Entered(t)
  BY <1>1, ServerAssumption DEF Holders, Entered, Actors
<1>7. ASSUME NEW t \in Servers
      PROVE  /\ slots'[t] = Cardinality(Holders(t)')
             /\ inFlight'[t] = (Entered(t)' # {}) /\ \A q, p \in Entered(t)' : q = p
  <2>1. CASE t = s
    BY <1>2, <1>5, <2>1, FS_EmptySet DEF TypeOK
  <2>2. CASE t # s
    BY <1>2, <1>6, <2>2 DEF TypeOK, SlotsAccounted
  <2>3. QED
    BY <2>1, <2>2
<1>8. SlotsAccounted'
  BY <1>7 DEF SlotsAccounted
<1>9. QED
  BY <1>3, <1>4, <1>8

\* What each request of the store leaves there is an object.
LEMMA StoredType ==
  ASSUME ServerInv, NEW a \in Actors
  PROVE  /\ pc[a] \in Putting => Fresh(a) \in Object
         /\ Rewrite("corrupt", TRUE) => obj' \in {None} \cup Object
         /\ Rewrite("bad", "this") => obj' \in {None} \cup Object
         /\ Rewrite("bad", "none") => obj' \in {None} \cup Object
<1>1. obj \in {None} \cup Object
  BY DEF ServerInv, TypeOK
<1>2. pc[a] \in Putting => Fresh(a) \in Object
  BY DEF ServerInv, TypeOK, KeepsDemos, Fresh, Object, BadFlags
<1>3. obj # None => /\ [obj EXCEPT !["corrupt"] = TRUE] \in Object
                    /\ [obj EXCEPT !["bad"] = "this"] \in Object
                    /\ [obj EXCEPT !["bad"] = "none"] \in Object
  BY <1>1 DEF Object, BadFlags
<1>4. QED
  BY <1>1, <1>2, <1>3 DEF Rewrite

\* Every step of an actor preserves the invariant.
LEMMA StepServer ==
  ASSUME ServerInv, NEW a \in Actors, Step(a)
  PROVE  ServerInv'
<1> USE DEF Serving, Putting
<1>0. /\ obj \in {None} \cup Object /\ at \in [Actors -> Servers \cup {None}]
      /\ have \in [Actors -> BadFlags] /\ got \in [Actors -> Bodies \cup {None}]
      /\ want \in [Actors -> {"none", "this"}] /\ held \in [Actors -> BOOLEAN]
  BY DEF ServerInv, TypeOK
<1>a. pc[a] \in Putting => got[a] \in Bodies /\ IsDemo(got[a])
  BY DEF ServerInv, KeepsDemos
<1>1. CASE a \in Requests /\ ReserveSlot(a)
  <2>1. at[a] \in Servers
    BY <1>1 DEF ReserveSlot, ServerInv, TypeOK, KindFits
  <2>2. CASE Answer(a) /\ UNCHANGED obj
    BY <1>0, <1>1, <2>2, AnswerStep DEF ReserveSlot
  <2>3. CASE /\ slots[at[a]] < Slots
             /\ slots' = [slots EXCEPT ![at[a]] = @ + 1]
             /\ Goto(a, "find")
             /\ UNCHANGED <<obj, local, inFlight>>
    <3>1. at' = [at EXCEPT ![a] = at[a]]
      BY <1>0, <2>3 DEF local
    <3>2. pc[a] = "reserve"
      BY <1>1 DEF ReserveSlot
    <3>3. QED
      BY <1>1, <2>1, <2>3, <3>1, <3>2, SlotTaken DEF local
  <2>4. QED
    BY <1>1, <2>2, <2>3 DEF ReserveSlot
<1>2. CASE a \in Uploads /\ ServeUpload(a)
  BY <1>0, <1>2, AnswerStep DEF ServeUpload
<1>b. CASE FindPresent(a)
  <2>1. CASE Answer(a)
    BY <1>0, <1>b, <2>1, AnswerStep DEF FindPresent
  <2>2. CASE GoOn(a, "download") /\ UNCHANGED local
    BY <1>0, <1>b, <2>2, GoOnStep DEF FindPresent, local
  <2>3. QED
    BY <1>b, <2>1, <2>2 DEF FindPresent
<1>3. CASE Find(a)
  <2>1. CASE GoOn(a, "download") /\ UNCHANGED <<obj, local>>
    BY <1>0, <1>3, <2>1, GoOnStep DEF Find, local
  <2>2. CASE /\ Usable /\ GoOn(a, "open") /\ have' = [have EXCEPT ![a] = obj.bad]
             /\ UNCHANGED <<at, got, want, held, obj>>
    <3>1. obj.bad \in BadFlags
      BY <1>0, <2>2 DEF Usable, Object
    <3>2. QED
      BY <1>0, <1>3, <2>2, <3>1, GoOnStep DEF Find
  <2>3. QED
    BY <1>3, <2>1, <2>2 DEF Find, local
<1>4. CASE OpenAndParse(a)
  <2>1. CASE Answer(a) /\ UNCHANGED obj
    BY <1>0, <1>4, <2>1, AnswerStep DEF OpenAndParse
  <2>2. ASSUME NEW l \in {"clearBad", "markCorrupt", "markBad", "download"},
               GoOn(a, l) /\ UNCHANGED <<obj, local>>
        PROVE  ServerInv'
    BY <1>0, <1>4, <2>2, GoOnStep DEF OpenAndParse, local
  <2>3. QED
    BY <1>4, <2>1, <2>2 DEF OpenAndParse
<1>5. CASE MarkCorrupt(a)
  BY <1>0, <1>5, StoredType, GoOnStep DEF MarkCorrupt, local
<1>6. CASE MarkBad(a)
  <2>1. obj' \in {None} \cup Object
    BY <1>6, StoredType DEF MarkBad
  <2>2. CASE Answer(a)
    BY <1>6, <2>1, <2>2, AnswerStep DEF MarkBad
  <2>3. CASE /\ held' = [held EXCEPT ![a] = TRUE]
             /\ GoOn(a, "download")
             /\ UNCHANGED <<at, have, got, want>>
    BY <1>0, <1>6, <2>1, <2>3, GoOnStep DEF MarkBad
  <2>4. QED
    BY <1>6, <2>2, <2>3 DEF MarkBad
<1>7. CASE ClearBad(a)
  BY <1>7, StoredType, AnswerStep DEF ClearBad
<1>8. CASE Download(a)
  <2>1. CASE Answer(a) /\ UNCHANGED obj
    BY <1>0, <1>8, <2>1, AnswerStep DEF Download
  <2>2. ASSUME NEW b \in Bodies, IsDemo(b), NEW flag \in {"none", "this"}, NEW l \in {"put", "flag"},
               Keep(a, b, flag, l), UNCHANGED obj
        PROVE  ServerInv'
    <3>1. got' = [got EXCEPT ![a] = b] /\ want' = [want EXCEPT ![a] = flag] /\ GoOn(a, l)
          /\ UNCHANGED <<at, have, held>>
      BY <2>2 DEF Keep
    <3>2. pc[a] = "download"
      BY <1>8 DEF Download
    <3>3. QED
      BY <1>0, <2>2, <3>1, <3>2, GoOnStep
  <2>3. QED
    BY <1>8, <2>1, <2>2 DEF Download, IsDemo, Accepted
<1>9. CASE Flag(a)
  BY <1>0, <1>a, <1>9, StoredType, GoOnStep DEF Flag, local
<1>10. CASE Put(a)
  <2>1. obj' \in {None} \cup Object
    BY <1>0, <1>10, StoredType DEF Put
  <2>2. CASE Answer(a)
    BY <1>10, <2>1, <2>2, AnswerStep DEF Put
  <2>3. CASE UNCHANGED local /\ GoOn(a, "putFind")
    BY <1>0, <1>a, <1>10, <2>1, <2>3, GoOnStep DEF Put, local
  <2>4. QED
    BY <1>10, <2>2, <2>3 DEF Put
<1>11. CASE PutFind(a)
  <2>1. CASE Answer(a)
    BY <1>0, <1>11, <2>1, AnswerStep DEF PutFind
  <2>2. CASE UNCHANGED local /\ GoOn(a, IF obj # None /\ obj.corrupt THEN "putOver" ELSE "putMerge")
    BY <1>0, <1>a, <1>11, <2>2, GoOnStep DEF PutFind, local
  <2>3. QED
    BY <1>11, <2>1, <2>2 DEF PutFind
<1>12. CASE PutMerge(a)
  BY <1>0, <1>12, StoredType, AnswerStep DEF PutMerge
<1>13. CASE PutOver(a)
  BY <1>0, <1>13, StoredType, AnswerStep DEF PutOver
<1>14. QED
  BY <1>b, <1>1, <1>2, <1>3, <1>4, <1>5, <1>6, <1>7, <1>8, <1>9, <1>10, <1>11, <1>12, <1>13 DEF Step

\* Every step preserves the invariant.
LEMMA NextServer ==
  ASSUME ServerInv, [Next]_vars
  PROVE  ServerInv'
<1>1. CASE UNCHANGED vars
  BY <1>1 DEF vars, local, ServerInv, TypeOK, KindFits, KeepsDemos, SlotsAccounted, Holders, Entered
<1>2. ASSUME NEW r \in Requests, NEW s \in Servers, Arrive(r, s) PROVE ServerInv'
  BY <1>2, ArriveStep
<1>3. ASSUME NEW u \in Uploads, NEW s \in Servers, Upload(u, s) PROVE ServerInv'
  BY <1>3, SlotTaken DEF Upload
<1>4. ASSUME NEW b \in Backfills \cup Workers, BeginBackfill(b) \/ BeginWork(b) PROVE ServerInv'
  <2>1. PICK l \in {"find", "open"} : pc[b] = "idle" /\ GoOn(b, l) /\ UNCHANGED <<obj, local>>
    BY <1>4 DEF BeginBackfill, BeginWork
  <2>2. b \in Actors
    BY DEF Actors
  <2>3. QED
    BY <2>1, <2>2, GoOnStep DEF ServerInv, TypeOK, local, Serving, Putting
<1>5. ASSUME NEW a \in Actors, Step(a) PROVE ServerInv'
  BY <1>5, StepServer
<1>6. CASE Retention
  BY <1>6 DEF Retention, local, ServerInv, TypeOK, KindFits, KeepsDemos, SlotsAccounted, Holders, Entered
<1>7. ASSUME NEW s \in Servers, Crash(s) PROVE ServerInv'
  BY <1>7, CrashStep
<1>8. QED
  BY <1>1, <1>2, <1>3, <1>4, <1>5, <1>6, <1>7 DEF Next, Begin

\* The inductive invariant holds throughout.
THEOREM ServerInvariance == Spec => []ServerInv
<1>1. ServerInv /\ [Next]_vars => ServerInv'
  BY NextServer
<1>2. QED
  BY <1>1, InitServer, PTL DEF Spec

\* Every state is well typed; no server has more parses than slots.
THEOREM ServerTypeCorrect == Spec => []TypeOK
<1>1. ServerInv => TypeOK
  BY DEF ServerInv
<1>2. QED
  BY <1>1, ServerInvariance, PTL

\* Slots and in-flight entries are those of the requests at work, whichever way
\* a request leaves its handler.
THEOREM SlotsNeverLeak == Spec => []SlotsAccounted
<1>1. ServerInv => SlotsAccounted
  BY DEF ServerInv
<1>2. QED
  BY <1>1, ServerInvariance, PTL

\* Whatever Valve serves and whoever stores it, only demos get into the vault.
THEOREM JunkStaysOut == Spec => OnlyDemosStored
<1>1. ASSUME ServerInv, [Next]_vars
      PROVE  [obj' # None /\ (obj = None \/ obj'.body # obj.body) => IsDemo(obj'.body)]_vars
  <2>1. SUFFICES ASSUME Next, obj' # None, obj = None \/ obj'.body # obj.body
                 PROVE  IsDemo(obj'.body)
    BY <1>1
  <2>2. obj \in {None} \cup Object
    BY <1>1 DEF ServerInv, TypeOK
  <2>3. \A field \in {"bad", "corrupt"} : \A v : Rewrite(field, v) => obj' = obj \/ (obj # None /\ obj'.body = obj.body)
    BY <2>2 DEF Rewrite, Object
  <2>4. PICK a \in Actors : Step(a)
    BY <2>1, <2>2 DEF Next, Begin, Arrive, Upload, BeginBackfill, BeginWork, Retention, Crash
  <2>5. PICK c \in Actors : pc[c] \in Putting /\ obj' = Fresh(c)
    BY <2>1, <2>3, <2>4 DEF Step, ReserveSlot, ServeUpload, Find, FindPresent, OpenAndParse, MarkCorrupt, MarkBad,
       ClearBad, Download, Flag, Put, PutFind, PutMerge, PutOver, Putting
  <2>6. IsDemo(got[c])
    BY <1>1, <2>5 DEF ServerInv, KeepsDemos
  <2>7. QED
    BY <2>5, <2>6 DEF Fresh
<1>2. QED
  BY <1>1, ServerInvariance, PTL DEF Spec, OnlyDemosStored

(***************************************************************************)
(* A single server process without backfills: there the in-flight map is   *)
(* enough to keep verdicts and bytes together.                             *)
(***************************************************************************)
OneServer == (\A s, t \in Servers : s = t) /\ Backfills = {}

\* A request that found the stored bytes wanting and has not begun to store.
Condemns(a) ==
  /\ a \in Requests
  /\ pc[a] \in {"markCorrupt", "markBad", "flag"} \/ (pc[a] = "download" /\ held[a])

Broken == obj = None \/ ~Accepted(obj.body)

VerdictInv ==
  /\ CorruptMeansBroken
  /\ \A a \in Actors : Condemns(a) => Broken
  /\ \A w \in Workers : pc[w] \in {"idle", "open", "markBad", "clearBad"}
  /\ \A a \in Actors : held[a] => pc[a] \in {"download"} \cup Putting

\* There is one request at a time.
LEMMA OneRequest ==
  ASSUME OneServer, ServerInv, NEW q \in Requests, NEW r \in Requests, pc[q] # "idle", pc[r] # "idle"
  PROVE  q = r
<1>1. q \in Actors /\ r \in Actors
  BY DEF Actors
<1>2. at[q] \in Servers /\ at[r] \in Servers
  BY <1>1 DEF ServerInv, TypeOK, KindFits
<1>3. at[q] = at[r]
  BY <1>2 DEF OneServer
<1>4. QED
  BY <1>2, <1>3 DEF ServerInv, SlotsAccounted, Entered

\* A step keeps the verdicts with the bytes they are about.
LEMMA VerdictStep ==
  ASSUME OneServer, ServerInv, VerdictInv, NEW a \in Actors, Step(a)
  PROVE  VerdictInv'
<1>1. /\ obj \in {None} \cup Object /\ pc \in [Actors -> Serving \cup {"idle", "reserve", "upload"}]
      /\ held \in [Actors -> BOOLEAN]
  BY DEF ServerInv, TypeOK
<1>2. a \in Requests \/ a \in Uploads \/ a \in Workers
  BY DEF Actors, OneServer
<1>3. /\ \A c \in Actors \ {a} : pc'[c] = pc[c] /\ held'[c] = held[c]
      /\ \E l : pc' = [pc EXCEPT ![a] = l]
  BY <1>1 DEF Step, ReserveSlot, ServeUpload, Find, FindPresent, OpenAndParse, MarkCorrupt, MarkBad, ClearBad,
     Download, Keep, Flag, Put, PutFind, PutMerge, PutOver, Answer, Forget, GoOn, Goto, local
<1> DEFINE KeepsBytes == obj' = obj \/ (obj # None /\ obj'.body = obj.body)
           Stores     == pc[a] \in Putting /\ obj' = Fresh(a) /\ pc'[a] \in {"idle", "putFind"}
<1>4. \A field \in {"bad", "corrupt"} : \A v : Rewrite(field, v) => KeepsBytes
  BY <1>1, ServerAssumption DEF Rewrite, Object
<1>5. KeepsBytes \/ Stores
  BY <1>1, <1>4 DEF Step, ReserveSlot, ServeUpload, Find, FindPresent, OpenAndParse, MarkCorrupt, MarkBad, ClearBad,
     Download, Flag, Put, PutFind, PutMerge, PutOver, Answer, Forget, GoOn, Goto, Putting
<1>6. /\ Condemns(a)' => Condemns(a) \/ Broken
      /\ held'[a] => pc'[a] \in {"download"} \cup Putting
  <2>1. held[a] => pc[a] \in {"download"} \cup Putting
    BY DEF VerdictInv
  <2>2. CASE pc'[a] = "idle" /\ held'[a] = FALSE
    BY <2>2 DEF Condemns
  <2>3. CASE ReserveSlot(a) \/ Find(a) \/ FindPresent(a)
    BY <1>1, <2>1, <2>2, <2>3 DEF ReserveSlot, Find, FindPresent, Answer, Forget, GoOn, Goto, local, Condemns, Putting
  <2>4. CASE OpenAndParse(a)
    BY <1>1, <2>1, <2>2, <2>4 DEF OpenAndParse, Answer, Forget, GoOn, Goto, local, Condemns, Broken, Accepted, Putting
  <2>5. CASE MarkCorrupt(a) \/ MarkBad(a) \/ Download(a) \/ Flag(a)
    BY <1>1, <2>1, <2>2, <2>5 DEF MarkCorrupt, MarkBad, Download, Keep, Flag, Answer, Forget, GoOn, Goto,
       local, Condemns, Putting
  <2>6. CASE Put(a) \/ PutFind(a)
    BY <1>1, <2>1, <2>2, <2>6 DEF Put, PutFind, Answer, Forget, GoOn, Goto, local, Condemns, Putting
  <2>7. CASE ServeUpload(a) \/ ClearBad(a) \/ PutMerge(a) \/ PutOver(a)
    BY <1>1, <2>2, <2>7 DEF ServeUpload, ClearBad, PutMerge, PutOver, Answer, Forget, Goto
  <2>8. QED
    BY <2>3, <2>4, <2>5, <2>6, <2>7 DEF Step
<1>7. Condemns(a)' => KeepsBytes
  BY <1>5 DEF Condemns
<1>8. ASSUME NEW c \in Actors, Condemns(c)' PROVE Broken'
  <2>1. CASE c = a
    BY <1>6, <1>7, <1>8, <2>1 DEF VerdictInv, Broken
  <2>2. CASE c # a
    <3>1. Condemns(c)
      BY <1>3, <1>8, <2>2 DEF Condemns
    <3>2. CASE Stores
      <4>1. a \in Requests
        BY <1>2, <3>2 DEF VerdictInv, ServerInv, KindFits, Putting, Serving
      <4>2. c = a
        BY <3>1, <3>2, <4>1, OneRequest DEF Condemns, Putting
      <4>3. QED
        BY <2>2, <4>2
    <3>3. CASE KeepsBytes
      BY <3>1, <3>3 DEF VerdictInv, Broken
    <3>4. QED
      BY <1>5, <3>2, <3>3
  <2>3. QED
    BY <2>1, <2>2
<1>9. CorruptMeansBroken'
  <2>1. CASE Stores
    BY <2>1 DEF CorruptMeansBroken, Fresh
  <2>2. CASE MarkCorrupt(a) \/ Flag(a)
    <3>1. Broken
      <4>1. a \in Requests
        BY <1>2, <2>2 DEF MarkCorrupt, Flag, VerdictInv, ServerInv, KindFits, Serving
      <4>2. QED
        BY <2>2, <4>1 DEF MarkCorrupt, Flag, VerdictInv, Condemns
    <3>2. KeepsBytes
      BY <1>4, <2>2 DEF MarkCorrupt, Flag
    <3>3. QED
      BY <3>1, <3>2 DEF Broken, CorruptMeansBroken
  <2>3. CASE ~Stores /\ ~MarkCorrupt(a) /\ ~Flag(a)
    <3>1. \A v : Rewrite("bad", v) => obj' = obj \/ (obj # None /\ obj'.corrupt = obj.corrupt)
      BY <1>1 DEF Rewrite, Object
    <3>2. obj' = obj \/ (obj # None /\ obj'.corrupt = obj.corrupt)
      BY <2>3, <3>1, <1>1 DEF Step, ReserveSlot, ServeUpload, Find, FindPresent, OpenAndParse, MarkBad, ClearBad,
         Download, Put, PutFind, PutMerge, PutOver, Answer, Forget, GoOn, Goto, Putting
    <3>3. QED
      BY <1>5, <2>3, <3>2 DEF VerdictInv, CorruptMeansBroken
  <2>4. QED
    BY <2>1, <2>2, <2>3
<1>10. ASSUME NEW w \in Workers PROVE pc'[w] \in {"idle", "open", "markBad", "clearBad"}
  <2>1. w \in Actors /\ w \notin Requests /\ w \notin Uploads
    BY ServerAssumption DEF Actors
  <2>2. CASE w # a
    BY <1>3, <2>1, <2>2 DEF VerdictInv
  <2>3. CASE w = a
    <3>1. pc[a] \in {"idle", "open", "markBad", "clearBad"}
      BY <2>3 DEF VerdictInv
    <3>2. OpenAndParse(a) \/ MarkBad(a) \/ ClearBad(a)
      BY <2>1, <2>3, <3>1 DEF Step, Find, FindPresent, MarkCorrupt, Download, Flag, Put, PutFind, PutMerge, PutOver
    <3>3. QED
      BY <1>1, <2>1, <2>3, <3>2 DEF OpenAndParse, MarkBad, ClearBad, Answer, Forget, GoOn, Goto
  <2>4. QED
    BY <2>2, <2>3
<1>11. ASSUME NEW c \in Actors, held'[c] PROVE pc'[c] \in {"download"} \cup Putting
  BY <1>3, <1>6, <1>11 DEF VerdictInv
<1>12. QED
  BY <1>8, <1>9, <1>10, <1>11 DEF VerdictInv

\* With one server and no backfill, a verdict never lands on bytes that replaced
\* the ones it is about.
THEOREM OneServerVerdicts ==
  ASSUME OneServer
  PROVE  Spec => []CorruptMeansBroken
<1>1. Init => VerdictInv
  BY DEF Init, VerdictInv, CorruptMeansBroken, Condemns, Object, Actors, Putting
<1>2. ASSUME ServerInv, VerdictInv, [Next]_vars PROVE VerdictInv'
  <2>1. CASE \E a \in Actors : Step(a)
    BY <1>2, <2>1, VerdictStep
  <2>2. CASE \/ \E r \in Requests, s \in Servers : Arrive(r, s)
             \/ \E u \in Uploads, s \in Servers : Upload(u, s)
             \/ \E w \in Workers : BeginWork(w)
    <3>1. /\ obj' = obj /\ held' = held
          /\ \E a \in Actors : \E l \in {"reserve", "upload", "open"} :
               pc[a] = "idle" /\ pc' = [pc EXCEPT ![a] = l] /\ (l = "open" \/ a \notin Workers)
      BY <2>2, ServerAssumption DEF Arrive, Upload, BeginWork, GoOn, Goto, Actors, local
    <3>2. pc \in [Actors -> Serving \cup {"idle", "reserve", "upload"}]
      BY <1>2 DEF ServerInv, TypeOK
    <3>3. QED
      BY <1>2, <3>1, <3>2 DEF VerdictInv, CorruptMeansBroken, Condemns, Broken, Actors, Putting
  <2>3. CASE Retention
    BY <1>2, <2>3 DEF Retention, local, VerdictInv, CorruptMeansBroken, Condemns, Broken
  <2>4. ASSUME NEW s \in Servers, Crash(s) PROVE VerdictInv'
    <3>1. /\ obj' = obj
          /\ \A a \in Actors : IF at[a] = s THEN pc'[a] = "idle" /\ ~held'[a]
                               ELSE pc'[a] = pc[a] /\ held'[a] = held[a]
      BY <2>4 DEF Crash
    <3>2. QED
      BY <1>2, <3>1 DEF VerdictInv, CorruptMeansBroken, Condemns, Broken, Actors
  <2>5. CASE UNCHANGED vars
    BY <1>2, <2>5 DEF vars, local, VerdictInv, CorruptMeansBroken, Condemns, Broken
  <2>6. QED
    BY <1>2, <2>1, <2>2, <2>3, <2>4, <2>5 DEF Next, Begin, OneServer
<1>3. VerdictInv => CorruptMeansBroken
  BY DEF VerdictInv
<1>4. QED
  BY <1>1, <1>2, <1>3, ServerInvariance, PTL DEF Spec
=============================================================================
