-------------------------- MODULE IndexSync_proofs --------------------------
(***************************************************************************)
(* What holds of the watcher and the drift pass for any files and texts,   *)
(* any number of edits, restarts and mishaps, and any number of retries.   *)
(***************************************************************************)
EXTENDS IndexSync, TLAPS

-----------------------------------------------------------------------------
(***************************************************************************)
(* The inductive invariant                                                 *)
(***************************************************************************)
Visit == [stage : Stages, file : Files \cup {None},
          hash : Content \cup {None}, hashVersion : 0..MaxEdits,
          text : Content \cup {None}, textVersion : 0..MaxEdits,
          misled : BOOLEAN, mixed : BOOLEAN]
WorkOK == work \in [Workers -> Visit]

\* Nobody else is at the file of a worker that is not marked as mixed.
UnmixedIsAlone ==
    \A w, o \in Workers :
        (w # o /\ work[w].file # None /\ ~work[w].mixed) => work[o].file # work[w].file

\* The text a visit of w to f commits if nobody intervenes is at least v edits old.
Carries(w, f, v) ==
    work[w].file = f =>
        /\ work[w].stage \in {"open", "judge", "commit"} => v <= work[w].textVersion
        /\ work[w].stage = "ask" => v <= doc[f].version

\* From its hash on, an unmixed visit of the drift pass handles nothing older
\* than what it hashed, up to the graph it committed to.
DriftCarries ==
    \A f \in Files : work["drift"].file = f =>
        /\ work["drift"].hashVersion <= version[f]
        /\ ~work["drift"].mixed =>
             /\ Carries("drift", f, work["drift"].hashVersion)
             /\ work["drift"].stage = "store" => work["drift"].hashVersion <= graph[f].version

\* A clean hash once recorded, neither the graph nor any visit under way is
\* older, and no later read can be.
StoredIsReached ==
    \A f \in Files : stored[f].clean =>
        /\ stored[f].version <= version[f]
        /\ stored[f].version <= graph[f].version
        /\ \A w \in Workers : Carries(w, f, stored[f].version)

\* From the read on a visit has a text, and one that asks has it open.
VisitHasText ==
    \A w \in Workers :
        /\ work[w].stage \in {"open", "ask", "judge", "commit", "store"} => work[w].text \in Content
        /\ work[w].stage = "ask" => doc[work[w].file].text \in Texts

\* What the guard let pass as empty has no rows left when it is committed.
EmptyHasNoRows ==
    \A f \in Files :
        (work["drift"].file = f /\ ~work["drift"].mixed
         /\ work["drift"].stage = "commit" /\ work["drift"].text = Blank)
        => graph[f].rows = 0

IInv ==
    /\ TypeOK
    /\ WorkOK
    /\ VisitHasText
    /\ UnmixedIsAlone
    /\ DriftCarries
    /\ StoredIsReached
    /\ EmptyHasNoRows

USE SyncAssumption

-----------------------------------------------------------------------------
(***************************************************************************)
(* What the steps do to the workers                                        *)
(***************************************************************************)
\* One worker gets another record, the other keeps its own.
LEMMA WorkUpdated ==
  ASSUME WorkOK, NEW w \in Workers, NEW r \in Visit, work' = [work EXCEPT ![w] = r]
  PROVE  /\ WorkOK'
         /\ work'[w] = r
         /\ \A o \in Workers \ {w} : work'[o] = work[o]
  BY DEF WorkOK

LEMMA IdleIsVisit == Idle \in Visit
  BY DEF Visit, Idle, Stages

\* A visit at another stage is a visit, and all else of it is the same.
LEMMA Restaged ==
  ASSUME NEW v \in Visit, NEW s \in Stages, NEW r, r = [v EXCEPT !.stage = s]
  PROVE  /\ r \in Visit
         /\ r.stage = s /\ r.file = v.file /\ r.mixed = v.mixed
         /\ r.text = v.text /\ r.textVersion = v.textVersion
         /\ r.hash = v.hash /\ r.hashVersion = v.hashVersion
  BY DEF Visit

\* A finished worker is idle, at no file.
LEMMA FinishEffect ==
  ASSUME WorkOK, NEW w \in Workers, Finish(w)
  PROVE  /\ WorkOK'
         /\ work'[w].stage = "idle" /\ work'[w].file = None /\ work'[w] = Idle
         /\ \A o \in Workers \ {w} : work'[o] = work[o]
<1>1. work' = [work EXCEPT ![w] = Idle]  BY DEF Finish
<1>2. Idle.stage = "idle" /\ Idle.file = None  BY DEF Idle
<1> QED  BY <1>1, <1>2, IdleIsVisit, WorkUpdated

\* Goto changes nothing but the stage.
LEMMA GotoEffect ==
  ASSUME WorkOK, NEW w \in Workers, NEW s \in Stages, Goto(w, s)
  PROVE  /\ WorkOK'
         /\ work'[w].stage = s
         /\ work'[w].file = work[w].file /\ work'[w].mixed = work[w].mixed
         /\ work'[w].text = work[w].text /\ work'[w].textVersion = work[w].textVersion
         /\ work'[w].hash = work[w].hash /\ work'[w].hashVersion = work[w].hashVersion
         /\ \A o \in Workers \ {w} : work'[o] = work[o]
<1> DEFINE r == [work[w] EXCEPT !.stage = s]
<1>1. work[w] \in Visit  BY DEF WorkOK
<1>2. /\ r \in Visit
      /\ r.stage = s /\ r.file = work[w].file /\ r.mixed = work[w].mixed
      /\ r.text = work[w].text /\ r.textVersion = work[w].textVersion
      /\ r.hash = work[w].hash /\ r.hashVersion = work[w].hashVersion
  BY <1>1, Restaged
<1>3. work' = [work EXCEPT ![w] = r]  BY DEF Goto
<1>4. WorkOK' /\ work'[w] = r /\ \A o \in Workers \ {w} : work'[o] = work[o]
  BY <1>2, <1>3, WorkUpdated
<1> QED  BY <1>2, <1>4

\* A worker that begins is marked if the other is at the file, and marks it.
LEMMA BeginEffect ==
  ASSUME WorkOK, NEW w \in Workers, NEW f \in Files, NEW s \in Stages, Begin(w, f, s)
  PROVE  /\ WorkOK'
         /\ work'[w].stage = s /\ work'[w].file = f /\ work'[w].hashVersion = 0
         /\ ~work'[w].mixed => \A o \in Workers \ {w} : work[o].file # f
         /\ \A o \in Workers \ {w} :
              /\ work'[o].stage = work[o].stage /\ work'[o].file = work[o].file
              /\ work'[o].text = work[o].text /\ work'[o].textVersion = work[o].textVersion
              /\ work'[o].hash = work[o].hash /\ work'[o].hashVersion = work[o].hashVersion
              /\ ~work'[o].mixed => ~work[o].mixed /\ work[o].file # f
<1> DEFINE r == [Idle EXCEPT !.stage = s, !.file = f, !.mixed = OtherOn(w, f)]
           q(o) == [work[o] EXCEPT !.mixed = @ \/ work[o].file = f]
<1>1. OtherOn(w, f) \in BOOLEAN  BY DEF OtherOn
<1>2. Idle.hashVersion = 0  BY DEF Idle
<1>3. /\ r \in Visit
      /\ r.stage = s /\ r.file = f /\ r.hashVersion = Idle.hashVersion
      /\ ~r.mixed => ~OtherOn(w, f)
  BY <1>1, IdleIsVisit DEF Visit
<1>4. \A o \in Workers : work[o] \in Visit  BY DEF WorkOK
<1>5. \A o \in Workers :
        /\ q(o) \in Visit
        /\ q(o).stage = work[o].stage /\ q(o).file = work[o].file
        /\ q(o).text = work[o].text /\ q(o).textVersion = work[o].textVersion
        /\ q(o).hash = work[o].hash /\ q(o).hashVersion = work[o].hashVersion
        /\ ~q(o).mixed => ~work[o].mixed /\ work[o].file # f
  BY <1>4 DEF Visit
<1>6. work' = [o \in Workers |-> IF o = w THEN r ELSE q(o)]  BY DEF Begin
<1>7. WorkOK' /\ work'[w] = r /\ \A o \in Workers \ {w} : work'[o] = q(o)
  BY <1>3, <1>5, <1>6 DEF WorkOK
<1> HIDE DEF r, q
<1>8. ~OtherOn(w, f) => \A o \in Workers \ {w} : work[o].file # f  BY DEF OtherOn
<1> QED  BY <1>2, <1>3, <1>5, <1>7, <1>8

-----------------------------------------------------------------------------
(***************************************************************************)
(* The invariant is kept by every action                                   *)
(***************************************************************************)
\* Start only sends the drift pass to scan.
LEMMA StartInv ==
  ASSUME IInv, Start
  PROVE  IInv'
<1> DEFINE w == "drift"
<1> USE DEF IInv, TypeOK
<1>1. w \in Workers /\ "scan" \in Stages /\ Goto(w, "scan") /\ work = [o \in Workers |-> Idle]
  BY DEF Start, Workers, Stages, Goto
<1>2. /\ WorkOK' /\ work'[w].stage = "scan" /\ work'[w].file = work[w].file
      /\ work'[w].mixed = work[w].mixed /\ work'[w].hashVersion = work[w].hashVersion
      /\ \A o \in Workers \ {w} : work'[o] = work[o]
  BY <1>1, GotoEffect
<1>3. /\ UNCHANGED <<disk, version, graph, stored, server, mishaps, doc, raised, pending,
                     todo, held, tries, missed, mixed>>
      /\ up' = TRUE /\ watching' \in BOOLEAN /\ starts' \in 0..MaxStarts
  BY DEF Start
<1>4. \A o \in Workers : work[o].file = None /\ work[o].stage = "idle"  BY <1>1 DEF Idle
<1> QED
  BY <1>1, <1>2, <1>3, <1>4 DEF VisitHasText, UnmixedIsAlone, DriftCarries,
     StoredIsReached, EmptyHasNoRows, Carries, Workers, Stages

\* Whatever was under way when the daemon ended is gone; the graph is not.
LEMMA ExitInv ==
  ASSUME IInv, Exit
  PROVE  IInv'
<1> USE DEF IInv, TypeOK
<1>1. /\ work' = [w \in Workers |-> Idle] /\ UNCHANGED <<disk, version, graph, stored>>
      /\ UNCHANGED <<starts, mishaps, missed, mixed>>
      /\ up' = FALSE /\ watching' = FALSE /\ server' = "down" /\ raised' = {} /\ pending' = {} /\ held' = {}
      /\ tries' = 0 /\ todo' = [w \in Workers |-> {}]
      /\ doc' \in [Files -> [text : Texts \cup {None}, version : 0..MaxEdits]]
  BY DEF Exit, NoDoc
<1>2. WorkOK' /\ \A w \in Workers : work'[w] = Idle  BY <1>1, IdleIsVisit DEF WorkOK
<1>3. Idle.stage = "idle" /\ Idle.file = None /\ Idle.hashVersion = 0  BY DEF Idle
<1>4. TypeOK'
  <2>1. (raised \cup pending \cup held)' = {}  BY <1>1
  <2>2. \A w \in Workers : work'[w].stage = "idle" /\ work'[w].file = None  BY <1>2, <1>3
  <2> HIDE DEF TypeOK
  <2>3. /\ disk' \in [Files -> Content] /\ version' \in [Files -> 0..MaxEdits]
        /\ graph' \in [Files -> [shown : Content, rows : 0..2, version : 0..MaxEdits]]
        /\ stored' \in [Files -> [hash : Content \cup {None}, version : 0..MaxEdits,
                                 clean : BOOLEAN]]
        /\ starts' \in 0..MaxStarts /\ mishaps' \in 0..MaxMishaps
        /\ missed' \in SUBSET Files /\ mixed' \in SUBSET Files
    BY <1>1 DEF TypeOK
  <2>4. tries' \in 0..MaxRetries /\ todo' \in [Workers -> SUBSET Files]  BY <1>1
  <2> QED  BY <1>1, <2>1, <2>2, <2>3, <2>4 DEF TypeOK, Stages
<1>5. (VisitHasText /\ UnmixedIsAlone /\ EmptyHasNoRows)'
  BY <1>2, <1>3 DEF VisitHasText, UnmixedIsAlone, EmptyHasNoRows, Workers
<1>6. (DriftCarries /\ StoredIsReached)'
  BY <1>1, <1>2, <1>3 DEF DriftCarries, StoredIsReached, Carries, Workers
<1> QED  BY <1>2, <1>4, <1>5, <1>6

\* A server that starts or warms up touches neither the graph nor the workers.
LEMMA ServerInv ==
  ASSUME IInv, ServerStarts \/ ServerWarmsUp
  PROVE  IInv'
<1>1. /\ UNCHANGED <<disk, version, graph, stored, up, starts, watching, mishaps, doc, raised, pending,
                     todo, held, tries, work, missed, mixed>>
      /\ server' \in {"down", "cold", "warm"}
  BY DEF ServerStarts, ServerWarmsUp
<1>2. TypeOK'  BY <1>1 DEF IInv, TypeOK
<1>3. (WorkOK /\ VisitHasText /\ UnmixedIsAlone /\ EmptyHasNoRows)'
  BY <1>1 DEF IInv, WorkOK, VisitHasText, UnmixedIsAlone, EmptyHasNoRows
<1>4. (DriftCarries /\ StoredIsReached)'
  BY <1>1 DEF IInv, DriftCarries, StoredIsReached, Carries
<1> QED  BY <1>2, <1>3, <1>4 DEF IInv

\* An edit makes the text on disk younger, and nothing else.
LEMMA EditInv ==
  ASSUME IInv, NEW f \in Files, NEW c \in Content, Edit(f, c)
  PROVE  IInv'
<1>1. /\ UNCHANGED <<graph, stored, up, starts, watching, server, mishaps, doc, pending, todo, held, tries,
                     work, missed, mixed>>
      /\ disk' = [disk EXCEPT ![f] = c] /\ version' = [version EXCEPT ![f] = @ + 1]
      /\ version[f] + mishaps < MaxEdits /\ raised' \in {raised, raised \cup {f}} /\ (~up => raised' = raised)
  BY DEF Edit
<1>2. /\ version' \in [Files -> 0..MaxEdits] /\ disk' \in [Files -> Content]
      /\ \A g \in Files : version[g] <= version'[g]
  BY <1>1 DEF IInv, TypeOK
<1>3. TypeOK'  BY <1>1, <1>2 DEF IInv, TypeOK
<1>4. (WorkOK /\ VisitHasText /\ UnmixedIsAlone /\ EmptyHasNoRows)'
  BY <1>1 DEF IInv, WorkOK, VisitHasText, UnmixedIsAlone, EmptyHasNoRows
<1>5. (DriftCarries /\ StoredIsReached)'
  BY <1>1, <1>2 DEF IInv, TypeOK, WorkOK, Visit, DriftCarries, StoredIsReached, Carries, Workers
<1> QED  BY <1>3, <1>4, <1>5 DEF IInv

\* A round begins: what was pending is to be visited.
LEMMA FireInv ==
  ASSUME IInv, Fire
  PROVE  IInv'
  BY DEF IInv, TypeOK, WorkOK, VisitHasText, UnmixedIsAlone, DriftCarries, StoredIsReached,
         EmptyHasNoRows, Carries, Fire, Selecting, At, Round

\* An event received is pending.
LEMMA ReceiveInv ==
  ASSUME IInv, NEW f \in Files, Receive(f)
  PROVE  IInv'
  BY DEF IInv, TypeOK, WorkOK, VisitHasText, UnmixedIsAlone, DriftCarries, StoredIsReached,
         EmptyHasNoRows, Carries, Receive, Selecting, At

\* The scan finds the candidates and begins with none of them.
LEMMA ScanInv ==
  ASSUME IInv, Scan
  PROVE  IInv'
<1> USE DEF IInv, TypeOK
<1>1. "drift" \in Workers /\ Finish("drift") /\ work["drift"].stage = "scan" /\ up
  BY DEF Scan, Workers, At
<1>2. /\ WorkOK'
      /\ work'["drift"].stage = "idle" /\ work'["drift"].file = None /\ work'["drift"] = Idle
      /\ \A o \in Workers \ {"drift"} : work'[o] = work[o]
  BY <1>1, FinishEffect
<1>3. /\ UNCHANGED <<outside, graph, stored, doc, held, tries, missed, mixed>>
      /\ todo' \in [Workers -> SUBSET Files]
  BY DEF Scan, Candidates
<1> QED
  BY <1>1, <1>2, <1>3 DEF VisitHasText, UnmixedIsAlone, DriftCarries, StoredIsReached,
     EmptyHasNoRows, Carries, Workers, Stages, outside, around

\* The watcher begins with a file.
LEMMA TakeWatchedInv ==
  ASSUME IInv, NEW f \in Files, TakeWatched(f)
  PROVE  IInv'
<1> USE DEF IInv, TypeOK, VisitHasText, UnmixedIsAlone, DriftCarries, StoredIsReached,
            EmptyHasNoRows, Carries
<1>1. "watcher" \in Workers /\ "read" \in Stages  BY DEF Workers, Stages
<1>2. Begin("watcher", f, "read")  BY DEF TakeWatched
<1>3. /\ WorkOK'
      /\ work'["watcher"].stage = "read" /\ work'["watcher"].file = f
      /\ ~work'["watcher"].mixed => \A o \in Workers \ {"watcher"} : work[o].file # f
      /\ \A o \in Workers \ {"watcher"} :
           /\ work'[o].stage = work[o].stage /\ work'[o].file = work[o].file
           /\ work'[o].text = work[o].text /\ work'[o].textVersion = work[o].textVersion
           /\ work'[o].hash = work[o].hash /\ work'[o].hashVersion = work[o].hashVersion
           /\ ~work'[o].mixed => ~work[o].mixed /\ work[o].file # f
  BY <1>1, <1>2, BeginEffect
<1> QED  BY <1>3 DEF TakeWatched, At, outside, around, Workers, Stages

\* The drift pass begins with a file, for the first time or once more.
LEMMA TakeDriftedInv ==
  ASSUME IInv, NEW f \in Files, TakeDrifted(f) \/ Retry(f)
  PROVE  IInv'
<1> USE DEF IInv, TypeOK, VisitHasText, UnmixedIsAlone, DriftCarries, StoredIsReached,
            EmptyHasNoRows, Carries
<1>1. "drift" \in Workers /\ "hash" \in Stages  BY DEF Workers, Stages
<1>2. Begin("drift", f, "hash")  BY DEF TakeDrifted, Retry
<1>3. /\ WorkOK'
      /\ work'["drift"].stage = "hash" /\ work'["drift"].file = f
      /\ work'["drift"].hashVersion = 0
      /\ ~work'["drift"].mixed => \A o \in Workers \ {"drift"} : work[o].file # f
      /\ \A o \in Workers \ {"drift"} :
           /\ work'[o].stage = work[o].stage /\ work'[o].file = work[o].file
           /\ work'[o].text = work[o].text /\ work'[o].textVersion = work[o].textVersion
           /\ work'[o].hash = work[o].hash /\ work'[o].hashVersion = work[o].hashVersion
           /\ ~work'[o].mixed => ~work[o].mixed /\ work[o].file # f
  BY <1>1, <1>2, BeginEffect
<1>4. up /\ UNCHANGED <<outside, graph, stored, doc, held, missed, mixed>>
  BY DEF TakeDrifted, Retry, At
<1>5. todo' \in [Workers -> SUBSET Files]  BY DEF TakeDrifted, Retry
<1>6. tries' \in 0..MaxRetries  BY DEF TakeDrifted, Retry
<1> QED  BY <1>3, <1>4, <1>5, <1>6 DEF outside, around, Workers, Stages

\* A read goes well, or is one mishap more.
LEMMA FoundEffect ==
  ASSUME IInv, NEW f \in Files, NEW c \in Content, Found(f, c)
  PROVE  mishaps' \in 0..MaxMishaps
  BY DEF IInv, TypeOK, Found, Mishap

\* A spared file is settled; the hash of any other is of this very version.
LEMMA HashInv ==
  ASSUME IInv, NEW c \in Content, Hash(c)
  PROVE  IInv'
<1> USE DEF IInv, TypeOK, VisitHasText, UnmixedIsAlone, DriftCarries, StoredIsReached,
            EmptyHasNoRows, Carries
<1>1. "drift" \in Workers /\ work["drift"] \in Visit /\ work["drift"].file \in Files
      /\ disk[work["drift"].file] \in Content /\ version[work["drift"].file] \in 0..MaxEdits
  BY DEF Hash, At, WorkOK, Workers
<1>2. /\ At("drift", "hash") /\ UNCHANGED <<around, graph, stored, doc, todo, mixed>>
      /\ mishaps' \in 0..MaxMishaps
      /\ held' \in SUBSET Files /\ tries' \in 0..MaxRetries /\ missed' \in SUBSET Files
  BY <1>1, FoundEffect DEF Hash, DriftSettles
<1>3. CASE Spared(work["drift"].file, c)
  <2>1. Finish("drift")  BY <1>3 DEF Hash
  <2>2. /\ WorkOK'
        /\ work'["drift"].stage = "idle" /\ work'["drift"].file = None /\ work'["drift"] = Idle
        /\ \A o \in Workers \ {"drift"} : work'[o] = work[o]
    BY <1>1, <2>1, FinishEffect
  <2> QED  BY <1>1, <1>2, <2>2 DEF At, outside, around, Workers, Stages
<1>4. CASE ~Spared(work["drift"].file, c)
  <2> DEFINE f == work["drift"].file
             r == [work["drift"] EXCEPT !.stage = "read", !.hash = c,
                                        !.hashVersion = version[f]]
  <2>1. /\ r \in Visit /\ r.stage = "read" /\ r.file = f /\ r.mixed = work["drift"].mixed
        /\ r.hashVersion = version[f]
    BY <1>1 DEF Visit, Stages, Content
  <2>2. work' = [work EXCEPT !["drift"] = r]  BY <1>4 DEF Hash
  <2> HIDE DEF r
  <2>3. WorkOK' /\ work'["drift"] = r /\ \A o \in Workers \ {"drift"} : work'[o] = work[o]
    BY <1>1, <2>1, <2>2, WorkUpdated
  <2>4. /\ work'["drift"].stage = "read" /\ work'["drift"].file = f
        /\ work'["drift"].mixed = work["drift"].mixed /\ work'["drift"].hashVersion = version[f]
    BY <2>1, <2>3
  <2> QED  BY <1>1, <1>2, <2>3, <2>4 DEF At, outside, around, Workers, Stages
<1> QED  BY <1>3, <1>4

\* Without a server the visit is over.
LEMMA UnavailableInv ==
  ASSUME IInv, NEW w \in Workers, Unavailable(w)
  PROVE  IInv'
<1> USE DEF IInv, TypeOK, VisitHasText, UnmixedIsAlone, DriftCarries, StoredIsReached,
            EmptyHasNoRows, Carries
<1>1. Finish(w)  BY DEF Unavailable
<1>2. /\ WorkOK'
      /\ work'[w].stage = "idle" /\ work'[w].file = None /\ work'[w] = Idle
      /\ \A o \in Workers \ {w} : work'[o] = work[o]
  BY <1>1, FinishEffect
<1>3. /\ At(w, "read") /\ work[w].file \in Files
      /\ UNCHANGED <<outside, graph, stored, doc, todo, mixed>>
  BY DEF Unavailable, At
<1>4. held' \in SUBSET Files /\ tries' \in 0..MaxRetries /\ missed' \in SUBSET Files
  BY <1>3 DEF Unavailable, DriftLeaves
<1> QED  BY <1>2, <1>3, <1>4 DEF At, outside, around, Workers, Stages

\* A read finds a text no older than what was hashed or recorded.
LEMMA ReadInv ==
  ASSUME IInv, NEW w \in Workers, NEW c \in Content, Read(w, c)
  PROVE  IInv'
<1> USE DEF IInv, TypeOK, VisitHasText, UnmixedIsAlone, DriftCarries, StoredIsReached,
            EmptyHasNoRows, Carries
<1>1. /\ work[w] \in Visit /\ work[w].file \in Files
      /\ disk[work[w].file] \in Content /\ version[work[w].file] \in 0..MaxEdits
  BY DEF Read, At, WorkOK
<1>a. (c # disk[work[w].file]) \in BOOLEAN  OBVIOUS
<1> DEFINE r == [work[w] EXCEPT !.stage = "open", !.misled = c # disk[work[w].file],
                                  !.text = c, !.textVersion = version[work[w].file]]
<1>2. /\ r \in Visit
      /\ r.stage = "open" /\ r.file = work[w].file
      /\ r.mixed = work[w].mixed /\ r.text = c
      /\ r.textVersion = version[work[w].file] /\ r.hashVersion = work[w].hashVersion
  BY <1>1, <1>a DEF Visit, Stages, Content
<1>3. work' = [work EXCEPT ![w] = r]  BY DEF Read
<1> HIDE DEF r
<1>4. /\ WorkOK' /\ work'[w] = r
      /\ \A o \in Workers \ {w} : work'[o] = work[o]
  BY <1>2, <1>3, WorkUpdated
<1>5. /\ WorkOK'
      /\ work'[w].stage = "open" /\ work'[w].file = work[w].file
      /\ work'[w].mixed = work[w].mixed /\ work'[w].text = c
      /\ work'[w].textVersion = version[work[w].file] /\ work'[w].hashVersion = work[w].hashVersion
      /\ \A o \in Workers \ {w} : work'[o] = work[o]
  BY <1>2, <1>4
<1>6. /\ At(w, "read") /\ UNCHANGED <<around, graph, stored, doc, todo, held, tries, missed, mixed>>
      /\ mishaps' \in 0..MaxMishaps
  BY <1>1, FoundEffect DEF Read
<1> QED  BY <1>1, <1>5, <1>6 DEF At, around, Workers, Stages

\* The server has the text of this visit.
LEMMA OpenInv ==
  ASSUME IInv, NEW w \in Workers, Open(w)
  PROVE  IInv'
<1> USE DEF IInv, TypeOK, VisitHasText, UnmixedIsAlone, DriftCarries, StoredIsReached,
            EmptyHasNoRows, Carries
<1>1. /\ work[w] \in Visit /\ work[w].file \in Files /\ work[w].textVersion \in 0..MaxEdits
      /\ TextOf(work[w].text) \in Texts /\ "ask" \in Stages
  BY DEF Open, At, WorkOK, Visit, TextOf, Content, Stages
<1>2. Goto(w, "ask")  BY DEF Open
<1>3. /\ WorkOK' /\ work'[w].stage = "ask" /\ work'[w].file = work[w].file
      /\ work'[w].mixed = work[w].mixed /\ work'[w].text = work[w].text
      /\ work'[w].textVersion = work[w].textVersion /\ work'[w].hashVersion = work[w].hashVersion
      /\ \A o \in Workers \ {w} : work'[o] = work[o]
  BY <1>1, <1>2, GotoEffect
<1> QED  BY SMTT(30), <1>1, <1>3 DEF Open, At, outside, around, Workers, Stages

\* The answer is of the text that is open, or of none while the server is cold.
LEMMA AskInv ==
  ASSUME IInv, NEW w \in Workers, Ask(w)
  PROVE  IInv'
<1> USE DEF IInv, TypeOK, VisitHasText, UnmixedIsAlone, DriftCarries, StoredIsReached,
            EmptyHasNoRows, Carries
<1> DEFINE d == doc[work[w].file]
<1>0. /\ At(w, "ask") /\ UNCHANGED <<outside, graph, stored, doc, todo, held, tries, missed, mixed>>
      /\ Answer(w, d.text, d.version) \/ Answer(w, Blank, d.version)
  BY DEF Ask
<1>1. /\ work[w] \in Visit /\ work[w].file \in Files /\ d.version \in 0..MaxEdits
      /\ server \in {"down", "cold", "warm"} /\ work[w].misled \in BOOLEAN
  BY <1>0 DEF At, WorkOK, Visit
<1>a. PICK c \in Texts : Answer(w, c, d.version)  BY <1>0 DEF At
<1>b. (work[w].misled \/ server = "cold") \in BOOLEAN  OBVIOUS
<1> DEFINE t == IF work[w].text = Missing /\ ~HasSymbols(c) THEN Missing ELSE c
           s == IF w = "drift" THEN "judge" ELSE "commit"
           r == [work[w] EXCEPT !.stage = s, !.text = t, !.textVersion = d.version,
                                !.misled = @ \/ server = "cold"]
<1>c. t \in Content /\ s \in {"judge", "commit"} /\ (s = "commit" => w # "drift")
  BY DEF Content
<1> HIDE DEF t, s
<1>2. /\ r \in Visit /\ r.stage = s /\ r.file = work[w].file /\ r.mixed = work[w].mixed
      /\ r.text = t /\ r.textVersion = d.version /\ r.hashVersion = work[w].hashVersion
  BY <1>1, <1>b, <1>c DEF Visit, Stages, Content
<1>3. work' = [work EXCEPT ![w] = r]  BY <1>a DEF Answer, t, s
<1> HIDE DEF r
<1>4. WorkOK' /\ work'[w] = r /\ \A o \in Workers \ {w} : work'[o] = work[o]
  BY <1>2, <1>3, WorkUpdated
<1>5. /\ WorkOK' /\ work'[w].stage = s /\ work'[w].file = work[w].file
      /\ work'[w].mixed = work[w].mixed /\ work'[w].text = t
      /\ work'[w].textVersion = d.version /\ work'[w].hashVersion = work[w].hashVersion
      /\ \A o \in Workers \ {w} : work'[o] = work[o]
  BY <1>2, <1>4
<1> QED  BY <1>0, <1>1, <1>c, <1>5 DEF At, outside, around, Workers, Stages

\* The guard lets an empty answer pass only for a file without rows.
LEMMA JudgeInv ==
  ASSUME IInv, Judge
  PROVE  IInv'
<1> USE DEF IInv, TypeOK, VisitHasText, UnmixedIsAlone, DriftCarries, StoredIsReached,
            EmptyHasNoRows, Carries
<1> DEFINE w == "drift"
<1>1. /\ w \in Workers /\ work[w] \in Visit /\ work[w].file \in Files /\ "commit" \in Stages
      /\ graph[work[w].file].rows \in 0..2
  BY DEF Judge, At, WorkOK, Workers, Stages
<1>a. /\ At(w, "judge") /\ UNCHANGED <<outside, graph, stored, doc, todo, mixed>>
  BY DEF Judge
<1>b. held' \in SUBSET Files /\ tries' \in 0..MaxRetries /\ missed' \in SUBSET Files
  BY <1>1 DEF Judge, DriftLeaves
<1>3. CASE work[w].text = Blank /\ HasRows(work[w].file)
  <2>1. Finish(w)  BY <1>3 DEF Judge
  <2>2. /\ WorkOK'
        /\ work'[w].stage = "idle" /\ work'[w].file = None /\ work'[w] = Idle
        /\ \A o \in Workers \ {w} : work'[o] = work[o]
    BY <1>1, <2>1, FinishEffect
  <2> QED  BY <1>1, <1>a, <1>b, <2>2 DEF At, outside, around, Workers, Stages
<1>4. CASE ~(work[w].text = Blank /\ HasRows(work[w].file))
  <2>1. Goto(w, "commit")  BY <1>4 DEF Judge
  <2>2. /\ WorkOK' /\ work'[w].stage = "commit" /\ work'[w].file = work[w].file
        /\ work'[w].mixed = work[w].mixed /\ work'[w].text = work[w].text
        /\ work'[w].textVersion = work[w].textVersion
        /\ work'[w].hashVersion = work[w].hashVersion
        /\ \A o \in Workers \ {w} : work'[o] = work[o]
    BY <1>1, <2>1, GotoEffect
  <2>3. work[w].text = Blank => graph[work[w].file].rows = 0  BY <1>1, <1>4 DEF HasRows
  <2> QED  BY <1>1, <1>a, <1>b, <2>2, <2>3 DEF At, outside, around, Workers, Stages
<1> QED  BY <1>3, <1>4 DEF HasRows

\* The graph gets the text of the visit, which nothing recorded is younger than.
LEMMA CommitInv ==
  ASSUME IInv, NEW w \in Workers, Commit(w)
  PROVE  IInv'
<1> USE DEF IInv, TypeOK, VisitHasText, UnmixedIsAlone, DriftCarries, StoredIsReached,
            EmptyHasNoRows, Carries
<1> DEFINE f == work[w].file
<1>1. /\ work[w] \in Visit /\ f \in Files /\ work[w].text \in Content
      /\ work[w].textVersion \in 0..MaxEdits /\ {"store", "idle"} \subseteq Stages
  BY DEF Commit, At, WorkOK, Visit, Stages
<1>2. /\ At(w, "commit") /\ UNCHANGED <<outside, stored, doc, todo, held, tries>>
      /\ graph' = [graph EXCEPT ![f] =
           [shown |-> work[w].text, rows |-> RowsAfter(graph[f].rows, work[w].text),
            version |-> work[w].textVersion]]
  BY DEF Commit
<1>3. RowsAfter(graph[f].rows, work[w].text) \in 0..2  BY <1>1 DEF RowsAfter
<1>4. missed' \in SUBSET Files /\ mixed' \in SUBSET Files  BY <1>1 DEF Commit
<1>5. /\ graph' \in [Files -> [shown : Content, rows : 0..2, version : 0..MaxEdits]]
      /\ graph'[f].version = work[w].textVersion
      /\ \A g \in Files \ {f} : graph'[g] = graph[g]
  BY <1>1, <1>2, <1>3
<1>6. CASE w = "drift"
  <2>1. Goto(w, "store")  BY <1>6 DEF Commit
  <2>2. /\ WorkOK' /\ work'[w].stage = "store" /\ work'[w].file = f
        /\ work'[w].mixed = work[w].mixed /\ work'[w].text = work[w].text
        /\ work'[w].hashVersion = work[w].hashVersion
        /\ \A o \in Workers \ {w} : work'[o] = work[o]
    BY <1>1, <2>1, GotoEffect
  <2>3. At(w, "commit") /\ UNCHANGED <<outside, stored, doc, todo, held, tries>>  BY <1>2
  <2> QED  BY SMTT(30), <1>1, <1>4, <1>5, <1>6, <2>2, <2>3 DEF At, outside, around, Workers, Stages
<1>7. CASE w # "drift"
  <2>1. Finish(w)  BY <1>7 DEF Commit
  <2>2. /\ WorkOK'
        /\ work'[w].stage = "idle" /\ work'[w].file = None /\ work'[w] = Idle
        /\ \A o \in Workers \ {w} : work'[o] = work[o]
    BY <2>1, FinishEffect
  <2>3. At(w, "commit") /\ UNCHANGED <<outside, stored, doc, todo, held, tries>>  BY <1>2
  <2>4. TypeOK'  BY <1>1, <1>4, <1>5, <1>7, <2>2, <2>3 DEF At, outside, around, Workers, Stages
  <2>5. (VisitHasText /\ UnmixedIsAlone)'
    BY <1>1, <1>5, <1>7, <2>2, <2>3 DEF At, outside, around, Workers, Stages
  <2>6. DriftCarries'  BY <1>1, <1>5, <1>7, <2>2, <2>3 DEF At, outside, around, Workers, Stages
  <2>7. StoredIsReached'  BY <1>1, <1>5, <1>7, <2>2, <2>3 DEF At, outside, around, Workers, Stages
  <2>8. EmptyHasNoRows'  BY <1>1, <1>5, <1>7, <2>2, <2>3 DEF At, outside, around, Workers, Stages
  <2> QED  BY <2>2, <2>4, <2>5, <2>6, <2>7, <2>8
<1> QED  BY <1>6, <1>7 DEF IInv

\* A clean hash is recorded when nobody else is at the file.
LEMMA StoreInv ==
  ASSUME IInv, Store
  PROVE  IInv'
<1> USE DEF IInv, TypeOK, VisitHasText, UnmixedIsAlone, DriftCarries, StoredIsReached,
            EmptyHasNoRows, Carries
<1> DEFINE f == work["drift"].file
<1>1. "drift" \in Workers /\ work["drift"] \in Visit /\ f \in Files
  BY DEF Store, At, WorkOK, Workers
<1>2. Finish("drift")  BY DEF Store
<1>3. /\ WorkOK'
      /\ work'["drift"].stage = "idle" /\ work'["drift"].file = None /\ work'["drift"] = Idle
      /\ \A o \in Workers \ {"drift"} : work'[o] = work[o]
  BY <1>1, <1>2, FinishEffect
<1>4. /\ At("drift", "store") /\ UNCHANGED <<outside, graph, doc, todo, missed, mixed>>
      /\ stored' = [stored EXCEPT ![f] = Recorded(f)]
  BY DEF Store
<1>5. held' \in SUBSET Files /\ tries' \in 0..MaxRetries  BY <1>1 DEF Store, DriftSettles
<1>6. /\ Recorded(f) \in [hash : Content \cup {None}, version : 0..MaxEdits, clean : BOOLEAN]
      /\ Recorded(f).version = work["drift"].hashVersion
      /\ Recorded(f).clean => ~work["drift"].mixed
  BY <1>1 DEF Recorded, Visit
<1>7. /\ stored' \in [Files -> [hash : Content \cup {None}, version : 0..MaxEdits, clean : BOOLEAN]]
      /\ stored'[f].version = work["drift"].hashVersion
      /\ stored'[f].clean => ~work["drift"].mixed
      /\ \A g \in Files \ {f} : stored'[g] = stored[g]
  BY <1>1, <1>4, <1>6
<1>8. At("drift", "store") /\ UNCHANGED <<outside, graph, doc, todo, missed, mixed>>  BY <1>4
<1>11. TypeOK'  BY <1>1, <1>3, <1>5, <1>7, <1>8 DEF At, outside, around, Workers, Stages
<1>12. VisitHasText'  BY <1>1, <1>3, <1>5, <1>7, <1>8 DEF At, outside, around, Workers, Stages
<1>13. UnmixedIsAlone'  BY <1>1, <1>3, <1>5, <1>7, <1>8 DEF At, outside, around, Workers, Stages
<1>14. DriftCarries'  BY <1>1, <1>3, <1>5, <1>7, <1>8 DEF At, outside, around, Workers, Stages
<1>15. StoredIsReached'  BY <1>1, <1>3, <1>5, <1>7, <1>8 DEF At, outside, around, Workers, Stages
<1>16. EmptyHasNoRows'  BY <1>1, <1>3, <1>5, <1>7, <1>8 DEF At, outside, around, Workers, Stages
<1> QED  BY <1>1, <1>3, <1>5, <1>7, <1>8, <1>11, <1>12, <1>13, <1>14, <1>15, <1>16

\* A failed visit is over.
LEMMA FailsInv ==
  ASSUME IInv, NEW w \in Workers, Fails(w)
  PROVE  IInv'
<1> USE DEF IInv, TypeOK, VisitHasText, UnmixedIsAlone, DriftCarries, StoredIsReached,
            EmptyHasNoRows, Carries
<1>1. Finish(w)  BY DEF Fails
<1>2. /\ WorkOK'
      /\ work'[w].stage = "idle" /\ work'[w].file = None /\ work'[w] = Idle
      /\ \A o \in Workers \ {w} : work'[o] = work[o]
  BY <1>1, FinishEffect
<1>3. /\ up /\ work[w].file \in Files
      /\ UNCHANGED <<around, graph, stored, doc, todo, mixed>>
  BY DEF Fails
<1>4. /\ held' \in SUBSET Files /\ tries' \in 0..MaxRetries /\ missed' \in SUBSET Files
      /\ mishaps' \in 0..MaxMishaps
  BY <1>3 DEF Fails, DriftSettles, Mishap
<1> QED  BY <1>2, <1>3, <1>4 DEF outside, around, Workers, Stages

\* The visits that were talking to the server are lost, and so is what it had open.
LEMMA ServerCrashesInv ==
  ASSUME IInv, ServerCrashes
  PROVE  IInv'
<1> USE DEF IInv, TypeOK, VisitHasText, UnmixedIsAlone, DriftCarries, StoredIsReached,
            EmptyHasNoRows, Carries
<1> DEFINE r(w) == IF work[w].stage \in {"open", "ask"}
                   THEN [work[w] EXCEPT !.stage = "lost"] ELSE work[w]
<1>1. \A w \in Workers : work[w] \in Visit  BY DEF WorkOK
<1>2. \A w \in Workers :
        /\ r(w) \in Visit /\ r(w).file = work[w].file /\ r(w).mixed = work[w].mixed
        /\ r(w).stage = IF work[w].stage \in {"open", "ask"} THEN "lost" ELSE work[w].stage
        /\ r(w).text = work[w].text /\ r(w).textVersion = work[w].textVersion
        /\ r(w).hashVersion = work[w].hashVersion
  <2> TAKE w \in Workers
  <2> DEFINE l == [work[w] EXCEPT !.stage = "lost"]
  <2>1. /\ l \in Visit /\ l.stage = "lost" /\ l.file = work[w].file /\ l.mixed = work[w].mixed
        /\ l.text = work[w].text /\ l.textVersion = work[w].textVersion
        /\ l.hashVersion = work[w].hashVersion
    <3>1. work[w] \in Visit /\ "lost" \in Stages  BY <1>1 DEF Stages
    <3> QED  BY <3>1, Restaged
  <2>2. CASE work[w].stage \in {"open", "ask"}
    <3>1. r(w) = l  BY <2>2
    <3> HIDE DEF l, r
    <3> QED  BY <2>1, <2>2, <3>1
  <2>3. CASE work[w].stage \notin {"open", "ask"}
    <3>1. r(w) = work[w]  BY <2>3
    <3> HIDE DEF r
    <3> QED  BY <1>1, <2>3, <3>1
  <2> QED  BY <2>2, <2>3
<1>3. work' = [w \in Workers |-> r(w)]  BY DEF ServerCrashes
<1> HIDE DEF r
<1>4. WorkOK' /\ \A w \in Workers : work'[w] = r(w)  BY <1>2, <1>3 DEF WorkOK
<1>5. \A w \in Workers :
        /\ work'[w].file = work[w].file /\ work'[w].mixed = work[w].mixed
        /\ work'[w].stage = IF work[w].stage \in {"open", "ask"} THEN "lost" ELSE work[w].stage
        /\ work'[w].text = work[w].text /\ work'[w].textVersion = work[w].textVersion
        /\ work'[w].hashVersion = work[w].hashVersion
  BY <1>2, <1>4
<1>6. /\ UNCHANGED <<disk, version, graph, stored, up, starts, watching, raised, pending, todo,
                     held, tries, missed, mixed>>
      /\ server' = "down" /\ mishaps' \in 0..MaxMishaps
      /\ doc' \in [Files -> [text : Texts \cup {None}, version : 0..MaxEdits]]
  BY DEF ServerCrashes, NoDoc, Mishap
<1>7. ~up => work' = work  BY <1>3, <1>6 DEF r, Idle
<1>8. WorkOK'  BY <1>4
<1> QED  BY <1>5, <1>6, <1>7, <1>8 DEF Workers, Stages

-----------------------------------------------------------------------------
(***************************************************************************)
(* The invariant holds                                                     *)
(***************************************************************************)
\* The files start out indexed, with nothing recorded and nobody at work.
LEMMA InitInv == Init => IInv
<1> SUFFICES ASSUME Init PROVE IInv
  OBVIOUS
<1>1. work = [w \in Workers |-> Idle]  BY DEF Init
<1>2. WorkOK /\ \A w \in Workers : work[w] = Idle  BY <1>1, IdleIsVisit DEF WorkOK
<1>3. Idle.stage = "idle" /\ Idle.file = None /\ Idle.hashVersion = 0  BY DEF Idle
<1>4. TypeOK
  <2>1. /\ disk \in [Files -> Content] /\ version \in [Files -> 0..MaxEdits]
        /\ doc \in [Files -> [text : Texts \cup {None}, version : 0..MaxEdits]]
        /\ stored \in [Files -> [hash : Content \cup {None}, version : 0..MaxEdits,
                                clean : BOOLEAN]]
    BY DEF Init, NoDoc
  <2>2. graph \in [Files -> [shown : Content, rows : 0..2, version : 0..MaxEdits]]
    BY <2>1 DEF Init
  <2>3. \A w \in Workers : /\ work[w].stage \in Stages
                           /\ work[w].file \in Files <=> work[w].stage \notin {"idle", "scan"}
    BY <1>2, <1>3 DEF Stages
  <2>4. /\ up = FALSE /\ starts = 0 /\ watching = FALSE /\ server = "down" /\ mishaps = 0 /\ raised = {}
        /\ pending = {} /\ todo = [w \in Workers |-> {}] /\ held = {} /\ tries = 0
        /\ missed = {} /\ mixed = {}
    BY DEF Init
  <2>5. raised \cup pending \cup held = {}  BY <2>4
  <2>6. starts \in 0..MaxStarts /\ mishaps \in 0..MaxMishaps
    BY <2>4
  <2>7. tries \in 0..MaxRetries /\ todo \in [Workers -> SUBSET Files]  BY <2>4
  <2> QED  BY <1>1, <2>1, <2>2, <2>3, <2>4, <2>5, <2>6, <2>7 DEF TypeOK
<1>5. StoredIsReached /\ VisitHasText
  BY <1>2, <1>3, <1>4 DEF Init, StoredIsReached, VisitHasText, Carries
<1> QED
  BY <1>2, <1>3, <1>4, <1>5 DEF IInv, UnmixedIsAlone, DriftCarries, EmptyHasNoRows, Workers

\* Every step of Next keeps it.
LEMMA NextInv == IInv /\ [Next]_vars => IInv'
<1> SUFFICES ASSUME IInv, [Next]_vars PROVE IInv'
  OBVIOUS
<1>1. CASE Start  BY <1>1, StartInv
<1>2. CASE Exit  BY <1>2, ExitInv
<1>3. CASE ServerStarts \/ ServerWarmsUp  BY <1>3, ServerInv
<1>4. CASE ServerCrashes  BY <1>4, ServerCrashesInv
<1>5. CASE \E f \in Files : \E c \in Content : Edit(f, c)  BY <1>5, EditInv
<1>6. CASE WatcherStep  BY <1>6, FireInv, ReceiveInv, TakeWatchedInv DEF WatcherStep
<1>7. CASE DriftStep
  BY <1>7, ScanInv, HashInv, JudgeInv, StoreInv, TakeDriftedInv DEF DriftStep
<1>8. CASE \E w \in Workers : FetchStep(w) \/ Fails(w)
  BY <1>8, UnavailableInv, ReadInv, OpenInv, AskInv, CommitInv, FailsInv DEF FetchStep
<1>9. CASE UNCHANGED vars
  BY <1>9 DEF IInv, TypeOK, WorkOK, VisitHasText, UnmixedIsAlone, DriftCarries, StoredIsReached,
              EmptyHasNoRows, Carries, vars
<1> QED  BY <1>1, <1>2, <1>3, <1>4, <1>5, <1>6, <1>7, <1>8, <1>9 DEF Next

\* The two workers never get the graph, what was recorded and their own visits
\* out of step: the invariant the theorems below are read off.
THEOREM Invariance == Spec => []IInv
  BY InitInv, NextInv, PTL DEF Spec

\* The variables stay in their ranges, and a worker has a file exactly while it
\* visits one.
THEOREM TypeCorrect == Spec => []TypeOK
<1>1. IInv => TypeOK  BY DEF IInv
<1> QED  BY <1>1, Invariance, PTL

\* No hash is recorded of a younger text than the graph was made from
\* (reconcile.rs takes the hash before it fetches).
THEOREM HashesDoNotRunAhead == Spec => []HashIsNotAhead
<1>1. IInv => HashIsNotAhead  BY DEF IInv, StoredIsReached, HashIsNotAhead
<1> QED  BY <1>1, Invariance, PTL

-----------------------------------------------------------------------------
(***************************************************************************)
(* The guard against a server that is warming up                           *)
(***************************************************************************)
\* Only a commit of the drift pass takes it from "commit" to "store".
LEMMA OnlyCommitReachesStore ==
  ASSUME IInv, [Next]_vars, work["drift"].stage = "commit", work'["drift"].stage = "store"
  PROVE  Commit("drift")
<1> DEFINE d == "drift"
<1>1. d \in Workers /\ WorkOK /\ work[d] \in Visit  BY DEF IInv, WorkOK, Workers
<1>2. Idle.stage = "idle"  BY DEF Idle
<1>3. ~Start  BY <1>1, <1>2 DEF Start, IInv, TypeOK
<1>4. ~Exit  BY <1>1, <1>2 DEF Exit
<1>5. ~(ServerStarts \/ ServerWarmsUp)  BY DEF ServerStarts, ServerWarmsUp
<1>6. ~ServerCrashes  BY <1>1 DEF ServerCrashes
<1>7. ~\E f \in Files : \E c \in Content : Edit(f, c)  BY DEF Edit
<1>8. ~WatcherStep
  <2>1. ASSUME NEW f \in Files, TakeWatched(f) PROVE FALSE
    <3>1. Begin("watcher", f, "read") /\ "watcher" \in Workers /\ "read" \in Stages
      BY <2>1 DEF TakeWatched, Workers, Stages
    <3>2. work'[d].stage = work[d].stage  BY <1>1, <3>1, BeginEffect
    <3> QED  BY <3>2
  <2> QED  BY <2>1 DEF WatcherStep, Fire, Receive
<1>9. ~DriftStep  BY DEF DriftStep, Scan, Hash, Judge, Store, TakeDrifted, Retry, At
<1>10. ~\E w \in Workers : Unavailable(w) \/ Fails(w)
  <2>1. ASSUME NEW w \in Workers, Finish(w) PROVE FALSE
    BY <1>1, <2>1, FinishEffect
  <2> QED  BY <2>1 DEF Unavailable, Fails
<1>11. ~\E w \in Workers : (\E c \in Content : Read(w, c)) \/ Open(w) \/ Ask(w)
  <2>2. ASSUME NEW w \in Workers, Open(w) PROVE FALSE
    <3>1. Goto(w, "ask") /\ "ask" \in Stages  BY <2>2 DEF Open, Stages
    <3> QED  BY <1>1, <3>1, GotoEffect
  <2>3. ASSUME NEW w \in Workers, NEW c \in Content, Read(w, c) PROVE FALSE
    <3>1. w # d  BY <2>3 DEF Read, At
    <3> QED  BY <1>1, <3>1, <2>3 DEF Read, WorkOK
  <2>4. ASSUME NEW w \in Workers, Ask(w) PROVE FALSE
    <3>1. w # d  BY <2>4 DEF Ask, At
    <3> QED  BY <1>1, <3>1, <2>4 DEF Ask, Answer, WorkOK
  <2> QED  BY <2>2, <2>3, <2>4
<1>12. \A w \in Workers : Commit(w) => w = d
  <2>1. ASSUME NEW w \in Workers, Commit(w), w # d PROVE FALSE
    <3>1. Finish(w)  BY <2>1 DEF Commit
    <3> QED  BY <1>1, <2>1, <3>1, FinishEffect
  <2> QED  BY <2>1
<1>13. work' # work  BY <1>1
<1> QED
  BY <1>3, <1>4, <1>5, <1>6, <1>7, <1>8, <1>9, <1>10, <1>11, <1>12, <1>13
     DEF Next, FetchStep, vars

\* Whatever a server that is warming up answers, and over any number of
\* restarts, the drift pass does not empty a file that has rows
\* (guard_suspicious_empty counts the rows that are one strike from deletion).
THEOREM DriftErasesNothing == Spec => DriftNeverErases
<1>1. IInv /\ [Next]_vars =>
        \A f \in Files :
          (/\ work["drift"].stage = "commit" /\ work'["drift"].stage = "store"
           /\ work["drift"].file = f /\ ~work["drift"].mixed
           /\ graph[f].rows > 0)
          => graph'[f].shown # Blank
  <2> SUFFICES ASSUME IInv, [Next]_vars, NEW f \in Files,
                      work["drift"].stage = "commit", work'["drift"].stage = "store",
                      work["drift"].file = f, ~work["drift"].mixed, graph[f].rows > 0
               PROVE  graph'[f].shown # Blank
    OBVIOUS
  <2>1. Commit("drift")  BY OnlyCommitReachesStore
  <2>2. work["drift"].text # Blank  BY DEF IInv, EmptyHasNoRows
  <2>3. graph'[f].shown = work["drift"].text  BY <2>1 DEF Commit, IInv, TypeOK
  <2> QED  BY <2>2, <2>3
<1> QED  BY <1>1, Invariance, PTL DEF Spec, DriftNeverErases
=============================================================================
