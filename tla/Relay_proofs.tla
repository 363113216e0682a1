--------------------------- MODULE Relay_proofs ---------------------------
(***************************************************************************)
(* Proofs about Relay, for any players, connections and numbers of         *)
(* processes: the type invariant, and that a push ends with its stream.    *)
(***************************************************************************)
EXTENDS Relay, TLAPS

Started(p) == process[p] # "none"

\* Players and publishing connections key different kinds of sessions.
Keyed ==
    /\ \A p \in Pushes : Started(p) => id[p] \in Publishers
    /\ \A p \in Pulls : Started(p) => id[p] \in Viewers

\* What is stored under an id is a session of that id that has not closed.
Stored ==
    \A k \in Ids : dynamicSessions[k] # NoSession =>
        Started(dynamicSessions[k]) /\ id[dynamicSessions[k]] = k

\* A push that runs is that of the present publisher, and can be found.
Found ==
    \A p \in Pushes : process[p] = "runs" =>
        publisher = id[p] /\ dynamicSessions[id[p]] = p

\* A connection never has two pushes, not even while the first one dies.
OnePush ==
    \A p, q \in Pushes : Started(p) /\ Started(q) /\ id[p] = id[q] => p = q

\* An ffmpeg that has not published yet left no trace under its name.
Untouched ==
    \A k \in Statics \cup Pulls :
        process[k] = "runs" /\ publisher # k => Unused(k)

\* Until its timer fires, the publisher has no push.
NotYet ==
    \A k \in posting : publisher = k =>
        \A p \in Pulls \cup Pushes : Started(p) => id[p] # k

Inv == TypeOK /\ Keyed /\ Stored /\ Found /\ OnePush /\ Untouched /\ NotYet

-----------------------------------------------------------------------------
(* The type invariant.                                                     *)

\* Killing sessions leaves a process for every session.
LEMMA EndType ==
    ASSUME NEW E, process \in [Procs -> {"none", "runs", "dead"}], End(E)
    PROVE  process' \in [Procs -> {"none", "runs", "dead"}]
  BY DEF End

\* Every variable keeps its type in every step.
LEMMA TypeStep ==
    ASSUME TypeOK, [Next]_vars
    PROVE  TypeOK'
<1> USE RelayAssumption DEF TypeOK
<1>1. CASE onStatic
  BY <1>1 DEF onStatic, registry, Procs
<1>2. ASSUME NEW p \in Procs, Exit(p) \/ Close(p)
      PROVE  TypeOK'
  <2>1. CASE Exit(p)
    BY <2>1 DEF Exit, registry
  <2>2. CASE Close(p)
    BY <2>2 DEF Close, StaticAfter, DynamicAfter, registry, Procs
  <2> QED
    BY <1>2, <2>1, <2>2
<1>3. ASSUME NEW v \in Viewers, Play(v)
      PROVE  TypeOK'
  <2>1. CASE "pull" \in tasks /\ publisher = NoSession
    BY <1>3, <2>1 DEF Play, onPrePlay, Start, Procs, Ids
  <2>2. CASE ~("pull" \in tasks /\ publisher = NoSession)
    BY <1>3, <2>2 DEF Play, onPrePlay, relay
  <2> QED
    BY <2>1, <2>2
<1>4. ASSUME NEW v \in Viewers, StopWaiting(v)
      PROVE  TypeOK'
  BY <1>4 DEF StopWaiting, relay
<1>5. ASSUME NEW v \in Viewers, StopPlaying(v)
      PROVE  TypeOK'
  <2>1. process' \in [Procs -> {"none", "runs", "dead"}]
    BY <1>5, EndType DEF StopPlaying, onDonePlay
  <2> QED
    BY <1>5, <2>1 DEF StopPlaying, onDonePlay
<1>6. ASSUME NEW k \in Publishers, Publish(k)
      PROVE  TypeOK'
  BY <1>6 DEF Publish, relay
<1>7. ASSUME NEW k \in Publishers, Unpublish(k)
      PROVE  TypeOK'
  <2>1. process' \in [Procs -> {"none", "runs", "dead"}]
    BY <1>7, EndType DEF Unpublish
  <2> QED
    BY <1>7, <2>1 DEF Unpublish
<1>8. ASSUME NEW k \in Publishers, PostPublish(k)
      PROVE  TypeOK'
  <2>1. CASE "push" \in tasks /\ StillNamed(k)
    BY <1>8, <2>1 DEF PostPublish, Start, Procs, Ids
  <2>2. CASE ~("push" \in tasks /\ StillNamed(k))
    BY <1>8, <2>2 DEF PostPublish, relay
  <2> QED
    BY <2>1, <2>2
<1>9. CASE UNCHANGED vars
  BY <1>9 DEF vars, registry, relay
<1> QED
  BY <1>1, <1>2, <1>3, <1>4, <1>5, <1>6, <1>7, <1>8, <1>9 DEF Next

\* The values of every variable are those the code can hold.
THEOREM TypeCorrect == Spec => []TypeOK
<1>1. Init => TypeOK
  BY DEF Init, TypeOK
<1>2. TypeOK /\ [Next]_vars => TypeOK'
  BY TypeStep
<1> QED
  BY <1>1, <1>2, PTL DEF Spec

-----------------------------------------------------------------------------
(* A push ends with its stream.                                            *)

\* Ending sessions and clearing what a handler is done with: steps that
\* start nothing, store nothing and publish nothing.
LEMMA Lessens ==
    ASSUME Inv, TypeOK',
           \A p \in Procs : process'[p] # process[p] => process'[p] = "dead"
                                                       /\ process[p] = "runs",
           UNCHANGED <<id, dynamicSessions>>,
           posting' \subseteq posting,
           \/ UNCHANGED publisher
           \/ /\ publisher' = NoSession
              /\ \A p \in Pushes : process'[p] = "runs" => publisher # id[p]
              /\ \A p \in Statics \cup Pulls :
                    process'[p] = "runs" => publisher # p
    PROVE  Inv'
<1> USE RelayAssumption DEF Inv, Started
<1>1. \A p \in Procs : /\ process'[p] = "runs" => process[p] = "runs"
                       /\ process'[p] # "none" => process[p] # "none"
                       /\ process[p] # "none" => process'[p] # "none"
  OBVIOUS
<1>2. Keyed'
  BY <1>1 DEF Keyed, Procs
<1>3. Stored'
  BY <1>1 DEF Stored, Procs, TypeOK
<1>4. Found'
  BY <1>1 DEF Found, Procs
<1>5. OnePush'
  BY <1>1 DEF OnePush, Procs
<1>6. Untouched'
  BY <1>1 DEF Untouched, Unused, Procs, Publishers, TypeOK
<1>7. NotYet'
  BY <1>1 DEF NotYet, Procs, Publishers, TypeOK
<1> QED
  BY <1>2, <1>3, <1>4, <1>5, <1>6, <1>7

\* A push or a pull starts under an id nothing else has: whatever else is
\* under that id is a pull that another player of the code has replaced.
LEMMA StartStep ==
    ASSUME Inv, TypeOK',
           NEW p \in Pulls \cup Pushes, NEW k \in Ids, Start(p, k),
           UNCHANGED publisher, posting' \subseteq posting,
           p \in Pulls => k \in Viewers /\ publisher = NoSession /\ Unused(p),
           p \in Pushes => /\ k = publisher /\ k \in Publishers
                          /\ k \in posting /\ k \notin posting'
    PROVE  Inv'
<1> USE RelayAssumption DEF Inv, Started, Start
<1>0. /\ \A q \in Procs : q # p => process'[q] = process[q]
      /\ \A q \in Pulls \cup Pushes : q # p => id'[q] = id[q]
      /\ \A j \in Ids : j # k => dynamicSessions'[j] = dynamicSessions[j]
      /\ process[p] = "none" /\ process'[p] = "runs"
      /\ id'[p] = k /\ dynamicSessions'[k] = p
      /\ p \in Procs /\ Pulls \subseteq Procs /\ Pushes \subseteq Procs
      /\ Statics \subseteq Procs
  BY DEF TypeOK, Procs
<1>1. \A q \in Pushes : Started(q) => id[q] # k
  BY DEF NotYet, Keyed, Publishers
<1> HIDE DEF Start
<1>2. Keyed'
  BY <1>0 DEF Keyed
<1>3. Stored'
  BY <1>0 DEF Stored, TypeOK, Procs
<1>4. Found'
  <2>1. ASSUME NEW q \in Pushes, process'[q] = "runs", q # p
        PROVE  (publisher = id[q] /\ dynamicSessions[id[q]] = q)'
    <3>1. process[q] = "runs" /\ id'[q] = id[q] /\ id[q] # k
      BY <2>1, <1>0, <1>1
    <3>2. id[q] \in Ids
      BY <3>1 DEF Keyed, Ids
    <3> QED
      BY <3>1, <3>2, <1>0 DEF Found
  <2>2. p \in Pushes => (publisher = id[p] /\ dynamicSessions[id[p]] = p)'
    BY <1>0
  <2> QED
    BY <2>1, <2>2 DEF Found
<1>5. OnePush'
  BY <1>0, <1>1 DEF OnePush
<1>6. Untouched'
  <2>1. ASSUME NEW j \in Statics \cup Pulls, process'[j] = "runs", publisher' # j
        PROVE  Unused(j)'
    <3>1. Unused(j)
      BY <2>1, <1>0 DEF Untouched
    <3>2. j # k /\ j \in Ids
      BY <2>1, <1>0 DEF Ids, Publishers
    <3> QED
      BY <3>1, <3>2, <2>1, <1>0 DEF Unused
  <2> QED
    BY <2>1 DEF Untouched
<1>7. NotYet'
  <2>1. ASSUME NEW j \in posting', publisher' = j, NEW q \in Pulls \cup Pushes,
               Started(q)'
        PROVE  id'[q] # j
    <3>1. CASE q = p
      BY <3>1, <2>1, <1>0 DEF TypeOK, Publishers
    <3>2. CASE q # p
      BY <3>2, <2>1, <1>0 DEF NotYet
    <3> QED
      BY <3>1, <3>2
  <2> QED
    BY <2>1 DEF NotYet
<1> QED
  BY <1>2, <1>3, <1>4, <1>5, <1>6, <1>7

\* 'close' takes away what is stored under the id of the session, which for
\* a push is that session or nothing.
LEMMA CloseStep ==
    ASSUME Inv, TypeOK', NEW p \in Procs, Close(p)
    PROVE  Inv'
<1> USE RelayAssumption DEF Inv, Started
<1>1. /\ process[p] = "dead" /\ process'[p] = "none"
      /\ \A q \in Procs : q # p => process'[q] = process[q]
      /\ UNCHANGED <<id, publisher, posting>>
      /\ p \in Statics => UNCHANGED dynamicSessions
      /\ p \notin Statics =>
            dynamicSessions' = [dynamicSessions EXCEPT ![id[p]] = NoSession]
      /\ Pulls \subseteq Procs /\ Pushes \subseteq Procs
      /\ Statics \subseteq Procs
  BY DEF Close, DynamicAfter, registry, TypeOK, Procs
<1>2. \A k \in Ids : \/ dynamicSessions'[k] = dynamicSessions[k]
                     \/ dynamicSessions'[k] = NoSession
  BY <1>1 DEF TypeOK
<1>3. \A k \in Ids : dynamicSessions'[k] # NoSession => dynamicSessions'[k] # p
  <2>1. ASSUME NEW k \in Ids, dynamicSessions'[k] # NoSession,
               dynamicSessions'[k] = p
        PROVE  FALSE
    <3>1. dynamicSessions[k] = p /\ id[p] = k
      BY <2>1, <1>2 DEF Stored
    <3>2. p \notin Statics
      BY <3>1 DEF TypeOK
    <3> QED
      BY <3>1, <3>2, <2>1, <1>1 DEF TypeOK
  <2> QED
    BY <2>1
<1>4. Keyed'
  BY <1>1 DEF Keyed
<1>5. Stored'
  BY <1>1, <1>2, <1>3 DEF Stored, TypeOK, Procs
<1>6. Found'
  <2>1. ASSUME NEW q \in Pushes, process'[q] = "runs"
        PROVE  (publisher = id[q] /\ dynamicSessions[id[q]] = q)'
    <3>1. process[q] = "runs" /\ q # p /\ publisher = id[q]
          /\ dynamicSessions[id[q]] = q
      BY <2>1, <1>1 DEF Found
    <3>2. ASSUME p \notin Statics
          PROVE  id[p] # id[q]
      <4>1. CASE p \in Pushes
        BY <4>1, <3>1, <1>1 DEF OnePush
      <4>2. CASE p \in Pulls
        BY <4>2, <3>1, <1>1 DEF Keyed, Publishers
      <4> QED
        BY <3>2, <4>1, <4>2 DEF Procs
    <3>3. id[q] \in Ids
      BY <3>1 DEF Keyed, Ids
    <3> QED
      BY <3>1, <3>2, <3>3, <1>1 DEF TypeOK
  <2> QED
    BY <2>1 DEF Found
<1>7. OnePush'
  BY <1>1 DEF OnePush
<1>8. Untouched'
  <2>1. ASSUME NEW k \in Statics \cup Pulls, process'[k] = "runs", publisher' # k
        PROVE  Unused(k)'
    <3>1. Unused(k) /\ k \in Ids
      BY <2>1, <1>1 DEF Untouched, Ids, Publishers
    <3> QED
      BY <3>1, <2>1, <1>1, <1>2 DEF Unused
  <2> QED
    BY <2>1 DEF Untouched
<1>9. NotYet'
  BY <1>1 DEF NotYet
<1> QED
  BY <1>4, <1>5, <1>6, <1>7, <1>8, <1>9

\* A static pull takes a name that nothing refers to.
LEMMA StaticStep ==
    ASSUME Inv, TypeOK', onStatic
    PROVE  Inv'
<1> USE RelayAssumption DEF Inv, Started
<1> PICK p \in Statics : Unused(p) /\ process[p] = "none"
                         /\ process' = [process EXCEPT ![p] = "runs"]
  BY DEF onStatic
<1>1. /\ process'[p] = "runs"
      /\ \A q \in Procs : q # p => process'[q] = process[q]
      /\ UNCHANGED <<id, publisher, posting, dynamicSessions>>
      /\ Pulls \subseteq Procs /\ Pushes \subseteq Procs
      /\ Statics \subseteq Procs
      /\ p \notin Pulls \cup Pushes
  BY DEF onStatic, registry, TypeOK, Procs
<1>2. Keyed' /\ Stored' /\ Found' /\ OnePush' /\ NotYet'
  BY <1>1 DEF Keyed, Stored, Found, OnePush, NotYet, TypeOK
<1>3. Untouched'
  BY <1>1 DEF Untouched, Unused
<1> QED
  BY <1>2, <1>3

\* Whoever publishes has no push yet, and no other stream is there whose
\* push could be running.
LEMMA PublishStep ==
    ASSUME Inv, TypeOK', NEW k \in Publishers, Publish(k)
    PROVE  Inv'
<1> USE RelayAssumption DEF Inv, Started
<1>1. Unused(k)
  BY DEF Publish, Untouched, Publishers
<1>2. /\ UNCHANGED relay
      /\ publisher = NoSession /\ publisher' = k
      /\ posting' = posting \cup {k}
  BY DEF Publish
<1>3. \A p \in Pushes : process[p] # "runs"
  BY <1>2 DEF Found, Keyed, Publishers
<1>4. Keyed' /\ Stored' /\ Found' /\ OnePush'
  BY <1>2, <1>3 DEF Keyed, Stored, Found, OnePush, relay
<1>5. Untouched'
  BY <1>2 DEF Untouched, Unused, relay, Publishers
<1>6. NotYet'
  BY <1>1, <1>2 DEF NotYet, Unused, relay
<1> QED
  BY <1>4, <1>5, <1>6

\* The invariant holds initially and after every step.
LEMMA InvStep ==
    ASSUME Inv, [Next]_vars
    PROVE  Inv'
<1>0. TypeOK'
  BY TypeStep DEF Inv
<1>1. CASE onStatic
  BY <1>0, <1>1, StaticStep
<1>2. ASSUME NEW p \in Procs, Exit(p)
      PROVE  Inv'
  BY <1>0, <1>2, Lessens DEF Exit, registry, Inv, TypeOK
<1>3. ASSUME NEW p \in Procs, Close(p)
      PROVE  Inv'
  BY <1>0, <1>3, CloseStep
<1>4. ASSUME NEW v \in Viewers, Play(v)
      PROVE  Inv'
  <2>1. CASE "pull" \in tasks /\ publisher = NoSession
    <3>1. PICK p \in Pulls : Unused(p) /\ Start(p, v)
      BY <1>4, <2>1 DEF Play, onPrePlay
    <3> QED
      BY <3>1, <1>0, <1>4, <2>1, StartStep, RelayAssumption DEF Play, Ids
  <2>2. CASE ~("pull" \in tasks /\ publisher = NoSession)
    BY <1>0, <1>4, <2>2, Lessens DEF Play, onPrePlay, relay
  <2> QED
    BY <2>1, <2>2
<1>5. ASSUME NEW v \in Viewers, StopWaiting(v)
      PROVE  Inv'
  BY <1>0, <1>5, Lessens DEF StopWaiting, relay
<1>6. ASSUME NEW v \in Viewers, StopPlaying(v)
      PROVE  Inv'
  <2>1. \A p \in Procs : process'[p] # process[p] => process'[p] = "dead"
                                                     /\ process[p] = "runs"
    BY <1>6 DEF StopPlaying, onDonePlay, End, Inv, TypeOK
  <2> QED
    BY <1>0, <1>6, <2>1, Lessens DEF StopPlaying, onDonePlay
<1>7. ASSUME NEW k \in Publishers, Publish(k)
      PROVE  Inv'
  BY <1>0, <1>7, PublishStep
<1>8. ASSUME NEW k \in Publishers, Unpublish(k)
      PROVE  Inv'
  <2> DEFINE E == onDonePublish(k) \cup {k}
  <2>1. \A p \in Procs : process'[p] # process[p] => process'[p] = "dead"
                                                     /\ process[p] = "runs"
    BY <1>8 DEF Unpublish, End, Inv, TypeOK
  <2>2. \A p \in Procs \cap E : process'[p] # "runs"
    BY <1>8 DEF Unpublish, End
  <2>3. \A p \in Pushes : process'[p] = "runs" => publisher # id[p]
    BY <1>8, <2>1, <2>2 DEF Unpublish, Inv, Found, Procs, onDonePublish
  <2>4. \A p \in Statics \cup Pulls : process'[p] = "runs" => publisher # p
    BY <1>8, <2>2 DEF Unpublish, Procs
  <2> QED
    BY <1>0, <1>8, <2>1, <2>3, <2>4, Lessens DEF Unpublish
<1>9. ASSUME NEW k \in Publishers, PostPublish(k)
      PROVE  Inv'
  <2>1. CASE "push" \in tasks /\ StillNamed(k)
    <3>1. PICK p \in Pushes : Start(p, k)
      BY <1>9, <2>1 DEF PostPublish
    <3>2. /\ k \in Ids /\ p \notin Pulls /\ k = publisher
          /\ k \in posting /\ k \notin posting' /\ posting' \subseteq posting
          /\ UNCHANGED publisher
      BY <1>9, <2>1, RelayAssumption DEF PostPublish, StillNamed, Ids
    <3> QED
      BY <3>1, <3>2, <1>0, StartStep
  <2>2. CASE ~("push" \in tasks /\ StillNamed(k))
    BY <1>0, <1>9, <2>2, Lessens DEF PostPublish, relay
  <2> QED
    BY <2>1, <2>2
<1>10. CASE UNCHANGED vars
  BY <1>0, <1>10, Lessens DEF vars, registry, relay
<1> QED
  BY <1>1, <1>2, <1>3, <1>4, <1>5, <1>6, <1>7, <1>8, <1>9, <1>10 DEF Next

\* A push runs only while the connection it was started for publishes.
THEOREM PushesFollow == Spec => []PushFollows
<1>1. Init => Inv
  BY RelayAssumption DEF Init, Inv, TypeOK, Keyed, Stored, Found, OnePush,
                         Untouched, NotYet, Started, Procs
<1>2. Inv /\ [Next]_vars => Inv'
  BY InvStep
<1>3. Inv => PushFollows
  BY DEF Inv, Found, PushFollows
<1> QED
  BY <1>1, <1>2, <1>3, PTL DEF Spec
=============================================================================
