-------------------------- MODULE ReadStatesProofs --------------------------
(***************************************************************************)
(* Theorems about ReadStates for any readers, keys, requests and number of *)
(* messages, and any truncation of times.                                  *)
(***************************************************************************)
EXTENDS ReadStates, FiniteSetTheorems, TLAPS

LEMMA IdsAreTimes == Ids \subseteq Times /\ 0 \in Times /\ Times \subseteq Nat
BY ConstantsAssumption DEF Ids, Times

LEMMA CountType ==
  ASSUME NEW S \in SUBSET Ids
  PROVE  Cardinality(S) \in Nat
<1>1. IsFiniteSet(Ids)
  BY ConstantsAssumption, FS_Interval DEF Ids
<1>. QED
  BY <1>1, FS_Subset, FS_CardinalityType

-----------------------------------------------------------------------------
(* What a job looks like at each of its steps, and that every step gives    *)
(* one request such a job and leaves the others alone.                      *)

Shape(r) ==
    /\ r \in Job
    /\ r.pc = "idle" => r = IdleJob
    /\ r.pc # "idle" => r.user \in Users
    /\ r.pc \notin {"markOwn", "count", "recompute"} => r.locked = {}
    /\ r.pc \notin {"idle", "insert"} => r.message \in Ids \/ r.pc \in Inserted
    /\ Direct /\ r.pc \in {"markOwn", "count"} => Conversation \in r.locked

Moves(h, r) == job' = [job EXCEPT ![h] = r] /\ Shape(r)

ShapeInv == job \in [Requests -> Job] /\ \A h \in Requests : Shape(job[h])

LEMMA IdleShape == Shape(IdleJob)
BY IdsAreTimes DEF Shape, IdleJob, Job, Steps

LEMMA SendMoves ==
  ASSUME TypeOK, ShapeInv, NEW h \in Requests, Send(h)
  PROVE  \E r \in Job : Moves(h, r)
<1>. job[h] \in Job /\ Shape(job[h])
  BY DEF ShapeInv
<1>1. ASSUME NEW u \in Users, NEW k \in Keys \cup {None}, SendBegin(h, u, k)
      PROVE  \E r \in Job : Moves(h, r)
  <2>. DEFINE r == [IdleJob EXCEPT !.pc = "insert", !.user = u, !.key = k,
                                   !.message = clock + 1]
  <2>1. clock + 1 \in Times
    BY <1>1, ConstantsAssumption DEF SendBegin, TypeOK, Times
  <2>2. r \in Job /\ Shape(r)
    BY <2>1 DEF Shape, IdleJob, Job, Steps
  <2>. QED
    BY <1>1, <2>2 DEF SendBegin, Become, Moves
<1>2. CASE SendInsert(h)
  <2>. DEFINE r(pc) == [job[h] EXCEPT !.pc = pc]
  <2>1. CASE Direct
    <3>. r("touch") \in Job /\ Shape(r("touch"))
      BY <1>2 DEF SendInsert, Shape, Job, Steps, Inserted
    <3>. QED
      BY <1>2, <2>1 DEF SendInsert, Become, Moves
  <2>2. CASE ~Direct
    <3>. r("markOwn") \in Job /\ Shape(r("markOwn"))
      BY <1>2, <2>2 DEF SendInsert, Shape, Job, Steps, Inserted
    <3>. QED
      BY <1>2, <2>2 DEF SendInsert, Become, Moves
  <2>. QED
    BY <2>1, <2>2
<1>3. CASE SendTouchConversation(h)
  <2>. DEFINE r == [job[h] EXCEPT !.pc = "markOwn", !.locked = {Conversation}]
  <2>. r \in Job /\ Shape(r)
    BY <1>3 DEF SendTouchConversation, Shape, Job, Steps, Inserted
  <2>. QED
    BY <1>3 DEF SendTouchConversation, Become, Moves
<1>4. CASE SendMarkOwn(h)
  <2>. DEFINE r == [job[h] EXCEPT !.pc = "count", !.locked = @ \cup {job[h].user}]
  <2>. r \in Job /\ Shape(r)
    BY <1>4 DEF SendMarkOwn, Shape, Job, Steps, Inserted
  <2>. QED
    BY <1>4 DEF SendMarkOwn, Become, Moves
<1>5. ASSUME NEW u \in Users, SendCount(h, u)
      PROVE  \E r \in Job : Moves(h, r)
  <2>. DEFINE r == [job[h] EXCEPT !.locked = @ \cup {u}]
  <2>. r \in Job /\ Shape(r)
    BY <1>5 DEF SendCount, Shape, Job, Steps, Inserted
  <2>. QED
    BY <1>5 DEF SendCount, Become, Moves
<1>6. CASE SendCommit(h)
  BY <1>6, IdleShape DEF SendCommit, Finish, Become, Moves, Shape
<1>. QED
  BY <1>1, <1>2, <1>3, <1>4, <1>5, <1>6 DEF Send

LEMMA MarkMoves ==
  ASSUME TypeOK, ShapeInv, NEW h \in Requests, Mark(h)
  PROVE  \E r \in Job : Moves(h, r)
<1>. job[h] \in Job /\ Shape(job[h])
  BY DEF ShapeInv
<1>1. ASSUME NEW u \in Users, NEW m \in Ids, MarkFind(h, u, m)
      PROVE  \E r \in Job : Moves(h, r)
  <2>. DEFINE r == [IdleJob EXCEPT !.pc = "check", !.user = u, !.message = m]
  <2>. r \in Job /\ Shape(r)
    BY IdsAreTimes DEF Shape, IdleJob, Job, Steps
  <2>. QED
    BY <1>1 DEF MarkFind, Become, Moves
<1>2. CASE MarkCheck(h)
  <2>. DEFINE r == [job[h] EXCEPT !.pc = "recount"]
  <2>. r \in Job /\ Shape(r)
    BY <1>2 DEF MarkCheck, Shape, Job, Steps, Inserted
  <2>. QED
    BY <1>2 DEF MarkCheck, Become, Moves
<1>3. CASE MarkRecount(h)
  <2>. DEFINE r == [job[h] EXCEPT !.pc = "upsert", !.visible = Visible]
  <2>. r \in Job /\ Shape(r)
    BY <1>3 DEF MarkRecount, Shape, Job, Steps, Inserted, Visible
  <2>. QED
    BY <1>3 DEF MarkRecount, Become, Moves
<1>4. CASE MarkUpsert(h)
  BY <1>4, IdleShape DEF MarkUpsert, Finish, Become, Moves, Shape
<1>. QED
  BY <1>1, <1>2, <1>3, <1>4 DEF Mark

LEMMA DeleteMoves ==
  ASSUME TypeOK, ShapeInv, NEW h \in Requests, Delete(h)
  PROVE  \E r \in Job : Moves(h, r)
<1>. job[h] \in Job /\ Shape(job[h])
  BY DEF ShapeInv
<1>1. ASSUME NEW u \in Users, NEW m \in Ids, DeleteFind(h, u, m)
      PROVE  \E r \in Job : Moves(h, r)
  <2>. DEFINE r(as) == [IdleJob EXCEPT !.pc = "delete", !.user = u, !.message = m,
                                       !.as = as]
  <2>1. \A as \in {"retracted", "deleted"} : r(as) \in Job /\ Shape(r(as))
    BY IdsAreTimes DEF Shape, IdleJob, Job, Steps
  <2>2. PICK as \in {"retracted", "deleted"} : Become(h, r(as))
    BY <1>1 DEF DeleteFind
  <2>. QED
    BY <2>1, <2>2 DEF Become, Moves
<1>2. CASE DeleteMark(h)
  <2>. DEFINE r == [job[h] EXCEPT !.pc = "recompute", !.stored = Stored,
                                  !.visible = Visible \ {job[h].message}]
  <2>. r \in Job /\ Shape(r)
    BY <1>2 DEF DeleteMark, Shape, Job, Steps, Inserted, Stored, Visible
  <2>. QED
    BY <1>2 DEF DeleteMark, Become, Moves
<1>3. ASSUME NEW u \in Users, DeleteRecompute(h, u)
      PROVE  \E r \in Job : Moves(h, r)
  <2>. DEFINE r == [job[h] EXCEPT !.locked = @ \cup {u}]
  <2>. r \in Job /\ Shape(r)
    BY <1>3 DEF DeleteRecompute, Shape, Job, Steps, Inserted
  <2>. QED
    BY <1>3 DEF DeleteRecompute, Become, Moves
<1>4. CASE DeleteCommit(h)
  BY <1>4, IdleShape DEF DeleteCommit, Finish, Become, Moves, Shape
<1>. QED
  BY <1>1, <1>2, <1>3, <1>4 DEF Delete

LEMMA EveryStepMoves ==
  ASSUME TypeOK, ShapeInv, [Next]_vars
  PROVE  UNCHANGED vars \/ \E h \in Requests, r \in Job : Moves(h, r)
<1>1. ASSUME NEW h \in Requests, Fail(h)
      PROVE  \E r \in Job : Moves(h, r)
  BY <1>1, IdleShape DEF Fail, Finish, Become, Moves, Shape
<1>. QED
  BY <1>1, SendMoves, MarkMoves, DeleteMoves DEF Next

LEMMA ShapeStep ==
  ASSUME TypeOK, ShapeInv, [Next]_vars
  PROVE  ShapeInv'
<1>1. CASE UNCHANGED vars
  BY <1>1 DEF vars, ShapeInv
<1>2. ASSUME NEW h \in Requests, NEW r \in Job, Moves(h, r)
      PROVE  ShapeInv'
  BY <1>2 DEF Moves, ShapeInv
<1>. QED
  BY <1>1, <1>2, EveryStepMoves

Typed == TypeOK /\ ShapeInv

-----------------------------------------------------------------------------
(* What a step that leaves the database alone does to its request.          *)

LocksGrow(h, r) == \A x \in r.locked : x \in job[h].locked \/ Free(h, x)

Continues(h, r) ==
    /\ r.user = job[h].user
    /\ r.key = job[h].key
    /\ r.message = job[h].message

Outcome(h, r) ==
    \/ r = IdleJob
    \/ /\ Continues(h, r) /\ job[h].pc = "insert" /\ r.pc \in Inserted
       /\ KeyIsFree(r.user, r.key) /\ r.locked = job[h].locked
    \/ /\ Continues(h, r) /\ job[h].pc \in Inserted /\ r.pc \in Inserted
       /\ LocksGrow(h, r)
    \/ /\ MayRequest(h, r.user) /\ r.pc \in {"check", "delete"}
       /\ r.message \in Visible /\ r.locked = {}
    \/ /\ Continues(h, r) /\ job[h].pc = "check" /\ r.pc = "recount"
       /\ Truncated[state[r.user].read] <= Truncated[r.message]
       /\ r.locked = job[h].locked
    \/ /\ Continues(h, r) /\ job[h].pc = "recount" /\ r.pc = "upsert"
       /\ r.locked = job[h].locked
    \/ /\ Continues(h, r) /\ job[h].pc \in {"delete", "recompute"} /\ r.pc = "recompute"
       /\ LocksGrow(h, r)

Goes(h, r) == job' = [job EXCEPT ![h] = r] /\ Outcome(h, r)

LEMMA SendOutcomes ==
  ASSUME Typed, NEW h \in Requests, Send(h), UNCHANGED <<message, state, clock>>
  PROVE  \/ \E u \in Users, k \in Keys \cup {None} : SendBegin(h, u, k)
         \/ SendCommit(h)
         \/ \E r : Goes(h, r)
<1>. job[h] \in Job /\ Shape(job[h])
  BY DEF Typed, ShapeInv
<1>1. CASE SendInsert(h)
  <2>. DEFINE r == [job[h] EXCEPT !.pc = IF Direct THEN "touch" ELSE "markOwn"]
  <2>. Continues(h, r) /\ r.pc \in Inserted /\ r.locked = job[h].locked
    BY DEF Continues, Inserted, Job
  <2>. QED
    BY <1>1 DEF SendInsert, Become, Goes, Outcome, Continues
<1>2. CASE SendTouchConversation(h)
  <2>. DEFINE r == [job[h] EXCEPT !.pc = "markOwn", !.locked = {Conversation}]
  <2>. Continues(h, r) /\ r.pc \in Inserted /\ LocksGrow(h, r)
    BY <1>2 DEF SendTouchConversation, Continues, Inserted, Job, LocksGrow
  <2>. QED
    BY <1>2 DEF SendTouchConversation, Become, Goes, Outcome, Inserted
<1>3. CASE SendMarkOwn(h)
  <2>. DEFINE r == [job[h] EXCEPT !.pc = "count", !.locked = @ \cup {job[h].user}]
  <2>. Continues(h, r) /\ r.pc \in Inserted /\ LocksGrow(h, r)
    BY <1>3 DEF SendMarkOwn, Continues, Inserted, Job, LocksGrow
  <2>. QED
    BY <1>3 DEF SendMarkOwn, Become, Goes, Outcome, Inserted
<1>4. ASSUME NEW u \in Users, SendCount(h, u)
      PROVE  \E r : Goes(h, r)
  <2>. DEFINE r == [job[h] EXCEPT !.locked = @ \cup {u}]
  <2>. Continues(h, r) /\ r.pc \in Inserted /\ LocksGrow(h, r)
    BY <1>4 DEF SendCount, Continues, Inserted, Job, LocksGrow
  <2>. QED
    BY <1>4 DEF SendCount, Become, Goes, Outcome, Inserted
<1>. QED
  BY <1>1, <1>2, <1>3, <1>4 DEF Send

LEMMA MarkOutcomes ==
  ASSUME Typed, NEW h \in Requests, Mark(h)
  PROVE  MarkUpsert(h) \/ \E r : Goes(h, r)
<1>. job[h] \in Job /\ Shape(job[h])
  BY DEF Typed, ShapeInv
<1>1. ASSUME NEW u \in Users, NEW m \in Ids, MarkFind(h, u, m)
      PROVE  \E r : Goes(h, r)
  <2>. DEFINE r == [IdleJob EXCEPT !.pc = "check", !.user = u, !.message = m]
  <2>. r.pc = "check" /\ r.user = u /\ r.message = m /\ r.locked = {}
    BY DEF IdleJob
  <2>. QED
    BY <1>1 DEF MarkFind, InScope, Visible, Become, Goes, Outcome
<1>2. CASE MarkCheck(h)
  <2>. DEFINE r == [job[h] EXCEPT !.pc = "recount"]
  <2>. Continues(h, r) /\ r.pc = "recount" /\ r.locked = job[h].locked
    BY DEF Continues, Job
  <2>. QED
    BY <1>2 DEF MarkCheck, Position, Become, Goes, Outcome, Continues
<1>3. CASE MarkRecount(h)
  <2>. DEFINE r == [job[h] EXCEPT !.pc = "upsert", !.visible = Visible]
  <2>. Continues(h, r) /\ r.pc = "upsert" /\ r.locked = job[h].locked
    BY DEF Continues, Job
  <2>. QED
    BY <1>3 DEF MarkRecount, Become, Goes, Outcome
<1>. QED
  BY <1>1, <1>2, <1>3 DEF Mark

LEMMA DeleteOutcomes ==
  ASSUME Typed, NEW h \in Requests, Delete(h)
  PROVE  DeleteCommit(h) \/ \E r : Goes(h, r)
<1>. job[h] \in Job /\ Shape(job[h])
  BY DEF Typed, ShapeInv
<1>1. ASSUME NEW u \in Users, NEW m \in Ids, DeleteFind(h, u, m)
      PROVE  \E r : Goes(h, r)
  <2>1. PICK as \in {"retracted", "deleted"} :
          Become(h, [IdleJob EXCEPT !.pc = "delete", !.user = u, !.message = m, !.as = as])
    BY <1>1 DEF DeleteFind
  <2>. DEFINE r == [IdleJob EXCEPT !.pc = "delete", !.user = u, !.message = m, !.as = as]
  <2>2. r.pc = "delete" /\ r.user = u /\ r.message = m /\ r.locked = {}
    BY DEF IdleJob
  <2>. HIDE DEF r
  <2>3. job' = [job EXCEPT ![h] = r]
    BY <2>1 DEF Become, r
  <2>. QED
    BY <1>1, <2>2, <2>3 DEF DeleteFind, Goes, Outcome
<1>2. CASE DeleteMark(h)
  <2>. DEFINE r == [job[h] EXCEPT !.pc = "recompute", !.stored = Stored,
                                  !.visible = Visible \ {job[h].message}]
  <2>1. Continues(h, r) /\ r.pc = "recompute" /\ r.locked = job[h].locked
    BY DEF Continues, Job
  <2>2. job[h].pc = "delete" /\ job' = [job EXCEPT ![h] = r]
    BY <1>2 DEF DeleteMark, Become
  <2>. QED
    BY <2>1, <2>2 DEF Goes, Outcome, LocksGrow
<1>3. ASSUME NEW u \in Users, DeleteRecompute(h, u)
      PROVE  \E r : Goes(h, r)
  <2>. DEFINE r == [job[h] EXCEPT !.locked = @ \cup {u}]
  <2>. Continues(h, r) /\ r.pc = job[h].pc /\ LocksGrow(h, r)
    BY <1>3 DEF DeleteRecompute, Continues, Job, LocksGrow
  <2>. QED
    BY <1>3 DEF DeleteRecompute, Become, Goes, Outcome
<1>. QED
  BY <1>1, <1>2, <1>3 DEF Delete

(* All steps, in the form the invariants below use. *)
LEMMA Outcomes ==
  ASSUME Typed, [Next]_vars
  PROVE  \/ UNCHANGED vars
         \/ \E h \in Requests :
              \/ UNCHANGED <<message, state, clock>> /\ \E r : Goes(h, r)
              \/ \E u \in Users, k \in Keys \cup {None} : SendBegin(h, u, k)
              \/ SendCommit(h)
              \/ MarkUpsert(h)
              \/ DeleteCommit(h)
<1>1. ASSUME NEW h \in Requests, Send(h)
      PROVE  \/ UNCHANGED <<message, state, clock>> /\ \E r : Goes(h, r)
             \/ \E u \in Users, k \in Keys \cup {None} : SendBegin(h, u, k)
             \/ SendCommit(h)
  <2>. \/ UNCHANGED <<message, state, clock>>
       \/ \E u \in Users, k \in Keys \cup {None} : SendBegin(h, u, k)
       \/ SendCommit(h)
    BY <1>1 DEF Send, SendInsert, SendTouchConversation, SendMarkOwn, SendCount
  <2>. QED
    BY <1>1, SendOutcomes
<1>2. ASSUME NEW h \in Requests, Mark(h)
      PROVE  (UNCHANGED <<message, state, clock>> /\ \E r : Goes(h, r)) \/ MarkUpsert(h)
  <2>. UNCHANGED <<message, state, clock>> \/ MarkUpsert(h)
    BY <1>2 DEF Mark, MarkFind, MarkCheck, MarkRecount
  <2>. QED
    BY <1>2, MarkOutcomes
<1>3. ASSUME NEW h \in Requests, Delete(h)
      PROVE  (UNCHANGED <<message, state, clock>> /\ \E r : Goes(h, r)) \/ DeleteCommit(h)
  <2>. UNCHANGED <<message, state, clock>> \/ DeleteCommit(h)
    BY <1>3 DEF Delete, DeleteFind, DeleteMark, DeleteRecompute
  <2>. QED
    BY <1>3, DeleteOutcomes
<1>4. ASSUME NEW h \in Requests, Fail(h)
      PROVE  UNCHANGED <<message, state, clock>> /\ Goes(h, IdleJob)
  BY <1>4 DEF Fail, Finish, Become, Goes, Outcome
<1>. QED
  BY <1>1, <1>2, <1>3, <1>4 DEF Next

-----------------------------------------------------------------------------
(* Types.                                                                   *)

LEMMA TypedInit == Init => Typed
BY IdsAreTimes, IdleShape
DEF Init, Typed, TypeOK, ShapeInv, Message, ReadState, Shape

LEMMA TypedStep == Typed /\ [Next]_vars => Typed'
<1>. SUFFICES ASSUME Typed, [Next]_vars PROVE Typed'
  OBVIOUS
<1>. USE DEF Typed, TypeOK
<1>1. ShapeInv' /\ job' \in [Requests -> Job]
  BY ShapeStep DEF ShapeInv
<1>2. CASE UNCHANGED <<message, state, clock>>
  BY <1>1, <1>2
<1>3. ASSUME NEW h \in Requests, NEW u \in Users, NEW k \in Keys \cup {None},
             SendBegin(h, u, k)
      PROVE  Typed'
  <2>. clock' \in Times
    BY <1>3, ConstantsAssumption DEF SendBegin, Times
  <2>. QED
    BY <1>1, <1>3 DEF SendBegin
<1>4. ASSUME NEW h \in Requests, SendCommit(h)
      PROVE  Typed'
  <2>. job[h] \in Job /\ job[h].message \in Times
    BY DEF Job
  <2>1. message' \in [Ids -> Message]
    BY <1>4 DEF SendCommit, Message, Job
  <2>2. state' \in [Users -> ReadState]
    BY <1>4 DEF SendCommit, AfterSend, ReadState
  <2>. QED
    BY <1>1, <1>4, <2>1, <2>2 DEF SendCommit
<1>5. ASSUME NEW h \in Requests, MarkUpsert(h)
      PROVE  Typed'
  <2>. job[h] \in Job /\ job[h].message \in Times
    BY DEF Job
  <2>1. ASSUME NEW S \in SUBSET job[h].visible PROVE Cardinality(S) \in Nat
    BY CountType DEF Job
  <2>2. state' \in [Users -> ReadState]
    BY <1>5, <2>1 DEF MarkUpsert, ReadState
  <2>. QED
    BY <1>1, <1>5, <2>2 DEF MarkUpsert
<1>6. ASSUME NEW h \in Requests, DeleteCommit(h)
      PROVE  Typed'
  <2>. job[h] \in Job
    OBVIOUS
  <2>0. ASSUME NEW row \in Message, NEW as \in {"retracted", "deleted"}
        PROVE  [row EXCEPT !.status = as] \in Message
    BY DEF Message
  <2>4. job[h].as \in {"retracted", "deleted"}
    BY DEF Job
  <2>1. message' \in [Ids -> Message]
    BY <1>6, <2>0, <2>4 DEF DeleteCommit
  <2>2. ASSUME NEW u \in Users
        PROVE  Recomputed(u, job[h].stored, job[h].visible) \in Nat
    BY CountType DEF Recomputed, Job
  <2>3. state' \in [Users -> ReadState]
    BY <1>6, <2>2 DEF DeleteCommit, ReadState
  <2>. QED
    BY <1>1, <1>6, <2>1, <2>3 DEF DeleteCommit
<1>. QED
  BY <1>2, <1>3, <1>4, <1>5, <1>6, Outcomes DEF vars

LEMMA AlwaysTyped == Spec => []Typed
BY TypedInit, TypedStep, PTL DEF Spec

(* The rows and what the requests hold keep their types: no interleaving of *)
(* increments, marks and recounts makes a count negative.                   *)
THEOREM TypesHold == Spec => []TypeOK
<1>. Typed => TypeOK
  BY DEF Typed
<1>. QED
  BY AlwaysTyped, PTL

-----------------------------------------------------------------------------
(* Locks.                                                                   *)

LockInv == \A g, h \in Requests : g # h => job[g].locked \cap job[h].locked = {}

LEMMA LockStep ==
  ASSUME Typed, LockInv, [Next]_vars
  PROVE  LockInv'
<1>. job \in [Requests -> Job]
  BY DEF Typed, ShapeInv
<1>1. CASE UNCHANGED vars
  BY <1>1 DEF vars, LockInv
<1>2. ASSUME NEW h \in Requests, NEW r, job' = [job EXCEPT ![h] = r], LocksGrow(h, r)
      PROVE  LockInv'
  BY <1>2 DEF LockInv, LocksGrow, Free
<1>3. ASSUME NEW h \in Requests, NEW r, Goes(h, r)
      PROVE  LockInv'
  <2>. LocksGrow(h, r)
    BY <1>3 DEF Goes, Outcome, LocksGrow, IdleJob
  <2>. QED
    BY <1>2, <1>3 DEF Goes
<1>4. ASSUME NEW h \in Requests, Finish(h)
      PROVE  LockInv'
  <2>. LocksGrow(h, IdleJob)
    BY DEF LocksGrow, IdleJob
  <2>. QED
    BY <1>2, <1>4 DEF Finish, Become
<1>5. ASSUME NEW h \in Requests, NEW u \in Users, NEW k \in Keys \cup {None},
             SendBegin(h, u, k)
      PROVE  LockInv'
  <2>. DEFINE r == [IdleJob EXCEPT !.pc = "insert", !.user = u, !.key = k,
                                   !.message = clock + 1]
  <2>. LocksGrow(h, r)
    BY DEF LocksGrow, IdleJob
  <2>. QED
    BY <1>2, <1>5 DEF SendBegin, Become
<1>. QED
  BY <1>1, <1>3, <1>4, <1>5, Outcomes DEF SendCommit, MarkUpsert, DeleteCommit

LEMMA CrossingFromLocks == Typed /\ LockInv => CrossingMessagesPass
<1>. SUFFICES ASSUME Typed, LockInv, Direct,
                     NEW g \in Sending, NEW h \in Sending,
                     WaitsFor(g, h), WaitsFor(h, g)
              PROVE  FALSE
  BY DEF CrossingMessagesPass
<1>1. g \in Requests /\ h \in Requests /\ Shape(job[g]) /\ Shape(job[h]) /\ g # h
  BY DEF Typed, ShapeInv, Sending, WaitsFor
<1>2. job[g].pc # "touch" \/ job[h].locked = {} \/ job[h].pc # "touch"
  BY <1>1 DEF Shape
<1>3. CASE job[g].pc = "touch"
  BY <1>1, <1>3 DEF Shape, WaitsFor
<1>4. CASE job[h].pc = "touch"
  BY <1>1, <1>4 DEF Shape, WaitsFor
<1>5. CASE job[g].pc # "touch" /\ job[h].pc # "touch"
  BY <1>1, <1>5 DEF Shape, Sending, LockInv
<1>. QED
  BY <1>3, <1>4, <1>5

(* Two sends of one direct conversation never wait for each other, for any  *)
(* number of requests in flight.                                            *)
THEOREM CrossingMessagesAlwaysPass == Spec => []CrossingMessagesPass
<1>1. Init => LockInv
  BY DEF Init, LockInv, IdleJob
<1>2. Typed /\ LockInv /\ [Next]_vars => LockInv'
  BY LockStep
<1>. QED
  BY <1>1, <1>2, AlwaysTyped, CrossingFromLocks, PTL DEF Spec

-----------------------------------------------------------------------------
(* Keys.                                                                    *)

Sends == {"insert"} \cup Inserted

Fresh(r) ==
    r.pc \in Sends => /\ r.message \in Ids
                      /\ r.message <= clock
                      /\ r.message \notin Stored

NewKey(r) ==
    r.pc \in Inserted => \/ r.key = None
                         \/ \A m \in Stored : ~(message[m].sender = r.user
                                                /\ message[m].key = r.key)

Targets == {"check", "recount", "upsert", "delete", "recompute"}

KeyInv ==
    /\ StoredOnce
    /\ \A m \in Stored : m <= clock
    /\ \A h \in Requests :
         /\ Fresh(job[h])
         /\ NewKey(job[h])
         /\ job[h].pc \in Targets => job[h].message \in Stored
    /\ \A g, h \in Requests : g # h =>
         /\ job[g].pc \in Sends /\ job[h].pc \in Sends => job[g].message # job[h].message
         /\ job[g].pc \in Inserted /\ job[h].pc \in Inserted
              => ~SameKey(g, job[h].user, job[h].key)

LEMMA KeyInit == Init => KeyInv
<1>. SUFFICES ASSUME Init PROVE KeyInv
  OBVIOUS
<1>. Stored = {} /\ \A h \in Requests : job[h].pc = "idle"
  BY DEF Init, Stored, IdleJob
<1>. QED
  BY DEF KeyInv, StoredOnce, Fresh, NewKey, Sends, Inserted, Targets

(* A step that changes neither messages nor the clock. *)
LEMMA KeyOutcome ==
  ASSUME Typed, KeyInv, NEW h \in Requests, NEW r, Goes(h, r), UNCHANGED <<message, clock>>
  PROVE  KeyInv'
<1>. job \in [Requests -> Job]
  BY DEF Typed, ShapeInv
<1>. Stored' = Stored /\ StoredOnce' /\ Visible \subseteq Stored
  BY DEF KeyInv, StoredOnce, Stored, Visible
<1>1. CASE r.pc \notin Sends /\ (r.pc \in Targets => r.message \in Stored)
  BY <1>1 DEF Goes, KeyInv, Fresh, NewKey, Sends, SameKey
<1>2. CASE Continues(h, r) /\ job[h].pc = "insert" /\ r.pc \in Inserted
           /\ KeyIsFree(r.user, r.key)
  <2>1. NewKey(r)
    BY <1>2 DEF NewKey, KeyIsFree
  <2>2. \A g \in Requests \ {h} : job[g].pc \in Inserted => ~SameKey(g, r.user, r.key)
    BY <1>2 DEF KeyIsFree
  <2>3. \A g \in Requests \ {h} : job[g].pc \in Inserted =>
          ~(r.key # None /\ job[g].user = r.user /\ job[g].key = r.key)
    BY <2>2 DEF SameKey
  <2>. QED
    BY <1>2, <2>1, <2>3
    DEF Goes, KeyInv, Continues, Fresh, NewKey, Sends, SameKey, Inserted, Targets
<1>3. CASE Continues(h, r) /\ job[h].pc \in Inserted /\ r.pc \in Inserted
  BY <1>3 DEF Goes, KeyInv, Continues, Fresh, NewKey, Sends, SameKey, Inserted, Targets
<1>. QED
  <2>1. r = IdleJob => r.pc \notin Sends /\ r.pc \notin Targets
    BY DEF IdleJob, Sends, Inserted, Targets
  <2>2. Continues(h, r) /\ job[h].pc \in Targets => r.message \in Stored
    BY DEF Continues, KeyInv
  <2>. QED
    BY <1>1, <1>2, <1>3, <2>1, <2>2 DEF Goes, Outcome, Sends, Inserted, Targets

LEMMA KeyStep ==
  ASSUME Typed, KeyInv, [Next]_vars
  PROVE  KeyInv'
<1>. job \in [Requests -> Job] /\ message \in [Ids -> Message]
  BY DEF Typed, TypeOK, ShapeInv
<1>. IdleJob.pc = "idle" /\ "idle" \notin Sends \cup Inserted \cup Targets
  BY DEF IdleJob, Sends, Inserted, Targets
<1>1. CASE UNCHANGED vars
  BY <1>1 DEF vars, KeyInv, StoredOnce, Stored, Fresh, NewKey, SameKey
<1>2. ASSUME NEW h \in Requests, NEW u \in Users, NEW k \in Keys \cup {None},
             SendBegin(h, u, k)
      PROVE  KeyInv'
  <2>. DEFINE r == [IdleJob EXCEPT !.pc = "insert", !.user = u, !.key = k,
                                   !.message = clock + 1]
  <2>1. job' = [job EXCEPT ![h] = r] /\ clock' = clock + 1 /\ clock \in Nat
        /\ clock + 1 \in Ids
    BY <1>2, ConstantsAssumption DEF SendBegin, Become, Typed, TypeOK, Times, Ids
  <2>2. r.pc = "insert" /\ r.message = clock + 1 /\ "insert" \in Sends
        /\ "insert" \notin Inserted \cup Targets
    BY DEF IdleJob, Sends, Inserted, Targets
  <2>. HIDE DEF r
  <2>3. Stored' = Stored /\ StoredOnce' /\ Stored \subseteq Nat /\ Ids \subseteq Nat
    BY <1>2, IdsAreTimes DEF SendBegin, Existing, Stored, KeyInv, StoredOnce
  <2>4. clock + 1 \notin Stored /\ \A m \in Stored : m <= clock + 1
    BY <2>1, <2>3 DEF KeyInv
  <2>5. \A g \in Requests \ {h} : Fresh(job[g])' /\ NewKey(job[g])'
    BY <1>2, <2>1, <2>3 DEF KeyInv, Fresh, NewKey, SendBegin, Existing
  <2>6. Fresh(job[h])' /\ NewKey(job[h])'
    BY <2>1, <2>2, <2>3, <2>4 DEF Fresh, NewKey
  <2>7. \A g \in Requests \ {h} : job[g].pc \in Sends => job[g].message # clock + 1
    BY <2>1, <2>3 DEF KeyInv, Fresh
  <2>. QED
    BY <2>1, <2>2, <2>3, <2>4, <2>5, <2>6, <2>7 DEF KeyInv, SameKey
<1>3. ASSUME NEW h \in Requests, SendCommit(h)
      PROVE  KeyInv'
  <2>. DEFINE m == job[h].message
  <2>1. job[h].pc \in Inserted /\ job[h].pc \in Sends /\ m \in Ids /\ m \notin Stored
        /\ m <= clock
    BY <1>3 DEF SendCommit, Inserted, Sends, KeyInv, Fresh
  <2>2. /\ job' = [job EXCEPT ![h] = IdleJob]
        /\ clock' = clock
        /\ message' = [message EXCEPT ![m] = [status |-> "visible", sender |-> job[h].user,
                                              key |-> job[h].key]]
    BY <1>3 DEF SendCommit, Finish, Become
  <2>3. Stored' = Stored \cup {m}
    BY <2>1, <2>2 DEF Stored
  <2>4. StoredOnce'
    BY <2>1, <2>2, <2>3 DEF KeyInv, StoredOnce, NewKey, Stored
  <2>5. \A g \in Requests \ {h} : Fresh(job[g])'
    BY <2>1, <2>2, <2>3 DEF KeyInv, Fresh
  <2>6. \A g \in Requests \ {h} : NewKey(job[g])'
    BY <2>1, <2>2, <2>3 DEF KeyInv, NewKey, SameKey, Stored
  <2>7. Fresh(job[h])' /\ NewKey(job[h])'
    BY <2>2 DEF Fresh, NewKey
  <2>. QED
    BY <2>1, <2>2, <2>3, <2>4, <2>5, <2>6, <2>7 DEF KeyInv, SameKey
<1>4. ASSUME NEW h \in Requests, UNCHANGED <<message, clock>>, Finish(h)
      PROVE  KeyInv'
  BY <1>4, KeyOutcome DEF Goes, Outcome, Finish, Become
<1>5. ASSUME NEW h \in Requests, DeleteCommit(h)
      PROVE  KeyInv'
  <2>. DEFINE m == job[h].message
  <2>1. m \in Stored /\ job[h].as \in {"retracted", "deleted"}
    BY <1>5 DEF DeleteCommit, KeyInv, Targets, Job
  <2>2. /\ job' = [job EXCEPT ![h] = IdleJob]
        /\ clock' = clock
        /\ message' = [message EXCEPT ![m].status = job[h].as]
    BY <1>5 DEF DeleteCommit, Finish, Become
  <2>3. \A n \in Ids : message'[n].sender = message[n].sender
                       /\ message'[n].key = message[n].key
    BY <2>2 DEF Message
  <2>4. Stored' = Stored
    BY <2>1, <2>2 DEF Stored, Message
  <2>5. StoredOnce'
    BY <2>3, <2>4 DEF KeyInv, StoredOnce, Stored
  <2>6. \A g \in Requests \ {h} : Fresh(job[g])' /\ NewKey(job[g])'
    BY <2>2, <2>3, <2>4 DEF KeyInv, Fresh, NewKey, Stored
  <2>7. Fresh(job[h])' /\ NewKey(job[h])'
    BY <2>2 DEF Fresh, NewKey
  <2>. QED
    BY <2>2, <2>4, <2>5, <2>6, <2>7 DEF KeyInv, SameKey
<1>. QED
  BY <1>1, <1>2, <1>3, <1>4, <1>5, KeyOutcome, Outcomes DEF MarkUpsert

LEMMA AlwaysKeyed == Spec => []KeyInv
BY KeyInit, KeyStep, AlwaysTyped, PTL DEF Spec

(* However many times and at the same time a client repeats a message under *)
(* one client_message_id, one row is stored.                                *)
THEOREM StoredOnceAlways == Spec => []StoredOnce
<1>. KeyInv => StoredOnce
  BY DEF KeyInv
<1>. QED
  BY AlwaysKeyed, PTL

-----------------------------------------------------------------------------
(* Read positions.                                                          *)

(* What a request of user r.user still has to write does not lie before the *)
(* position the user has.                                                   *)
NotBehind(r) ==
    r.user \in SerialUsers =>
        /\ r.pc \in Sends => state[r.user].read <= r.message
        /\ r.pc \in {"recount", "upsert"} =>
             Truncated[state[r.user].read] <= Truncated[r.message]

ReadInv ==
    /\ \A u \in Users : state[u].read <= clock
    /\ \A h \in Requests : NotBehind(job[h])
    /\ \A g, h \in Requests :
         g # h /\ job[g].user \in SerialUsers => job[g].user # job[h].user

LEMMA ReadInit == Init => ReadInv
BY ConstantsAssumption DEF Init, ReadInv, NotBehind, IdleJob, Sends, Inserted

LEMMA TruncatedGrows ==
  ASSUME NEW s \in Times, NEW t \in Times, s <= t
  PROVE  Truncated[s] <= Truncated[t]
BY TruncationAssumption

(* The user of a job stays, is dropped, or is one who may ask. *)
LEMMA SerialStays ==
  ASSUME Typed, ReadInv, NEW h \in Requests, NEW r, job' = [job EXCEPT ![h] = r],
         \/ r.user \notin Users
         \/ r.user = job[h].user
         \/ MayRequest(h, r.user)
  PROVE  (\A g, i \in Requests :
            g # i /\ job[g].user \in SerialUsers => job[g].user # job[i].user)'
BY ConstantsAssumption DEF Typed, ShapeInv, ReadInv, MayRequest

LEMMA ReadOutcome ==
  ASSUME Typed, ReadInv, NEW h \in Requests, NEW r, Goes(h, r), UNCHANGED <<state, clock>>
  PROVE  ReadInv'
<1>. job \in [Requests -> Job]
  BY DEF Typed, ShapeInv
<1>1. r.user \notin Users \/ r.user = job[h].user \/ MayRequest(h, r.user)
  BY ConstantsAssumption DEF Goes, Outcome, IdleJob, Continues
<1>2. NotBehind(r)
  BY DEF Goes, Outcome, Continues, NotBehind, ReadInv, IdleJob, Sends, Inserted
<1>3. NotBehind(r)' /\ \A g \in Requests \ {h} : NotBehind(job[g])'
  BY <1>2 DEF NotBehind, ReadInv, Goes
<1>. QED
  BY <1>1, <1>3, SerialStays DEF ReadInv, Goes

(* A request that writes user u's position and ends: no other request of a  *)
(* serial user is left to be behind it.                                     *)
LEMMA ReadWrite ==
  ASSUME Typed, ReadInv, NEW h \in Requests, Finish(h), UNCHANGED clock,
         \A u \in Users : state'[u].read # state[u].read =>
                            u = job[h].user /\ state'[u].read <= clock
  PROVE  ReadInv'
<1>. job \in [Requests -> Job] /\ job' = [job EXCEPT ![h] = IdleJob]
  BY DEF Typed, ShapeInv, Finish, Become
<1>. IdleJob.user \notin Users /\ IdleJob.pc = "idle"
  BY ConstantsAssumption DEF IdleJob
<1>1. ASSUME NEW g \in Requests \ {h}
      PROVE  NotBehind(job[g])'
  <2>. job'[g] = job[g] /\ (job[g].user \in SerialUsers => job[g].user # job[h].user)
    BY DEF ReadInv
  <2>. job[g].user \in SerialUsers => state'[job[g].user].read = state[job[g].user].read
    BY ConstantsAssumption
  <2>. QED
    BY DEF NotBehind, ReadInv
<1>2. NotBehind(job[h])'
  BY ConstantsAssumption DEF NotBehind
<1>. QED
  BY <1>1, <1>2, SerialStays DEF ReadInv

LEMMA ReadStep ==
  ASSUME Typed, KeyInv, ReadInv, [Next]_vars
  PROVE  ReadInv'
<1>. job \in [Requests -> Job]
  BY DEF Typed, ShapeInv
<1>1. CASE UNCHANGED vars
  BY <1>1 DEF vars, ReadInv, NotBehind
<1>2. ASSUME NEW h \in Requests, NEW u \in Users, NEW k \in Keys \cup {None},
             SendBegin(h, u, k)
      PROVE  ReadInv'
  <2>1. /\ MayRequest(h, u) /\ state' = state /\ clock' = clock + 1 /\ clock \in Nat
        /\ \A x \in Users : state[x].read \in Nat
    BY <1>2, IdsAreTimes DEF SendBegin, Typed, TypeOK, ReadState
  <2>2. PICK r : /\ job' = [job EXCEPT ![h] = r]
                 /\ r.pc = "insert" /\ r.user = u /\ r.message = clock + 1
    <3>. DEFINE w == [IdleJob EXCEPT !.pc = "insert", !.user = u, !.key = k,
                                     !.message = clock + 1]
    <3>1. w.pc = "insert" /\ w.user = u /\ w.message = clock + 1
      BY DEF IdleJob
    <3>2. job' = [job EXCEPT ![h] = w]
      BY <1>2 DEF SendBegin, Become
    <3>. HIDE DEF w
    <3>. QED
      BY <3>1, <3>2
  <2>3. \A x \in Users : state[x].read <= clock + 1
    BY <2>1 DEF ReadInv
  <2>4. NotBehind(r)'
    BY <2>1, <2>2, <2>3, ConstantsAssumption DEF NotBehind
  <2>5. \A g \in Requests \ {h} : NotBehind(job[g])'
    BY <2>1, <2>2 DEF NotBehind, ReadInv
  <2>. QED
    BY <2>1, <2>2, <2>3, <2>4, <2>5, SerialStays DEF ReadInv
<1>3. ASSUME NEW h \in Requests, SendCommit(h)
      PROVE  ReadInv'
  <2>1. job[h].message <= clock
    BY <1>3 DEF SendCommit, KeyInv, Fresh, Sends, Inserted
  <2>. QED
    BY <1>3, <2>1, ReadWrite DEF SendCommit, AfterSend
<1>4. ASSUME NEW h \in Requests, MarkUpsert(h)
      PROVE  ReadInv'
  <2>1. job[h].message <= clock
    BY <1>4 DEF MarkUpsert, KeyInv, Targets
  <2>. QED
    BY <1>4, <2>1, ReadWrite DEF MarkUpsert, Typed, TypeOK
<1>5. ASSUME NEW h \in Requests, DeleteCommit(h)
      PROVE  ReadInv'
  BY <1>5, ReadWrite DEF DeleteCommit
<1>. QED
  BY <1>1, <1>2, <1>3, <1>4, <1>5, ReadOutcome, Outcomes

LEMMA PositionsAdvance ==
  ASSUME Typed, ReadInv, [Next]_vars, NEW u \in SerialUsers
  PROVE  Truncated[state[u].read] <= Truncated[state'[u].read]
<1>. u \in Users /\ state[u].read \in Times /\ Truncated[state[u].read] \in Nat
  BY ConstantsAssumption, TruncationAssumption, IdsAreTimes DEF Typed, TypeOK, ReadState
<1>1. CASE state'[u].read = state[u].read
  BY <1>1
<1>2. ASSUME NEW h \in Requests, SendCommit(h), state'[u].read # state[u].read
      PROVE  Truncated[state[u].read] <= Truncated[state'[u].read]
  <2>1. job[h].user = u /\ state'[u].read = job[h].message /\ job[h].pc \in Sends
    BY <1>2 DEF SendCommit, AfterSend, Sends, Inserted
  <2>2. state[u].read <= job[h].message /\ job[h].message \in Times
    BY <2>1 DEF ReadInv, NotBehind, Typed, TypeOK, Job
  <2>. QED
    BY <2>1, <2>2, TruncatedGrows
<1>3. ASSUME NEW h \in Requests, MarkUpsert(h), state'[u].read # state[u].read
      PROVE  Truncated[state[u].read] <= Truncated[state'[u].read]
  <2>1. job[h].user = u /\ state'[u].read = job[h].message /\ job[h].pc = "upsert"
    BY <1>3 DEF MarkUpsert, Typed, TypeOK
  <2>. QED
    BY <2>1 DEF ReadInv, NotBehind
<1>4. ASSUME NEW h \in Requests, DeleteCommit(h)
      PROVE  state'[u].read = state[u].read
  BY <1>4 DEF DeleteCommit
<1>. QED
  BY <1>1, <1>2, <1>3, <1>4, Outcomes DEF vars, SendBegin

(* A user who waits for each answer never has a read position taken back,   *)
(* whatever the others do meanwhile.                                        *)
THEOREM ReadPositionsAdvance == Spec => ReadPositionAdvances
<1>1. Typed /\ ReadInv /\ [Next]_vars =>
        [\A u \in SerialUsers : Truncated[state[u].read] <= Truncated[state'[u].read]]_vars
  BY PositionsAdvance
<1>2. Typed /\ KeyInv /\ ReadInv /\ [Next]_vars => ReadInv'
  BY ReadStep
<1>. QED
  BY <1>1, <1>2, ReadInit, AlwaysTyped, AlwaysKeyed, PTL DEF Spec, ReadPositionAdvances
=============================================================================
