----------------------------- MODULE RepoProofs -----------------------------
(***************************************************************************)
(* What the parts that keep a project's files promise, proved for any      *)
(* number of missions, projects, edits and overlapping commands.           *)
(***************************************************************************)
EXTENDS Missions, Worktrees, SourceSync, ProjectConfig,
        SequenceTheorems, FiniteSetTheorems, TLAPS

-----------------------------------------------------------------------------
(* Missions: what was promised stays in missions.json                      *)

Ids == MissionIds \cup {"none"}
Projs == Projects \cup {"none"}
Stores == [ids : SUBSET Ids, members : SUBSET (Ids \X Projs)]
MissionOps == {"none", "add", "remove", "create", "delete", "collapse", "list"}
Stages == {"idle", "loaded", "save", "projects", "read", "changed", "reread"}
Jobs == [op : MissionOps, m : Ids, p : Projs, at : Stages, mine : Stores,
         seen : SUBSET Projects, missed : SUBSET Projects]

MissionTypes ==
  /\ store \in Stores /\ owed \in Stores /\ known \subseteq Projects
  /\ job \in [Callers -> Jobs]

Locking(r) == r.at \in {"loaded", "save", "reread"}

\* A command between its load under the write lock and the save holds the lock.
WriterHoldsLock == \A c \in Callers : Locking(job[c]) => lock = c

\* What a command is about to save, against the store s, the promises o and what lists
\* have stripped: it starts from the store as it is, what it takes away is no longer
\* promised, and what it will promise it has put in.
Fits(r, s, o, gone) ==
  /\ r.at = "loaded" => r.mine = s
  /\ r.at = "loaded" /\ r.op = "delete" => r.m \notin o.ids /\ \A x \in o.members : x[1] # r.m
  /\ r.at = "loaded" /\ r.op = "remove" => <<r.m, r.p>> \notin o.members
  /\ r.at = "save" => /\ o.ids \subseteq r.mine.ids /\ o.members \subseteq r.mine.members \cup gone
                      /\ r.op = "create" => r.m \in r.mine.ids
                      /\ r.op = "add" => <<r.m, r.p>> \in r.mine.members

CommandsFit == \A c \in Callers : Fits(job[c], store, owed, stripped)

\* A list in progress has seen the registered projects, or counts them as missed.
Counts(r, k) == r.op = "list" => k \subseteq r.seen \cup r.missed

ListsCount == \A c \in Callers : Counts(job[c], known)

PromisedKnown == \A x \in owed.members : x[2] \in known

MissionInv ==
  MissionTypes /\ WriterHoldsLock /\ CommandsFit /\ ListsCount /\ PromisedKnown /\ MissionsKept

\* Nothing is stored, promised or under way.
LEMMA InitMissionInv == MissionInit => MissionInv
<1> SUFFICES ASSUME MissionInit PROVE MissionInv OBVIOUS
<1>1. Resting \in Jobs /\ Empty \in Stores /\ Resting.at = "idle" /\ Resting.op = "none"
      BY DEF Resting, Asked, Empty, Jobs, Stores, Ids, Projs, MissionOps, Stages
<1>2. MissionTypes BY <1>1 DEF MissionInit, MissionTypes
<1>3. \A c \in Callers : job[c] = Resting BY DEF MissionInit
<1>4. WriterHoldsLock /\ CommandsFit /\ ListsCount
      BY <1>1, <1>3 DEF WriterHoldsLock, Locking, CommandsFit, Fits, ListsCount, Counts
<1> QED BY <1>2, <1>4 DEF MissionInit, MissionInv, PromisedKnown, MissionsKept, Empty

\* A step of one command.  It leaves the store alone and promises nothing new, or it is
\* the one that holds the lock.
LEMMA JobStepKeepsInv ==
  ASSUME MissionInv, NEW c \in Callers, NEW r \in Jobs, job' = [job EXCEPT ![c] = r],
         store' \in Stores, owed' \in Stores, known' = known,
         \/ lock' = lock /\ (Locking(r) => lock = c)
         \/ lock = "free" /\ lock' = c
         \/ Locking(job[c]) /\ lock' = "free" /\ ~Locking(r),
         \/ /\ store' = store /\ stripped' = stripped
            /\ owed'.ids \subseteq owed.ids /\ owed'.members \subseteq owed.members
         \/ Locking(job[c]),
         Fits(r, store', owed', stripped'), Counts(r, known), MissionsKept', PromisedKnown'
  PROVE  MissionInv'
<1>1. /\ job' \in [Callers -> Jobs] /\ job'[c] = r /\ \A d \in Callers : d # c => job'[d] = job[d]
      BY DEF MissionInv, MissionTypes
<1>2. MissionTypes' BY <1>1 DEF MissionInv, MissionTypes
<1>3. \A d \in Callers : d # c /\ Locking(job[d]) => lock = d /\ lock # c /\ lock # "free"
      BY MissionAssumption DEF MissionInv, WriterHoldsLock
<1>4. Locking(job[c]) => lock = c BY DEF MissionInv, WriterHoldsLock
<1>5. WriterHoldsLock'
  <2> SUFFICES ASSUME NEW d \in Callers, Locking(job'[d]) PROVE lock' = d
      BY DEF WriterHoldsLock, Locking
  <2> QED BY <1>1, <1>3, <1>4
<1>6. CommandsFit'
  <2> SUFFICES ASSUME NEW d \in Callers, d # c PROVE Fits(job[d], store', owed', stripped')
      BY <1>1 DEF CommandsFit, Fits
  <2>1. Fits(job[d], store, owed, stripped) BY DEF MissionInv, CommandsFit
  <2>2. CASE /\ store' = store /\ stripped' = stripped
             /\ owed'.ids \subseteq owed.ids /\ owed'.members \subseteq owed.members
        BY <2>1, <2>2 DEF Fits
  <2>3. CASE Locking(job[c])
    <3>1. ~Locking(job[d]) BY <1>3, <1>4, <2>3
    <3> QED BY <3>1 DEF Fits, Locking
  <2> QED BY <2>2, <2>3
<1>7. ListsCount' BY <1>1 DEF MissionInv, ListsCount, Counts
<1> QED BY <1>2, <1>5, <1>6, <1>7 DEF MissionInv

\* A command's record with another stage and another copy of the store.
Turned(r, at, mine) ==
  [op |-> r.op, m |-> r.m, p |-> r.p, at |-> at, mine |-> mine,
   seen |-> r.seen, missed |-> r.missed]

\* A command's record with another set of missed projects, as the record it is.
LEMMA RecordChanges ==
  ASSUME NEW r \in Jobs, NEW v
  PROVE  [r EXCEPT !.missed = v] = [op |-> r.op, m |-> r.m, p |-> r.p, at |-> r.at, mine |-> r.mine,
                                    seen |-> r.seen, missed |-> v]
BY DEF Jobs

\* What To makes of a command's record.
LEMMA ToTurns ==
  ASSUME MissionTypes, NEW c \in Callers, NEW at \in Stages, NEW mine \in Stores, To(c, at, mine)
  PROVE  Turned(job[c], at, mine) \in Jobs /\ job' = [job EXCEPT ![c] = Turned(job[c], at, mine)]
<1>1. job[c] \in Jobs BY DEF MissionTypes
<1>2. Turned(job[c], at, mine) \in Jobs BY <1>1 DEF Turned, Jobs
<1>3. [job[c] EXCEPT !.at = at, !.mine = mine] = Turned(job[c], at, mine)
  <2> DEFINE r == job[c]
             q == [r EXCEPT !.at = at]
  <2>1. q = [op |-> r.op, m |-> r.m, p |-> r.p, at |-> at, mine |-> r.mine,
               seen |-> r.seen, missed |-> r.missed]
        BY <1>1 DEF Jobs
  <2>2. [r EXCEPT !.at = at, !.mine = mine] = [q EXCEPT !.mine = mine] OBVIOUS
  <2> HIDE DEF q, r
  <2>3. [q EXCEPT !.mine = mine] = Turned(r, at, mine) BY <2>1 DEF Turned
  <2> QED BY <2>2, <2>3 DEF r
<1>4. job' = [job EXCEPT ![c] = [job[c] EXCEPT !.at = at, !.mine = mine]] BY DEF MissionTypes, To
<1> QED BY <1>2, <1>3, <1>4

\* A command that returns, from wherever it was, has nothing left to fit.
LEMMA RestingFits ==
  \A s, o, gone, k : /\ Resting \in Jobs /\ ~Locking(Resting)
                     /\ Fits(Resting, s, o, gone) /\ Counts(Resting, k)
BY DEF Resting, Asked, Empty, Jobs, Stores, Ids, Projs, MissionOps, Stages, Locking, Fits, Counts

\* Commands that return without a save.
LEMMA ReturnKeepsInv ==
  ASSUME MissionInv, NEW c \in Callers, UNCHANGED <<store, known, owed, stripped>>,
         job' = [job EXCEPT ![c] = Resting],
         lock' = lock \/ (lock' = "free" /\ Locking(job[c]))
  PROVE  MissionInv'
<1>1. store' \in Stores /\ owed' \in Stores BY DEF MissionInv, MissionTypes
<1>2. MissionsKept' /\ PromisedKnown' BY DEF MissionInv, MissionsKept, PromisedKnown
<1> QED BY <1>1, <1>2, RestingFits, JobStepKeepsInv

\* A command turns to its next stage; the store and the promises stay.
LEMMA TurnKeepsInv ==
  ASSUME MissionInv, NEW c \in Callers, NEW at \in Stages, NEW mine \in Stores, To(c, at, mine),
         UNCHANGED <<store, known, owed, stripped>>,
         \/ lock' = lock /\ (Locking(job[c]) \/ at \notin {"loaded", "save", "reread"})
         \/ lock = "free" /\ lock' = c,
         Fits(Turned(job[c], at, mine), store, owed, stripped)
  PROVE  MissionInv'
<1> DEFINE r == Turned(job[c], at, mine)
<1>1. r \in Jobs /\ job' = [job EXCEPT ![c] = r] BY ToTurns DEF MissionInv
<1>2. r.at = at BY DEF Turned
<1>3. Locking(job[c]) => lock = c BY DEF MissionInv, WriterHoldsLock
<1>4. store' \in Stores /\ owed' \in Stores BY DEF MissionInv, MissionTypes
<1>5. MissionsKept' /\ PromisedKnown' BY DEF MissionInv, MissionsKept, PromisedKnown
<1>6. Fits(r, store', owed', stripped') OBVIOUS
<1>8. Counts(r, known) BY DEF MissionInv, ListsCount, Counts, Turned
<1> HIDE DEF r
<1>7. Locking(r) => at \in {"loaded", "save", "reread"} BY <1>2 DEF Locking
<1> QED BY <1>1, <1>3, <1>4, <1>5, <1>6, <1>7, <1>8, JobStepKeepsInv

\* The locked copy with one change, as the record it is.
LEMMA CopyChanges ==
  ASSUME NEW s \in Stores, NEW A, NEW B
  PROVE  /\ [s EXCEPT !.ids = A] = [ids |-> A, members |-> s.members]
         /\ [s EXCEPT !.members = B] = [ids |-> s.ids, members |-> B]
BY DEF Stores

\* A command takes the lock and a copy of the store as it is; a removal withdraws what
\* it will take out.
LEMMA LoadKeepsInv ==
  ASSUME MissionInv, NEW c \in Callers, NEW op \in MissionOps \ {"list"}, NEW m \in Ids, NEW p \in Projs,
         LockAndLoad(c, op, m, p)
  PROVE  MissionInv'
<1> DEFINE at == IF op = "collapse" THEN "save" ELSE "loaded"
           q == Asked(op, m, p, at, store, {}, {})
<1>0. store \in Stores /\ owed \in Stores BY DEF MissionInv, MissionTypes
<1>1. /\ lock = "free" /\ lock' = c /\ job' = [job EXCEPT ![c] = q] /\ UNCHANGED <<store, known, stripped>>
      BY DEF LockAndLoad
<1>2. q \in Jobs BY <1>0 DEF Asked, Jobs, Stages
<1>3. /\ owed' \in Stores /\ owed'.ids \subseteq owed.ids /\ owed'.members \subseteq owed.members
      /\ op = "delete" => m \notin owed'.ids /\ \A x \in owed'.members : x[1] # m
      /\ op = "remove" => <<m, p>> \notin owed'.members
  <2>1. CASE op = "delete"
    <3>1. owed' = Drop(m, owed) BY <2>1 DEF LockAndLoad
    <3> QED BY <1>0, <2>1, <3>1 DEF Drop, Of, Stores
  <2>2. CASE op = "remove"
    <3>1. owed' = [ids |-> owed.ids, members |-> owed.members \ {<<m, p>>}]
          BY <1>0, <2>2, CopyChanges DEF LockAndLoad
    <3> QED BY <1>0, <2>2, <3>1 DEF Stores
  <2>3. CASE op \notin {"delete", "remove"}
    <3>1. owed' = owed BY <2>3 DEF LockAndLoad
    <3> QED BY <1>0, <2>3, <3>1
  <2> QED BY <2>1, <2>2, <2>3
<1>4. MissionsKept' /\ PromisedKnown' BY <1>1, <1>3 DEF MissionInv, MissionsKept, PromisedKnown
<1>5. q.at = at /\ q.op = op /\ q.m = m /\ q.p = p /\ q.mine = store BY DEF Asked
<1>6. Fits(q, store', owed', stripped')
  <2>1. owed'.ids \subseteq store.ids /\ owed'.members \subseteq store.members \cup stripped
        BY <1>1, <1>4 DEF MissionsKept
  <2>2. at \in {"save", "loaded"} /\ (at = "save" => op = "collapse") OBVIOUS
  <2> HIDE DEF at, q
  <2> QED BY <1>1, <1>3, <1>5, <2>1, <2>2 DEF Fits
<1>7. store' \in Stores /\ Counts(q, known) BY <1>0, <1>1, <1>5 DEF Counts
<1> HIDE DEF at, q
<1> QED BY <1>1, <1>2, <1>3, <1>4, <1>6, <1>7, JobStepKeepsInv

\* The commands that change their copy of the store, under the lock.
LEMMA MutationKeepsInv ==
  ASSUME MissionInv, NEW c \in Callers,
         \/ CreateRetries(c) \/ AddTree(c) \/ AddFails(c) \/ RemoveTree(c)
         \/ \E own \in BOOLEAN : CreateDir(c, own)
  PROVE  MissionInv'
<1> DEFINE r == job[c]
<1>0. /\ r \in Jobs /\ store \in Stores /\ owed \in Stores /\ r.mine \in Stores /\ Fits(r, store, owed, stripped)
      /\ Me(c) = <<r.m, r.p>> /\ r.m \in Ids /\ Me(c) \in Ids \X Projs
      BY DEF MissionInv, MissionTypes, CommandsFit, Me, Jobs
<1>1. CASE CreateRetries(c) BY <1>1, ReturnKeepsInv DEF CreateRetries, Unlock, At, Locking
<1>2. CASE AddFails(c) BY <1>2, ReturnKeepsInv DEF AddFails, Unlock, At, Locking
<1>3. ASSUME NEW own \in BOOLEAN, CreateDir(c, own) PROVE MissionInv'
  <2> DEFINE new == [ids |-> r.mine.ids \cup {r.m}, members |-> r.mine.members]
  <2>1. /\ r.op = "create" /\ r.at = "loaded" /\ To(c, "save", new)
        /\ UNCHANGED <<store, known, owed, lock, stripped>>
        BY <1>0, <1>3, CopyChanges DEF CreateDir, At
  <2>2. new \in Stores /\ store.ids \subseteq new.ids /\ store.members \subseteq new.members /\ r.m \in new.ids
        BY <1>0, <2>1 DEF Stores, Fits
  <2> HIDE DEF new
  <2>3. Fits(Turned(r, "save", new), store, owed, stripped)
        BY <2>1, <2>2 DEF Fits, Turned, MissionInv, MissionsKept
  <2> QED BY <2>1, <2>2, <2>3, TurnKeepsInv DEF Locking, Stages
<1>4. CASE AddTree(c)
  <2> DEFINE new == [ids |-> r.mine.ids, members |-> r.mine.members \cup {<<r.m, r.p>>}]
  <2>1. /\ r.op = "add" /\ r.at = "loaded" /\ To(c, "save", new)
        /\ UNCHANGED <<store, known, owed, lock, stripped>>
        BY <1>0, <1>4, CopyChanges DEF AddTree, At
  <2>2. /\ new \in Stores /\ store.ids \subseteq new.ids /\ store.members \subseteq new.members
        /\ <<r.m, r.p>> \in new.members
        BY <1>0, <2>1 DEF Stores, Fits
  <2> HIDE DEF new
  <2>3. Fits(Turned(r, "save", new), store, owed, stripped)
        BY <2>1, <2>2 DEF Fits, Turned, MissionInv, MissionsKept
  <2> QED BY <2>1, <2>2, <2>3, TurnKeepsInv DEF Locking, Stages
<1>5. CASE RemoveTree(c)
  <2> DEFINE new == [ids |-> r.mine.ids, members |-> r.mine.members \ {<<r.m, r.p>>}]
  <2>1. /\ r.op = "remove" /\ r.at = "loaded" /\ To(c, "save", new)
        /\ UNCHANGED <<store, known, owed, lock, stripped>>
        BY <1>0, <1>5, CopyChanges DEF RemoveTree, At
  <2>2. new \in Stores /\ owed.ids \subseteq new.ids /\ owed.members \subseteq new.members \cup stripped
        BY <1>0, <2>1 DEF Stores, Fits, MissionInv, MissionsKept
  <2> HIDE DEF new
  <2>3. Fits(Turned(r, "save", new), store, owed, stripped) BY <2>1, <2>2 DEF Fits, Turned
  <2> QED BY <2>1, <2>2, <2>3, TurnKeepsInv DEF Locking, Stages
<1> QED BY <1>1, <1>2, <1>3, <1>4, <1>5

\* delete_mission saves once per project: its copy and the store lose the same entry,
\* which nobody is owed any more.
LEMMA DeleteKeepsInv ==
  ASSUME MissionInv, NEW c \in Callers,
         DeleteDir(c) \/ \E p \in Projects : DeleteTree(c, p) \/ DeleteFails(c, p)
  PROVE  MissionInv'
<1> DEFINE r == job[c]
<1>0. r \in Jobs /\ store \in Stores /\ owed \in Stores /\ r.mine \in Stores /\ Fits(r, store, owed, stripped)
      BY DEF MissionInv, MissionTypes, CommandsFit, Jobs
<1>1. ASSUME NEW p \in Projects, DeleteFails(c, p) PROVE MissionInv'
      BY <1>1, ReturnKeepsInv DEF DeleteFails, Unlock, At, Locking
<1>2. ASSUME NEW p \in Projects, DeleteTree(c, p) PROVE MissionInv'
  <2> DEFINE new == [ids |-> store.ids, members |-> store.members \ {<<r.m, p>>}]
             q == Turned(r, "loaded", new)
  <2>1. r.op = "delete" /\ r.at = "loaded" /\ r.mine = store BY <1>0, <1>2 DEF DeleteTree, At, Fits
  <2>2. To(c, "loaded", new) /\ store' = new /\ UNCHANGED <<known, owed, lock, stripped>>
        BY <1>0, <1>2, <2>1, CopyChanges DEF DeleteTree
  <2>3. new \in Stores BY <1>0 DEF Stores
  <2>4. <<r.m, p>> \notin owed.members BY <1>0, <2>1 DEF Fits
  <2>5. MissionsKept' /\ PromisedKnown' BY <2>2, <2>4 DEF MissionInv, MissionsKept, PromisedKnown
  <2> HIDE DEF new
  <2>6. q \in Jobs /\ job' = [job EXCEPT ![c] = q] BY <2>2, <2>3, ToTurns DEF MissionInv, Stages
  <2>7. Fits(q, store', owed', stripped') BY <1>0, <2>1, <2>2 DEF Fits, Turned
  <2>8. Counts(q, known) BY <2>1 DEF Counts, Turned
  <2>9. Locking(r) /\ lock = c BY <2>1 DEF Locking, MissionInv, WriterHoldsLock
  <2> HIDE DEF q
  <2> QED BY <1>0, <2>2, <2>3, <2>5, <2>6, <2>7, <2>8, <2>9, JobStepKeepsInv
<1>3. CASE DeleteDir(c)
  <2> DEFINE new == Drop(r.m, store)
  <2>1. r.op = "delete" /\ r.at = "loaded" /\ To(c, "save", new) /\ UNCHANGED <<store, known, owed, lock, stripped>>
        BY <1>3 DEF DeleteDir, At
  <2>2. new \in Stores /\ owed.ids \subseteq new.ids /\ owed.members \subseteq new.members \cup stripped
        BY <1>0, <2>1 DEF Drop, Of, Stores, Fits, MissionInv, MissionsKept
  <2> HIDE DEF new
  <2>3. Fits(Turned(r, "save", new), store, owed, stripped) BY <2>1, <2>2 DEF Fits, Turned
  <2> QED BY <2>1, <2>2, <2>3, TurnKeepsInv DEF Locking, Stages
<1> QED BY <1>1, <1>2, <1>3

\* A save makes the copy the store, and promises what the copy has.
LEMMA SaveKeepsInv ==
  ASSUME MissionInv, NEW c \in Callers, Save(c) \/ SaveFails(c) PROVE MissionInv'
<1> DEFINE r == job[c]
<1>0. /\ r \in Jobs /\ store \in Stores /\ owed \in Stores /\ r.mine \in Stores /\ Fits(r, store, owed, stripped)
      /\ Me(c) = <<r.m, r.p>> /\ r.m \in Ids /\ Me(c) \in Ids \X Projs
      BY DEF MissionInv, MissionTypes, CommandsFit, Me, Jobs
<1>1. CASE SaveFails(c) BY <1>1, ReturnKeepsInv DEF SaveFails, Unlock, Locking
<1>2. CASE Save(c)
  <2>1. /\ r.at = "save" /\ store' = r.mine /\ owed' = Promise(c) /\ known' = known
        /\ lock' = "free" /\ job' = [job EXCEPT ![c] = Resting]
        /\ stripped' = IF r.op = "add" THEN stripped \ {<<r.m, r.p>>} ELSE stripped
        BY <1>0, <1>2 DEF Save, Unlock
  <2>2. /\ Promise(c) \in Stores
        /\ Promise(c).ids \subseteq r.mine.ids /\ Promise(c).members \subseteq r.mine.members \cup stripped'
        /\ \A x \in Promise(c).members : x[2] \in known
    <3>0. /\ owed.ids \subseteq r.mine.ids /\ owed.members \subseteq r.mine.members \cup stripped'
          /\ r.op = "create" => r.m \in r.mine.ids
          /\ r.op = "add" => <<r.m, r.p>> \in r.mine.members
          /\ \A x \in owed.members : x[2] \in known
          BY <1>0, <2>1 DEF Fits, MissionInv, PromisedKnown
    <3>1. CASE r.op = "create"
      <4>1. Promise(c) = [ids |-> owed.ids \cup {r.m}, members |-> owed.members]
            BY <1>0, <3>1, CopyChanges DEF Promise
      <4> QED BY <1>0, <3>0, <3>1, <4>1 DEF Stores
    <3>2. CASE Promise(c) = owed BY <1>0, <3>0, <3>2
    <3>3. CASE r.op = "add" /\ r.p \in known
      <4>1. Promise(c) = [ids |-> owed.ids, members |-> owed.members \cup {<<r.m, r.p>>}]
            BY <1>0, <3>3, CopyChanges DEF Promise
      <4> QED BY <1>0, <3>0, <3>3, <4>1 DEF Stores
    <3> QED BY <3>1, <3>2, <3>3 DEF Promise
  <2>3. MissionsKept' /\ PromisedKnown' BY <2>1, <2>2 DEF MissionsKept, PromisedKnown
  <2> QED BY <1>0, <2>1, <2>2, <2>3, RestingFits, JobStepKeepsInv DEF Locking
<1> QED BY <1>1, <1>2

\* load_missions: what it read of the store without the lock decides about directories
\* only; the store it saves was read under the lock, less projects that it had not seen:
\* nobody is owed them, or it counts them as missed.
LEMMA ListKeepsInv ==
  ASSUME MissionInv, NEW c \in Callers,
         ReadProjects(c) \/ ReadStore(c) \/ ReconcileUnlocked(c) \/ LockForCleanup(c) \/ ReconcileLocked(c)
  PROVE  MissionInv'
<1> DEFINE r == job[c]
<1>0. /\ r \in Jobs /\ store \in Stores /\ owed \in Stores /\ r.mine \in Stores /\ Fits(r, store, owed, stripped)
      /\ known \subseteq Projects
      BY DEF MissionInv, MissionTypes, CommandsFit, Jobs
<1>1. CASE ReadProjects(c)
  <2>1. UNCHANGED <<store, known, lock, owed, stripped>> BY <1>1 DEF ReadProjects
  <2>2. PICK seen \in {known, {}} :
          job' = [job EXCEPT ![c] = Asked("list", "none", "none", "projects", Empty, seen, known \ seen)]
        BY <1>1 DEF ReadProjects
  <2> DEFINE q == Asked("list", "none", "none", "projects", Empty, seen, known \ seen)
  <2>3. q \in Jobs BY <1>0 DEF Asked, Jobs, Stages, Empty, Stores, Ids, Projs, MissionOps
  <2>4. Fits(q, store', owed', stripped') /\ ~Locking(q) /\ Counts(q, known)
        BY DEF Asked, Fits, Locking, Counts
  <2>5. MissionsKept' /\ PromisedKnown' BY <2>1 DEF MissionInv, MissionsKept, PromisedKnown
  <2> HIDE DEF q
  <2> QED BY <1>0, <2>1, <2>2, <2>3, <2>4, <2>5, JobStepKeepsInv DEF q
<1>2. CASE ReadStore(c)
  <2>1. /\ r.op = "list" /\ r.at = "projects" /\ To(c, "read", store)
        /\ UNCHANGED <<store, known, lock, owed, stripped>>
        BY <1>2 DEF ReadStore, At
  <2>2. Fits(Turned(r, "read", store), store, owed, stripped) BY <1>0, <2>1 DEF Fits, Turned
  <2> QED BY <1>0, <2>1, <2>2, TurnKeepsInv DEF Stages
<1>3. CASE ReconcileUnlocked(c)
  <2>1. r.op = "list" /\ r.at = "read" /\ UNCHANGED <<store, known, lock, owed, stripped>>
        BY <1>3 DEF ReconcileUnlocked, At
  <2>2. CASE job' = [job EXCEPT ![c] = Resting] BY <2>1, <2>2, ReturnKeepsInv
  <2>3. CASE To(c, "changed", r.mine)
    <3>1. Fits(Turned(r, "changed", r.mine), store, owed, stripped) BY <1>0, <2>1 DEF Fits, Turned
    <3> QED BY <1>0, <2>1, <2>3, <3>1, TurnKeepsInv DEF Stages
  <2> QED BY <1>3, <2>2, <2>3 DEF ReconcileUnlocked
<1>4. CASE LockForCleanup(c)
  <2>1. /\ r.op = "list" /\ r.at = "changed" /\ To(c, "reread", r.mine) /\ lock = "free" /\ lock' = c
        /\ UNCHANGED <<store, known, owed, stripped>>
        BY <1>4 DEF LockForCleanup, At
  <2>2. Fits(Turned(r, "reread", r.mine), store, owed, stripped) BY <1>0, <2>1 DEF Fits, Turned
  <2> QED BY <1>0, <2>1, <2>2, TurnKeepsInv DEF Stages
<1>5. CASE ReconcileLocked(c)
  <2>1. /\ r.op = "list" /\ r.at = "reread" /\ lock' = "free"
        /\ job' = [job EXCEPT ![c] = Resting] /\ UNCHANGED <<known, owed>>
        /\ \/ UNCHANGED <<store, stripped>>
           \/ /\ store' = Reconciled(c, store)
              /\ stripped' = stripped \cup {x \in Orphans(c, store) : x[2] \in r.missed}
        BY <1>5 DEF ReconcileLocked, ReconcileFrom, At, Unlock
  <2>2. Reconciled(c, store) = [ids |-> store.ids, members |-> store.members \ Orphans(c, store)]
        BY <1>0, CopyChanges DEF Reconciled
  <2>3. \A x \in owed.members : x \in Orphans(c, store) => x[2] \in r.missed
    <3>1. \A x \in owed.members : x[2] \in known BY DEF MissionInv, PromisedKnown
    <3>2. known \subseteq r.seen \cup r.missed BY <2>1 DEF MissionInv, ListsCount, Counts
    <3> QED BY <3>1, <3>2 DEF Orphans
  <2>4. owed.ids \subseteq store.ids /\ owed.members \subseteq store.members \cup stripped
        BY DEF MissionInv, MissionsKept
  <2>5. store' \in Stores /\ MissionsKept'
        BY <1>0, <2>1, <2>2, <2>3, <2>4 DEF Stores, MissionsKept
  <2>6. PromisedKnown' BY <2>1 DEF MissionInv, PromisedKnown
  <2> QED BY <1>0, <2>1, <2>5, <2>6, RestingFits, JobStepKeepsInv DEF Locking
<1> QED BY <1>1, <1>2, <1>3, <1>4, <1>5

\* What happens around the commands withdraws promises or ends the commands.
LEMMA AroundKeepsInv ==
  ASSUME MissionInv,
         Quit \/ (\E p \in Projects : ForgetProject(p) \/ RegisterProject(p)) \/ UNCHANGED missionVars
  PROVE  MissionInv'
<1>1. CASE Quit
  <2>1. \A c \in Callers : job'[c] = Resting BY <1>1 DEF Quit
  <2>2. /\ UNCHANGED <<store, known, owed, stripped>> /\ job' \in [Callers -> Jobs]
        BY <1>1, RestingFits DEF Quit
  <2>3. MissionTypes' BY <2>2 DEF MissionInv, MissionTypes
  <2>4. WriterHoldsLock' /\ CommandsFit' /\ ListsCount'
        BY <2>1, RestingFits DEF WriterHoldsLock, CommandsFit, Locking, Fits, ListsCount, Counts
  <2> QED BY <2>2, <2>3, <2>4 DEF MissionInv, PromisedKnown, MissionsKept
<1>2. ASSUME NEW p \in Projects, ForgetProject(p) PROVE MissionInv'
  <2>0. store \in Stores /\ owed \in Stores BY DEF MissionInv, MissionTypes
  <2>1. /\ UNCHANGED <<store, lock, job, stripped>> /\ known' = known \ {p}
        /\ owed' = [ids |-> owed.ids, members |-> {x \in owed.members : x[2] # p}]
        BY <1>2, <2>0, CopyChanges DEF ForgetProject
  <2>2. MissionTypes' BY <2>0, <2>1 DEF MissionInv, MissionTypes, Stores
  <2>3. WriterHoldsLock' BY <2>1 DEF MissionInv, WriterHoldsLock, Locking
  <2>4. CommandsFit' /\ ListsCount' BY <2>1 DEF MissionInv, CommandsFit, Fits, ListsCount, Counts
  <2>5. PromisedKnown' /\ MissionsKept' BY <2>1 DEF MissionInv, PromisedKnown, MissionsKept
  <2> QED BY <2>2, <2>3, <2>4, <2>5 DEF MissionInv
<1>3. ASSUME NEW p \in Projects, RegisterProject(p) PROVE MissionInv'
  <2> DEFINE Listing(c) == job[c].op = "list"
             Noted(c) == [op |-> job[c].op, m |-> job[c].m, p |-> job[c].p, at |-> job[c].at,
                          mine |-> job[c].mine, seen |-> job[c].seen, missed |-> job[c].missed \cup {p}]
  <2>0. job \in [Callers -> Jobs] BY DEF MissionInv, MissionTypes
  <2>1. /\ UNCHANGED <<store, lock, owed, stripped>> /\ known' = known \cup {p}
        /\ job' = [c \in Callers |-> IF Listing(c) THEN [job[c] EXCEPT !.missed = @ \cup {p}] ELSE job[c]]
        BY <1>3 DEF RegisterProject
  <2>2. \A c \in Callers : [job[c] EXCEPT !.missed = @ \cup {p}] = Noted(c) BY <2>0, RecordChanges
  <2>3. \A c \in Callers : job'[c] = IF Listing(c) THEN Noted(c) ELSE job[c] BY <2>1, <2>2
  <2>4. \A c \in Callers : Noted(c) \in Jobs BY <2>0 DEF Jobs
  <2>5. job' \in [Callers -> Jobs]
    <3>1. \A c \in Callers : job'[c] \in Jobs BY <2>0, <2>3, <2>4
    <3>2. job' = [c \in Callers |-> job'[c]] BY <2>1
    <3> HIDE DEF Noted, Listing
    <3> QED BY <3>1, <3>2
  <2>6. \A c \in Callers : /\ job'[c].op = job[c].op /\ job'[c].at = job[c].at /\ job'[c].mine = job[c].mine
                           /\ job'[c].m = job[c].m /\ job'[c].p = job[c].p /\ job'[c].seen = job[c].seen
                           /\ job[c].missed \subseteq job'[c].missed
                           /\ Listing(c) => p \in job'[c].missed
    <3> TAKE c \in Callers
    <3>1. CASE Listing(c)
      <4>1. job'[c] = Noted(c) BY <2>3, <3>1
      <4> HIDE DEF Listing
      <4> QED BY <4>1
    <3>2. CASE ~Listing(c)
      <4>1. job'[c] = job[c] BY <2>3, <3>2
      <4> HIDE DEF Listing
      <4> QED BY <3>2, <4>1
    <3> QED BY <3>1, <3>2
  <2>7. MissionTypes' BY <2>1, <2>5 DEF MissionInv, MissionTypes
  <2>8. WriterHoldsLock' BY <2>1, <2>6 DEF MissionInv, WriterHoldsLock, Locking
  <2>9. CommandsFit'
    <3> SUFFICES ASSUME NEW c \in Callers PROVE Fits(job'[c], store, owed, stripped)
        BY <2>1 DEF CommandsFit, Fits
    <3>1. Fits(job[c], store, owed, stripped) BY DEF MissionInv, CommandsFit
    <3> QED BY <2>6, <3>1 DEF Fits
  <2>10. ListsCount'
    <3> SUFFICES ASSUME NEW c \in Callers, Listing(c) PROVE known' \subseteq job'[c].seen \cup job'[c].missed
        BY <2>6 DEF ListsCount, Counts
    <3>1. known \subseteq job[c].seen \cup job[c].missed BY DEF MissionInv, ListsCount, Counts
    <3> QED BY <2>1, <2>6, <3>1
  <2>11. PromisedKnown' /\ MissionsKept' BY <2>1 DEF MissionInv, PromisedKnown, MissionsKept
  <2> QED BY <2>7, <2>8, <2>9, <2>10, <2>11 DEF MissionInv
<1>4. CASE UNCHANGED missionVars
      BY <1>4 DEF missionVars, MissionInv, MissionTypes, WriterHoldsLock, Locking, CommandsFit, Fits,
                  ListsCount, Counts, PromisedKnown, MissionsKept
<1> QED BY <1>1, <1>2, <1>3, <1>4

\* Every step keeps the invariant.
LEMMA StepKeepsMissionInv == ASSUME MissionInv, [MissionNext]_missionVars PROVE MissionInv'
<1>1. ASSUME NEW c \in Callers,
             \/ \E m \in MissionIds, p \in Projects, op \in {"add", "remove"} : LockAndLoad(c, op, m, p)
             \/ \E m \in MissionIds, op \in {"create", "delete", "collapse"} : LockAndLoad(c, op, m, "none")
      PROVE  MissionInv'
      BY <1>1, LoadKeepsInv DEF Ids, Projs, MissionOps
<1> QED BY <1>1, MutationKeepsInv, DeleteKeepsInv, SaveKeepsInv, ListKeepsInv, AroundKeepsInv
        DEF MissionNext

\* MissionsKept: a mission that was created and a project that was added stay in
\* missions.json until somebody removes them, whatever commands overlap and wherever the
\* application ends; what a list takes out instead had a project that it did not see in
\* config.json, cut short at that moment or not yet holding it.
THEOREM MissionsKeptTheorem == MissionSpec => []MissionsKept
<1>1. MissionInv => MissionsKept BY DEF MissionInv
<1> QED BY InitMissionInv, StepKeepsMissionInv, <1>1, PTL DEF MissionSpec

-----------------------------------------------------------------------------
(* Worktrees: what a stacked add that fails leaves behind                  *)

TaskRecord(r) ==
  /\ r = [op |-> r.op, at |-> r.at, name |-> r.name, parent |-> r.parent, had |-> r.had,
          mine |-> r.mine, alone |-> r.alone, erred |-> r.erred]
  /\ r.alone \in BOOLEAN

TaskTypes == task = [t \in Threads |-> task[t]] /\ \A t \in Threads : TaskRecord(task[t])

\* A command that is alone: every other thread is idle.
AloneIsAlone ==
  \A t \in Threads : task[t].at # "idle" /\ task[t].alone =>
    \A u \in Threads : u # t => task[u].at = "idle"

\* How far a stacked add that is alone has come, against worktrees T, branches B and
\* stacked parents S: its parent is there until the rollback, and each step of the undo
\* takes away what is its own, or has failed.
Undoes(r, T, B, S) ==
  /\ r.op = "stack" /\ r.at = "save" => <<r.name, r.parent>> \in r.mine
  /\ r.at = "failed" => r.op = "undo"
  /\ r.alone =>
       /\ r.op = "stack" /\ r.at = "git" => <<r.name, r.parent>> \in S
       /\ r.op = "undo" /\ r.at \in {"load", "save"} => <<r.name, r.parent>> \in S
       /\ r.op = "undo" /\ r.at = "save" => \A x \in r.mine : x[1] # r.name
       /\ r.op = "undo" /\ r.at \in {"clean", "branch", "failed"} /\ "parent" \notin r.erred
            => \A x \in S : x[1] # r.name
       /\ r.op = "undo" /\ r.at \in {"branch", "failed"} /\ "tree" \notin r.erred => r.name \notin T
       /\ r.at = "failed" /\ "branch" \notin r.erred => r.name \notin B

FailuresUndone == \A t \in Threads : Undoes(task[t], trees, branches, stacked)

WorktreeInv == TaskTypes /\ AloneIsAlone /\ FailuresUndone

\* An idle thread has nothing to undo.
LEMMA IdleUndoes ==
  /\ TaskRecord(NoTask) /\ NoTask.at = "idle"
  /\ \A r, T, B, S : r.at = "idle" => Undoes(r, T, B, S)
BY DEF NoTask, TaskRecord, Undoes

\* A step of one command: the others are idle, or neither they nor it are alone.
LEMMA TaskStepKeepsInv ==
  ASSUME WorktreeInv, NEW t \in Threads, task[t].at # "idle", NEW r, TaskRecord(r),
         task' = [task EXCEPT ![t] = r], r.at = "idle" \/ r.alone = task[t].alone,
         Undoes(r, trees', branches', stacked')
  PROVE  WorktreeInv'
<1>1. task'[t] = r /\ \A u \in Threads : u # t => task'[u] = task[u]
      BY DEF WorktreeInv, TaskTypes
<1>2. TaskTypes'
  <2>1. \A u \in Threads : TaskRecord(task'[u]) BY <1>1 DEF WorktreeInv, TaskTypes
  <2>2. \A u \in Threads : TaskRecord(task[u])' BY <2>1 DEF TaskRecord
  <2>3. task' = [u \in Threads |-> task'[u]] BY DEF WorktreeInv, TaskTypes
  <2> QED BY <2>2, <2>3 DEF TaskTypes
<1>3. AloneIsAlone' BY <1>1 DEF WorktreeInv, AloneIsAlone
<1>4. FailuresUndone'
  <2> SUFFICES ASSUME NEW u \in Threads, u # t PROVE Undoes(task[u], trees', branches', stacked')
      BY <1>1 DEF FailuresUndone, Undoes
  <2>1. task[u].at = "idle" \/ ~task[u].alone BY DEF WorktreeInv, AloneIsAlone
  <2>2. Undoes(task[u], trees, branches, stacked) BY DEF WorktreeInv, FailuresUndone
  <2> QED BY <2>1, <2>2, IdleUndoes DEF Undoes
<1> QED BY <1>2, <1>3, <1>4 DEF WorktreeInv

\* What the steps of a command make of its record.
Went(r, at) == [op |-> r.op, at |-> at, name |-> r.name, parent |-> r.parent, had |-> r.had,
                mine |-> r.mine, alone |-> r.alone, erred |-> r.erred]
Copied(r, mine) == [op |-> r.op, at |-> "save", name |-> r.name, parent |-> r.parent, had |-> r.had,
                    mine |-> mine, alone |-> r.alone, erred |-> r.erred]
Looked(r, had) == [op |-> r.op, at |-> "git", name |-> r.name, parent |-> r.parent, had |-> had,
                   mine |-> r.mine, alone |-> r.alone, erred |-> r.erred]
Undoing(r) == [op |-> "undo", at |-> "load", name |-> r.name, parent |-> r.parent, had |-> r.had,
               mine |-> r.mine, alone |-> r.alone, erred |-> r.erred]

Failing(r, at, what) == [op |-> r.op, at |-> at, name |-> r.name, parent |-> r.parent, had |-> r.had,
                         mine |-> r.mine, alone |-> r.alone, erred |-> r.erred \cup {what}]

\* What the moves of a worktree command make of its record.
LEMMA TaskMoves ==
  ASSUME TaskTypes, NEW t \in Threads, NEW x
  PROVE  /\ TaskRecord(Went(task[t], x)) /\ TaskRecord(Copied(task[t], x))
         /\ TaskRecord(Looked(task[t], x)) /\ TaskRecord(Undoing(task[t]))
         /\ GoTo(t, x) => task' = [task EXCEPT ![t] = Went(task[t], x)]
         /\ Copies(t, x) => task' = [task EXCEPT ![t] = Copied(task[t], x)]
         /\ task' = [task EXCEPT ![t].at = "git", ![t].had = x] => task' = [task EXCEPT ![t] = Looked(task[t], x)]
         /\ task' = [task EXCEPT ![t].op = "undo", ![t].at = "load"] => task' = [task EXCEPT ![t] = Undoing(task[t])]
<1> DEFINE r == task[t]
<1>0. TaskRecord(r) BY DEF TaskTypes
<1>1. /\ TaskRecord(Went(r, x)) /\ TaskRecord(Copied(r, x)) /\ TaskRecord(Looked(r, x)) /\ TaskRecord(Undoing(r))
      BY <1>0 DEF TaskRecord, Went, Copied, Looked, Undoing
<1>2. ASSUME GoTo(t, x) PROVE task' = [task EXCEPT ![t] = Went(r, x)]
  <2>1. task' = [task EXCEPT ![t] = [r EXCEPT !.at = x]] BY <1>2 DEF GoTo, TaskTypes
  <2>2. [r EXCEPT !.at = x] = Went(r, x) BY <1>0 DEF TaskRecord, Went
  <2> QED BY <2>1, <2>2
<1>3. ASSUME Copies(t, x) PROVE task' = [task EXCEPT ![t] = Copied(r, x)]
  <2> DEFINE q == [r EXCEPT !.at = "save"]
  <2>1. task' = [task EXCEPT ![t] = [r EXCEPT !.at = "save", !.mine = x]] BY <1>3 DEF Copies, TaskTypes
  <2>2. [r EXCEPT !.at = "save", !.mine = x] = [q EXCEPT !.mine = x] OBVIOUS
  <2>3. q = Went(r, "save") BY <1>0 DEF TaskRecord, Went
  <2> HIDE DEF q
  <2>4. [q EXCEPT !.mine = x] = Copied(r, x) BY <2>3 DEF Went, Copied
  <2> QED BY <2>1, <2>2, <2>4
<1>4. ASSUME task' = [task EXCEPT ![t].at = "git", ![t].had = x] PROVE task' = [task EXCEPT ![t] = Looked(r, x)]
  <2> DEFINE q == [r EXCEPT !.at = "git"]
  <2>1. task' = [task EXCEPT ![t] = [r EXCEPT !.at = "git", !.had = x]] BY <1>4 DEF TaskTypes
  <2>2. [r EXCEPT !.at = "git", !.had = x] = [q EXCEPT !.had = x] OBVIOUS
  <2>3. q = Went(r, "git") BY <1>0 DEF TaskRecord, Went
  <2> HIDE DEF q
  <2>4. [q EXCEPT !.had = x] = Looked(r, x) BY <2>3 DEF Went, Looked
  <2> QED BY <2>1, <2>2, <2>4
<1>5. ASSUME task' = [task EXCEPT ![t].op = "undo", ![t].at = "load"] PROVE task' = [task EXCEPT ![t] = Undoing(r)]
  <2> DEFINE q == [r EXCEPT !.op = "undo"]
  <2>1. task' = [task EXCEPT ![t] = [r EXCEPT !.op = "undo", !.at = "load"]] BY <1>5 DEF TaskTypes
  <2>2. [r EXCEPT !.op = "undo", !.at = "load"] = [q EXCEPT !.at = "load"] OBVIOUS
  <2>3. q = [op |-> "undo", at |-> r.at, name |-> r.name, parent |-> r.parent, had |-> r.had,
             mine |-> r.mine, alone |-> r.alone, erred |-> r.erred]
        BY <1>0 DEF TaskRecord
  <2> HIDE DEF q
  <2>4. [q EXCEPT !.at = "load"] = Undoing(r) BY <2>3 DEF Undoing
  <2> QED BY <2>1, <2>2, <2>4
<1> QED BY <1>1, <1>2, <1>3, <1>4, <1>5

\* What a failing step of the undo makes of it.
LEMMA FailMoves ==
  ASSUME TaskTypes, NEW t \in Threads, NEW at, NEW what, Fails(t, at, what)
  PROVE  task' = [task EXCEPT ![t] = Failing(task[t], at, what)]
<1> DEFINE r == task[t]
           q == [r EXCEPT !.at = at]
<1>0. TaskRecord(r) BY DEF TaskTypes
<1>1. task' = [task EXCEPT ![t] = [q EXCEPT !.erred = r.erred \cup {what}]] BY DEF Fails, TaskTypes
<1>2. q = Went(r, at) BY <1>0 DEF TaskRecord, Went
<1> HIDE DEF q
<1>3. [q EXCEPT !.erred = r.erred \cup {what}] = Failing(r, at, what) BY <1>2 DEF Went, Failing
<1> QED BY <1>1, <1>3

\* A command that goes on, with its record as one of the five moves leaves it.
LEMMA MoveKeepsInv ==
  ASSUME WorktreeInv, NEW t \in Threads, task[t].at # "idle", NEW r,
         \/ r = NoTask
         \/ \E x : r = Went(task[t], x) \/ r = Copied(task[t], x) \/ r = Looked(task[t], x)
         \/ r = Undoing(task[t])
         \/ \E at, what : r = Failing(task[t], at, what),
         task' = [task EXCEPT ![t] = r], Undoes(r, trees', branches', stacked')
  PROVE  WorktreeInv'
<1>0. TaskRecord(task[t]) BY DEF WorktreeInv, TaskTypes
<1>1. TaskRecord(r)
  <2>1. CASE r = NoTask BY <2>1, IdleUndoes
  <2>2. ASSUME NEW x, r = Went(task[t], x) PROVE TaskRecord(r) BY <1>0, <2>2 DEF TaskRecord, Went
  <2>3. ASSUME NEW x, r = Copied(task[t], x) PROVE TaskRecord(r) BY <1>0, <2>3 DEF TaskRecord, Copied
  <2>4. ASSUME NEW x, r = Looked(task[t], x) PROVE TaskRecord(r) BY <1>0, <2>4 DEF TaskRecord, Looked
  <2>5. CASE r = Undoing(task[t]) BY <1>0, <2>5 DEF TaskRecord, Undoing
  <2>6. ASSUME NEW at, NEW what, r = Failing(task[t], at, what) PROVE TaskRecord(r)
        BY <1>0, <2>6 DEF TaskRecord, Failing
  <2> QED BY <2>1, <2>2, <2>3, <2>4, <2>5, <2>6
<1>2. r.at = "idle" \/ r.alone = task[t].alone
      BY IdleUndoes DEF Went, Copied, Looked, Undoing, Failing
<1> QED BY <1>1, <1>2, TaskStepKeepsInv

\* A command that ends has nothing left to undo.
LEMMA FinishKeepsInv ==
  ASSUME WorktreeInv, NEW t \in Threads, task[t].at # "idle", Finish(t) PROVE WorktreeInv'
BY MoveKeepsInv, IdleUndoes DEF Finish

\* add_worktree and remove_worktree: they have nothing to undo.
LEMMA PlainKeepsInv ==
  ASSUME WorktreeInv, NEW t \in Threads,
         \/ CheckAdd(t) \/ GitAdd(t) \/ GitAddFails(t) \/ SaveEntry(t)
         \/ CheckRemove(t) \/ GitRemove(t) \/ GitRemoveFails(t) \/ LoadEntry(t)
  PROVE  WorktreeInv'
<1> DEFINE r == task[t]
<1>0. /\ r.op \in {"add", "remove"} /\ r.at # "idle" /\ TaskTypes
      BY DEF WorktreeInv, CheckAdd, GitAdd, GitAddFails, SaveEntry, CheckRemove, GitRemove,
             GitRemoveFails, LoadEntry, Busy
<1>1. CASE Finish(t) BY <1>0, <1>1, FinishKeepsInv
<1>2. ASSUME NEW at, at \in {"load", "git"}, GoTo(t, at) PROVE WorktreeInv'
  <2>1. Undoes(Went(r, at), trees', branches', stacked') BY <1>0, <1>2 DEF Undoes, Went
  <2> QED BY <1>0, <1>2, <2>1, TaskMoves, MoveKeepsInv
<1>3. ASSUME NEW had, task' = [task EXCEPT ![t].at = "git", ![t].had = had] PROVE WorktreeInv'
  <2>1. Undoes(Looked(r, had), trees', branches', stacked') BY <1>0 DEF Undoes, Looked
  <2> QED BY <1>0, <1>3, <2>1, TaskMoves, MoveKeepsInv
<1>4. ASSUME NEW mine, Copies(t, mine) PROVE WorktreeInv'
  <2>1. Undoes(Copied(r, mine), trees', branches', stacked') BY <1>0 DEF Undoes, Copied
  <2> QED BY <1>0, <1>4, <2>1, TaskMoves, MoveKeepsInv
<1> QED BY <1>1, <1>2, <1>3, <1>4
        DEF CheckAdd, GitAdd, GitAddFails, SaveEntry, CheckRemove, GitRemove, GitRemoveFails, LoadEntry

\* add_stacked_worktree: the parent is saved, and the undo of a failure takes it, the
\* worktree and the branch away again, as far as its steps work.
LEMMA StackKeepsInv ==
  ASSUME WorktreeInv, NEW t \in Threads,
         \/ CheckStack(t) \/ LoadParent(t) \/ SaveParent(t) \/ GitStack(t) \/ GitStackFails(t)
         \/ LoadRollback(t) \/ Rollback(t) \/ CleanUp(t) \/ CleanUpBranch(t) \/ ReportFailure(t)
         \/ EntryFails(t)
  PROVE  WorktreeInv'
<1> DEFINE r == task[t]
<1>0. /\ r.at # "idle" /\ TaskTypes /\ Name(t) = r.name
      BY DEF WorktreeInv, CheckStack, LoadParent, SaveParent, GitStack, GitStackFails, LoadRollback,
             Rollback, CleanUp, CleanUpBranch, ReportFailure, EntryFails, Busy, Name
<1>u. Undoes(r, trees, branches, stacked) BY DEF WorktreeInv, FailuresUndone
<1>1. CASE Finish(t) BY <1>0, <1>1, FinishKeepsInv
<1>2. CASE CheckStack(t)
  <2>1. CASE GoTo(t, "load")
    <3>1. Undoes(Went(r, "load"), trees', branches', stacked') BY <1>2 DEF CheckStack, Busy, Undoes, Went
    <3> QED BY <1>0, <2>1, <3>1, TaskMoves, MoveKeepsInv
  <2> QED BY <1>1, <1>2, <2>1 DEF CheckStack
<1>3. CASE LoadParent(t)
  <2> DEFINE mine == Without(stacked, r.name) \cup {<<r.name, r.parent>>}
  <2>1. r.op = "stack" /\ Copies(t, mine) BY <1>0, <1>3 DEF LoadParent, Busy
  <2>2. Undoes(Copied(r, mine), trees', branches', stacked') BY <2>1 DEF Undoes, Copied
  <2> HIDE DEF mine
  <2> QED BY <1>0, <2>1, <2>2, TaskMoves, MoveKeepsInv
<1>4. CASE SaveParent(t)
  <2>1. r.op = "stack" /\ r.at = "save" /\ stacked' = r.mine /\ GoTo(t, "git")
        BY <1>4 DEF SaveParent, Busy
  <2>2. Undoes(Went(r, "git"), trees', branches', stacked') BY <1>u, <2>1 DEF Undoes, Went
  <2> QED BY <1>0, <2>1, <2>2, TaskMoves, MoveKeepsInv
<1>5. CASE GitStackFails(t)
  <2>1. /\ r.op = "stack" /\ r.at = "git" /\ stacked' = stacked
        /\ task' = [task EXCEPT ![t].op = "undo", ![t].at = "load"]
        BY <1>5 DEF GitStackFails, Busy
  <2>2. Undoes(Undoing(r), trees', branches', stacked') BY <1>u, <2>1 DEF Undoes, Undoing
  <2> QED BY <1>0, <2>1, <2>2, TaskMoves, MoveKeepsInv
<1>6. CASE LoadRollback(t)
  <2> DEFINE mine == Without(stacked, r.name)
  <2>1. /\ r.op = "undo" /\ r.at = "load" /\ UNCHANGED <<trees, branches, stacked>>
        /\ \/ <<r.name, r.parent>> \in stacked /\ Copies(t, mine)
           \/ <<r.name, r.parent>> \notin stacked /\ GoTo(t, "clean")
           \/ Fails(t, "clean", "parent")
        BY <1>0, <1>6 DEF LoadRollback, Busy
  <2>2. \A x \in mine : x[1] # r.name BY DEF Without
  <2> HIDE DEF mine
  <2>3. CASE Copies(t, mine)
    <3>1. Undoes(Copied(r, mine), trees', branches', stacked') BY <1>u, <2>1, <2>2 DEF Undoes, Copied
    <3> QED BY <1>0, <2>3, <3>1, TaskMoves, MoveKeepsInv
  <2>4. CASE <<r.name, r.parent>> \notin stacked /\ GoTo(t, "clean")
    <3>1. Undoes(Went(r, "clean"), trees', branches', stacked') BY <1>u, <2>1, <2>4 DEF Undoes, Went
    <3> QED BY <1>0, <2>4, <3>1, TaskMoves, MoveKeepsInv
  <2>5. CASE Fails(t, "clean", "parent")
    <3>1. Undoes(Failing(r, "clean", "parent"), trees', branches', stacked')
          BY <1>u, <2>1 DEF Undoes, Failing
    <3> QED BY <1>0, <2>5, <3>1, FailMoves, MoveKeepsInv
  <2> QED BY <2>1, <2>3, <2>4, <2>5
<1>7. CASE Rollback(t)
  <2>1. /\ r.op = "undo" /\ r.at = "save" /\ UNCHANGED <<trees, branches>>
        /\ \/ stacked' = r.mine /\ GoTo(t, "clean")
           \/ stacked' = stacked /\ Fails(t, "clean", "parent")
        BY <1>7 DEF Rollback, Busy
  <2>2. CASE stacked' = r.mine /\ GoTo(t, "clean")
    <3>1. Undoes(Went(r, "clean"), trees', branches', stacked') BY <1>u, <2>1, <2>2 DEF Undoes, Went
    <3> QED BY <1>0, <2>2, <3>1, TaskMoves, MoveKeepsInv
  <2>3. CASE Fails(t, "clean", "parent")
    <3>1. Undoes(Failing(r, "clean", "parent"), trees', branches', stacked')
          BY <1>u, <2>1 DEF Undoes, Failing
    <3> QED BY <1>0, <2>3, <3>1, FailMoves, MoveKeepsInv
  <2> QED BY <2>1, <2>2, <2>3
<1>8. CASE CleanUp(t)
  <2>1. /\ r.op = "undo" /\ r.at = "clean" /\ UNCHANGED <<branches, stacked>>
        /\ \/ r.name \notin trees' /\ GoTo(t, "branch")
           \/ Fails(t, "branch", "tree")
        BY <1>0, <1>8 DEF CleanUp, Busy
  <2>2. CASE r.name \notin trees' /\ GoTo(t, "branch")
    <3>1. Undoes(Went(r, "branch"), trees', branches', stacked') BY <1>u, <2>1, <2>2 DEF Undoes, Went
    <3> QED BY <1>0, <2>2, <3>1, TaskMoves, MoveKeepsInv
  <2>3. CASE Fails(t, "branch", "tree")
    <3>1. Undoes(Failing(r, "branch", "tree"), trees', branches', stacked')
          BY <1>u, <2>1 DEF Undoes, Failing
    <3> QED BY <1>0, <2>3, <3>1, FailMoves, MoveKeepsInv
  <2> QED BY <2>1, <2>2, <2>3
<1>9. CASE CleanUpBranch(t)
  <2>1. /\ r.op = "undo" /\ r.at = "branch" /\ UNCHANGED <<trees, stacked>>
        /\ \/ r.name \notin branches' /\ GoTo(t, "failed")
           \/ Fails(t, "failed", "branch")
        BY <1>0, <1>9 DEF CleanUpBranch, Busy
  <2>2. CASE r.name \notin branches' /\ GoTo(t, "failed")
    <3>1. Undoes(Went(r, "failed"), trees', branches', stacked') BY <1>u, <2>1, <2>2 DEF Undoes, Went
    <3> QED BY <1>0, <2>2, <3>1, TaskMoves, MoveKeepsInv
  <2>3. CASE Fails(t, "failed", "branch")
    <3>1. Undoes(Failing(r, "failed", "branch"), trees', branches', stacked')
          BY <1>u, <2>1 DEF Undoes, Failing
    <3> QED BY <1>0, <2>3, <3>1, FailMoves, MoveKeepsInv
  <2> QED BY <2>1, <2>2, <2>3
<1> QED BY <1>1, <1>2, <1>3, <1>4, <1>5, <1>6, <1>7, <1>8, <1>9 DEF GitStack, ReportFailure, EntryFails

\* Only the field is new.
LEMMA SeenRecord ==
  ASSUME NEW r, TaskRecord(r)
  PROVE  [r EXCEPT !.alone = FALSE]
           = [op |-> r.op, at |-> r.at, name |-> r.name, parent |-> r.parent, had |-> r.had,
              mine |-> r.mine, alone |-> FALSE, erred |-> r.erred]
<1>1. ASSUME NEW x
      PROVE  [r EXCEPT !.alone = x]
               = [op |-> r.op, at |-> r.at, name |-> r.name, parent |-> r.parent, had |-> r.had,
                  mine |-> r.mine, alone |-> x, erred |-> r.erred]
      BY DEF TaskRecord
<1> QED BY <1>1

\* A command that starts, and the user's own git: nobody who is busy stays alone.
LEMMA OverlapKeepsInv ==
  ASSUME WorktreeInv,
         \/ \E t \in Threads, op \in {"add", "remove", "stack"} : \E n, p : StartTask(t, op, n, p)
         \/ \E n \in Names : UserGit(n)
  PROVE  WorktreeInv'
<1> DEFINE Seen(r) == [op |-> r.op, at |-> r.at, name |-> r.name, parent |-> r.parent, had |-> r.had,
                       mine |-> r.mine, alone |-> FALSE, erred |-> r.erred]
<1>1. \A t \in Threads : TaskRecord(task[t]) /\ Undoes(task[t], trees, branches, stacked)
      BY DEF WorktreeInv, TaskTypes, FailuresUndone
<1>2. \A t \in Threads : [task[t] EXCEPT !.alone = FALSE] = Seen(task[t])
      BY <1>1, SeenRecord
<1>3. \A t \in Threads : TaskRecord(Seen(task[t])) /\ Seen(task[t]).at = task[t].at /\ ~Seen(task[t]).alone
      BY <1>1 DEF TaskRecord
<1>4. \A t \in Threads : \A T, B, S : Undoes(Seen(task[t]), T, B, S) BY <1>1 DEF Undoes
<1> HIDE DEF Seen
<1>5. ASSUME NEW n \in Names, UserGit(n) PROVE WorktreeInv'
  <2>1. task' = [t \in Threads |-> IF task[t].at = "idle" THEN task[t] ELSE Seen(task[t])]
        BY <1>2, <1>5 DEF UserGit
  <2>2. \A t \in Threads : TaskRecord(task'[t]) /\ Undoes(task'[t], trees', branches', stacked')
        BY <1>1, <1>3, <1>4, <2>1, IdleUndoes
  <2>3. \A t \in Threads : TaskRecord(task[t])' BY <2>2 DEF TaskRecord
  <2>4. TaskTypes' BY <2>1, <2>3 DEF TaskTypes
  <2>5. AloneIsAlone' BY <1>3, <2>1 DEF AloneIsAlone
  <2>6. FailuresUndone' BY <2>2 DEF FailuresUndone, Undoes
  <2> QED BY <2>4, <2>5, <2>6 DEF WorktreeInv
<1>6. ASSUME NEW t \in Threads, NEW op \in {"add", "remove", "stack"}, NEW n, NEW p, StartTask(t, op, n, p)
      PROVE  WorktreeInv'
  <2> DEFINE others == {u \in Threads \ {t} : task[u].at # "idle"}
             new == [op |-> op, at |-> "check", name |-> n, parent |-> p, had |-> FALSE,
                     mine |-> {}, alone |-> (others = {}), erred |-> {}]
  <2>1. task' = [u \in Threads |-> IF u = t THEN new ELSE IF u \in others THEN Seen(task[u]) ELSE task[u]]
        BY <1>2, <1>6 DEF StartTask
  <2>2. /\ TaskRecord(new) /\ new.at = "check" /\ (new.alone <=> others = {})
        /\ Undoes(new, trees', branches', stacked')
        BY DEF TaskRecord, Undoes
  <2>3. \A u \in Threads : u # t /\ u \notin others => task[u].at = "idle" OBVIOUS
  <2>4. others \subseteq Threads /\ t \notin others OBVIOUS
  <2> HIDE DEF new, others
  <2>5. \A u \in Threads : TaskRecord(task'[u]) /\ Undoes(task'[u], trees', branches', stacked')
        BY <1>1, <1>3, <1>4, <2>1, <2>2, <2>3, IdleUndoes
  <2>6. \A u \in Threads : TaskRecord(task[u])' BY <2>5 DEF TaskRecord
  <2>7. TaskTypes' BY <2>1, <2>6 DEF TaskTypes
  <2>8. AloneIsAlone' BY <1>3, <2>1, <2>2, <2>3, <2>4 DEF AloneIsAlone
  <2>9. FailuresUndone' BY <2>5 DEF FailuresUndone, Undoes
  <2> QED BY <2>7, <2>8, <2>9 DEF WorktreeInv
<1> QED BY <1>5, <1>6

\* Every step keeps the invariant.
LEMMA StepKeepsWorktreeInv == ASSUME WorktreeInv, [WorktreeNext]_worktreeVars PROVE WorktreeInv'
<1>1. ASSUME NEW t \in Threads,
             \/ \E n \in Names, op \in {"add", "remove"} : StartTask(t, op, n, <<>>)
             \/ \E n, p \in Names : StartTask(t, "stack", n, p)
      PROVE  WorktreeInv'
      BY <1>1, OverlapKeepsInv
<1>2. CASE HostEnds
  <2>1. task' = [t \in Threads |-> NoTask] BY <1>2 DEF HostEnds
  <2>2. \A t \in Threads : TaskRecord(task[t])' BY <2>1, IdleUndoes DEF TaskRecord
  <2>3. TaskTypes' BY <2>1, <2>2 DEF TaskTypes
  <2>4. AloneIsAlone' BY <2>1, IdleUndoes DEF AloneIsAlone
  <2>5. FailuresUndone' BY <2>1, IdleUndoes DEF FailuresUndone, Undoes
  <2> QED BY <2>3, <2>4, <2>5 DEF WorktreeInv
<1>3. CASE UNCHANGED worktreeVars
      BY <1>3 DEF worktreeVars, WorktreeInv, TaskTypes, TaskRecord, AloneIsAlone, FailuresUndone, Undoes
<1> QED BY <1>1, <1>2, <1>3, PlainKeepsInv, StackKeepsInv, OverlapKeepsInv DEF WorktreeNext

\* FailedAddUndone: of a stacked add that failed, and that nobody got in the way of, a
\* worktree, a branch or a stacked parent is left only if the undo's own step for it failed,
\* however far git came and whichever of the other steps failed.
THEOREM FailedAddUndoneTheorem == WorktreeSpec => []FailedAddUndone
<1>1. ASSUME WorktreeInit PROVE WorktreeInv
  <2>1. task = [t \in Threads |-> NoTask] BY <1>1 DEF WorktreeInit
  <2>2. TaskTypes BY <2>1, IdleUndoes DEF TaskTypes
  <2>3. AloneIsAlone BY <2>1, IdleUndoes DEF AloneIsAlone
  <2>4. FailuresUndone BY <2>1, IdleUndoes DEF FailuresUndone
  <2> QED BY <2>2, <2>3, <2>4 DEF WorktreeInv
<1>2. WorktreeInv => FailedAddUndone
      BY DEF WorktreeInv, FailuresUndone, Undoes, FailedAddUndone, Name
<1> QED BY <1>1, <1>2, StepKeepsWorktreeInv, PTL DEF WorktreeSpec
-----------------------------------------------------------------------------
(* SourceSync: a refresh takes no edit away                                *)

Stash == [id : Nat, has : SUBSET Edits]
Points == {"idle", "resolve", "look", "push", "name", "checkout", "fetch", "pull", "abort",
           "apply", "list", "drop"}
Refreshes == [at : Points, ref : Stash, selector : Nat]

SyncTypes ==
  /\ tree \subseteq Edits /\ stashes \in Seq(Stash) /\ pushes \in Nat
  /\ raced \in BOOLEAN /\ sync \in [Syncs -> Refreshes]

Listed == {stashes[i] : i \in DOMAIN stashes}
Known == Listed \cup {sync[r].ref : r \in Syncs} \cup {NoStash}

\* A stash's number tells it apart from every other one.
Numbered ==
  /\ \A x \in Known : x.id <= pushes
  /\ \A x, y \in Known : x.id = y.id => x = y

\* Refresh r has put its stash back and may go on to drop it.
Applied(r) == sync[r].at \in {"list", "drop"}

\* The edit is where no drop to come will take it from.
Safe(e) ==
  \/ e \in tree
  \/ \E x \in Listed : e \in x.has /\ \A r \in Syncs : Applied(r) => x.id # sync[r].ref.id

AppliedKept == ~raced => \A r \in Syncs : Applied(r) => \A e \in sync[r].ref.has : Safe(e)

SelectorOf(r) == sync[r].selector \in DOMAIN stashes /\ stashes[sync[r].selector].id = sync[r].ref.id
SelectorRight == ~raced => \A r \in Syncs : sync[r].at = "drop" => SelectorOf(r)

SyncInv == SyncTypes /\ Numbered /\ AppliedKept /\ SelectorRight
Pushed(t, x, s) == t = <<x>> \o s

\* What a list holds once a stash is put on top of it, ...
LEMMA PushListed ==
  ASSUME NEW S, NEW s \in Seq(S), NEW x \in S, NEW t, Pushed(t, x, s)
  PROVE  /\ t \in Seq(S)
         /\ \A i \in DOMAIN t : t[i] = x \/ \E j \in DOMAIN s : t[i] = s[j]
         /\ \E i \in DOMAIN t : t[i] = x
         /\ \A j \in DOMAIN s : \E i \in DOMAIN t : t[i] = s[j]
<1>1. t \in Seq(S) /\ Len(t) = Len(s) + 1 BY DEF Pushed
<1>2. t[1] = x /\ \A i \in DOMAIN s : i + 1 \in DOMAIN t /\ t[i + 1] = s[i] BY DEF Pushed
<1>3. \A i \in DOMAIN t : i = 1 \/ (i - 1 \in DOMAIN s /\ t[i] = s[i - 1]) BY DEF Pushed
<1>4. 1 \in DOMAIN t BY <1>1
<1> QED BY <1>1, <1>2, <1>3, <1>4

\* ... and once the one at place k is taken out: nothing new, and everything else.
LEMMA RemoveListed ==
  ASSUME NEW S, NEW s \in Seq(S), NEW k \in DOMAIN s, NEW t, t = RemoveAt(s, k)
  PROVE  /\ t \in Seq(S)
         /\ \A i \in DOMAIN t : \E j \in DOMAIN s : t[i] = s[j]
         /\ \A j \in DOMAIN s : j # k => \E i \in DOMAIN t : t[i] = s[j]
<1> DEFINE a == SubSeq(s, 1, k - 1)
           b == SubSeq(s, k + 1, Len(s))
<1>0. k \in 1..Len(s) OBVIOUS
<1>1. a \in Seq(S) /\ Len(a) = k - 1 /\ \A i \in 1..(k - 1) : a[i] = s[i] BY <1>0
<1>2. /\ b \in Seq(S) /\ Len(b) = Len(s) - k
      /\ \A i \in 1..(Len(s) - k) : b[i] = s[i + k]
      BY <1>0
<1>3. t = a \o b BY DEF RemoveAt
<1> HIDE DEF a, b
<1>4. t \in Seq(S) /\ Len(t) = Len(s) - 1
  <2>1. a \o b \in Seq(S) /\ Len(a \o b) = Len(a) + Len(b) BY <1>1, <1>2, ConcatProperties
  <2> QED BY <1>0, <1>1, <1>2, <1>3, <2>1
<1>5. ASSUME NEW i \in DOMAIN t PROVE t[i] = IF i < k THEN s[i] ELSE s[i + 1]
  <2>0. i \in 1..(Len(s) - 1) /\ t[i] = (a \o b)[i] BY <1>3, <1>4
  <2>1. CASE i < k BY <1>0, <1>1, <1>2, <2>0, <2>1
  <2>2. CASE ~(i < k)
    <3>1. i - (k - 1) \in 1..(Len(s) - k) /\ i > Len(a) BY <1>0, <1>1, <2>0, <2>2
    <3>2. (a \o b)[i] = b[i - Len(a)] BY <1>1, <1>2, <2>0, <3>1
    <3>3. b[i - (k - 1)] = s[i - (k - 1) + k] BY <1>2, <3>1
    <3> QED BY <1>0, <1>1, <2>0, <2>2, <3>2, <3>3
  <2> QED BY <2>1, <2>2
<1>6. ASSUME NEW i \in DOMAIN t PROVE \E j \in DOMAIN s : t[i] = s[j]
  <2>1. i \in DOMAIN s /\ i + 1 \in DOMAIN s BY <1>4
  <2> QED BY <1>5, <2>1
<1>7. ASSUME NEW j \in DOMAIN s, j # k PROVE \E i \in DOMAIN t : t[i] = s[j]
  <2>1. CASE j < k
    <3>1. j \in DOMAIN t BY <1>4, <2>1
    <3> QED BY <1>5, <2>1, <3>1
  <2>2. CASE j > k
    <3>1. j - 1 \in DOMAIN t /\ ~(j - 1 < k) /\ (j - 1) + 1 = j BY <1>4, <2>2
    <3>2. t[j - 1] = s[j] BY <1>5, <3>1
    <3> QED BY <3>1, <3>2
  <2> QED BY <1>7, <2>1, <2>2
<1> QED BY <1>4, <1>6, <1>7

\* What is known are stashes.
LEMMA KnownAreStashes == ASSUME SyncTypes PROVE \A x \in Known : x \in Stash /\ x.id \in Nat
<1>1. \A x \in Listed : x \in Stash BY ElementOfSeq DEF SyncTypes, Listed
<1>2. \A r \in Syncs : sync[r].ref \in Stash BY DEF SyncTypes, Refreshes
<1>3. NoStash \in Stash BY DEF NoStash, Stash
<1>4. \A x \in Stash : x.id \in Nat BY DEF Stash
<1> QED BY <1>1, <1>2, <1>3, <1>4 DEF Known

\* A step that makes no stash and drops none, and whose refreshes name stashes that are
\* known, apply none and find their own.
LEMMA StillKeepsInv ==
  ASSUME SyncInv, UNCHANGED <<stashes, pushes, raced>>, tree \subseteq tree', tree' \subseteq Edits,
         sync' \in [Syncs -> Refreshes],
         \A q \in Syncs : sync'[q].ref \in Known,
         \A q \in Syncs : sync'[q].at \in {"list", "drop"} => Applied(q) /\ sync'[q].ref = sync[q].ref,
         \A q \in Syncs : sync'[q].at = "drop" =>
            (sync[q].at = "drop" /\ sync'[q].selector = sync[q].selector) \/ SelectorOf(q)'
  PROVE  SyncInv' /\ KeepsWork
<1>1. SyncTypes' BY DEF SyncInv, SyncTypes
<1>2. Listed' = Listed BY DEF Listed
<1>3. Known' \subseteq Known BY <1>2 DEF Known
<1>4. Numbered' BY <1>3 DEF SyncInv, Numbered
<1>5. \A q \in Syncs : Applied(q)' => Applied(q) /\ sync'[q].ref = sync[q].ref BY DEF Applied
<1>6. \A e : Safe(e) => Safe(e)'
  <2> SUFFICES ASSUME NEW e, Safe(e) PROVE Safe(e)' OBVIOUS
  <2>1. CASE e \in tree BY <2>1 DEF Safe
  <2>2. CASE e \notin tree
    <3>1. PICK x \in Listed : e \in x.has /\ \A r \in Syncs : Applied(r) => x.id # sync[r].ref.id
          BY <2>2 DEF Safe
    <3>2. \A r \in Syncs : Applied(r)' => x.id # sync'[r].ref.id BY <1>5, <3>1
    <3> QED BY <1>2, <3>1, <3>2 DEF Safe
  <2> QED BY <2>1, <2>2
<1>7. AppliedKept' BY <1>5, <1>6 DEF SyncInv, AppliedKept
<1>8. SelectorRight'
  <2> SUFFICES ASSUME ~raced', NEW q \in Syncs, sync'[q].at = "drop" PROVE SelectorOf(q)'
      BY DEF SelectorRight
  <2>1. CASE sync[q].at = "drop" /\ sync'[q].selector = sync[q].selector
    <3>1. SelectorOf(q) BY <2>1 DEF SyncInv, SelectorRight
    <3>2. sync'[q].ref = sync[q].ref OBVIOUS
    <3> QED BY <2>1, <3>1, <3>2 DEF SelectorOf
  <2> QED BY <2>1
<1>9. KeepsWork BY DEF KeepsWork, Held
<1> QED BY <1>1, <1>4, <1>7, <1>8, <1>9 DEF SyncInv

\* One refresh moves on, but not to where its stash has been applied.
LEMMA MovesKeepsInv ==
  ASSUME SyncInv, NEW r \in Syncs, UNCHANGED <<tree, stashes, pushes, raced>>,
         \/ SyncEnds(r)
         \/ \E from, to \in Points \ {"list", "drop"} : Moves(r, from, to)
         \/ NameStash(r)
         \/ FindSelector(r)
  PROVE  SyncInv' /\ KeepsWork
<1>1. sync \in [Syncs -> Refreshes] BY DEF SyncInv, SyncTypes
<1>2. NoSync \in Refreshes /\ NoSync.at = "idle" /\ NoSync.ref = NoStash
      BY DEF NoSync, NoStash, Refreshes, Points, Stash
<1>3. \A q \in Syncs : sync[q].ref \in Known BY DEF Known
<1>4. NoStash \in Known BY DEF Known
<1>5. CASE SyncEnds(r)
  <2>1. sync' \in [Syncs -> Refreshes] /\ sync'[r] = NoSync /\ \A q \in Syncs \ {r} : sync'[q] = sync[q]
        BY <1>1, <1>2, <1>5 DEF SyncEnds
  <2> QED BY <1>1, <1>2, <1>3, <1>4, <2>1, StillKeepsInv DEF SyncInv, SyncTypes, Applied
<1>6. ASSUME NEW from \in Points \ {"list", "drop"}, NEW to \in Points \ {"list", "drop"}, Moves(r, from, to)
      PROVE  SyncInv' /\ KeepsWork
  <2>1. /\ sync' \in [Syncs -> Refreshes] /\ sync'[r].at = to /\ sync'[r].ref = sync[r].ref
        /\ \A q \in Syncs \ {r} : sync'[q] = sync[q]
        BY <1>1, <1>6 DEF Moves, Refreshes
  <2> QED BY <1>1, <1>3, <2>1, StillKeepsInv DEF SyncInv, SyncTypes, Applied
<1>7. CASE NameStash(r) /\ ~SyncEnds(r)
  <2>1. stashes # <<>> /\ stashes \in Seq(Stash) BY <1>7 DEF NameStash, SyncInv, SyncTypes
  <2>2. Head(stashes) \in Stash /\ Head(stashes) \in Known
    <3>1. 1 \in DOMAIN stashes /\ Head(stashes) = stashes[1] BY <2>1
    <3> QED BY <2>1, <3>1 DEF Known, Listed
  <2>3. sync' = [sync EXCEPT ![r] = [@ EXCEPT !.at = "checkout", !.ref = Head(stashes)]]
        BY <1>7, <2>1 DEF NameStash
  <2>4. /\ sync' \in [Syncs -> Refreshes] /\ sync'[r].at = "checkout" /\ sync'[r].ref = Head(stashes)
        /\ \A q \in Syncs \ {r} : sync'[q] = sync[q]
        BY <1>1, <2>2, <2>3 DEF Refreshes, Points
  <2> QED BY <1>1, <1>3, <2>2, <2>4, StillKeepsInv DEF SyncInv, SyncTypes, Applied
<1>8. CASE FindSelector(r) /\ ~SyncEnds(r)
  <2>1. PICK i \in DOMAIN stashes : /\ stashes[i].id = sync[r].ref.id
                                    /\ sync' = [sync EXCEPT ![r].at = "drop", ![r].selector = i]
        BY <1>8 DEF FindSelector
  <2>2. i \in Nat BY DEF SyncInv, SyncTypes
  <2>3. sync' = [sync EXCEPT ![r] = [@ EXCEPT !.at = "drop", !.selector = i]] BY <2>1
  <2>4. /\ sync' \in [Syncs -> Refreshes] /\ sync'[r].at = "drop" /\ sync'[r].ref = sync[r].ref
        /\ sync'[r].selector = i /\ \A q \in Syncs \ {r} : sync'[q] = sync[q]
        BY <1>1, <2>2, <2>3 DEF Refreshes, Points
  <2>5. Applied(r) BY <1>8 DEF FindSelector, Applied
  <2>6. SelectorOf(r)' BY <2>1, <2>4 DEF SelectorOf
  <2> QED BY <1>1, <1>3, <2>4, <2>5, <2>6, StillKeepsInv DEF SyncInv, SyncTypes, Applied
<1> QED BY <1>5, <1>6, <1>7, <1>8
\* git stash push: the tree's edits move to a new stash, whose number nobody has.
LEMMA PushKeepsInv ==
  ASSUME SyncInv, PushStash, sync' \in [Syncs -> Refreshes],
         \A q \in Syncs : sync'[q].ref = sync[q].ref /\ sync'[q].selector = sync[q].selector,
         \A q \in Syncs : sync'[q].at \in {"list", "drop"} => sync'[q].at = sync[q].at
  PROVE  SyncInv' /\ KeepsWork
<1>1. /\ tree \subseteq Edits /\ stashes \in Seq(Stash) /\ pushes \in Nat
      /\ raced \in BOOLEAN /\ sync \in [Syncs -> Refreshes] /\ Numbered
      BY DEF SyncInv, SyncTypes
<1>2. tree' = {} /\ pushes' = pushes + 1 /\ raced' \in BOOLEAN /\ (~raced' => ~raced)
      BY <1>1 DEF PushStash
<1>3. CASE tree = {}
  <2>1. stashes' = stashes /\ tree' = tree /\ raced' = raced BY <1>1, <1>3 DEF PushStash
  <2>2. SyncTypes' BY <1>1, <1>2, <2>1 DEF SyncTypes
  <2>3. Listed' = Listed BY <2>1 DEF Listed
  <2>4. Known' = Known BY <2>3 DEF Known
  <2>5. \A x \in Known : x.id \in Nat BY KnownAreStashes DEF SyncInv
  <2>6. Numbered' BY <1>1, <1>2, <2>4, <2>5 DEF Numbered
  <2>7. \A q \in Syncs : Applied(q)' => Applied(q) BY DEF Applied
  <2>8. \A e : Safe(e) => Safe(e)' BY <2>1, <2>3, <2>7 DEF Safe
  <2>9. AppliedKept' BY <2>1, <2>7, <2>8 DEF SyncInv, AppliedKept
  <2>10. SelectorRight' BY <2>1 DEF SyncInv, SelectorRight, SelectorOf
  <2>11. KeepsWork BY <2>1 DEF KeepsWork, Held
  <2> QED BY <2>2, <2>6, <2>9, <2>10, <2>11 DEF SyncInv
<1>4. CASE tree # {}
  <2>0. [id |-> pushes + 1, has |-> tree] \in Stash BY <1>1 DEF Stash
  <2>1. PICK new \in Stash : new = [id |-> pushes + 1, has |-> tree] BY <2>0
  <2>2. Pushed(stashes', new, stashes) BY <1>4, <2>1 DEF PushStash, Pushed
  <2>3. stashes' \in Seq(Stash) /\ Listed' = {new} \cup Listed
    <3>0. stashes \in Seq(Stash) BY <1>1
    <3>1. /\ stashes' \in Seq(Stash)
          /\ \A i \in DOMAIN stashes' : stashes'[i] = new \/ \E j \in DOMAIN stashes : stashes'[i] = stashes[j]
          /\ \E i \in DOMAIN stashes' : stashes'[i] = new
          /\ \A j \in DOMAIN stashes : \E i \in DOMAIN stashes' : stashes'[i] = stashes[j]
          BY <2>1, <2>2, <3>0, PushListed
    <3> QED BY <3>1 DEF Listed
  <2>4. SyncTypes' BY <1>1, <1>2, <2>3 DEF SyncTypes
  <2>5. Known' = {new} \cup Known BY <2>3 DEF Known
  <2>6. \A x \in Known : x.id \in Nat BY KnownAreStashes DEF SyncInv
  <2>7. new.id = pushes + 1 /\ new.has = tree BY <2>1
  <2>8. \A x \in Known : x.id < new.id BY <1>1, <2>6, <2>7 DEF Numbered
  <2>9. Numbered' BY <1>1, <1>2, <2>5, <2>6, <2>7, <2>8 DEF Numbered
  <2>10. \A q \in Syncs : /\ Applied(q)' => Applied(q)
                          /\ sync[q].ref \in Known
         BY DEF Applied, Known
  <2>11. ASSUME NEW e, Safe(e) PROVE Safe(e)'
    <3>1. CASE e \in tree
      <4>1. \A q \in Syncs : new.id # sync'[q].ref.id BY <2>6, <2>7, <2>8, <2>10, <1>1
      <4>2. new \in Listed' /\ e \in new.has BY <2>3, <2>7, <3>1
      <4> QED BY <4>1, <4>2 DEF Safe
    <3>2. CASE e \notin tree
      <4>1. PICK x \in Listed : e \in x.has /\ \A q \in Syncs : Applied(q) => x.id # sync[q].ref.id
            BY <2>11, <3>2 DEF Safe
      <4>2. x \in Listed' /\ \A q \in Syncs : Applied(q)' => x.id # sync'[q].ref.id
            BY <2>3, <2>10, <4>1
      <4> QED BY <4>1, <4>2 DEF Safe
    <3> QED BY <3>1, <3>2
  <2>12. AppliedKept' BY <1>2, <2>10, <2>11 DEF SyncInv, AppliedKept
  <2>13. SelectorRight'
    <3>1. ~raced' => \A q \in Syncs : sync[q].at # "drop" BY <1>1, <1>4 DEF PushStash
    <3> QED BY <3>1 DEF SelectorRight
  <2>14. KeepsWork
    <3>1. Held \subseteq tree \cup UNION {x.has : x \in Listed} BY DEF Held, Listed
    <3>2. UNION {x.has : x \in Listed'} \subseteq Held' BY DEF Held, Listed
    <3> QED BY <2>3, <2>7, <3>1, <3>2 DEF KeepsWork
  <2> QED BY <2>4, <2>9, <2>12, <2>13, <2>14 DEF SyncInv
<1> QED BY <1>3, <1>4

\* git stash apply: the refresh's stash may be dropped from now on, and the tree has its edits.
LEMMA ApplyKeepsInv ==
  ASSUME SyncInv, NEW r \in Syncs, Moves(r, "apply", "list"), tree' = tree \cup sync[r].ref.has,
         UNCHANGED <<stashes, pushes, raced>>
  PROVE  SyncInv' /\ KeepsWork
<1>1. /\ tree \subseteq Edits /\ sync \in [Syncs -> Refreshes] /\ Numbered
      /\ ~raced => AppliedKept /\ SelectorRight
      BY DEF SyncInv, SyncTypes
<1>2. /\ sync' \in [Syncs -> Refreshes] /\ sync'[r].at = "list" /\ sync'[r].ref = sync[r].ref
      /\ \A q \in Syncs \ {r} : sync'[q] = sync[q]
      BY <1>1 DEF Moves, Refreshes, Points
<1>3. sync[r].ref.has \subseteq Edits BY <1>1 DEF Refreshes, Stash
<1>4. SyncTypes' BY <1>1, <1>2, <1>3 DEF SyncInv, SyncTypes
<1>5. Listed' = Listed BY DEF Listed
<1>6. \A q \in Syncs : sync'[q].ref = sync[q].ref BY <1>2
<1>7. Known' = Known BY <1>5, <1>6 DEF Known
<1>8. Numbered' BY <1>1, <1>7 DEF Numbered
<1>9. ASSUME NEW e, Safe(e) PROVE Safe(e)'
  <2>1. CASE e \in tree BY <2>1 DEF Safe
  <2>2. CASE e \notin tree
    <3>1. PICK x \in Listed : e \in x.has /\ \A q \in Syncs : Applied(q) => x.id # sync[q].ref.id
          BY <1>9, <2>2 DEF Safe
    <3>2. CASE x.id = sync[r].ref.id
      <4>1. x = sync[r].ref BY <1>1, <3>2 DEF Numbered, Known
      <4> QED BY <3>1, <4>1 DEF Safe
    <3>3. CASE x.id # sync[r].ref.id
      <4>1. \A q \in Syncs : Applied(q)' => x.id # sync'[q].ref.id BY <1>2, <3>1, <3>3 DEF Applied
      <4> QED BY <1>5, <3>1, <4>1 DEF Safe
    <3> QED BY <3>2, <3>3
  <2> QED BY <2>1, <2>2
<1>10. AppliedKept'
  <2> SUFFICES ASSUME ~raced', NEW q \in Syncs, Applied(q)', NEW e \in sync'[q].ref.has PROVE Safe(e)'
      BY DEF AppliedKept
  <2>1. CASE q = r BY <1>2, <2>1 DEF Safe
  <2>2. CASE q # r
    <3>1. Applied(q) /\ e \in sync[q].ref.has BY <1>2, <2>2 DEF Applied
    <3> QED BY <1>1, <1>9, <3>1 DEF AppliedKept
  <2> QED BY <2>1, <2>2
<1>11. SelectorRight' BY <1>1, <1>2 DEF SelectorRight, SelectorOf
<1>12. KeepsWork BY DEF KeepsWork, Held
<1> QED BY <1>4, <1>8, <1>10, <1>11, <1>12 DEF SyncInv

\* git stash drop: the place still is the stash that was applied, unless somebody else was
\* at the same point.
LEMMA DropKeepsInv == ASSUME SyncInv, NEW r \in Syncs, DropStash(r) PROVE SyncInv' /\ KeepsWork
<1>1. /\ tree \subseteq Edits /\ stashes \in Seq(Stash) /\ pushes \in Nat
      /\ raced \in BOOLEAN /\ sync \in [Syncs -> Refreshes] /\ Numbered
      BY DEF SyncInv, SyncTypes
<1>2. NoSync \in Refreshes /\ NoSync.at = "idle" /\ NoSync.ref = NoStash
      BY DEF NoSync, NoStash, Refreshes, Points, Stash
<1>3. sync' \in [Syncs -> Refreshes] /\ sync'[r] = NoSync /\ \A q \in Syncs \ {r} : sync'[q] = sync[q]
      BY <1>1, <1>2 DEF DropStash, SyncEnds
<1>4. /\ tree' = tree /\ pushes' = pushes /\ raced' \in BOOLEAN /\ (~raced' => ~raced)
      /\ sync[r].at = "drop" /\ (~raced' => \A q \in Syncs \ {r} : sync[q].at # "drop")
      BY <1>1 DEF DropStash
<1>5. PICK k \in Nat : k = sync[r].selector BY <1>1 DEF Refreshes
<1>6. /\ stashes' \in Seq(Stash) /\ Listed' \subseteq Listed
      /\ stashes' # stashes => k \in DOMAIN stashes /\ \A j \in DOMAIN stashes : j # k => stashes[j] \in Listed'
  <2>1. CASE stashes' = stashes BY <1>1, <2>1 DEF Listed
  <2>2. CASE stashes' # stashes
    <3>1. k \in DOMAIN stashes /\ stashes' = RemoveAt(stashes, k) BY <1>5, <2>2 DEF DropStash
    <3>2. /\ stashes' \in Seq(Stash)
          /\ \A i \in DOMAIN stashes' : \E j \in DOMAIN stashes : stashes'[i] = stashes[j]
          /\ \A j \in DOMAIN stashes : j # k => \E i \in DOMAIN stashes' : stashes'[i] = stashes[j]
          BY <1>1, <3>1, RemoveListed
    <3> QED BY <3>1, <3>2 DEF Listed
  <2> QED BY <2>1, <2>2
<1>7. SyncTypes' BY <1>1, <1>3, <1>4, <1>6 DEF SyncTypes
<1>8. Known' \subseteq Known BY <1>2, <1>3, <1>6 DEF Known
<1>9. Numbered' BY <1>1, <1>4, <1>8 DEF Numbered
<1>10. ASSUME ~raced', NEW x \in Listed, x.id # sync[r].ref.id PROVE x \in Listed'
  <2>1. CASE stashes' = stashes BY <2>1 DEF Listed
  <2>2. CASE stashes' # stashes
    <3>1. stashes[k].id = sync[r].ref.id
          BY <1>4, <1>5, <1>10 DEF SyncInv, SelectorRight, SelectorOf
    <3>2. PICK j \in DOMAIN stashes : x = stashes[j] BY DEF Listed
    <3> QED BY <1>6, <1>10, <2>2, <3>1, <3>2
  <2> QED BY <2>1, <2>2
<1>11. \A q \in Syncs : Applied(q)' => q # r /\ Applied(q) /\ sync'[q] = sync[q]
       BY <1>2, <1>3 DEF Applied
<1>12. Applied(r) BY <1>4 DEF Applied
<1>13. ASSUME ~raced', NEW e, Safe(e) PROVE Safe(e)'
  <2>1. CASE e \in tree BY <1>4, <2>1 DEF Safe
  <2>2. CASE e \notin tree
    <3>1. PICK x \in Listed : e \in x.has /\ \A q \in Syncs : Applied(q) => x.id # sync[q].ref.id
          BY <1>13, <2>2 DEF Safe
    <3>2. x \in Listed' BY <1>10, <1>12, <1>13, <3>1
    <3> QED BY <1>11, <3>1, <3>2 DEF Safe
  <2> QED BY <2>1, <2>2
<1>14. AppliedKept' BY <1>4, <1>11, <1>13 DEF SyncInv, AppliedKept
<1>15. SelectorRight' BY <1>2, <1>3, <1>4 DEF SelectorRight
<1>16. KeepsWork
  <2> SUFFICES ASSUME ~raced', NEW e \in Held PROVE e \in Held' BY DEF KeepsWork
  <2>1. \A x \in Listed' : x.has \subseteq Held' BY DEF Held, Listed
  <2>2. Safe(e)' => e \in Held' BY <2>1 DEF Safe, Held
  <2>3. CASE e \in tree BY <1>4, <2>3 DEF Held
  <2>4. CASE e \notin tree
    <3>1. PICK x \in Listed : e \in x.has BY <2>4 DEF Held, Listed
    <3>2. CASE x.id = sync[r].ref.id
      <4>1. x = sync[r].ref BY <1>1, <3>2 DEF Numbered, Known
      <4>2. Safe(e) BY <1>4, <1>12, <3>1, <4>1 DEF SyncInv, AppliedKept
      <4> QED BY <1>13, <2>2, <4>2
    <3>3. CASE x.id # sync[r].ref.id BY <1>10, <2>1, <3>1, <3>3
    <3> QED BY <3>2, <3>3
  <2> QED BY <2>3, <2>4
<1> QED BY <1>7, <1>9, <1>14, <1>15, <1>16 DEF SyncInv

\* git rebase --abort: it empties the tree, which is empty unless the window was hit.
LEMMA AbortKeepsInv == ASSUME SyncInv, NEW r \in Syncs, AbortRebase(r) PROVE SyncInv' /\ KeepsWork
<1>1. PICK to \in {"idle", "apply"} : Moves(r, "abort", to) BY DEF AbortRebase, Restored
<1>2. CASE UNCHANGED <<tree, raced>>
      BY <1>1, <1>2, MovesKeepsInv DEF AbortRebase, Points
<1>3. CASE ~UNCHANGED <<tree, raced>>
  <2>1. sync \in [Syncs -> Refreshes] /\ raced \in BOOLEAN /\ Numbered BY DEF SyncInv, SyncTypes
  <2>2. tree' = {} /\ stashes' = stashes /\ pushes' = pushes /\ raced' = (raced \/ tree # {})
        BY <1>3 DEF AbortRebase
  <2>3. raced' = TRUE BY <1>3, <2>1, <2>2
  <2>4. sync' \in [Syncs -> Refreshes] /\ \A q \in Syncs : sync'[q].ref = sync[q].ref
        BY <1>1, <2>1 DEF Moves, Refreshes, Points
  <2>5. SyncTypes' BY <2>2, <2>3, <2>4 DEF SyncInv, SyncTypes
  <2>6. Known' = Known BY <2>2, <2>4 DEF Known, Listed
  <2>7. Numbered' BY <2>1, <2>2, <2>6 DEF Numbered
  <2> QED BY <2>3, <2>5, <2>7 DEF SyncInv, AppliedKept, SelectorRight, KeepsWork
<1> QED BY <1>2, <1>3

\* Every step keeps the invariant and the edits.
LEMMA StepKeepsSyncInv ==
  ASSUME SyncInv, [SyncNext]_syncVars
  PROVE  SyncInv' /\ [KeepsWork]_syncVars
<1>1. sync \in [Syncs -> Refreshes] /\ tree \subseteq Edits BY DEF SyncInv, SyncTypes
<1>2. \A r \in Syncs : sync[r].ref \in Known BY DEF Known
<1>3. ASSUME NEW r \in Syncs,
             \/ StartSync(r) \/ ResolveBranch(r) \/ LookForChanges(r) \/ StashPushFails(r)
             \/ CheckoutBranch(r) \/ Fetch(r) \/ Pull(r) \/ PullFails(r)
      PROVE  SyncInv' /\ KeepsWork
  <2>1. Restored(r) \in Points \ {"list", "drop"} BY DEF Restored, Points
  <2>2. UNCHANGED <<tree, stashes, pushes, raced>>
        BY <1>3 DEF StartSync, ResolveBranch, LookForChanges, StashPushFails, CheckoutBranch, Fetch,
                    Pull, PullFails
  <2>3. \/ SyncEnds(r)
        \/ \E from, to \in Points \ {"list", "drop"} : Moves(r, from, to)
        BY <1>3, <2>1 DEF StartSync, ResolveBranch, LookForChanges, StashPushFails, CheckoutBranch,
                          Fetch, Pull, PullFails, Points
  <2> QED BY <2>2, <2>3, MovesKeepsInv
<1>4. ASSUME NEW r \in Syncs, NameStash(r) \/ FindSelector(r) PROVE SyncInv' /\ KeepsWork
      BY <1>4, MovesKeepsInv DEF NameStash, FindSelector
<1>5. ASSUME NEW r \in Syncs, StashPush(r) PROVE SyncInv' /\ KeepsWork
  <2>1. /\ sync' \in [Syncs -> Refreshes] /\ sync'[r].at = "name" /\ sync'[r].ref = sync[r].ref
        /\ sync'[r].selector = sync[r].selector /\ \A q \in Syncs \ {r} : sync'[q] = sync[q]
        BY <1>1, <1>5 DEF StashPush, Moves, Refreshes, Points
  <2> QED BY <1>5, <2>1, PushKeepsInv DEF StashPush
<1>6. ASSUME NEW r \in Syncs, ApplyStash(r) PROVE SyncInv' /\ KeepsWork
      BY <1>6, ApplyKeepsInv, MovesKeepsInv DEF ApplyStash
<1>7. ASSUME NEW e \in Edits, Edit(e) PROVE SyncInv' /\ KeepsWork
      BY <1>1, <1>2, <1>7, StillKeepsInv DEF Edit, Applied
<1>8. CASE UserStash BY <1>1, <1>8, PushKeepsInv DEF UserStash
<1>9. CASE SyncHostEnds
  <2>1. NoSync \in Refreshes /\ NoSync.at = "idle" /\ NoSync.ref \in Known
        BY DEF NoSync, NoStash, Refreshes, Points, Stash, Known
  <2>2. sync' \in [Syncs -> Refreshes] /\ \A q \in Syncs : sync'[q] = NoSync
        BY <1>9, <2>1 DEF SyncHostEnds
  <2> QED BY <1>1, <1>9, <2>1, <2>2, StillKeepsInv DEF SyncHostEnds
<1>10. CASE UNCHANGED syncVars
       BY <1>1, <1>2, <1>10, StillKeepsInv DEF syncVars, Applied
<1> QED BY <1>3, <1>4, <1>5, <1>6, <1>7, <1>8, <1>9, <1>10, DropKeepsInv, AbortKeepsInv DEF SyncNext

\* LocalWorkKept: outside of its two windows no refresh, however it fails, overlaps another
\* or ends, takes an edit out of the working tree and the stash list.
THEOREM LocalWorkKeptTheorem == SyncSpec => LocalWorkKept
<1>1. SyncInit => SyncInv
  <2> SUFFICES ASSUME SyncInit PROVE SyncInv OBVIOUS
  <2>1. NoSync \in Refreshes /\ NoSync.at = "idle" /\ NoSync.ref = NoStash /\ NoStash.id = 0
        BY DEF NoSync, NoStash, Refreshes, Points, Stash
  <2>2. tree = {} /\ stashes = <<>> /\ pushes = 0 /\ raced = FALSE /\ sync = [r \in Syncs |-> NoSync]
        BY DEF SyncInit
  <2>3. SyncTypes
    <3>1. stashes \in Seq(Stash) BY <2>2
    <3>2. sync \in [Syncs -> Refreshes] BY <2>1, <2>2
    <3> QED BY <2>2, <3>1, <3>2 DEF SyncTypes
  <2>4. Known = {NoStash} BY <2>1, <2>2 DEF Known, Listed
  <2>5. Numbered BY <2>1, <2>2, <2>4 DEF Numbered
  <2>6. AppliedKept /\ SelectorRight BY <2>1, <2>2 DEF AppliedKept, SelectorRight, Applied
  <2> QED BY <2>3, <2>5, <2>6 DEF SyncInv
<1> QED BY <1>1, StepKeepsSyncInv, PTL DEF SyncSpec, LocalWorkKept

-----------------------------------------------------------------------------
(* ProjectConfig: no directory and no id is listed twice                   *)

Entries == [id : Nat, url : Urls, dir : Folders]
ConfigOps == {"none", "list", "clone", "create", "register", "reorder", "setcat", "delcat", "edit",
              "remove", "prefs", "saving"}
ConfigStages == {"idle", "load", "reconcile", "go", "first save", "save", "first write", "write",
                 "clone", "fetch"}
ConfigCommands ==
  [op : ConfigOps, at : ConfigStages, url : Urls \cup {"none"}, id : Nat, dir : Folders \cup {"none"}, mine : Seq(Entries)]
ConfigTypes ==
  /\ conf \in Seq(Entries) /\ repo \in [Folders -> Urls \cup {"none"}]
  /\ nextId \in Nat /\ cmd \in [Clients -> ConfigCommands]

\* A repository is in the folder of its URL, and a command that makes one has a URL.
OwnFolder ==
  /\ \A f \in Folders : repo[f] # "none" => FolderOf[repo[f]] = f
  /\ \A c \in Clients : cmd[c].op \in {"clone", "create", "register"} => cmd[c].url \in Urls

\* A list of entries as the property wants it, with ids that were given out.
ListedOnce(es, n) ==
  /\ \A i \in 1..Len(es) : es[i].id < n /\ es[i].dir = FolderOf[es[i].url]
  /\ \A i, j \in 1..Len(es) : i # j => es[i].dir # es[j].dir /\ es[i].id # es[j].id

\* Not only the file: every copy a command may still save is such a list.
CopiesListed == ListedOnce(conf, nextId) /\ \A c \in Clients : ListedOnce(cmd[c].mine, nextId)

ConfigInv == ConfigTypes /\ OwnFolder /\ CopiesListed

\* What a list has at a place of its own.
LEMMA EntryAt ==
    ASSUME NEW es \in Seq(Entries), NEW i \in 1..Len(es)
    PROVE  es[i] \in Entries /\ es[i].id \in Nat /\ es[i].url \in Urls /\ es[i].dir \in Folders
<1>1. es[i] \in Entries
    BY ElementOfSeq
<1> QED
    BY <1>1 DEF Entries

\* An empty list.
LEMMA ListedNone == ASSUME NEW n \in Nat PROVE Default \in Seq(Entries) /\ ListedOnce(Default, n)
BY DEF Default, ListedOnce

\* More ids given out.
LEMMA ListedLater ==
    ASSUME NEW es \in Seq(Entries), NEW n \in Nat, NEW m \in Nat, n <= m, ListedOnce(es, n)
    PROVE  ListedOnce(es, m)
<1>1. \A i \in 1..Len(es) : es[i].id \in Nat
    BY EntryAt
<1> QED
    BY <1>1 DEF ListedOnce

\* The places are distinct, and so are the entries there.
LEMMA ListedPicked ==
    ASSUME NEW es \in Seq(Entries), NEW n \in Nat, ListedOnce(es, n),
           NEW I, I \subseteq 1..Len(es), NEW at \in Orders(I)
    PROVE  Picked(es, at) \in Seq(Entries) /\ ListedOnce(Picked(es, at), n)
<1> DEFINE k == Cardinality(I)
<1>1. k \in Nat
  <2>1. IsFiniteSet(1..Len(es))
      BY FS_Interval
  <2>2. IsFiniteSet(I)
      BY <2>1, FS_Subset
  <2> QED
      BY <2>2, FS_CardinalityType
<1>2. at \in [1..k -> I] /\ DOMAIN at = 1..k /\ \A i, j \in 1..k : i # j => at[i] # at[j]
    BY DEF Orders
<1> HIDE DEF k
<1> DEFINE t == Picked(es, at)
<1>3. \A i \in 1..k : at[i] \in 1..Len(es) /\ es[at[i]] \in Entries
  <2> SUFFICES ASSUME NEW i \in 1..k PROVE at[i] \in 1..Len(es) /\ es[at[i]] \in Entries
      OBVIOUS
  <2>1. at[i] \in 1..Len(es)
      BY <1>2
  <2> QED
      BY <2>1, EntryAt
<1>4. t = [i \in 1..k |-> es[at[i]]]
    BY <1>2 DEF Picked
<1>5. t \in Seq(Entries) /\ Len(t) = k /\ \A i \in 1..k : t[i] = es[at[i]]
  <2>1. t \in [1..k -> Entries] /\ DOMAIN t = 1..k
      BY <1>3, <1>4
  <2> HIDE DEF t
  <2>2. t \in Seq(Entries)
      BY <1>1, <2>1
  <2>3. Len(t) = k
      BY <1>1, <2>1, <2>2, LenProperties
  <2> QED
      BY <1>4, <2>2, <2>3
<1> HIDE DEF t
<1>6. \A i \in 1..Len(t) : t[i].id < n /\ t[i].dir = FolderOf[t[i].url]
    BY <1>3, <1>5 DEF ListedOnce
<1>7. \A i, j \in 1..Len(t) : i # j => t[i].dir # t[j].dir /\ t[i].id # t[j].id
    BY <1>2, <1>3, <1>5 DEF ListedOnce
<1>8. t \in Seq(Entries) /\ ListedOnce(t, n)
    BY <1>5, <1>6, <1>7 DEF ListedOnce
<1> QED
    BY <1>8 DEF t

\* Two lists without a folder in common, the ids of the second all newer.
LEMMA ListedJoined ==
    ASSUME NEW es \in Seq(Entries), NEW ts \in Seq(Entries), NEW n \in Nat, NEW m \in Nat, n <= m,
           ListedOnce(es, n), ListedOnce(ts, m),
           \A j \in 1..Len(ts) : n <= ts[j].id,
           \A i \in 1..Len(es), j \in 1..Len(ts) : es[i].dir # ts[j].dir
    PROVE  es \o ts \in Seq(Entries) /\ ListedOnce(es \o ts, m)
<1> DEFINE q == es \o ts
           a == Len(es)
           b == Len(ts)
<1>1. a \in Nat /\ b \in Nat /\ a = Len(es) /\ b = Len(ts)
    OBVIOUS
<1>2. /\ q \in Seq(Entries) /\ Len(q) = a + b
      /\ \A i \in 1..(a + b) : q[i] = IF i <= a THEN es[i] ELSE ts[i - a]
    BY ConcatProperties
<1>3. ASSUME NEW i \in 1..a PROVE es[i] \in Entries /\ es[i].id \in Nat /\ es[i].id < n
    BY EntryAt DEF ListedOnce
<1>4. ASSUME NEW i \in 1..b PROVE ts[i] \in Entries /\ ts[i].id \in Nat
    BY EntryAt
<1> HIDE DEF q, a, b
<1>5. ASSUME NEW i \in 1..(a + b)
      PROVE  \/ i \in 1..a /\ q[i] = es[i]
             \/ i > a /\ i - a \in 1..b /\ q[i] = ts[i - a]
    BY <1>1, <1>2
<1>6. ASSUME NEW i \in 1..(a + b) PROVE q[i].id < m /\ q[i].dir = FolderOf[q[i].url]
  <2>1. CASE i \in 1..a /\ q[i] = es[i]
    <3>1. es[i].id < n /\ es[i].id \in Nat
        BY <1>3, <2>1
    <3>2. es[i].dir = FolderOf[es[i].url]
        BY <1>1, <2>1 DEF ListedOnce
    <3> QED
        BY <2>1, <3>1, <3>2
  <2>2. CASE i - a \in 1..b /\ q[i] = ts[i - a]
      BY <1>1, <2>2 DEF ListedOnce
  <2> QED
      BY <1>5, <2>1, <2>2
<1>7. ASSUME NEW i \in 1..a, NEW j \in 1..b PROVE es[i].dir # ts[j].dir /\ es[i].id # ts[j].id
  <2>1. es[i].id \in Nat /\ es[i].id < n /\ ts[j].id \in Nat /\ n <= ts[j].id
      BY <1>1, <1>3, <1>4
  <2>2. es[i].id # ts[j].id
      BY <2>1
  <2> QED
      BY <1>1, <2>2
<1>8. ASSUME NEW i \in 1..(a + b), NEW j \in 1..(a + b), i # j
      PROVE  q[i].dir # q[j].dir /\ q[i].id # q[j].id
  <2>1. CASE i \in 1..a /\ q[i] = es[i] /\ j \in 1..a /\ q[j] = es[j]
      BY <1>1, <1>8, <2>1 DEF ListedOnce
  <2>2. CASE i \in 1..a /\ q[i] = es[i] /\ j - a \in 1..b /\ q[j] = ts[j - a]
      BY <1>7, <2>2
  <2>3. CASE i - a \in 1..b /\ q[i] = ts[i - a] /\ j \in 1..a /\ q[j] = es[j]
      BY <1>7, <2>3
  <2>4. CASE i - a \in 1..b /\ q[i] = ts[i - a] /\ j - a \in 1..b /\ q[j] = ts[j - a]
    <3>1. i - a # j - a
        BY <1>1, <1>8
    <3> QED
        BY <1>1, <2>4, <3>1 DEF ListedOnce
  <2> QED
      BY <1>5, <2>1, <2>2, <2>3, <2>4
<1>9. ListedOnce(q, m)
    BY <1>2, <1>6, <1>8 DEF ListedOnce
<1> QED
    BY <1>2, <1>9 DEF q

FolderOwn(rp) ==
  /\ rp \in [Folders -> Urls \cup {"none"}]
  /\ \A f \in Folders : rp[f] # "none" => FolderOf[rp[f]] = f

\* A command's record as its thread may have it.
GoodCommand(r, n) ==
  /\ r \in ConfigCommands /\ ListedOnce(r.mine, n)
  /\ r.op \in {"clone", "create", "register"} => r.url \in Urls

\* The invariant, said of its parts.
LEMMA ConfigParts ==
    ConfigInv <=> /\ conf \in Seq(Entries) /\ ListedOnce(conf, nextId) /\ nextId \in Nat /\ FolderOwn(repo)
                  /\ cmd \in [Clients -> ConfigCommands] /\ \A c \in Clients : GoodCommand(cmd[c], nextId)
BY DEF ConfigInv, ConfigTypes, OwnFolder, CopiesListed, FolderOwn, GoodCommand

\* One thread's step, with ids given out and the file and the folders as they should be.
LEMMA ConfigStep ==
    ASSUME ConfigInv, NEW c \in Clients, NEW r, GoodCommand(r, nextId'), cmd' = [cmd EXCEPT ![c] = r],
           nextId' \in Nat, nextId <= nextId', conf' \in Seq(Entries), ListedOnce(conf', nextId'), FolderOwn(repo')
    PROVE  ConfigInv'
<1>1. /\ nextId \in Nat /\ cmd \in [Clients -> ConfigCommands]
      /\ \A d \in Clients : GoodCommand(cmd[d], nextId)
    BY ConfigParts
<1>2. ASSUME NEW d \in Clients PROVE GoodCommand(cmd'[d], nextId')
  <2>1. CASE d = c
      BY <1>1, <2>1
  <2>2. CASE d # c
    <3>1. cmd'[d] = cmd[d] /\ GoodCommand(cmd[d], nextId)
        BY <1>1, <2>2
    <3>2. cmd[d].mine \in Seq(Entries)
        BY <1>1 DEF ConfigCommands
    <3>3. ListedOnce(cmd[d].mine, nextId')
        BY <1>1, <3>1, <3>2, ListedLater DEF GoodCommand
    <3> QED
        BY <3>1, <3>3 DEF GoodCommand
  <2> QED
      BY <2>1, <2>2
<1>3. cmd' \in [Clients -> ConfigCommands]
    BY <1>1 DEF GoodCommand
<1> QED
    BY <1>2, <1>3 DEF ConfigInv, ConfigTypes, OwnFolder, CopiesListed, FolderOwn, GoodCommand

\* The same, when only the command changes.
LEMMA CommandStep ==
    ASSUME ConfigInv, NEW c \in Clients, NEW r, GoodCommand(r, nextId), cmd' = [cmd EXCEPT ![c] = r],
           UNCHANGED <<conf, nextId>>, repo' = repo \/ FolderOwn(repo')
    PROVE  ConfigInv'
<1>1. /\ conf \in Seq(Entries) /\ ListedOnce(conf, nextId) /\ nextId \in Nat /\ FolderOwn(repo)
    BY ConfigParts
<1>2. nextId <= nextId' /\ nextId' = nextId /\ conf' = conf
    BY <1>1
<1>3. FolderOwn(repo')
    BY <1>1
<1> QED
    BY <1>1, <1>2, <1>3, ConfigStep

\* What a command's record becomes.
LEMMA CommandFacts ==
    ASSUME ConfigInv, NEW c \in Clients
    PROVE  /\ cmd[c] \in ConfigCommands /\ GoodCommand(cmd[c], nextId) /\ nextId \in Nat
           /\ GoodCommand(NoCommand, nextId)
           /\ \A a \in ConfigStages : GoodCommand([cmd[c] EXCEPT !.at = a], nextId)
           /\ \A a \in ConfigStages, op \in ConfigOps :
                cmd[c].op \in {"clone", "create", "register"}
                  => GoodCommand([cmd[c] EXCEPT !.op = op, !.at = a, !.mine = Default], nextId)
<1>1. cmd[c] \in ConfigCommands /\ GoodCommand(cmd[c], nextId) /\ nextId \in Nat
    BY ConfigParts
<1>2. Default \in Seq(Entries) /\ ListedOnce(Default, nextId)
    BY <1>1, ListedNone
<1>3. GoodCommand(NoCommand, nextId)
  <2>1. NoCommand \in ConfigCommands
      BY <1>2 DEF NoCommand, ConfigCommands, ConfigOps, ConfigStages
  <2>2. NoCommand.mine = Default /\ NoCommand.op = "none"
      BY DEF NoCommand
  <2> QED
      BY <1>2, <2>1, <2>2 DEF GoodCommand
<1>4. ASSUME NEW a \in ConfigStages PROVE GoodCommand([cmd[c] EXCEPT !.at = a], nextId)
    BY <1>1 DEF GoodCommand, ConfigCommands
<1>5. ASSUME NEW a \in ConfigStages, NEW op \in ConfigOps, cmd[c].op \in {"clone", "create", "register"}
      PROVE  GoodCommand([cmd[c] EXCEPT !.op = op, !.at = a, !.mine = Default], nextId)
    BY <1>1, <1>2, <1>5 DEF GoodCommand, ConfigCommands
<1> QED
    BY <1>1, <1>3, <1>4, <1>5

\* A list to be saved.
LEMMA SavingFacts ==
    ASSUME NEW n \in Nat, NEW es \in Seq(Entries), ListedOnce(es, n)
    PROVE  GoodCommand([NoCommand EXCEPT !.op = "saving", !.at = "save", !.mine = es], n)
<1> DEFINE r == [NoCommand EXCEPT !.op = "saving", !.at = "save", !.mine = es]
<1>1. r \in ConfigCommands
    BY ListedNone DEF NoCommand, ConfigCommands, ConfigOps, ConfigStages
<1>2. r.mine = es /\ r.op = "saving"
    BY DEF NoCommand
<1> QED
    BY <1>1, <1>2 DEF GoodCommand

\* A list that goes on in a command.
LEMMA EditedFacts ==
    ASSUME NEW c \in Clients, cmd[c] \in ConfigCommands, GoodCommand(cmd[c], nextId),
           NEW n \in Nat, NEW es \in Seq(Entries), ListedOnce(es, n), NEW a \in ConfigStages
    PROVE  GoodCommand([cmd[c] EXCEPT !.at = a, !.mine = es], n)
BY DEF GoodCommand, ConfigCommands

\* A repository that goes, or comes to the folder of its URL.
LEMMA FolderFacts ==
    ASSUME FolderOwn(repo)
    PROVE  /\ \A f \in Folders : FolderOwn([repo EXCEPT ![f] = "none"])
           /\ \A u \in Urls : FolderOwn([repo EXCEPT ![FolderOf[u]] = u])
BY ConfigAssumption DEF FolderOwn

\* No entry, no repository, no command.
LEMMA InitConfigInv == ConfigInit => ConfigInv
<1> SUFFICES ASSUME ConfigInit PROVE ConfigInv
    OBVIOUS
<1>1. Default \in Seq(Entries) /\ ListedOnce(Default, 1)
    BY ListedNone
<1>2. GoodCommand(NoCommand, 1)
  <2>1. NoCommand \in ConfigCommands
      BY <1>1 DEF NoCommand, ConfigCommands, ConfigOps, ConfigStages
  <2>2. NoCommand.mine = Default /\ NoCommand.op = "none"
      BY DEF NoCommand
  <2> QED
      BY <1>1, <2>1, <2>2 DEF GoodCommand
<1>3. cmd = [c \in Clients |-> NoCommand] /\ nextId = 1 /\ conf = Default
    BY DEF ConfigInit
<1>4. FolderOwn(repo)
    BY DEF ConfigInit, FolderOwn
<1>5. cmd \in [Clients -> ConfigCommands] /\ \A c \in Clients : GoodCommand(cmd[c], nextId)
    BY <1>2, <1>3 DEF GoodCommand
<1> QED
    BY <1>1, <1>3, <1>4, <1>5, ConfigParts

\* A command begins without a copy.
LEMMA CommandKeeps ==
    ASSUME ConfigInv, NEW c \in Clients, NEW op \in ConfigOps, NEW url \in Urls \cup {"none"}, NEW id \in Nat,
           op \in {"clone", "create", "register"} => url \in Urls, Command(c, op, url, id)
    PROVE  ConfigInv'
<1> DEFINE r == [NoCommand EXCEPT !.op = op, !.at = "load", !.url = url, !.id = id]
<1>1. nextId \in Nat
    BY ConfigParts
<1>2. Default \in Seq(Entries) /\ ListedOnce(Default, nextId)
    BY <1>1, ListedNone
<1>3. r \in ConfigCommands
    BY <1>2 DEF NoCommand, ConfigCommands, ConfigOps, ConfigStages
<1>4. r.mine = Default /\ r.op = op /\ r.url = url
    BY DEF NoCommand
<1>5. GoodCommand(r, nextId)
    BY <1>2, <1>3, <1>4 DEF GoodCommand
<1>6. cmd' = [cmd EXCEPT ![c] = r] /\ UNCHANGED <<conf, nextId, repo>>
    BY DEF Command
<1> HIDE DEF r
<1> QED
    BY <1>5, <1>6, CommandStep

\* The copy is the file.
LEMMA LoadKeeps == ASSUME ConfigInv, NEW c \in Clients, LoadConfig(c) PROVE ConfigInv'
<1>1. conf \in Seq(Entries) /\ ListedOnce(conf, nextId)
    BY ConfigParts
<1>2. PICK a \in ConfigStages : cmd' = [cmd EXCEPT ![c].at = a, ![c].mine = conf]
  <2>1. {"reconcile", "go"} \subseteq ConfigStages
      BY DEF ConfigStages
  <2> QED
      BY <2>1 DEF LoadConfig, Edited
<1>3. cmd' = [cmd EXCEPT ![c] = [cmd[c] EXCEPT !.at = a, !.mine = conf]]
    BY <1>2, CommandFacts
<1>4. GoodCommand([cmd[c] EXCEPT !.at = a, !.mine = conf], nextId)
    BY <1>1, CommandFacts, EditedFacts
<1> QED
    BY <1>3, <1>4, CommandStep DEF LoadConfig

\* Only the place in the command changes.
LEMMA ThenKeeps ==
    ASSUME ConfigInv, NEW c \in Clients, NEW a \in ConfigStages, Then(c, a),
           UNCHANGED nextId, conf' = conf \/ conf' = Default \/ conf' = cmd[c].mine,
           repo' = repo \/ FolderOwn(repo')
    PROVE  ConfigInv'
<1>1. /\ conf \in Seq(Entries) /\ ListedOnce(conf, nextId) /\ nextId \in Nat /\ FolderOwn(repo)
      /\ GoodCommand(cmd[c], nextId)
    BY ConfigParts
<1>2. cmd[c].mine \in Seq(Entries) /\ ListedOnce(cmd[c].mine, nextId)
    BY <1>1 DEF GoodCommand, ConfigCommands
<1>3. conf' \in Seq(Entries) /\ ListedOnce(conf', nextId') /\ FolderOwn(repo') /\ nextId <= nextId' /\ nextId' \in Nat
    BY <1>1, <1>2, ListedNone
<1>4. cmd' = [cmd EXCEPT ![c] = [cmd[c] EXCEPT !.at = a]]
    BY CommandFacts DEF Then
<1>5. GoodCommand([cmd[c] EXCEPT !.at = a], nextId')
    BY CommandFacts
<1> QED
    BY <1>3, <1>4, <1>5, ConfigStep

\* The command is over.
LEMMA DoneKeeps ==
    ASSUME ConfigInv, NEW c \in Clients, Done(c),
           UNCHANGED nextId, conf' = conf \/ conf' = Default \/ conf' = cmd[c].mine,
           repo' = repo \/ FolderOwn(repo')
    PROVE  ConfigInv'
<1>1. /\ conf \in Seq(Entries) /\ ListedOnce(conf, nextId) /\ nextId \in Nat /\ FolderOwn(repo)
      /\ GoodCommand(cmd[c], nextId)
    BY ConfigParts
<1>2. cmd[c].mine \in Seq(Entries) /\ ListedOnce(cmd[c].mine, nextId)
    BY <1>1 DEF GoodCommand, ConfigCommands
<1>3. conf' \in Seq(Entries) /\ ListedOnce(conf', nextId') /\ FolderOwn(repo') /\ nextId <= nextId' /\ nextId' \in Nat
    BY <1>1, <1>2, ListedNone
<1>4. cmd' = [cmd EXCEPT ![c] = NoCommand]
    BY DEF Done
<1>5. GoodCommand(NoCommand, nextId')
    BY CommandFacts
<1> QED
    BY <1>3, <1>4, <1>5, ConfigStep

\* The command goes on without its copy.
LEMMA LeavesKeeps ==
    ASSUME ConfigInv, NEW c \in Clients, NEW a \in ConfigStages, NEW op \in ConfigOps, Leaves(c, op, a),
           cmd[c].op \in {"clone", "create", "register"},
           UNCHANGED <<conf, nextId>>, repo' = repo \/ FolderOwn(repo')
    PROVE  ConfigInv'
<1> DEFINE r == [cmd[c] EXCEPT !.op = op, !.at = a, !.mine = Default]
<1>1. cmd' = [cmd EXCEPT ![c] = r]
    BY CommandFacts DEF Leaves
<1>2. GoodCommand(r, nextId)
    BY CommandFacts
<1> HIDE DEF r
<1> QED
    BY <1>1, <1>2, CommandStep

\* A list of its own is saved.
LEMMA SavingKeeps ==
    ASSUME ConfigInv, NEW c \in Clients, NEW es \in Seq(Entries), Saving(c, es),
           ListedOnce(es, nextId'), nextId' \in Nat, nextId <= nextId', UNCHANGED <<conf, repo>>
    PROVE  ConfigInv'
<1> DEFINE r == [NoCommand EXCEPT !.op = "saving", !.at = "save", !.mine = es]
<1>1. conf \in Seq(Entries) /\ ListedOnce(conf, nextId) /\ nextId \in Nat /\ FolderOwn(repo)
    BY ConfigParts
<1>2. conf' \in Seq(Entries) /\ ListedOnce(conf', nextId') /\ FolderOwn(repo')
    BY <1>1, ListedLater
<1>3. GoodCommand(r, nextId')
    BY SavingFacts
<1>4. cmd' = [cmd EXCEPT ![c] = r]
    BY DEF Saving
<1> HIDE DEF r
<1> QED
    BY <1>2, <1>3, <1>4, ConfigStep

\* What is rediscovered: new ids, and folders that no kept entry has.
LEMMA RediscoveredListed ==
    ASSUME nextId \in Nat, FolderOwn(repo), NEW es, NEW fs \in Orders(Unlisted(es))
    PROVE  /\ Rediscovered(fs) \in Seq(Entries) /\ nextId + Len(Rediscovered(fs)) \in Nat
           /\ ListedOnce(Rediscovered(fs), nextId + Len(Rediscovered(fs)))
           /\ \A j \in 1..Len(Rediscovered(fs)) : nextId <= Rediscovered(fs)[j].id
           /\ \A i \in 1..Len(es), j \in 1..Len(Rediscovered(fs)) : es[i].dir # Rediscovered(fs)[j].dir
<1> DEFINE S == Unlisted(es)
           k == Cardinality(S)
           t == Rediscovered(fs)
<1>1. k \in Nat
  <2>1. IsFiniteSet(S)
      BY ConfigAssumption, FS_Subset DEF Unlisted
  <2> QED
      BY <2>1, FS_CardinalityType
<1>2. fs \in [1..k -> S] /\ DOMAIN fs = 1..k /\ \A i, j \in 1..k : i # j => fs[i] # fs[j]
    BY DEF Orders
<1>3. ASSUME NEW f \in S
      PROVE  /\ f \in Folders /\ repo[f] \in Urls /\ FolderOf[repo[f]] = f
             /\ \A i \in 1..Len(es) : es[i].dir # f
    BY DEF Unlisted, FolderOwn
<1>4. t = [i \in 1..k |-> [id |-> nextId + i - 1, url |-> repo[fs[i]], dir |-> fs[i]]]
    BY <1>2 DEF Rediscovered
<1> HIDE DEF S, k, t
<1>5. ASSUME NEW i \in 1..k
      PROVE  /\ t[i].id = nextId + i - 1 /\ t[i].id \in Nat /\ nextId <= t[i].id /\ t[i].id < nextId + k
             /\ t[i].url = repo[fs[i]] /\ t[i].dir = fs[i] /\ t[i] \in Entries
             /\ t[i].dir = FolderOf[t[i].url]
             /\ \A j \in 1..Len(es) : es[j].dir # t[i].dir
  <2>1. t[i] = [id |-> nextId + i - 1, url |-> repo[fs[i]], dir |-> fs[i]]
      BY <1>4
  <2>2. fs[i] \in S
      BY <1>2
  <2>3. nextId + i - 1 \in Nat /\ nextId <= nextId + i - 1 /\ nextId + i - 1 < nextId + k
      BY <1>1
  <2>4. fs[i] \in Folders /\ repo[fs[i]] \in Urls /\ FolderOf[repo[fs[i]]] = fs[i]
      BY <1>3, <2>2
  <2>5. t[i] \in Entries
      BY <2>1, <2>3, <2>4 DEF Entries
  <2>6. t[i].id = nextId + i - 1 /\ t[i].url = repo[fs[i]] /\ t[i].dir = fs[i]
      BY <2>1
  <2> QED
      BY <1>3, <2>2, <2>3, <2>4, <2>5, <2>6
<1>6. t \in Seq(Entries) /\ Len(t) = k
  <2>1. t \in [1..k -> Entries] /\ DOMAIN t = 1..k
      BY <1>4, <1>5
  <2>2. t \in Seq(Entries)
      BY <1>1, <2>1
  <2> QED
      BY <1>1, <2>1, <2>2, LenProperties
<1>7. ASSUME NEW i \in 1..k, NEW j \in 1..k, i # j PROVE t[i].dir # t[j].dir /\ t[i].id # t[j].id
  <2>1. t[i].dir # t[j].dir
      BY <1>2, <1>5, <1>7
  <2>2. nextId + i - 1 # nextId + j - 1
      BY <1>7
  <2> QED
      BY <1>5, <2>1, <2>2
<1>8. ListedOnce(t, nextId + k) /\ nextId + k \in Nat
    BY <1>1, <1>5, <1>6, <1>7 DEF ListedOnce
<1>9. /\ t \in Seq(Entries) /\ nextId + Len(t) \in Nat /\ ListedOnce(t, nextId + Len(t))
      /\ \A j \in 1..Len(t) : nextId <= t[j].id
      /\ \A i \in 1..Len(es), j \in 1..Len(t) : es[i].dir # t[j].dir
    BY <1>5, <1>6, <1>8
<1> QED
    BY <1>9 DEF t

\* The kept entries keep their ids and folders; the others have new ones.
LEMMA ReconcileKeeps == ASSUME ConfigInv, NEW c \in Clients, Reconcile(c) PROVE ConfigInv'
<1>1. /\ conf \in Seq(Entries) /\ ListedOnce(conf, nextId) /\ nextId \in Nat /\ FolderOwn(repo)
      /\ cmd[c] \in ConfigCommands /\ GoodCommand(cmd[c], nextId)
    BY ConfigParts
<1>2. cmd[c].mine \in Seq(Entries) /\ ListedOnce(cmd[c].mine, nextId)
    BY <1>1 DEF GoodCommand, ConfigCommands
<1>3. PICK at \in Ascending(KeptAt(cmd[c].mine)) :
        LET kept == Picked(cmd[c].mine, at) IN
        \E fs \in Orders(Unlisted(kept)) :
          LET found == Rediscovered(fs) IN
          /\ nextId' = nextId + Len(found)
          /\ \/ Edited(c, kept \o found, "first save")
             \/ kept \o found = cmd[c].mine /\ Then(c, "go")
    BY DEF Reconcile
<1> DEFINE kept == Picked(cmd[c].mine, at)
<1>4. PICK fs \in Orders(Unlisted(kept)) :
        LET found == Rediscovered(fs) IN
        /\ nextId' = nextId + Len(found)
        /\ \/ Edited(c, kept \o found, "first save")
           \/ kept \o found = cmd[c].mine /\ Then(c, "go")
    BY <1>3
<1> DEFINE found == Rediscovered(fs)
<1>5. kept \in Seq(Entries) /\ ListedOnce(kept, nextId)
  <2>1. at \in Orders(KeptAt(cmd[c].mine)) /\ KeptAt(cmd[c].mine) \subseteq 1..Len(cmd[c].mine)
      BY DEF Ascending, KeptAt
  <2> QED
      BY <1>1, <1>2, <2>1, ListedPicked
<1>6. /\ found \in Seq(Entries) /\ nextId + Len(found) \in Nat /\ ListedOnce(found, nextId + Len(found))
      /\ \A j \in 1..Len(found) : nextId <= found[j].id
      /\ \A i \in 1..Len(kept), j \in 1..Len(found) : kept[i].dir # found[j].dir
    BY <1>1, RediscoveredListed
<1>7. /\ nextId' = nextId + Len(found)
      /\ \/ Edited(c, kept \o found, "first save")
         \/ kept \o found = cmd[c].mine /\ Then(c, "go")
    BY <1>4
<1> HIDE DEF kept, found
<1>8. nextId' \in Nat /\ nextId <= nextId'
  <2>1. found \in Seq(Entries)
      BY <1>6
  <2>2. Len(found) \in Nat
      BY <2>1, LenProperties
  <2>3. nextId' = nextId + Len(found) /\ nextId \in Nat
      BY <1>1, <1>7
  <2> QED
      BY <2>2, <2>3
<1>9. kept \o found \in Seq(Entries) /\ ListedOnce(kept \o found, nextId')
    BY <1>1, <1>5, <1>6, <1>7, <1>8, ListedJoined
<1>10. conf' = conf /\ repo' = repo
    BY DEF Reconcile
<1>11. conf' \in Seq(Entries) /\ ListedOnce(conf', nextId') /\ FolderOwn(repo')
    BY <1>1, <1>8, <1>10, ListedLater
<1>12. CASE Edited(c, kept \o found, "first save")
  <2> DEFINE r == [cmd[c] EXCEPT !.at = "first save", !.mine = kept \o found]
  <2>1. cmd' = [cmd EXCEPT ![c] = r]
      BY <1>12, CommandFacts DEF Edited
  <2>2. "first save" \in ConfigStages
      BY DEF ConfigStages
  <2>3. GoodCommand(r, nextId')
      BY <1>1, <1>8, <1>9, <2>2, EditedFacts
  <2> HIDE DEF r
  <2> QED
      BY <1>8, <1>11, <2>1, <2>3, ConfigStep
<1>13. CASE kept \o found = cmd[c].mine /\ Then(c, "go")
  <2> DEFINE r == [cmd[c] EXCEPT !.at = "go"]
  <2>1. cmd' = [cmd EXCEPT ![c] = r]
      BY <1>13, CommandFacts DEF Then
  <2>2. "go" \in ConfigStages
      BY DEF ConfigStages
  <2>3. r \in ConfigCommands /\ r.mine = cmd[c].mine /\ r.op = cmd[c].op /\ r.url = cmd[c].url
      BY <1>1, <2>2 DEF ConfigCommands
  <2>4. GoodCommand(r, nextId')
      BY <1>1, <1>9, <1>13, <2>3 DEF GoodCommand
  <2> HIDE DEF r
  <2> QED
      BY <1>8, <1>11, <2>1, <2>4, ConfigStep
<1> QED
    BY <1>7, <1>12, <1>13

\* An entry that no listed one matches, with a new id.
LEMMA RegisterKeeps == ASSUME ConfigInv, NEW c \in Clients, Register(c) PROVE ConfigInv'
<1> DEFINE es == cmd[c].mine
           e == Entry(cmd[c].url, nextId)
           ts == <<e>>
<1>1. nextId \in Nat /\ cmd[c] \in ConfigCommands /\ GoodCommand(cmd[c], nextId)
    BY ConfigParts
<1>2. es \in Seq(Entries) /\ ListedOnce(es, nextId)
    BY <1>1 DEF GoodCommand, ConfigCommands
<1>3. cmd[c].url \in Urls
    BY <1>1 DEF Register, Doing, GoodCommand
<1>4. e \in Entries /\ e.id = nextId /\ e.dir = FolderOf[cmd[c].url] /\ e.url = cmd[c].url
    BY <1>1, <1>3, ConfigAssumption DEF Entry, Entries
<1>5. \A i \in 1..Len(es) : es[i].dir # e.dir
    BY <1>4 DEF Register, Matches, SameProject
<1>6. Saving(c, Append(es, e)) /\ nextId' = nextId + 1 /\ UNCHANGED <<conf, repo>>
    BY DEF Register
<1> HIDE DEF es, e
<1>7. ts \in Seq(Entries) /\ Len(ts) = 1 /\ ts[1] = e
    BY <1>4
<1>8. ListedOnce(ts, nextId + 1)
    BY <1>1, <1>4, <1>7 DEF ListedOnce
<1>9. Append(es, e) = es \o ts
    BY <1>2, <1>4
<1>10. \A j \in 1..Len(ts) : nextId <= ts[j].id
    BY <1>1, <1>4, <1>7
<1>11. \A i \in 1..Len(es), j \in 1..Len(ts) : es[i].dir # ts[j].dir
    BY <1>5, <1>7
<1> HIDE DEF ts
<1>12. es \o ts \in Seq(Entries) /\ ListedOnce(es \o ts, nextId + 1)
    BY <1>1, <1>2, <1>7, <1>8, <1>10, <1>11, ListedJoined
<1>13. nextId' \in Nat /\ nextId <= nextId'
    BY <1>1, <1>6
<1> QED
    BY <1>6, <1>9, <1>12, <1>13, SavingKeeps

\* The other entries, in their order.
LEMMA RemoveEntryKeeps == ASSUME ConfigInv, NEW c \in Clients, RemoveEntry(c) PROVE ConfigInv'
<1> DEFINE es == cmd[c].mine
<1>1. nextId \in Nat /\ cmd[c] \in ConfigCommands /\ GoodCommand(cmd[c], nextId)
    BY ConfigParts
<1>2. es \in Seq(Entries) /\ ListedOnce(es, nextId)
    BY <1>1 DEF GoodCommand, ConfigCommands
<1>3. PICK i \in 1..Len(es) :
        \E at \in Ascending((1..Len(es)) \ {i}) :
          cmd' = [cmd EXCEPT ![c].at = "first save", ![c].dir = es[i].dir, ![c].mine = Picked(es, at)]
    BY <1>1, CommandFacts DEF RemoveEntry
<1>4. PICK at \in Ascending((1..Len(es)) \ {i}) :
          cmd' = [cmd EXCEPT ![c].at = "first save", ![c].dir = es[i].dir, ![c].mine = Picked(es, at)]
    BY <1>3
<1> DEFINE new == Picked(es, at)
           r == [cmd[c] EXCEPT !.at = "first save", !.dir = es[i].dir, !.mine = new]
<1>5. cmd' = [cmd EXCEPT ![c] = r]
    BY <1>4, CommandFacts
<1>6. new \in Seq(Entries) /\ ListedOnce(new, nextId)
  <2>1. at \in Orders((1..Len(es)) \ {i}) /\ (1..Len(es)) \ {i} \subseteq 1..Len(es)
      BY DEF Ascending
  <2> QED
      BY <1>1, <1>2, <2>1, ListedPicked
<1>7. es[i].dir \in Folders
    BY <1>2, EntryAt
<1> HIDE DEF new, es
<1>8. r \in ConfigCommands
    BY <1>1, <1>6, <1>7 DEF ConfigCommands, ConfigStages
<1>9. r.mine = new /\ r.op = cmd[c].op /\ r.url = cmd[c].url
    BY <1>1 DEF ConfigCommands
<1>10. GoodCommand(r, nextId)
    BY <1>1, <1>6, <1>8, <1>9 DEF GoodCommand
<1> HIDE DEF r
<1> QED
    BY <1>5, <1>10, CommandStep DEF RemoveEntry

\* The file is truncated, or is what the command saves, or does not parse.
LEMMA SaveKeeps == ASSUME ConfigInv, NEW c \in Clients, SaveTruncates(c) \/ SaveWrites(c) PROVE ConfigInv'
<1>1. {"write", "first write", "go"} \subseteq ConfigStages
    BY DEF ConfigStages
<1>2. CASE SaveTruncates(c)
  <2>1. conf' = Default /\ UNCHANGED <<repo, nextId>> /\ (Then(c, "write") \/ Then(c, "first write"))
      BY <1>2 DEF SaveTruncates
  <2> QED
      BY <1>1, <2>1, ThenKeeps
<1>3. CASE SaveWrites(c)
  <2>1. /\ conf' = cmd[c].mine \/ conf' = Default
        /\ UNCHANGED <<repo, nextId>> /\ (Done(c) \/ Then(c, "go"))
      BY <1>3 DEF SaveWrites
  <2> QED
      BY <1>1, <2>1, ThenKeeps, DoneKeeps
<1> QED
    BY <1>2, <1>3

\* The application's end takes every copy with it.
LEMMA AppEndsKeeps == ASSUME ConfigInv, AppEnds PROVE ConfigInv'
<1>1. conf \in Seq(Entries) /\ ListedOnce(conf, nextId) /\ nextId \in Nat /\ FolderOwn(repo)
    BY ConfigParts
<1>2. \A c \in Clients : GoodCommand(NoCommand, nextId)
    BY CommandFacts
<1>3. cmd' = [c \in Clients |-> NoCommand] /\ UNCHANGED <<conf, repo, nextId>>
    BY DEF AppEnds
<1>4. cmd' \in [Clients -> ConfigCommands] /\ \A c \in Clients : GoodCommand(cmd'[c], nextId')
    BY <1>2, <1>3 DEF GoodCommand
<1> QED
    BY <1>1, <1>3, <1>4 DEF ConfigInv, ConfigTypes, OwnFolder, CopiesListed, FolderOwn, GoodCommand

\* Commands that find nothing to do, clones, and the removal of a directory.
LEMMA FoldersKeep ==
    ASSUME ConfigInv, NEW c \in Clients,
           \/ NothingToDo(c) \/ CloneStarts(c) \/ CloneCreates(c) \/ CloneEnds(c) \/ CloneFails(c)
           \/ RemoveFolder(c)
           \/ \E ok \in BOOLEAN : CreateSource(c, ok)
    PROVE  ConfigInv'
<1>1. FolderOwn(repo) /\ GoodCommand(cmd[c], nextId)
    BY ConfigParts
<1>2. /\ {"clone", "fetch", "load"} \subseteq ConfigStages
      /\ {"clone", "register"} \subseteq ConfigOps
    BY DEF ConfigStages, ConfigOps
<1>3. CASE NothingToDo(c)
    BY <1>3, DoneKeeps DEF NothingToDo
<1>4. CASE CloneStarts(c)
    BY <1>2, <1>4, LeavesKeeps DEF CloneStarts, Doing
<1>5. CASE CloneCreates(c)
  <2>1. cmd[c].url \in Urls
      BY <1>1, <1>5 DEF CloneCreates, Doing, GoodCommand
  <2>2. FolderOwn(repo')
      BY <1>1, <1>5, <2>1, FolderFacts DEF CloneCreates
  <2> QED
      BY <1>2, <1>5, <2>2, ThenKeeps DEF CloneCreates
<1>6. CASE CloneEnds(c)
    BY <1>2, <1>6, LeavesKeeps DEF CloneEnds, Doing
<1>7. CASE CloneFails(c)
  <2>1. cmd[c].url \in Urls
      BY <1>1, <1>7 DEF CloneFails, GoodCommand
  <2>2. FolderOf[cmd[c].url] \in Folders
      BY <2>1, ConfigAssumption
  <2>3. FolderOwn(repo')
      BY <1>1, <1>7, <2>2, FolderFacts DEF CloneFails
  <2> QED
      BY <1>7, <2>3, DoneKeeps DEF CloneFails
<1>8. CASE RemoveFolder(c)
  <2>1. FolderOwn(repo')
      BY <1>1, <1>8, FolderFacts DEF RemoveFolder
  <2> QED
      BY <1>8, <2>1, DoneKeeps DEF RemoveFolder
<1>9. ASSUME NEW ok \in BOOLEAN, CreateSource(c, ok) PROVE ConfigInv'
  <2>1. cmd[c].url \in Urls /\ cmd[c].op = "create"
      BY <1>1, <1>9 DEF CreateSource, Doing, GoodCommand
  <2>2. FolderOwn(repo') /\ UNCHANGED <<conf, nextId>>
      BY <1>1, <1>9, <2>1, FolderFacts DEF CreateSource
  <2>3. Leaves(c, "register", "load") \/ Done(c)
      BY <1>9 DEF CreateSource
  <2> QED
      BY <1>2, <2>1, <2>2, <2>3, LeavesKeeps, DoneKeeps
<1> QED
    BY <1>3, <1>4, <1>5, <1>6, <1>7, <1>8, <1>9

\* The repository that is there has a URL.
LEMMA RecoverKeeps == ASSUME ConfigInv, NEW c \in Clients, RecoverExisting(c) PROVE ConfigInv'
<1> DEFINE u == repo[FolderOf[cmd[c].url]]
           r == [cmd[c] EXCEPT !.op = "register", !.at = "load", !.mine = Default, !.url = u]
<1>1. FolderOwn(repo) /\ cmd[c] \in ConfigCommands /\ GoodCommand(cmd[c], nextId) /\ nextId \in Nat
    BY ConfigParts
<1>2. cmd[c].url \in Urls /\ FolderOf[cmd[c].url] \in Folders
    BY <1>1, ConfigAssumption DEF RecoverExisting, GoodCommand
<1>3. u \in Urls
    BY <1>1, <1>2 DEF RecoverExisting, FolderOwn
<1>4. cmd' = [cmd EXCEPT ![c] = r] /\ UNCHANGED <<conf, repo, nextId>>
    BY CommandFacts DEF RecoverExisting
<1> HIDE DEF u
<1>5. Default \in Seq(Entries) /\ ListedOnce(Default, nextId)
    BY <1>1, ListedNone
<1>6. r \in ConfigCommands /\ r.mine = Default /\ r.url = u
    BY <1>1, <1>3, <1>5 DEF ConfigCommands, ConfigOps, ConfigStages
<1>7. GoodCommand(r, nextId)
    BY <1>3, <1>5, <1>6 DEF GoodCommand
<1> HIDE DEF r
<1> QED
    BY <1>4, <1>7, CommandStep

\* The copy as it was loaded, or in another order.
LEMMA EditsKeep ==
    ASSUME ConfigInv, NEW c \in Clients,
           EditEntry(c) \/ Reorder(c) \/ SetCategory(c) \/ DeleteCategory(c) \/ SavePreferences(c)
    PROVE  ConfigInv'
<1>1. nextId \in Nat /\ cmd[c] \in ConfigCommands /\ GoodCommand(cmd[c], nextId)
    BY ConfigParts
<1>2. cmd[c].mine \in Seq(Entries) /\ ListedOnce(cmd[c].mine, nextId)
    BY <1>1 DEF GoodCommand, ConfigCommands
<1>3. UNCHANGED <<conf, repo, nextId>> /\ nextId <= nextId
    BY <1>1 DEF EditEntry, Reorder, SetCategory, DeleteCategory, SavePreferences
<1>4. CASE Saving(c, cmd[c].mine)
    BY <1>1, <1>2, <1>3, <1>4, SavingKeeps
<1>5. CASE Reorder(c)
  <2>1. PICK at \in Orders(1..Len(cmd[c].mine)) : Saving(c, Picked(cmd[c].mine, at))
      BY <1>5 DEF Reorder
  <2>2. Picked(cmd[c].mine, at) \in Seq(Entries) /\ ListedOnce(Picked(cmd[c].mine, at), nextId)
      BY <1>1, <1>2, ListedPicked
  <2> QED
      BY <1>1, <1>3, <2>1, <2>2, SavingKeeps
<1> QED
    BY <1>4, <1>5 DEF EditEntry, SetCategory, DeleteCategory, SavePreferences

\* Every step of every command keeps the file and all copies of it free of double entries.
LEMMA StepKeepsConfigInv == ASSUME ConfigInv, [ConfigNext]_configVars PROVE ConfigInv'
<1>1. ASSUME NEW c \in Clients, NEW u \in Urls, NEW op \in {"clone", "create"}, Command(c, op, u, 0)
      PROVE  ConfigInv'
  <2>1. op \in ConfigOps /\ u \in Urls \cup {"none"} /\ 0 \in Nat
      BY DEF ConfigOps
  <2> QED
      BY <1>1, <2>1, CommandKeeps
<1>2. ASSUME NEW c \in Clients, NEW i \in 1..(nextId - 1), NEW op \in {"edit", "remove", "setcat"},
             Command(c, op, "none", i)
      PROVE  ConfigInv'
  <2>1. op \in ConfigOps /\ "none" \in Urls \cup {"none"} /\ i \in Nat /\ op \notin {"clone", "create", "register"}
      BY DEF ConfigOps
  <2> QED
      BY <1>2, <2>1, CommandKeeps
<1>3. ASSUME NEW c \in Clients, NEW op \in {"list", "reorder", "prefs", "delcat"}, Command(c, op, "none", 0)
      PROVE  ConfigInv'
  <2>1. op \in ConfigOps /\ "none" \in Urls \cup {"none"} /\ 0 \in Nat /\ op \notin {"clone", "create", "register"}
      BY DEF ConfigOps
  <2> QED
      BY <1>3, <2>1, CommandKeeps
<1>4. CASE UNCHANGED configVars
    BY <1>4 DEF configVars, ConfigInv, ConfigTypes, OwnFolder, CopiesListed
<1> QED
    BY <1>1, <1>2, <1>3, <1>4, LoadKeeps, ReconcileKeeps, SaveKeeps, AppEndsKeeps, FoldersKeep, RecoverKeeps,
       RegisterKeeps, RemoveEntryKeeps, EditsKeep DEF ConfigNext

\* OneEntryPerSource: however commands overlap, and whatever half-written file they load,
\* no directory and no id is listed twice.
THEOREM OneEntryPerSourceTheorem == ConfigSpec => []OneEntryPerSource
<1>1. ConfigInv => OneEntryPerSource
    BY DEF ConfigInv, CopiesListed, ListedOnce, OneEntryPerSource
<1> QED
    BY <1>1, InitConfigInv, StepKeepsConfigInv, PTL DEF ConfigSpec

=============================================================================
